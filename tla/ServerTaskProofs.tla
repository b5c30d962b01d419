-------------------------- MODULE ServerTaskProofs --------------------------
(***************************************************************************)
(* Proofs about one provider slot, for any number of documents, requests   *)
(* and incarnations, any limits and any allowance of the environment.      *)
(***************************************************************************)
EXTENDS ServerTask, TLAPS

-----------------------------------------------------------------------------
(* The restart budget *)

\* A row of failures is never longer than the log that is held against it.
StormInv ==
    /\ budget \in [Tokens -> Budgets]
    /\ storm \in [Tokens -> [arrivals : Nat, silences : Nat]]
    /\ \A t \in Tokens :
          /\ storm[t].arrivals <= budget[t].failures
          /\ storm[t].silences <= budget[t].hangs
          /\ storm[t].arrivals < RestartLimit
          /\ storm[t].silences < HangLimit

\* A lost connection of t was charged, as a hang or not.
CountedFor(t, hung) ==
    \E stable \in BOOLEAN : \E charge \in Charged(budget[t], hung, stable) :
        Counted(t, hung, stable, charge)

\* What a charge leaves, by the cause of the loss.
LEMMA ChargeCases ==
    ASSUME NEW b \in Budgets, NEW hung \in BOOLEAN, NEW stable \in BOOLEAN,
           NEW charge \in Charged(b, hung, stable)
    PROVE  /\ charge.budget \in Budgets
           /\ hung => /\ charge.budget.failures = b.failures
                      /\ \/ charge.state = "CircuitOpen"
                         \/ /\ charge.budget.hangs <= b.hangs + 1
                            /\ charge.budget.hangs < HangLimit
           /\ ~hung /\ ~stable =>
                /\ charge.budget.failures <= b.failures + 1
                /\ \/ charge.state = "CircuitOpen"
                   \/ charge.budget.failures < RestartLimit
<1> USE LimitsArePositive DEF Budgets
<1>1. CASE hung
  <2>1. PICK h \in Expired(b.hangs) :
          charge = [budget |-> [b EXCEPT !.hangs = IF h + 1 >= HangLimit THEN 0
                                                   ELSE h + 1],
                    state |-> Verdict(h + 1, HangLimit)]
    BY <1>1 DEF Charged
  <2>2. h \in Nat /\ h <= b.hangs
    BY <2>1 DEF Expired
  <2>3. charge.budget = [b EXCEPT !.hangs = IF h + 1 >= HangLimit THEN 0 ELSE h + 1]
    BY <2>1
  <2>4. charge.state = "CircuitOpen" \/ h + 1 < HangLimit
    BY <2>1, <2>2 DEF Verdict
  <2> QED BY <1>1, <2>2, <2>3, <2>4
<1>2. CASE ~hung /\ stable
  <2>1. charge.budget = FullBudget
    BY <1>2 DEF Charged
  <2> QED BY <1>2, <2>1 DEF FullBudget
<1>3. CASE ~hung /\ ~stable
  <2>1. PICK f \in Expired(b.failures) :
          charge = [budget |-> [failures |-> f + 1, hangs |-> 0],
                    state |-> Verdict(f + 1, RestartLimit)]
    BY <1>3 DEF Charged
  <2>2. f \in Nat /\ f <= b.failures
    BY <2>1 DEF Expired
  <2>3. charge.budget = [failures |-> f + 1, hangs |-> 0]
    BY <2>1
  <2>4. charge.state = "CircuitOpen" \/ f + 1 < RestartLimit
    BY <2>1, <2>2 DEF Verdict
  <2> QED BY <1>3, <2>2, <2>3, <2>4
<1> QED BY <1>1, <1>2, <1>3

\* The loss of a connection keeps the bound of the row it may lengthen.
LEMMA ChargeKeepsStorm ==
    ASSUME StormInv, NEW t \in Tokens, NEW hung \in BOOLEAN, CountedFor(t, hung)
    PROVE  StormInv'
<1> USE LimitsArePositive DEF Budgets
<1>1. PICK stable \in BOOLEAN : \E charge \in Charged(budget[t], hung, stable) :
        Counted(t, hung, stable, charge)
  BY DEF CountedFor
<1>2. PICK charge \in Charged(budget[t], hung, stable) :
        Counted(t, hung, stable, charge)
  BY <1>1
<1>3. budget[t] \in Budgets
  BY DEF StormInv
<1>4. /\ charge.budget \in Budgets
      /\ hung => /\ charge.budget.failures = budget[t].failures
                 /\ \/ charge.state = "CircuitOpen"
                    \/ /\ charge.budget.hangs <= budget[t].hangs + 1
                       /\ charge.budget.hangs < HangLimit
      /\ ~hung /\ ~stable =>
           /\ charge.budget.failures <= budget[t].failures + 1
           /\ \/ charge.state = "CircuitOpen"
              \/ charge.budget.failures < RestartLimit
  BY <1>2, <1>3, ChargeCases
<1>5. CASE hung
  BY <1>2, <1>3, <1>4, <1>5 DEF StormInv, Counted, StormAfter
<1>6. CASE ~hung
  BY <1>2, <1>3, <1>4, <1>6 DEF StormInv, Counted, StormAfter
<1> QED BY <1>5, <1>6

\* A launch shortens a log before it may add to it.
LEMMA LaunchKeepsStorm ==
    ASSUME StormInv, NEW t \in Tokens, Launch(t)
    PROVE  StormInv'
<1> USE LimitsArePositive DEF Budgets
<1>1. ASSUME NEW f \in FailuresAtLaunch(t)
      PROVE  f \in Nat /\ f <= budget[t].failures
  BY DEF FailuresAtLaunch, Expired, StormInv
<1>2. CASE Connect(t)
  <2>1. PICK f \in FailuresAtLaunch(t) :
          /\ budget' = [budget EXCEPT ![t] = BudgetOnConnect(t, f)]
          /\ StormAtLaunch(t, f, "Running", 0)
    BY <1>2 DEF Connect
  <2> QED BY <1>1, <2>1 DEF BudgetOnConnect, StormAtLaunch, StormInv
<1>3. CASE ReplayFails(t)
  <2>1. PICK f \in FailuresAtLaunch(t) :
          /\ budget' = [budget EXCEPT ![t].failures = f + 1]
          /\ StormAtLaunch(t, f, "Retrying", 0)
    BY <1>3 DEF ReplayFails
  <2> QED BY <1>1, <2>1 DEF StormAtLaunch, StormInv
<1>4. CASE Unavailable(t)
  BY <1>4 DEF Unavailable, health, StormInv
<1>5. CASE LaunchFails(t)
  <2>1. PICK f \in FailuresAtLaunch(t) :
          /\ budget' = [budget EXCEPT ![t].failures = f + 1]
          /\ StormAtLaunch(t, f, Verdict(f + 1, RestartLimit), 1)
    BY <1>5 DEF LaunchFails
  <2> QED BY <1>1, <2>1 DEF StormAtLaunch, StormInv, Verdict
<1> QED BY <1>2, <1>3, <1>4, <1>5 DEF Launch

\* What a step on a live connection does to the budget: nothing, or a loss.
LEMMA StepLosesOrNot ==
    ASSUME NEW t \in Tokens,
           Serve(t) \/ FinishHints(t) \/ Quiet(t) \/ Lost(t) \/ End(t)
    PROVE  UNCHANGED health \/ \E hung \in BOOLEAN : CountedFor(t, hung)
<1> USE DEF CountedFor, Lose, Go
<1>1. CASE TakeChange(t)
  BY <1>1 DEF TakeChange
<1>2. CASE TakeNotice(t)
  BY <1>2 DEF TakeNotice
<1>3. CASE TakeHint(t)
  BY <1>3 DEF TakeHint
<1>4. CASE TakeRequest(t)
  BY <1>4 DEF TakeRequest, Condemned
<1>5. CASE TakeOffline(t)
  BY <1>5 DEF TakeOffline
<1>6. CASE Quiet(t)
  BY <1>6 DEF Quiet
<1>7. CASE FinishHints(t)
  BY <1>7 DEF FinishHints, FinishHint
<1>8. CASE Lost(t)
  BY <1>8 DEF Lost
<1>9. CASE End(t)
  BY <1>9 DEF End
<1> QED BY <1>1, <1>2, <1>3, <1>4, <1>5, <1>6, <1>7, <1>8, <1>9 DEF Serve

\* The session never touches a task's budget.
LEMMA SessionKeepsHealth ==
    ASSUME SessionStep PROVE UNCHANGED health
<1>1. ASSUME NEW d \in Docs,
             OpenDocument(d) \/ EditDocument(d) \/ SaveDocument(d) \/ CloseDocument(d)
      PROVE  UNCHANGED health
  BY <1>1 DEF OpenDocument, EditDocument, SaveDocument, CloseDocument
<1>2. ASSUME NEW d \in Docs, NEW op \in {"hint", "request"}, AskServer(d, op)
      PROVE  UNCHANGED health
  BY <1>2 DEF AskServer
<1>3. RestartServer \/ AdoptReport => UNCHANGED health
  BY DEF RestartServer, AdoptReport
<1> QED BY <1>1, <1>2, <1>3 DEF SessionStep

\* Every step keeps the rows within the log.
LEMMA RowsAreLogged == Spec => []StormInv
<1>1. Init => StormInv
  BY LimitsArePositive DEF Init, StormInv, Budgets, FullBudget, Calm
<1>2. StormInv /\ [Next]_vars => StormInv'
  <2> SUFFICES ASSUME StormInv, [Next]_vars PROVE StormInv'
    OBVIOUS
  <2>1. CASE SessionStep
    BY <2>1, SessionKeepsHealth DEF StormInv, health
  <2>2. ASSUME NEW t \in Tokens, RunTask(t) \/ Lost(t) PROVE StormInv'
    <3>1. CASE Launch(t)
      BY <3>1, LaunchKeepsStorm
    <3>2. CASE ~Launch(t)
      <4>1. UNCHANGED health \/ \E hung \in BOOLEAN : CountedFor(t, hung)
        BY <2>2, <3>2, StepLosesOrNot DEF RunTask
      <4> QED BY <4>1, ChargeKeepsStorm DEF StormInv, health
    <3> QED BY <3>1, <3>2
  <2>3. CASE UNCHANGED vars
    BY <2>3 DEF vars, health, StormInv
  <2> QED BY <2>1, <2>2, <2>3 DEF Next
<1> QED BY <1>1, <1>2, PTL DEF Spec

\* The circuit opens before a server dies RestartLimit times in a row on
\* arrival or falls silent HangLimit times in a row (health.rs).
THEOREM CircuitIsReached == Spec => []DeathsOpenTheCircuit
<1>1. StormInv => DeathsOpenTheCircuit
  BY DEF StormInv, DeathsOpenTheCircuit
<1> QED BY <1>1, RowsAreLogged, PTL

-----------------------------------------------------------------------------
(* Background requests *)

Unique(requests) == \A f, g \in requests : SameDocument(f, g) => f = g

WellFormed(fs) ==
    /\ fs = [deferred |-> fs.deferred, running |-> fs.running]
    /\ Unique(fs.deferred) /\ Unique(fs.running)

FlightsInv ==
    /\ flights = [t \in Tokens |-> flights[t]]
    /\ \A t \in Tokens : WellFormed(flights[t])

\* A launch adds none beside one that runs, and a newer request replaces the
\* deferred one of its document.
LEMMA LaunchIsWellFormed ==
    ASSUME NEW c, NEW fs, WellFormed(fs) PROVE WellFormed(Launched(c, fs))
<1>1. /\ Launched(c, fs).deferred = fs.deferred \ Ready(c, fs)
      /\ Launched(c, fs).running = fs.running \cup Ready(c, fs)
  BY DEF Launched
<1>2. Launched(c, fs) = [deferred |-> Launched(c, fs).deferred,
                         running |-> Launched(c, fs).running]
  BY DEF Launched
<1>3. Ready(c, fs) \subseteq fs.deferred
  BY DEF Ready
<1>4. ASSUME NEW f \in fs.running, NEW g \in Ready(c, fs)
      PROVE  ~SameDocument(f, g) /\ ~SameDocument(g, f)
  BY <1>4 DEF Ready, Waits, SameDocument
<1> QED BY <1>1, <1>2, <1>3, <1>4 DEF WellFormed, Unique

LEMMA DeferIsWellFormed ==
    ASSUME NEW fs, WellFormed(fs), NEW f PROVE WellFormed(Deferring(fs, f))
<1>1. /\ Deferring(fs, f).deferred = (fs.deferred \ Superseded(fs, f)) \cup {f}
      /\ Deferring(fs, f).running = fs.running
  BY DEF Deferring
<1>2. \A g \in fs.deferred \ Superseded(fs, f) : ~SameDocument(g, f) /\ ~SameDocument(f, g)
  BY DEF Superseded, SameDocument
<1> QED BY <1>1, <1>2 DEF WellFormed, Unique, Deferring

LEMMA FinishIsWellFormed ==
    ASSUME NEW fs, WellFormed(fs), NEW f
    PROVE  WellFormed([fs EXCEPT !.running = @ \ {f}])
BY DEF WellFormed, Unique

\* What a step does to the flights of its task: it drops or launches them.
LEMMA StepMovesFlights ==
    ASSUME FlightsInv, NEW t \in Tokens, RunTask(t) \/ Lost(t)
    PROVE  \/ UNCHANGED flights
           \/ flights' = [flights EXCEPT ![t] = NoFlights]
           \/ \E c, fs : /\ WellFormed(fs)
                         /\ flights' = [flights EXCEPT ![t] = Launched(c, fs)]
<1>0. WellFormed(flights[t])
  BY DEF FlightsInv
<1> USE DEF Lose, Go
<1>1. CASE TakeChange(t)
  BY <1>0, <1>1 DEF TakeChange
<1>2. CASE TakeNotice(t)
  BY <1>0, <1>2 DEF TakeNotice
<1>3. CASE TakeHint(t)
  BY <1>0, <1>3, DeferIsWellFormed DEF TakeHint
<1>4. CASE TakeRequest(t)
  BY <1>0, <1>4 DEF TakeRequest
<1>5. CASE TakeOffline(t)
  BY <1>5 DEF TakeOffline
<1>6. CASE Quiet(t)
  BY <1>0, <1>6 DEF Quiet
<1>7. CASE FinishHints(t)
  BY <1>0, <1>7, FinishIsWellFormed DEF FinishHints, FinishHint
<1>8. CASE Lost(t)
  BY <1>8 DEF Lost
<1>9. CASE End(t)
  BY <1>9 DEF End
<1>10. CASE Launch(t)
  BY <1>10 DEF Launch, Connect, ReplayFails, Unavailable, LaunchFails, Launching
<1> QED
  BY <1>1, <1>2, <1>3, <1>4, <1>5, <1>6, <1>7, <1>8, <1>9, <1>10
  DEF RunTask, Serve

LEMMA SessionKeepsFlights ==
    ASSUME SessionStep PROVE UNCHANGED flights
<1>1. ASSUME NEW d \in Docs,
             OpenDocument(d) \/ EditDocument(d) \/ SaveDocument(d) \/ CloseDocument(d)
      PROVE  UNCHANGED flights
  BY <1>1 DEF OpenDocument, EditDocument, SaveDocument, CloseDocument
<1>2. ASSUME NEW d \in Docs, NEW op \in {"hint", "request"}, AskServer(d, op)
      PROVE  UNCHANGED flights
  BY <1>2 DEF AskServer
<1>3. RestartServer \/ AdoptReport => UNCHANGED flights
  BY DEF RestartServer, AdoptReport
<1> QED BY <1>1, <1>2, <1>3 DEF SessionStep

\* No two background requests for one document run at a time, whatever is
\* deferred, superseded, finished or lost beside them (hint_flight.rs).
THEOREM RunningIsUnique == Spec => []OneRunningPerDocument
<1>1. Init => FlightsInv
  BY DEF Init, FlightsInv, WellFormed, Unique, NoFlights
<1>2. FlightsInv /\ [Next]_vars => FlightsInv'
  <2> SUFFICES ASSUME FlightsInv, [Next]_vars PROVE FlightsInv'
    OBVIOUS
  <2>1. CASE UNCHANGED flights
    BY <2>1 DEF FlightsInv, WellFormed, Unique
  <2>2. ASSUME NEW t \in Tokens, RunTask(t) \/ Lost(t), ~UNCHANGED flights
        PROVE FlightsInv'
    <3>1. PICK fs : WellFormed(fs) /\ flights' = [flights EXCEPT ![t] = fs]
      <4>1. CASE flights' = [flights EXCEPT ![t] = NoFlights]
        <5>1. WellFormed(NoFlights)
          BY DEF WellFormed, Unique, NoFlights
        <5> QED BY <4>1, <5>1
      <4>2. CASE \E c, fs : /\ WellFormed(fs)
                            /\ flights' = [flights EXCEPT ![t] = Launched(c, fs)]
        BY <4>2, LaunchIsWellFormed
      <4> QED BY <2>2, <4>1, <4>2, StepMovesFlights
    <3>2. \A u \in Tokens : flights'[u] = IF u = t THEN fs ELSE flights[u]
      BY <3>1 DEF FlightsInv
    <3>3. \A u \in Tokens : WellFormed(flights'[u])
      BY <3>1, <3>2 DEF FlightsInv
    <3> QED BY <3>1, <3>3 DEF FlightsInv, WellFormed, Unique
  <2> QED BY <2>1, <2>2, SessionKeepsFlights DEF Next, vars
<1>3. FlightsInv => OneRunningPerDocument
  BY DEF FlightsInv, WellFormed, Unique, OneRunningPerDocument
<1> QED BY <1>1, <1>2, <1>3, PTL DEF Spec

-----------------------------------------------------------------------------
(* Runtime reports *)

States == {"Starting", "Running", "Retrying", "CircuitOpen", "Unavailable"}
Reports == [token : Nat, state : States]

\* The newest report of t in q, if there is one, is `phase`; else `shown` is.
AgreesIn(q, t, shown, phase) ==
    /\ \A i \in 1..Len(q) :
          q[i].token = t /\ (\A j \in (i + 1)..Len(q) : q[j].token # t)
            => q[i].state = phase
    /\ (\A i \in 1..Len(q) : q[i].token # t) => shown = phase

Agrees(t, shown) == AgreesIn(updates, t, shown, task[t].phase)

HasPhase(c) == "phase" \in DOMAIN c

ReportsInv ==
    /\ nextToken \in Nat \ {0}
    /\ updates \in Seq(Reports)
    /\ \A i \in 1..Len(updates) : updates[i].token < nextToken
    /\ task = [t \in Tokens |-> task[t]]
    /\ \A t \in Tokens : HasPhase(task[t])
    /\ \A t \in Tokens : ~Born(t) => task[t].phase = "Starting"
    /\ slot # Nil => /\ slot.token \in Tokens /\ Born(slot.token)
                     /\ {"token", "runtime"} \subseteq DOMAIN slot
                     /\ Agrees(slot.token, slot.runtime)

\* The operators that build a task's next record leave its phase alone.
Alike(c, e) == DOMAIN e = DOMAIN c /\ (HasPhase(c) => e.phase = c.phase)

LEMMA RememberedKeepsPhase ==
    ASSUME NEW c, NEW cmd PROVE Alike(c, Remembered(c, cmd))
BY DEF Alike, HasPhase, Remembered

LEMMA FlushedKeepsPhase ==
    ASSUME NEW c, NEW sent PROVE Alike(c, Flushed(c, sent))
BY DEF Alike, HasPhase, Flushed

LEMMA ReceivedKeepsPhase ==
    ASSUME NEW c, NEW cmd, NEW sent PROVE Alike(c, Received(c, cmd, sent))
BY DEF Alike, HasPhase, Received

LEMMA TakenKeepsPhase ==
    ASSUME NEW t \in Tokens PROVE Alike(task[t], Taken(t))
<1>1. Alike(task[t], [task[t] EXCEPT !.queue = Tail(@)])
  BY DEF Alike, HasPhase
<1> QED BY <1>1, RememberedKeepsPhase DEF Taken, Alike, HasPhase

LEMMA FieldsKeepPhase ==
    ASSUME NEW c, NEW x
    PROVE  /\ Alike(c, [c EXCEPT !.pending = x])
           /\ Alike(c, [c EXCEPT !.tally = x])
           /\ Alike(c, [c EXCEPT !.tally.answered = x])
BY DEF Alike, HasPhase

LEMMA ConnectedHasPhase ==
    ASSUME NEW c, NEW copy, HasPhase(c)
    PROVE  LET e == [c EXCEPT !.phase = "Running", !.worked = TRUE,
                              !.server.copy = copy] IN
           HasPhase(e) /\ e.phase = "Running"
BY DEF HasPhase

LEMMA DownHasState ==
    ASSUME NEW c, NEW state, HasPhase(c)
    PROVE  HasPhase(Down(c, state)) /\ Down(c, state).phase = state
BY DEF HasPhase, Down

LEMMA ChargedStates ==
    ASSUME NEW b, NEW hung, NEW stable, NEW charge \in Charged(b, hung, stable)
    PROVE  charge.state \in States
BY DEF Charged, Verdict, States

\* What a step of t does: it keeps its phase and says nothing, says the phase it
\* goes to, or ends once the slot is not its own.
Told(t, c) ==
    /\ HasPhase(c)
    /\ task' = [task EXCEPT ![t] = c]
    /\ \/ c.phase = task[t].phase /\ UNCHANGED updates
       \/ /\ c.phase \in States
          /\ updates' = Append(updates, [token |-> t, state |-> c.phase])
       \/ /\ c.phase \in States
          /\ updates' = Append(Append(updates, [token |-> t, state |-> "Starting"]),
                               [token |-> t, state |-> c.phase])
       \/ ~Holds(t) /\ UNCHANGED updates

LEMMA LossIsTold ==
    ASSUME ReportsInv, NEW t \in Tokens, NEW c, HasPhase(c),
           \E stable \in BOOLEAN, hung \in BOOLEAN :
             \E charge \in Charged(budget[t], hung, stable) :
               /\ task' = [task EXCEPT ![t] = Down(c, charge.state)]
               /\ Reported(t, charge.state)
    PROVE  \E e : Told(t, e)
<1>1. PICK s \in States : /\ task' = [task EXCEPT ![t] = Down(c, s)]
                          /\ Reported(t, s)
  BY ChargedStates
<1>2. HasPhase(Down(c, s)) /\ Down(c, s).phase = s
  BY DownHasState
<1> QED BY <1>1, <1>2 DEF Told, Reported

LEMMA WorkIsTold ==
    ASSUME NEW t \in Tokens, NEW c, NEW fs, HasPhase(task[t]), Alike(task[t], c),
           Go(t, c, fs)
    PROVE  \E e : Told(t, e)
BY DEF Go, Told, Alike, HasPhase

LEMMA LaunchIsTold ==
    ASSUME NEW t \in Tokens, NEW state \in States, NEW c, HasPhase(c),
           c.phase = state, task' = [task EXCEPT ![t] = c], Launching(t, state)
    PROVE  UNCHANGED <<slot, nextToken>> /\ Born(t) /\ \E e : Told(t, e)
<1>1. Told(t, c)
  <2>1. CASE task[t].phase = "Starting"
    BY <2>1 DEF Launching, Told
  <2>2. CASE task[t].phase # "Starting"
    BY <2>2 DEF Launching, Told
  <2> QED BY <2>1, <2>2
<1> QED BY <1>1 DEF Launching, session

LEMMA StepIsTold ==
    ASSUME ReportsInv, NEW t \in Tokens, RunTask(t) \/ Lost(t)
    PROVE  /\ UNCHANGED <<slot, nextToken>> /\ Born(t)
           /\ \E c : Told(t, c)
<1>0. HasPhase(task[t]) /\ Alike(task[t], Taken(t)) /\ HasPhase(Taken(t))
  BY TakenKeepsPhase DEF ReportsInv, Alike, HasPhase
<1>a. ASSUME NEW flush
      PROVE  Alike(task[t], Flushed(Taken(t), flush)) /\ HasPhase(Flushed(Taken(t), flush))
  BY <1>0, FlushedKeepsPhase DEF Alike, HasPhase
<1>1. CASE TakeChange(t)
  <2>1. UNCHANGED session /\ Born(t) /\ Taking(t, {"change"}, {"Running"})
    BY <1>1 DEF TakeChange, Taking
  <2> DEFINE cmd == Head(task[t].queue)
             other == Taken(t).pending # Nil /\ Taken(t).pending.doc # cmd.doc
  <2>2. PICK flush \in Sends \cup {"ok"} :
          LET f == IF other THEN Flushed(Taken(t), flush) ELSE Taken(t) IN
          \/ Lose(t, f, FALSE, {})
          \/ Go(t, [f EXCEPT !.pending =
                      Coalesced(f.pending, cmd, KeepsDelta(task[t], cmd))], flights[t])
    BY <1>1 DEF TakeChange
  <2> DEFINE f == IF other THEN Flushed(Taken(t), flush) ELSE Taken(t)
  <2>3. Alike(task[t], f) /\ HasPhase(f)
    BY <1>0, <1>a
  <2>4. CASE Lose(t, f, FALSE, {})
    BY <2>1, <2>3, <2>4, LossIsTold DEF Lose, session
  <2>5. CASE Go(t, [f EXCEPT !.pending =
                      Coalesced(f.pending, cmd, KeepsDelta(task[t], cmd))], flights[t])
    <3>1. Alike(task[t], [f EXCEPT !.pending =
                            Coalesced(f.pending, cmd, KeepsDelta(task[t], cmd))])
      <4> HIDE DEF f
      <4> QED BY <2>3, FieldsKeepPhase DEF Alike, HasPhase
    <3> QED BY <1>0, <2>1, <2>5, <3>1, WorkIsTold DEF session
  <2> QED BY <2>2, <2>4, <2>5
<1>2. CASE TakeNotice(t)
  <2>1. UNCHANGED session /\ Born(t)
    BY <1>2 DEF TakeNotice, Taking
  <2> DEFINE cmd == Head(task[t].queue)
  <2>2. PICK flush \in FlushOutcomes(Taken(t)), sent \in Sends :
          LET f == Flushed(Taken(t), flush) IN
          \/ Lose(t, f, FALSE, {})
          \/ Go(t, [Received(f, cmd, sent) EXCEPT
                      !.tally = IF sent = "full" THEN Noted(@, "error") ELSE @], flights[t])
    BY <1>2 DEF TakeNotice
  <2> DEFINE f == Flushed(Taken(t), flush)
             e == Received(f, cmd, sent)
  <2>3. Alike(task[t], e) /\ HasPhase(e) /\ HasPhase(f)
    BY <1>0, <1>a, ReceivedKeepsPhase DEF Alike, HasPhase
  <2>4. CASE Lose(t, f, FALSE, {})
    BY <2>1, <2>3, <2>4, LossIsTold DEF Lose, session
  <2>5. CASE Go(t, [e EXCEPT !.tally = IF sent = "full" THEN Noted(@, "error") ELSE @],
                flights[t])
    <3>1. Alike(task[t],
                [e EXCEPT !.tally = IF sent = "full" THEN Noted(@, "error") ELSE @])
      <4> HIDE DEF e
      <4> QED BY <2>3, FieldsKeepPhase DEF Alike, HasPhase
    <3> QED BY <1>0, <2>1, <2>5, <3>1, WorkIsTold DEF session
  <2> QED BY <2>2, <2>4, <2>5
<1>3. CASE TakeHint(t)
  BY <1>0, <1>3 DEF TakeHint, Taking, Go, Told, Alike, session
<1>4. CASE TakeRequest(t)
  <2>1. UNCHANGED session /\ Born(t)
    BY <1>4 DEF TakeRequest, Taking
  <2>2. PICK flush \in FlushOutcomes(Taken(t)),
             outcome \in {"ok", "refused", "error", "timeout", "closed"} :
          LET f == Flushed(Taken(t), flush) IN
          \/ Lose(t, f, Condemned(f.tally, outcome), {Head(task[t].queue)})
          \/ Go(t, [f EXCEPT !.tally = Noted(@, outcome)], flights[t])
    BY <1>4 DEF TakeRequest
  <2> DEFINE f == Flushed(Taken(t), flush)
  <2>3. Alike(task[t], f) /\ HasPhase(f)
    BY <1>a
  <2>4. CASE Lose(t, f, Condemned(f.tally, outcome), {Head(task[t].queue)})
    <3>1. Condemned(f.tally, outcome) \in BOOLEAN
      BY DEF Condemned
    <3> QED BY <2>1, <2>3, <2>4, <3>1, LossIsTold DEF Lose, session
  <2>5. CASE Go(t, [f EXCEPT !.tally = Noted(@, outcome)], flights[t])
    <3>1. Alike(task[t], [f EXCEPT !.tally = Noted(@, outcome)])
      <4> HIDE DEF f
      <4> QED BY <2>3, FieldsKeepPhase DEF Alike, HasPhase
    <3> QED BY <1>0, <2>1, <2>5, <3>1, WorkIsTold DEF session
  <2> QED BY <2>2, <2>4, <2>5
<1>5. CASE TakeOffline(t)
  BY <1>0, <1>5 DEF TakeOffline, Taking, Told, Alike, session
<1>6. CASE Quiet(t)
  <2>1. UNCHANGED session /\ Born(t)
    BY <1>6 DEF Quiet
  <2>2. PICK flush \in Sends : \/ Lose(t, Flushed(task[t], flush), FALSE, {})
                               \/ Go(t, Flushed(task[t], flush), flights[t])
    BY <1>6 DEF Quiet
  <2>3. Alike(task[t], Flushed(task[t], flush)) /\ HasPhase(Flushed(task[t], flush))
    BY <1>0, FlushedKeepsPhase DEF Alike, HasPhase
  <2>4. CASE Lose(t, Flushed(task[t], flush), FALSE, {})
    BY <2>1, <2>3, <2>4, LossIsTold DEF Lose, session
  <2>5. CASE Go(t, Flushed(task[t], flush), flights[t])
    BY <1>0, <2>1, <2>3, <2>5 DEF Go, Told, Alike, session
  <2> QED BY <2>2, <2>4, <2>5
<1>7. CASE FinishHints(t)
  <2>1. PICK f \in flights[t].running : FinishHint(t, f)
    BY <1>7 DEF FinishHints
  <2>2. UNCHANGED session /\ Born(t)
    BY <2>1 DEF FinishHint
  <2>3. PICK outcome \in {"ok", "failed", "closed"} :
          \/ Lose(t, task[t], FALSE, {})
          \/ Go(t, [task[t] EXCEPT !.tally.answered = @ \/ outcome = "ok"],
                [flights[t] EXCEPT !.running = @ \ {f}])
    BY <2>1 DEF FinishHint
  <2>4. CASE Lose(t, task[t], FALSE, {})
    BY <1>0, <2>2, <2>4, LossIsTold DEF Lose, session
  <2>5. CASE Go(t, [task[t] EXCEPT !.tally.answered = @ \/ outcome = "ok"],
                [flights[t] EXCEPT !.running = @ \ {f}])
    BY <1>0, <2>2, <2>5, FieldsKeepPhase, WorkIsTold DEF session
  <2> QED BY <2>3, <2>4, <2>5
<1>8. CASE Lost(t)
  BY <1>0, <1>8, LossIsTold DEF Lost, Lose, session
<1>9. CASE End(t)
  <2>1. HasPhase([NewTask EXCEPT !.phase = "Ended"])
    BY DEF HasPhase, NewTask
  <2> QED BY <1>9, <2>1 DEF End, Told, session
<1>10. CASE Launch(t)
  <2>1. CASE Connect(t)
    BY <1>0, <2>1, ConnectedHasPhase, LaunchIsTold DEF Connect, States
  <2>2. CASE ReplayFails(t)
    BY <1>0, <2>2, DownHasState, LaunchIsTold DEF ReplayFails, States
  <2>3. CASE Unavailable(t)
    <3>1. /\ HasPhase([task[t] EXCEPT !.phase = "Unavailable"])
          /\ [task[t] EXCEPT !.phase = "Unavailable"].phase = "Unavailable"
      BY <1>0 DEF HasPhase
    <3>2. task' = [task EXCEPT ![t] = [task[t] EXCEPT !.phase = "Unavailable"]]
      BY <2>3 DEF Unavailable
    <3> QED BY <2>3, <3>1, <3>2, LaunchIsTold DEF Unavailable, States
  <2>4. CASE LaunchFails(t)
    <3>1. PICK state \in States : /\ Launching(t, state)
                                  /\ task' = [task EXCEPT ![t] = Down(task[t], state)]
      BY <2>4 DEF LaunchFails, States, Verdict
    <3> QED BY <1>0, <3>1, DownHasState, LaunchIsTold
  <2> QED BY <1>10, <2>1, <2>2, <2>3, <2>4 DEF Launch
<1> QED
  BY <1>1, <1>2, <1>3, <1>4, <1>5, <1>6, <1>7, <1>8, <1>9, <1>10
  DEF RunTask, Serve

LEMMA OwnReportAgrees ==
    ASSUME NEW q \in Seq(Reports), NEW r \in Reports, NEW shown
    PROVE  AgreesIn(Append(q, r), r.token, shown, r.state)
<1>1. /\ Len(Append(q, r)) = Len(q) + 1 /\ Append(q, r)[Len(q) + 1] = r
      /\ Len(q) \in Nat
  OBVIOUS
<1> QED BY <1>1 DEF AgreesIn

LEMMA OtherReportAgrees ==
    ASSUME NEW q \in Seq(Reports), NEW r \in Reports, NEW t, NEW shown, NEW phase,
           r.token # t, AgreesIn(q, t, shown, phase)
    PROVE  AgreesIn(Append(q, r), t, shown, phase)
<1> DEFINE n == Append(q, r)
<1>1. /\ Len(q) \in Nat /\ Len(n) = Len(q) + 1 /\ n[Len(q) + 1] = r
      /\ \A i \in 1..Len(q) : n[i] = q[i]
  OBVIOUS
<1> HIDE DEF n
<1>2. \A i \in 1..Len(n) : n[i].token = t => i \in 1..Len(q)
  BY <1>1
<1>3. ASSUME NEW i \in 1..Len(n), n[i].token = t,
             \A j \in (i + 1)..Len(n) : n[j].token # t
      PROVE  n[i].state = phase
  <2>1. i \in 1..Len(q) /\ n[i] = q[i]
    BY <1>1, <1>2, <1>3
  <2>2. \A j \in (i + 1)..Len(q) : q[j].token # t
    BY <1>1, <1>3, <2>1
  <2> QED BY <1>3, <2>1, <2>2 DEF AgreesIn
<1>4. (\A i \in 1..Len(n) : n[i].token # t) => shown = phase
  BY <1>1 DEF AgreesIn
<1>5. AgreesIn(n, t, shown, phase)
  BY <1>3, <1>4 DEF AgreesIn
<1> QED BY <1>5 DEF n

\* Taking the oldest report shows it, if it is the slot's.
LEMMA TakenReportAgrees ==
    ASSUME NEW q \in Seq(Reports), q # <<>>, NEW t, NEW shown, NEW phase,
           AgreesIn(q, t, shown, phase)
    PROVE  AgreesIn(Tail(q), t,
                    IF Head(q).token = t THEN Head(q).state ELSE shown, phase)
<1> DEFINE n == Tail(q)
<1>1. /\ Len(q) \in Nat \ {0} /\ Len(n) = Len(q) - 1 /\ Head(q) = q[1]
      /\ \A i \in 1..Len(n) : n[i] = q[i + 1]
  OBVIOUS
<1> HIDE DEF n
<1>2. ASSUME NEW i \in 1..Len(n), n[i].token = t,
             \A j \in (i + 1)..Len(n) : n[j].token # t
      PROVE  n[i].state = phase
  <2>1. i + 1 \in 1..Len(q) /\ n[i] = q[i + 1]
    BY <1>1
  <2>2. ASSUME NEW k \in (i + 2)..Len(q) PROVE q[k].token # t
    <3>1. k - 1 \in (i + 1)..Len(n) /\ k - 1 \in 1..Len(n) /\ (k - 1) + 1 = k
      BY <1>1
    <3>2. n[k - 1] = q[k]
      BY <1>1, <3>1
    <3> QED BY <1>2, <3>1, <3>2
  <2> QED BY <1>2, <2>1, <2>2 DEF AgreesIn
<1>3. ASSUME \A i \in 1..Len(n) : n[i].token # t
      PROVE  (IF Head(q).token = t THEN Head(q).state ELSE shown) = phase
  <2>1. ASSUME NEW k \in 2..Len(q) PROVE q[k].token # t
    <3>1. k - 1 \in 1..Len(n) /\ (k - 1) + 1 = k
      BY <1>1
    <3>2. n[k - 1] = q[k]
      BY <1>1, <3>1
    <3> QED BY <1>3, <3>1, <3>2
  <2>2. 1 \in 1..Len(q)
    BY <1>1
  <2> QED BY <1>1, <2>1, <2>2 DEF AgreesIn
<1>4. AgreesIn(n, t, IF Head(q).token = t THEN Head(q).state ELSE shown, phase)
  BY <1>2, <1>3 DEF AgreesIn
<1> QED BY <1>4 DEF n

\* A step of a task keeps the newest report of the slot's task true.
LEMMA ToldKeepsReports ==
    ASSUME ReportsInv, NEW t \in Tokens, Born(t), UNCHANGED <<slot, nextToken>>,
           NEW c, Told(t, c)
    PROVE  ReportsInv'
<1>1. /\ task' = [u \in Tokens |-> task'[u]]
      /\ task'[t] = c
      /\ \A u \in Tokens : u # t => task'[u] = task[u]
  BY DEF Told, ReportsInv
<1>2. \A u \in Tokens : HasPhase(task'[u]) /\ (~Born(u)' => task'[u].phase = "Starting")
  BY <1>1 DEF Told, ReportsInv, Born, HasPhase
<1>3. t < nextToken /\ t \in Nat
  BY TokensAreCounted DEF Born, Tokens
<1> DEFINE Says(s) == [token |-> t, state |-> s]
           Sound(q) == /\ q \in Seq(Reports)
                       /\ \A i \in 1..Len(q) : q[i].token < nextToken
           Old(q) == slot # Nil =>
                       AgreesIn(q, slot.token, slot.runtime, task[slot.token].phase)
           New(q) == slot # Nil =>
                       AgreesIn(q, slot.token, slot.runtime, task'[slot.token].phase)
<1>4. Sound(updates) /\ Old(updates)
  BY DEF ReportsInv, Agrees
<1>5. ASSUME NEW q, Sound(q), NEW s \in States
      PROVE  Sound(Append(q, Says(s)))
  BY <1>3, <1>5 DEF Reports
<1>6. ASSUME NEW q, Sound(q), slot # Nil => slot.token = t \/ Old(q), NEW s \in States
      PROVE  slot # Nil => slot.token = t \/ Old(Append(q, Says(s)))
  <2>1. Says(s) \in Reports
    BY <1>3 DEF Reports
  <2> QED BY <1>6, <2>1, OtherReportAgrees
<1>7. ASSUME NEW q, Sound(q), slot # Nil => slot.token = t \/ Old(q), c.phase \in States
      PROVE  New(Append(q, Says(c.phase)))
  <2>1. Says(c.phase) \in Reports
    BY <1>3, <1>7 DEF Reports
  <2>2. CASE slot # Nil /\ slot.token = t
    BY <1>1, <1>7, <2>1, <2>2, OwnReportAgrees
  <2>3. CASE slot # Nil /\ slot.token # t
    BY <1>1, <1>7, <2>1, <2>3, OtherReportAgrees DEF ReportsInv
  <2> QED BY <2>2, <2>3
<1>8. Sound(updates') /\ New(updates')
  <2>1. CASE UNCHANGED updates /\ (c.phase = task[t].phase \/ ~Holds(t))
    <3>1. slot # Nil => task'[slot.token].phase = task[slot.token].phase
      BY <1>1, <2>1 DEF ReportsInv, Holds
    <3> QED BY <1>4, <2>1, <3>1
  <2>2. CASE c.phase \in States /\ updates' = Append(updates, Says(c.phase))
    BY <1>4, <1>5, <1>7, <2>2
  <2>3. CASE /\ c.phase \in States
             /\ updates' = Append(Append(updates, Says("Starting")), Says(c.phase))
    <3>1. "Starting" \in States
      BY DEF States
    <3> QED BY <1>4, <1>5, <1>6, <1>7, <2>3, <3>1
  <2> QED BY <2>1, <2>2, <2>3 DEF Told
<1>9. slot # Nil => Agrees(slot.token, slot.runtime)'
  BY <1>8 DEF Agrees
<1> QED BY <1>1, <1>2, <1>8, <1>9 DEF ReportsInv, Born

\* A command in a queue changes no phase.
LEMMA QueueKeepsPhases ==
    ASSUME ReportsInv, NEW t \in Tokens, NEW q,
           task' = [task EXCEPT ![t].queue = q]
    PROVE  /\ task' = [u \in Tokens |-> task'[u]]
           /\ \A u \in Tokens : HasPhase(task'[u]) /\ task'[u].phase = task[u].phase
BY DEF ReportsInv, HasPhase

\* A slot that is replaced starts a task nobody has heard of.
LEMMA FreshSlotAgrees ==
    ASSUME ReportsInv, nextToken \in Tokens, nextToken' = nextToken + 1,
           UNCHANGED updates, NEW docs, slot' = NewSlot(docs),
           task' = [u \in Tokens |-> task'[u]],
           \A u \in Tokens : HasPhase(task'[u]) /\ task'[u].phase = task[u].phase
    PROVE  ReportsInv'
<1>1. /\ slot'.token = nextToken /\ slot'.runtime = "Starting"
      /\ {"token", "runtime"} \subseteq DOMAIN slot'
  BY DEF NewSlot
<1>2. task'[nextToken].phase = "Starting"
  BY DEF ReportsInv, Born, Tokens
<1>3. \A i \in 1..Len(updates) : updates[i].token # nextToken
  BY DEF ReportsInv, Reports
<1>4. Agrees(slot.token, slot.runtime)'
  BY <1>1, <1>2, <1>3 DEF Agrees, AgreesIn
<1>5. \A i \in 1..Len(updates') : updates'[i].token < nextToken'
  <2>1. \A i \in 1..Len(updates) : updates[i] \in Reports
    BY DEF ReportsInv
  <2> QED BY <2>1 DEF ReportsInv, Reports
<1>6. \A u \in Tokens : ~Born(u)' => task'[u].phase = "Starting"
  BY TokensAreCounted DEF ReportsInv, Born, Tokens
<1> QED BY <1>1, <1>4, <1>5, <1>6 DEF ReportsInv, Born

\* A step of the session that leaves the slot's token and runtime alone.
LEMMA SameSlotAgrees ==
    ASSUME ReportsInv, UNCHANGED <<nextToken, updates>>,
           slot' # Nil => /\ slot # Nil /\ slot'.token = slot.token
                          /\ slot'.runtime = slot.runtime
                          /\ {"token", "runtime"} \subseteq DOMAIN slot',
           task' = [u \in Tokens |-> task'[u]],
           \A u \in Tokens : HasPhase(task'[u]) /\ task'[u].phase = task[u].phase
    PROVE  ReportsInv'
<1>1. slot' # Nil => Agrees(slot.token, slot.runtime)'
  BY DEF ReportsInv, Agrees
<1> QED BY <1>1 DEF ReportsInv, Born

LEMMA SessionKeepsReports ==
    ASSUME ReportsInv, SessionStep PROVE ReportsInv'
<1>0. /\ task = [u \in Tokens |-> task[u]] /\ \A u \in Tokens : HasPhase(task[u])
      /\ slot # Nil => slot.token \in Tokens /\ {"token", "runtime"} \subseteq DOMAIN slot
  BY DEF ReportsInv
<1>1. ASSUME NEW d \in Docs, OpenDocument(d) PROVE ReportsInv'
  <2> DEFINE t == IF slot = Nil THEN nextToken ELSE slot.token
  <2>1. /\ t \in Tokens /\ UNCHANGED updates
        /\ \/ UNCHANGED task
           \/ \E q : task' = [task EXCEPT ![t].queue = q]
    BY <1>1 DEF OpenDocument, Queue
  <2>2. /\ task' = [u \in Tokens |-> task'[u]]
        /\ \A u \in Tokens : HasPhase(task'[u]) /\ task'[u].phase = task[u].phase
    BY <1>0, <2>1, QueueKeepsPhases
  <2>3. CASE slot = Nil
    <3>1. HasRoom(nextToken) => slot' = NewSlot({d})
      BY <1>1, <2>3 DEF OpenDocument
    <3>2. nextToken' = nextToken + 1 /\ nextToken \in Tokens
      BY <1>1, <2>3 DEF OpenDocument
    <3>3. CASE HasRoom(nextToken)
      BY <2>1, <2>2, <3>1, <3>2, <3>3, FreshSlotAgrees
    <3>4. CASE ~HasRoom(nextToken)
      <4>1. slot' = Nil
        BY <1>1, <2>3, <3>4 DEF OpenDocument
      <4>2. nextToken' \in Nat \ {0}
        BY <3>2 DEF ReportsInv
      <4>3. \A i \in 1..Len(updates) : updates[i].token \in Nat
                                       /\ updates[i].token < nextToken
        <5>1. \A i \in 1..Len(updates) : updates[i] \in Reports
          BY DEF ReportsInv
        <5> QED BY <5>1 DEF ReportsInv, Reports
      <4>4. \A i \in 1..Len(updates') : updates'[i].token < nextToken'
        BY <2>1, <3>2, <4>3 DEF ReportsInv
      <4>5. \A u \in Tokens : ~Born(u)' => task'[u].phase = "Starting"
        BY <2>2, <3>2, TokensAreCounted DEF ReportsInv, Born, Tokens
      <4> QED BY <2>1, <2>2, <4>1, <4>2, <4>4, <4>5 DEF ReportsInv
    <3> QED BY <3>3, <3>4
  <2>4. CASE slot # Nil
    <3>1. \/ UNCHANGED slot
          \/ slot' = [slot EXCEPT !.documents = @ \cup {d}]
      BY <1>1, <2>4 DEF OpenDocument
    <3>2. UNCHANGED nextToken
      BY <1>1, <2>4 DEF OpenDocument
    <3>3. /\ slot'.token = slot.token /\ slot'.runtime = slot.runtime
          /\ {"token", "runtime"} \subseteq DOMAIN slot'
      BY <1>0, <2>4, <3>1
    <3> QED BY <2>1, <2>2, <2>4, <3>2, <3>3, SameSlotAgrees
  <2> QED BY <2>3, <2>4
<1>2. ASSUME NEW d \in Docs, NEW op \in {"hint", "request"},
             EditDocument(d) \/ SaveDocument(d) \/ AskServer(d, op)
      PROVE  ReportsInv'
  <2>1. /\ UNCHANGED <<slot, nextToken, updates>>
        /\ \/ UNCHANGED task
           \/ slot # Nil /\ \E q : task' = [task EXCEPT ![slot.token].queue = q]
    BY <1>2 DEF EditDocument, SaveDocument, AskServer, Queue, Attached, session
  <2>2. /\ task' = [u \in Tokens |-> task'[u]]
        /\ \A u \in Tokens : HasPhase(task'[u]) /\ task'[u].phase = task[u].phase
    BY <1>0, <2>1, QueueKeepsPhases
  <2> QED BY <1>0, <2>1, <2>2, SameSlotAgrees
<1>3. ASSUME NEW d \in Docs, CloseDocument(d) PROVE ReportsInv'
  <2>1. /\ UNCHANGED <<nextToken, updates>>
        /\ \/ UNCHANGED task
           \/ slot # Nil /\ \E q : task' = [task EXCEPT ![slot.token].queue = q]
        /\ \/ UNCHANGED slot \/ slot' = Nil
           \/ slot # Nil /\ slot' = [slot EXCEPT !.documents = @ \ {d}]
    BY <1>3 DEF CloseDocument, Queue, Attached
  <2>2. /\ task' = [u \in Tokens |-> task'[u]]
        /\ \A u \in Tokens : HasPhase(task'[u]) /\ task'[u].phase = task[u].phase
    BY <1>0, <2>1, QueueKeepsPhases
  <2>3. slot' # Nil => /\ slot # Nil /\ slot'.token = slot.token
                       /\ slot'.runtime = slot.runtime
                       /\ {"token", "runtime"} \subseteq DOMAIN slot'
    BY <1>0, <2>1
  <2> QED BY <2>1, <2>2, <2>3, SameSlotAgrees
<1>4. CASE RestartServer
  <2>1. PICK docs, q : /\ slot' = NewSlot(docs)
                       /\ task' = [task EXCEPT ![nextToken].queue = q]
    BY <1>4 DEF RestartServer
  <2>2. nextToken \in Tokens /\ nextToken' = nextToken + 1 /\ UNCHANGED updates
    BY <1>4 DEF RestartServer
  <2> QED BY <2>1, <2>2, QueueKeepsPhases, FreshSlotAgrees
<1>5. CASE AdoptReport
  <2>1. /\ UNCHANGED <<nextToken, task>> /\ updates # <<>> /\ updates' = Tail(updates)
        /\ slot' = IF Holds(Head(updates).token)
                   THEN [slot EXCEPT !.runtime = Head(updates).state] ELSE slot
    BY <1>5 DEF AdoptReport
  <2>2. /\ updates' \in Seq(Reports)
        /\ \A i \in 1..Len(updates') : updates'[i].token < nextToken
    BY <2>1 DEF ReportsInv
  <2>3. slot # Nil =>
          /\ slot' # Nil /\ slot'.token = slot.token
          /\ {"token", "runtime"} \subseteq DOMAIN slot'
          /\ slot'.runtime = IF Head(updates).token = slot.token
                             THEN Head(updates).state ELSE slot.runtime
    BY <1>0, <2>1 DEF Holds, Nil
  <2>4. slot # Nil => Agrees(slot.token, slot.runtime)'
    BY <2>1, <2>3, TakenReportAgrees DEF Agrees, ReportsInv
  <2>5. slot' # Nil => slot # Nil
    BY <2>1 DEF Holds
  <2> QED BY <2>1, <2>2, <2>3, <2>4, <2>5 DEF ReportsInv, Born
<1> QED BY <1>1, <1>2, <1>3, <1>4, <1>5 DEF SessionStep

\* The session never shows a state its slot's server has left, once it has taken
\* what the server reported: no retired task can speak for the new one
\* (LspManager::accepts, note_runtime).
THEOREM ShownIsTrue == Spec => []ShownStateIsTrue
<1>1. Init => ReportsInv
  BY DEF Init, ReportsInv, HasPhase, NewTask, Born
<1>2. ReportsInv /\ [Next]_vars => ReportsInv'
  <2> SUFFICES ASSUME ReportsInv, [Next]_vars PROVE ReportsInv'
    OBVIOUS
  <2>1. ASSUME NEW t \in Tokens, RunTask(t) \/ Lost(t) PROVE ReportsInv'
    BY <2>1, StepIsTold, ToldKeepsReports
  <2>2. CASE UNCHANGED vars
    BY <2>2 DEF vars, session, ReportsInv, Agrees, AgreesIn, Born, HasPhase
  <2> QED BY <2>1, <2>2, SessionKeepsReports DEF Next
<1>3. ReportsInv => ShownStateIsTrue
  BY DEF ReportsInv, Agrees, AgreesIn, ShownStateIsTrue
<1> QED BY <1>1, <1>2, <1>3, PTL DEF Spec
=============================================================================
