----------------------------- MODULE ServerTask -----------------------------
(***************************************************************************)
(* One provider slot of the session's LspManager, the server tasks that    *)
(* hold it one after the other, and the server each task is connected to   *)
(* (karet-session/src/lsp.rs, lsp/runtime.rs, commands.rs, delta.rs,       *)
(* hint_flight.rs, lifecycle.rs).                                          *)
(*                                                                         *)
(* A text is <<opening, version>>: which opening of the document it        *)
(* belongs to, and the buffer's version, which starts at 0 on each.        *)
(* Deadlines are abstracted: a sleep may end whenever it is armed.         *)
(***************************************************************************)
EXTENDS ServerHealth, Integers, Sequences, FiniteSets

CONSTANTS
    Docs,       \* documents the provider serves
    Asks,       \* requests the session may have outstanding
    MaxTokens,  \* incarnations of the slot
    Capacity,   \* SERVER_COMMAND_CAPACITY
    Allowances  \* how often the environment may act, one is chosen

Events == {"opens", "edits", "saves", "asks", "losses", "fulls", "restarts"}
Tokens == 1..MaxTokens
Nil == <<>>

ASSUME CapacityHoldsACommand == Capacity \in Nat \ {0}
ASSUME TokensAreCounted == MaxTokens \in Nat
ASSUME AllowancesBoundEvents == Allowances \subseteq [Events -> Nat]

VARIABLES
    open,      \* the text of each open document, else Nil
    openings,  \* how often each document was opened
    slot,      \* the slot: token, attached documents, runtime; else Nil
    nextToken, \* LspManager.next_token
    task,      \* each server task: its queue, documents and connection
    flights,   \* its background requests
    budget,    \* its restart budget
    updates,   \* RuntimeState reports the session has not taken
    owed,      \* requests handed to a task, less the answers
    told,      \* the last text of each document the slot's queue took
    storm,     \* its failures in a row that nothing has forgiven
    left       \* what is left of the chosen allowance

session == <<open, openings, slot, nextToken, told>>
health == <<budget, storm>>
vars == <<session, task, flights, health, updates, owed, left>>

NoFlights == [deferred |-> {}, running |-> {}]
\* The server's copy of each document; those whose open or close it never got.
NoServer == [copy |-> [d \in Docs |-> Nil], astray |-> {}]

NewTask ==
    [phase |-> "Starting", queue |-> <<>>, replay |-> [d \in Docs |-> Nil],
     pending |-> Nil, server |-> NoServer, tally |-> NewTally, worked |-> FALSE]
Calm == [arrivals |-> 0, silences |-> 0]

Init ==
    /\ open = [d \in Docs |-> Nil] /\ openings = [d \in Docs |-> 0]
    /\ slot = Nil /\ nextToken = 1
    /\ task = [t \in Tokens |-> NewTask]
    /\ flights = [t \in Tokens |-> NoFlights]
    /\ budget = [t \in Tokens |-> FullBudget]
    /\ updates = <<>>
    /\ owed = [a \in Asks |-> 0]
    /\ told = [d \in Docs |-> Nil]
    /\ storm = [t \in Tokens |-> Calm]
    /\ left \in Allowances

Garbage == <<"garbage">>    \* what a change makes of a text it was not made for
Spend(event) == left[event] > 0 /\ left' = [left EXCEPT ![event] = @ - 1]
Born(t) == t < nextToken
Holds(t) == slot # Nil /\ slot.token = t
Attached(d) == slot # Nil /\ d \in slot.documents

-----------------------------------------------------------------------------
(* Operations of the session.  A command is dropped when the queue is full *)

Cmd(op, d, text) == [op |-> op, doc |-> d, text |-> text]
HasRoom(t) == Len(task[t].queue) < Capacity
Queue(t, cmd) == task' = [task EXCEPT ![t].queue = Append(@, cmd)]

NewSlot(docs) == [token |-> nextToken, documents |-> docs, runtime |-> "Starting"]

\* Bug: an open that was not queued leaves its mark on the slot.
OpenMarking(d) ==
    /\ open[d] = Nil /\ Spend("opens")
    /\ open' = [open EXCEPT ![d] = <<openings[d] + 1, 0>>]
    /\ openings' = [openings EXCEPT ![d] = @ + 1]
    /\ LET t == IF slot = Nil THEN nextToken ELSE slot.token IN
       /\ t \in Tokens
       /\ slot' = IF slot = Nil THEN NewSlot({d})
                  ELSE [slot EXCEPT !.documents = @ \cup {d}]
       /\ told' = [told EXCEPT ![d] = open'[d]]
       /\ IF HasRoom(t) THEN Queue(t, Cmd("open", d, open'[d])) ELSE UNCHANGED task
       /\ nextToken' = IF slot = Nil THEN nextToken + 1 ELSE nextToken
    /\ UNCHANGED <<flights, health, updates, owed>>

\* document_opened, which starts the slot when there is none.
OpenDocument(d) ==
    /\ open[d] = Nil /\ Spend("opens")
    /\ open' = [open EXCEPT ![d] = <<openings[d] + 1, 0>>]
    /\ openings' = [openings EXCEPT ![d] = @ + 1]
    /\ LET t == IF slot = Nil THEN nextToken ELSE slot.token IN
       /\ t \in Tokens
       /\ IF HasRoom(t)
          THEN /\ slot' = IF slot = Nil THEN NewSlot({d})
                          ELSE [slot EXCEPT !.documents = @ \cup {d}]
               /\ told' = [told EXCEPT ![d] = open'[d]]
               /\ Queue(t, Cmd("open", d, open'[d]))
          ELSE UNCHANGED <<slot, told, task>>
       /\ nextToken' = IF slot = Nil THEN nextToken + 1 ELSE nextToken
    /\ UNCHANGED <<flights, health, updates, owed>>

\* document_changed.  A delta starts at the version before this one; a reload, an
\* edit that is not a list of ranges, or a text whose lines disagree has none.
EditDocument(d) ==
    /\ open[d] # Nil /\ Spend("edits")
    /\ open' = [open EXCEPT ![d] = <<@[1], @[2] + 1>>]
    /\ \E delta \in BOOLEAN :
          IF Attached(d) /\ HasRoom(slot.token)
          THEN /\ Queue(slot.token, [op |-> "change", doc |-> d, text |-> open'[d],
                                     delta |-> delta])
               /\ told' = [told EXCEPT ![d] = open'[d]]
          ELSE UNCHANGED <<told, task>>
    /\ UNCHANGED <<openings, slot, nextToken, flights, health, updates, owed>>

\* document_saved.
SaveDocument(d) ==
    /\ Attached(d) /\ HasRoom(slot.token) /\ Spend("saves")
    /\ Queue(slot.token, Cmd("save", d, open[d]))
    /\ UNCHANGED <<session, flights, health, updates, owed>>

\* document_closed: the slot goes with its last document.
CloseDocument(d) ==
    /\ open[d] # Nil
    /\ open' = [open EXCEPT ![d] = Nil]
    /\ IF Attached(d)
       THEN /\ told' = [told EXCEPT ![d] = Nil]
            /\ slot' = IF slot.documents = {d} THEN Nil
                       ELSE [slot EXCEPT !.documents = @ \ {d}]
            /\ IF HasRoom(slot.token) THEN Queue(slot.token, Cmd("close", d, Nil))
                                      ELSE UNCHANGED task
       ELSE UNCHANGED <<told, slot, task>>
    /\ UNCHANGED <<openings, nextToken, flights, health, updates, owed, left>>

\* restart_lsp: the slot is retired, and what it served reopened on a new one.
RestartServer ==
    /\ slot # Nil /\ nextToken \in Tokens /\ Spend("restarts")
    /\ LET n == IF Cardinality(slot.documents) < Capacity
                THEN Cardinality(slot.documents) ELSE Capacity IN
       \E order \in [1..n -> slot.documents] :
          LET reached == {order[i] : i \in 1..n} IN
          /\ Cardinality(reached) = n
          /\ slot' = NewSlot(reached)
          /\ told' = [d \in Docs |-> IF d \in reached THEN open[d] ELSE Nil]
          /\ task' = [task EXCEPT ![nextToken].queue =
                        [i \in 1..n |-> Cmd("open", order[i], open[order[i]])]]
    /\ nextToken' = nextToken + 1
    /\ UNCHANGED <<open, openings, flights, health, updates, owed>>

\* A request; one that is not queued is answered by the session at once.
AskServer(d, op) ==
    /\ Attached(d) /\ HasRoom(slot.token) /\ Spend("asks")
    /\ \E a \in Asks : owed[a] = 0
    /\ LET fresh == CHOOSE a \in Asks : owed[a] = 0 IN
       /\ Queue(slot.token, [op |-> op, ask |-> fresh, doc |-> d, text |-> told[d]])
       /\ owed' = [owed EXCEPT ![fresh] = @ + 1]
    /\ UNCHANGED <<session, flights, health, updates>>

\* Bug: the slot's token is not compared.
AdoptAnyReport ==
    /\ updates # <<>>
    /\ updates' = Tail(updates)
    /\ slot' = IF slot # Nil THEN [slot EXCEPT !.runtime = Head(updates).state]
               ELSE slot
    /\ UNCHANGED <<open, openings, nextToken, told, task, flights, health,
                   owed, left>>

\* A report counts while its task holds the slot (accepts, note_runtime).
AdoptReport ==
    /\ updates # <<>>
    /\ updates' = Tail(updates)
    /\ slot' = IF Holds(Head(updates).token)
               THEN [slot EXCEPT !.runtime = Head(updates).state] ELSE slot
    /\ UNCHANGED <<open, openings, nextToken, told, task, flights, health,
                   owed, left>>

-----------------------------------------------------------------------------
(* The replay set and the pending change *)

\* Bug: the base of a delta is not compared.
TrustDelta(c, cmd) == cmd.delta /\ c.replay[cmd.doc] # Nil

\* Whether a change keeps its delta: it starts at the version last seen, and
\* the change before it was sent.
KeepsDelta(c, cmd) ==
    LET seen == c.replay[cmd.doc] IN
    /\ cmd.delta /\ seen # Nil
    /\ ~seen.resync
    /\ seen.version = cmd.text[2] - 1

Entry(text) == [version |-> text[2], text |-> text, resync |-> FALSE]

\* The replay set after remember_document.
Remembered(c, cmd) ==
    LET known == c.replay[cmd.doc] # Nil IN
    CASE cmd.op = "open" \/ (cmd.op = "change" /\ known) ->
           [c EXCEPT !.replay[cmd.doc] = Entry(cmd.text)]
      [] cmd.op = "save" /\ known -> [c EXCEPT !.replay[cmd.doc].text = cmd.text]
      [] cmd.op = "close" -> [c EXCEPT !.replay[cmd.doc] = Nil]
      [] OTHER -> c

Step(text) == [from |-> <<text[1], text[2] - 1>>, to |-> text]

\* PendingChange::coalesce: deltas are appended, and one change without a delta
\* makes it a whole text (as one whose ranges carry too much text would be).
Coalesced(pending, cmd, keeps) ==
    LET whole == ~keeps \/ (pending # Nil /\ pending.deltas = Nil) IN
    [doc |-> cmd.doc, text |-> cmd.text,
     deltas |-> IF whole THEN Nil
                ELSE Append(IF pending = Nil THEN <<>> ELSE pending.deltas,
                            Step(cmd.text))]

\* The server's copy after a change: ranges fit only the text they start from.
Applied(copy, change) ==
    IF copy = Nil THEN Nil
    ELSE IF change.deltas = Nil THEN change.text
    ELSE IF /\ copy = change.deltas[1].from
            /\ \A i \in 2..Len(change.deltas) :
                  change.deltas[i].from = change.deltas[i - 1].to
         THEN change.text ELSE Garbage

\* Bug: a change that could not be sent is forgotten.
FlushedAndForgotten(c, sent) ==
    IF c.pending = Nil THEN c
    ELSE LET p == c.pending IN
         [c EXCEPT !.pending = Nil,
                   !.server.copy[p.doc] = IF sent = "ok" THEN Applied(@, p) ELSE @]

\* flush_pending: a failed send leaves the document to be sent whole.
Flushed(c, sent) ==
    IF c.pending = Nil THEN c
    ELSE LET p == c.pending IN
         [c EXCEPT !.pending = Nil,
                   !.server.copy[p.doc] = IF sent = "ok" THEN Applied(@, p) ELSE @,
                   !.replay[p.doc] = IF sent = "ok" \/ @ = Nil THEN @
                                     ELSE [@ EXCEPT !.resync = TRUE],
                   !.tally = IF sent = "full" THEN Noted(@, "error") ELSE @]

-----------------------------------------------------------------------------
(* Background requests.  DocumentId names an opening of a document. *)

SameDocument(f, g) == f.doc = g.doc /\ f.text[1] = g.text[1]

\* launch_ready leaves behind those for the pending path, and those for a
\* document whose request still runs.
Unsent(c, f) == c.pending # Nil /\ c.pending.doc = f.doc
Waits(fs, f) == \E g \in fs.running : SameDocument(f, g)

\* Bug: a request does not wait for the one that runs for its document.
ReadyBeside(c, fs) == {f \in fs.deferred : ~Unsent(c, f)}
\* Bug: a request does not wait for the pending change.
ReadyUnsent(c, fs) == {f \in fs.deferred : ~Waits(fs, f)}

Ready(c, fs) == {f \in fs.deferred : ~Unsent(c, f) /\ ~Waits(fs, f)}

Launched(c, fs) == [deferred |-> fs.deferred \ Ready(c, fs),
                    running |-> fs.running \cup Ready(c, fs)]

\* Flight::ask
Superseded(fs, f) == {g \in fs.deferred : SameDocument(f, g)}
Deferring(fs, f) == [deferred |-> (fs.deferred \ Superseded(fs, f)) \cup {f},
                     running |-> fs.running]

-----------------------------------------------------------------------------
(* Steps of a server task *)

Answer(requests) ==
    owed' = [a \in Asks |-> owed[a] - Cardinality({f \in requests : f.ask = a})]

Reported(t, state) == updates' = Append(updates, [token |-> t, state |-> state])

\* The end of a step on a live connection.
Go(t, c, fs) ==
    /\ task' = [task EXCEPT ![t] = c]
    /\ flights' = [flights EXCEPT ![t] = Launched(c, fs)]
    /\ UNCHANGED <<health, updates>>

\* Bug: the pending change outlives the connection it was made for.
DownHolding(c, state) ==
    [c EXCEPT !.phase = state, !.server = NoServer, !.tally = NewTally]

Down(c, state) ==
    [c EXCEPT !.phase = state, !.pending = Nil, !.server = NoServer,
              !.tally = NewTally]

\* A row of failures ends with a pause or the circuit.
StormAfter(row, forgiven) == IF forgiven THEN 0 ELSE row + 1

Counted(t, hung, stable, charge) ==
    LET circuit == charge.state = "CircuitOpen" IN
    /\ budget' = [budget EXCEPT ![t] = charge.budget]
    /\ storm' = [storm EXCEPT ![t] =
         [arrivals |-> IF hung THEN storm[t].arrivals
                       ELSE StormAfter(storm[t].arrivals,
                              \/ stable \/ circuit
                              \/ charge.budget.failures <= budget[t].failures),
          silences |-> IF ~hung THEN 0
                       ELSE StormAfter(storm[t].silences,
                              circuit \/ charge.budget.hangs <= budget[t].hangs)]]

\* The connection is lost: what it had in flight is answered, besides what the
\* step was about, and the loss charged.
Lose(t, c, hung, about) ==
    \E stable \in BOOLEAN :
      \E charge \in Charged(budget[t], hung, stable) :
        /\ Counted(t, hung, stable, charge)
        /\ task' = [task EXCEPT ![t] = Down(c, charge.state)]
        /\ flights' = [flights EXCEPT ![t] = NoFlights]
        /\ Answer(flights[t].deferred \cup flights[t].running \cup about)
        /\ Reported(t, charge.state)

\* The outcomes of sends that fail use up the allowance.
Sends == {"ok", "full", "closed"}
SpendSends(flush, sent) ==
    LET fulls == Cardinality({i \in 1..2 : <<flush, sent>>[i] = "full"})
        lost  == IF "closed" \in {flush, sent} THEN 1 ELSE 0 IN
    /\ left.fulls >= fulls /\ left.losses >= lost
    /\ left' = [left EXCEPT !.fulls = @ - fulls, !.losses = @ - lost]

FlushOutcomes(c) == IF c.pending = Nil THEN {"ok"} ELSE Sends

Taking(t, ops, phases) ==
    /\ Born(t) /\ task[t].phase \in phases
    /\ task[t].queue # <<>> /\ Head(task[t].queue).op \in ops

\* The task when it has taken a command and remembered it.
Taken(t) == LET c == task[t] IN
            Remembered([c EXCEPT !.queue = Tail(@)], Head(c.queue))

\* Only a change of another document flushes the pending one.
TakeChange(t) ==
    /\ Taking(t, {"change"}, {"Running"})
    /\ LET cmd == Head(task[t].queue)
           c == Taken(t)
           other == c.pending # Nil /\ c.pending.doc # cmd.doc IN
       \E flush \in IF other THEN Sends ELSE {"ok"} :
          LET f == IF other THEN Flushed(c, flush) ELSE c IN
          /\ SpendSends(flush, "ok")
          /\ \/ flush = "closed" /\ Lose(t, f, FALSE, {})
             \/ /\ flush # "closed"
                /\ Go(t, [f EXCEPT !.pending =
                            Coalesced(f.pending, cmd, KeepsDelta(task[t], cmd))],
                      flights[t])
                /\ UNCHANGED owed
    /\ UNCHANGED session

\* The server's side of an open, close or save.
Received(c, cmd, sent) ==
    IF cmd.op = "save" THEN c
    ELSE IF sent = "ok"
    THEN [c EXCEPT !.server.copy[cmd.doc] = cmd.text, !.server.astray = @ \ {cmd.doc}]
    ELSE [c EXCEPT !.server.astray = @ \cup {cmd.doc}]

\* didOpen, didClose, didSave, behind a flush.
TakeNotice(t) ==
    /\ Taking(t, {"open", "close", "save"}, {"Running"})
    /\ LET c == Taken(t) IN
       \E flush \in FlushOutcomes(c), sent \in Sends :
          LET f == Flushed(c, flush) IN
          /\ flush = "closed" => sent = "ok"
          /\ SpendSends(flush, sent)
          /\ \/ "closed" \in {flush, sent} /\ Lose(t, f, FALSE, {})
             \/ /\ "closed" \notin {flush, sent}
                /\ Go(t, [Received(f, Head(task[t].queue), sent) EXCEPT
                            !.tally = IF sent = "full" THEN Noted(@, "error") ELSE @],
                      flights[t])
                /\ UNCHANGED owed
    /\ UNCHANGED session

\* Bug: the request a newer one replaces is dropped.
TakeHintSilently(t) ==
    /\ Taking(t, {"hint"}, {"Running"})
    /\ Go(t, Taken(t), Deferring(flights[t], Head(task[t].queue)))
    /\ UNCHANGED <<session, owed, left>>

\* No flush and no await; the one it replaces is answered.
TakeHint(t) ==
    /\ Taking(t, {"hint"}, {"Running"})
    /\ Go(t, Taken(t), Deferring(flights[t], Head(task[t].queue)))
    /\ Answer(Superseded(flights[t], Head(task[t].queue)))
    /\ UNCHANGED <<session, left>>

\* A request awaited in line, behind a flush; then it is answered.
TakeRequest(t) ==
    /\ Taking(t, {"request"}, {"Running"})
    /\ LET c == Taken(t)
           cmd == Head(task[t].queue) IN
       \E flush \in FlushOutcomes(c),
          outcome \in {"ok", "refused", "error", "timeout", "closed"} :
          LET f == Flushed(c, flush)
              hung == Condemned(f.tally, outcome) IN
          /\ flush = "closed" => outcome = "closed"
          /\ SpendSends(flush, IF outcome = "closed" THEN "closed" ELSE "ok")
          /\ \/ (outcome = "closed" \/ hung) /\ Lose(t, f, hung, {cmd})
             \/ /\ outcome # "closed" /\ ~hung
                /\ Go(t, [f EXCEPT !.tally = Noted(@, outcome)], flights[t])
                /\ Answer({cmd})
    /\ UNCHANGED session

\* The debounce is over: what waited for the pending change may go.
Quiet(t) ==
    /\ Born(t) /\ task[t].phase = "Running" /\ task[t].pending # Nil
    /\ \E flush \in Sends :
          LET f == Flushed(task[t], flush) IN
          /\ SpendSends(flush, "ok")
          /\ \/ flush = "closed" /\ Lose(t, f, FALSE, {})
             \/ flush # "closed" /\ Go(t, f, flights[t]) /\ UNCHANGED owed
    /\ UNCHANGED session

\* A background request returns; of its failures only Closed is charged.
FinishHint(t, f) ==
    /\ Born(t) /\ task[t].phase = "Running" /\ f \in flights[t].running
    /\ \E outcome \in {"ok", "failed", "closed"} :
          /\ SpendSends("ok", IF outcome = "closed" THEN "closed" ELSE "ok")
          /\ \/ outcome = "closed" /\ Lose(t, task[t], FALSE, {})
             \/ /\ outcome # "closed"
                /\ Go(t, [task[t] EXCEPT !.tally.answered = @ \/ outcome = "ok"],
                      [flights[t] EXCEPT !.running = @ \ {f}])
                /\ Answer({f})
    /\ UNCHANGED session

\* The connection's closed flag wakes the task.
Lost(t) ==
    /\ Born(t) /\ task[t].phase = "Running" /\ Spend("losses")
    /\ Lose(t, task[t], FALSE, {})
    /\ UNCHANGED session

AnyOp == {"open", "change", "close", "save", "hint", "request"}

\* Bug: a task with no server to try again returns instead of draining.
TakeWhileDown(t) ==
    /\ Taking(t, AnyOp, {"Retrying", "CircuitOpen"})
    /\ task' = [task EXCEPT ![t] = Taken(t)]
    /\ LET cmd == Head(task[t].queue) IN
       Answer(IF cmd.op \in {"hint", "request"} THEN {cmd} ELSE {})
    /\ UNCHANGED <<session, flights, health, updates, left>>

\* Without a connection a command is remembered and answered by the task.
TakeOffline(t) ==
    /\ Taking(t, AnyOp, {"Retrying", "CircuitOpen", "Unavailable"})
    /\ task' = [task EXCEPT ![t] = Taken(t)]
    /\ LET cmd == Head(task[t].queue) IN
       Answer(IF cmd.op \in {"hint", "request"} THEN {cmd} ELSE {})
    /\ UNCHANGED <<session, flights, health, updates, left>>

\* After a cooldown every failure has left its window.
FailuresAtLaunch(t) ==
    IF task[t].phase = "CircuitOpen" THEN {0} ELSE Expired(budget[t].failures)

\* Bug: connecting earns a fresh budget.
ForgivenByConnecting(t, f) == FullBudget

BudgetOnConnect(t, f) == [budget[t] EXCEPT !.failures = f]

\* A launch, its report behind the first one of the task.
Launching(t, state) ==
    /\ Born(t) /\ task[t].phase \in {"Starting", "Retrying", "CircuitOpen"}
    /\ updates' = Append(IF task[t].phase = "Starting"
                         THEN Append(updates, [token |-> t, state |-> "Starting"])
                         ELSE updates,
                         [token |-> t, state |-> state])
    /\ UNCHANGED <<session, flights, owed>>

\* A pause at launch ends the row of failures; else the launch may add to it.
StormAtLaunch(t, f, state, failed) ==
    storm' = [storm EXCEPT ![t].arrivals =
                IF f < budget[t].failures \/ state = "CircuitOpen" THEN 0
                ELSE @ + failed]

\* A connection, and every document of the replay set opened on it.
Connect(t) ==
    /\ Launching(t, "Running")
    /\ LET c == task[t] IN
       task' = [task EXCEPT ![t] =
         [c EXCEPT !.phase = "Running", !.worked = TRUE,
                   !.server.copy = [d \in Docs |-> IF c.replay[d] = Nil THEN Nil
                                                   ELSE c.replay[d].text]]]
    /\ \E f \in FailuresAtLaunch(t) :
          /\ budget' = [budget EXCEPT ![t] = BudgetOnConnect(t, f)]
          /\ StormAtLaunch(t, f, "Running", 0)
    /\ UNCHANGED left

\* A connection that took no replay: charged, but it never opens the circuit.
ReplayFails(t) ==
    /\ Launching(t, "Retrying") /\ Spend("losses")
    /\ \E d \in Docs : task[t].replay[d] # Nil
    /\ task' = [task EXCEPT ![t] = Down(task[t], "Retrying")]
    /\ \E f \in FailuresAtLaunch(t) :
          /\ budget' = [budget EXCEPT ![t].failures = f + 1]
          /\ StormAtLaunch(t, f, "Retrying", 0)

\* A launch that failed for good, on a task that never had a connection.
Unavailable(t) ==
    /\ Launching(t, "Unavailable") /\ Spend("losses")
    /\ ~task[t].worked
    /\ task' = [task EXCEPT ![t].phase = "Unavailable"]
    /\ UNCHANGED health

\* A launch that failed, and is tried again later.
LaunchFails(t) ==
    /\ Spend("losses")
    /\ \E f \in FailuresAtLaunch(t) :
          LET state == Verdict(f + 1, RestartLimit) IN
          /\ Launching(t, state)
          /\ task' = [task EXCEPT ![t] = Down(task[t], state)]
          /\ budget' = [budget EXCEPT ![t].failures = f + 1]
          /\ StormAtLaunch(t, f, state, 1)

\* Bug: a task that drains never looks for the end of its channel.
EndUnlessDraining(t) ==
    /\ Born(t) /\ ~Holds(t) /\ task[t].queue = <<>>
    /\ task[t].phase \in {"Running", "Retrying", "CircuitOpen"}
    /\ Answer(flights[t].deferred \cup flights[t].running)
    /\ task' = [task EXCEPT ![t] = [NewTask EXCEPT !.phase = "Ended"]]
    /\ flights' = [flights EXCEPT ![t] = NoFlights]
    /\ UNCHANGED <<session, health, updates, left>>

\* The channel is closed and empty: what is in flight is answered.
End(t) ==
    /\ Born(t) /\ ~Holds(t) /\ task[t].queue = <<>>
    /\ task[t].phase \notin {"Starting", "Ended"}
    /\ Answer(flights[t].deferred \cup flights[t].running)
    /\ task' = [task EXCEPT ![t] = [NewTask EXCEPT !.phase = "Ended"]]
    /\ flights' = [flights EXCEPT ![t] = NoFlights]
    /\ UNCHANGED <<session, health, updates, left>>

-----------------------------------------------------------------------------
Serve(t) == TakeChange(t) \/ TakeNotice(t) \/ TakeHint(t) \/ TakeRequest(t)
            \/ TakeOffline(t)
Launch(t) == Connect(t) \/ ReplayFails(t) \/ Unavailable(t) \/ LaunchFails(t)
FinishHints(t) == \E f \in flights[t].running : FinishHint(t, f)

RunTask(t) == Serve(t) \/ Launch(t) \/ FinishHints(t) \/ Quiet(t) \/ End(t)

SessionStep ==
    \/ \E d \in Docs : OpenDocument(d) \/ EditDocument(d) \/ SaveDocument(d)
                       \/ CloseDocument(d)
    \/ \E d \in Docs, op \in {"hint", "request"} : AskServer(d, op)
    \/ RestartServer
    \/ AdoptReport

Next == SessionStep \/ \E t \in Tokens : RunTask(t) \/ Lost(t)

Spec == Init /\ [][Next]_vars

\* A task that can go on does: requests time out, deadlines pass and a launch
\* ends.  Nothing is asked of the session.
FairSpec == Spec /\ \A t \in Tokens : WF_vars(RunTask(t))

-----------------------------------------------------------------------------
(* Properties *)

Texts == {Nil} \cup (Nat \X Nat)
Commands(t) == {task[t].queue[i] : i \in 1..Len(task[t].queue)}

\* Everything has its type, and a queue never holds more than its capacity.
TypeOK ==
    /\ open \in [Docs -> Texts] /\ told \in [Docs -> Texts]
    /\ slot = Nil \/ /\ slot.token \in Tokens /\ slot.documents \subseteq Docs
                     /\ slot.documents # {}
    /\ \A t \in Tokens :
         /\ task[t].phase \in {"Starting", "Running", "Retrying", "CircuitOpen",
                              "Unavailable", "Ended"}
         /\ Len(task[t].queue) <= Capacity
         /\ task[t].tally \in Tallies /\ budget[t] \in Budgets
         /\ task[t].phase # "Running" =>
              task[t].pending = Nil /\ flights[t] = NoFlights

\* No change ever reaches the server as ranges of a text it does not hold,
\* whatever was dropped, coalesced, reopened or replayed before it.
NoMisappliedChange ==
    \A t \in Tokens, d \in Docs :
       d \notin task[t].server.astray => task[t].server.copy[d] # Garbage

NotOlder(text, than) ==
    Len(text) = 2 /\ Len(than) = 2
    /\ (text[1] > than[1] \/ (text[1] = than[1] /\ text[2] >= than[2]))

\* Once nothing about a document is on its way, the server holds the text the
\* queue last took (or a newer one a save brought): the debounce, a loss and a
\* replay lose nothing.
SyncedWhenQuiet ==
    slot # Nil =>
      LET c == task[slot.token] IN
      \A d \in slot.documents :
         \/ c.phase # "Running"
         \/ \E cmd \in Commands(slot.token) : cmd.doc = d
         \/ c.pending # Nil /\ c.pending.doc = d
         \/ d \in c.server.astray
         \/ c.replay[d] # Nil /\ c.replay[d].resync
         \/ NotOlder(c.server.copy[d], told[d]) /\ NotOlder(open[d], c.server.copy[d])

\* The replay set, once the queue is served, has every attached document: no
\* document the session calls attached is missed by the next reconnect.
AttachedIsReplayed ==
    slot # Nil =>
      LET q == task[slot.token].queue IN
      \A d \in slot.documents :
         LET marks == {i \in 1..Len(q) : q[i].doc = d /\ q[i].op \in {"open", "close"}} IN
         IF marks = {} THEN task[slot.token].replay[d] # Nil
         ELSE \E i \in marks : q[i].op = "open" /\ \A j \in marks : j <= i

\* A request a task took is in its queue or its flights, or was answered once.
AsksConserved ==
    \A a \in Asks :
       LET queued(t) == {i \in 1..Len(task[t].queue) :
                           task[t].queue[i].op \in {"hint", "request"}
                           /\ task[t].queue[i].ask = a}
           flying(t) == {p \in ({"deferred"} \X flights[t].deferred)
                               \cup ({"running"} \X flights[t].running) :
                           p[2].ask = a}
           places == UNION {{<<t, x>> : x \in queued(t)} : t \in Tokens}
           flown == UNION {{<<t, x>> : x \in flying(t)} : t \in Tokens} IN
       owed[a] = Cardinality(places) + Cardinality(flown)

\* At most one background request runs for a document at a time.
OneRunningPerDocument ==
    \A t \in Tokens : \A f, g \in flights[t].running :
       SameDocument(f, g) => f = g

\* With no report of its task on the way, a slot shows what its task is in,
\* whatever the tasks that held it before are still saying.
ShownStateIsTrue ==
    slot # Nil /\ (\A i \in 1..Len(updates) : updates[i].token # slot.token)
      => slot.runtime = task[slot.token].phase

\* A server that keeps dying on arrival, never comes up or keeps falling silent
\* is stopped by the circuit: connecting alone earns it nothing.
DeathsOpenTheCircuit ==
    \A t \in Tokens : storm[t].arrivals < RestartLimit /\ storm[t].silences < HangLimit

SeesItsText(t, f) ==
    LET c == task'[t] IN
    \/ c.replay[f.doc] = Nil \/ c.replay[f.doc].resync \/ f.doc \in c.server.astray
    \/ NotOlder(c.server.copy[f.doc], f.text)

\* A request goes to the server behind the edits it was asked about, whether it
\* forces the pending one out or waits for the debounce.
RequestsSeeTheirText ==
    [][\A t \in Tokens :
         /\ \A f \in flights'[t].running \ flights[t].running :
               SeesItsText(t, f)
         /\ Taking(t, {"request"}, {"Running"}) /\ task'[t].phase = "Running"
            /\ task'[t].queue = Tail(task[t].queue)
              => SeesItsText(t, Head(task[t].queue))]_vars

\* Every request is answered: by the server, by the task that has none, or by
\* the one that replaces, abandons or outlives it.
AsksAnswered == \A a \in Asks : owed[a] = 1 ~> owed[a] = 0

\* A task whose slot is gone ends, and its server with it.
RetiredTasksEnd ==
    \A t \in Tokens : (Born(t) /\ ~Holds(t)) ~> task[t].phase = "Ended"
=============================================================================
