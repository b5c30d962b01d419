------------------------ MODULE BrokerElectionProofs ------------------------
(***************************************************************************)
(* Proofs about BrokerElection: its types, the truth of launch verdicts    *)
(* under every interleaving, and mutual exclusion of brokers when no       *)
(* process acts inside a check-then-unlink window and no serving broker's  *)
(* lease grows stale.                                                      *)
(***************************************************************************)
EXTENDS BrokerElection, TLAPS

\* The next-state relation with its existential quantifiers gathered: a fact
\* preserved by each of these cases is preserved by Next.
LEMMA StepCases ==
    ASSUME Next
    PROVE  \/ \E c \in Connectors : ConnectorStep(c)
           \/ \E c \in Connectors : Crash(c)
           \/ \E b \in Brokers : BrokerStep(b)
           \/ \E b \in Brokers : Kill(b)
           \/ \E b \in Brokers : ReusePid(b)
           \/ AgeLease
  BY DEF Next

USE NoneIsNoProcess, FlagsAreBoolean, MaxCrashesIsNat

\* The empty lock file and the absent report are values of their types.
LEMMA AbsentFilesTyped == NoLease \in Lease /\ NoReport \in Report
  BY DEF NoLease, Lease, NoReport, Report, Pid

\* The initial state is well typed.
LEMMA InitTypeOK == Init => TypeOK
  BY DEF Init, TypeOK, NoReport, NoLease, Lease, Report, Pid, BrokerState,
         ConnectorState

\* Every step of a connector keeps the types.
LEMMA ConnectorTypeOK ==
    ASSUME TypeOK, NEW c \in Connectors, ConnectorStep(c)
    PROVE  TypeOK'
  <1> USE DEF TypeOK, Goto, Leave, files, brokerVars, connectorVars, Report,
              Pid, BrokerState, ConnectorState, NoReport
  <1>1. CASE Start(c)
    BY <1>1 DEF Start
  <1>2. CASE Connect(c)
    BY <1>2 DEF Connect
  <1>3. CASE FirstGreetFails(c)
    <2>1. report' \in Report
      BY <1>3, AbsentFilesTyped DEF FirstGreetFails
    <2> QED
      BY <1>3, <2>1 DEF FirstGreetFails
  <1>4. CASE GreetFails(c)
    BY <1>4 DEF GreetFails
  <1>5. CASE TakeLease(c)
    BY <1>5 DEF TakeLease, Lease, NoLease
  <1>6. CASE LoseElection(c)
    BY <1>6 DEF LoseElection
  <1>7. CASE ClearReport(c)
    BY <1>7 DEF ClearReport
  <1>8. CASE \E b \in Brokers : SpawnBroker(c, b)
    <2> PICK b \in Brokers : SpawnBroker(c, b)
      BY <1>8
    <2>1. lease' \in Lease
      BY DEF SpawnBroker, Lease
    <2>2. broker' \in [Brokers -> BrokerState] /\ pc' \in [Connectors -> ConnectorState]
      BY DEF SpawnBroker
    <2> QED
      BY <2>1, <2>2 DEF SpawnBroker
  <1>9. CASE SpawnFails(c)
    BY <1>9, AbsentFilesTyped DEF SpawnFails
  <1>10. CASE RecordOwner(c)
    BY <1>10 DEF RecordOwner, Lease
  <1>11. CASE LearnOwner(c)
    BY <1>11 DEF LearnOwner, Lease
  <1>12. CASE ReadReport(c)
    BY <1>12 DEF ReadReport
  <1>13. CASE Sleep(c) \/ Expire(c)
    BY <1>13 DEF Sleep, Expire
  <1>14. CASE GiveUpLease(c)
    <2>1. lease' \in Lease
      BY <1>14, AbsentFilesTyped DEF GiveUpLease
    <2>2. owner' \in [Connectors -> Pid] /\ child' \in [Connectors -> BOOLEAN]
      BY <1>14 DEF GiveUpLease
    <2> QED
      BY <1>14, <2>1, <2>2 DEF GiveUpLease
  <1>15. CASE KeepLease(c)
    BY <1>15 DEF KeepLease
  <1>16. CASE ReleaseLease(c)
    <2>1. lease' \in Lease
      BY <1>16, AbsentFilesTyped DEF ReleaseLease
    <2>2. owner' \in [Connectors -> Pid] /\ child' \in [Connectors -> BOOLEAN]
      BY <1>16 DEF ReleaseLease
    <2> QED
      BY <1>16, <2>1, <2>2 DEF ReleaseLease
  <1>17. CASE UnlinkLease(c)
    BY <1>17, AbsentFilesTyped DEF UnlinkLease
  <1>18. CASE Register(c) \/ Disconnect(c)
    BY <1>18 DEF Register, Disconnect
  <1> QED
    BY <1>1, <1>2, <1>3, <1>4, <1>5, <1>6, <1>7, <1>8, <1>9, <1>10, <1>11,
       <1>12, <1>13, <1>14, <1>15, <1>16, <1>17, <1>18 DEF ConnectorStep

\* Every step of a broker keeps the types.
LEMMA BrokerTypeOK ==
    ASSUME TypeOK, NEW b \in Brokers, BrokerStep(b)
    PROVE  TypeOK'
  <1> USE DEF TypeOK, Become, Return, files, brokerVars, connectorVars, Pid,
              BrokerState
  <1>1. CASE Publish(b)
    BY <1>1 DEF Publish
  <1>2. CASE SetupFails(b)
    BY <1>2 DEF SetupFails
  <1>3. CASE Serve(b)
    BY <1>3 DEF Serve
  <1>4. CASE \E o \in {"ok", "closed", "io"} : StopAccepting(b, o)
    BY <1>4 DEF StopAccepting
  <1>5. CASE ServerReaped(b)
    BY <1>5 DEF ServerReaped
  <1>6. CASE WriteReport(b)
    <2>1. broker' \in [Brokers -> BrokerState]
      BY <1>6 DEF WriteReport
    <2>2. CASE report' = [pid |-> b, ran |-> outcome[b] = "closed"]
      <3>1. report' \in Report
        BY <2>2 DEF Report
      <3> QED
        BY <1>6, <2>1, <3>1 DEF WriteReport
    <2>3. CASE UNCHANGED report
      BY <1>6, <2>1, <2>3 DEF WriteReport
    <2>4. \/ report' = [pid |-> b, ran |-> outcome[b] = "closed"]
          \/ UNCHANGED report
      BY <1>6, Zenon DEF WriteReport
    <2> QED
      BY <2>2, <2>3, <2>4, Zenon
  <1>7. CASE ReleaseEndpoint(b)
    BY <1>7 DEF ReleaseEndpoint
  <1>8. CASE RemoveEndpoint(b)
    BY <1>8 DEF RemoveEndpoint
  <1>9. CASE ReleaseOwnLease(b)
    <2>1. lease' \in Lease
      BY <1>9, AbsentFilesTyped DEF ReleaseOwnLease
    <2> QED
      BY <1>9, <2>1 DEF ReleaseOwnLease
  <1>10. CASE RemoveOwnLease(b)
    BY <1>10, AbsentFilesTyped DEF RemoveOwnLease
  <1> QED
    BY <1>1, <1>2, <1>3, <1>4, <1>5, <1>6, <1>7, <1>8, <1>9, <1>10
       DEF BrokerStep

\* Every step keeps the types.
LEMMA NextTypeOK == TypeOK /\ [Next]_vars => TypeOK'
  <1> SUFFICES ASSUME TypeOK, [Next]_vars PROVE TypeOK'
    OBVIOUS
  <1> USE DEF TypeOK, files, brokerVars, connectorVars, Pid, BrokerState
  <1>1. CASE \E c \in Connectors : ConnectorStep(c)
    BY <1>1, ConnectorTypeOK
  <1>2. CASE \E b \in Brokers : BrokerStep(b)
    BY <1>2, BrokerTypeOK
  <1>3. CASE \E c \in Connectors : Crash(c)
    BY <1>3 DEF Crash, Leave, Goto, ConnectorState
  <1>4. CASE \E b \in Brokers : Kill(b)
    BY <1>4 DEF Kill, Become
  <1>5. CASE \E b \in Brokers : ReusePid(b)
    BY <1>5 DEF ReusePid, Become, Return
  <1>6. CASE AgeLease
    BY <1>6 DEF AgeLease, Lease
  <1>7. CASE UNCHANGED vars
    BY <1>7 DEF vars
  <1> QED
    BY <1>1, <1>2, <1>3, <1>4, <1>5, <1>6, <1>7, StepCases

\* The election files, the brokers and the connectors always have their types.
THEOREM TypeCorrect == Spec => []TypeOK
  <1>1. Init => TypeOK
    BY InitTypeOK
  <1>2. TypeOK /\ [Next]_vars => TypeOK'
    BY NextTypeOK
  <1> QED
    BY <1>1, <1>2, PTL DEF Spec

-----------------------------------------------------------------------------
(* Launch verdicts *)

\* A broker that has written its report, or never will.
Past == {"releasing", "rmEndpoint", "relLease", "rmLease", "gone"}

\* `ran` says of broker b what run_broker_inner returned in it.
Truthful(b, ran) ==
    /\ broker[b] \in Past
    /\ outcome[b] \in {"io", "closed"}
    /\ ran <=> outcome[b] = "closed"

OutcomeKnown ==
    \A b \in Brokers :
        /\ broker[b] = "draining" => outcome[b] \in {"ok", "io", "closed"}
        /\ broker[b] = "reporting" => outcome[b] \in {"io", "closed"}

ReportTruthful == \A b \in Brokers : report.pid = b => Truthful(b, report.ran)

VerdictTruthful ==
    \A c \in Connectors : \A b \in Brokers :
        verdict[c].pid = b =>
            /\ Truthful(b, verdict[c].ran)
            /\ pc[c] = "release" => owner[c] = b

\* A connector has no verdict before it has read a report.
NoVerdictYet ==
    \A c \in Connectors :
        Attempting(c) /\ pc[c] \notin {"release", "unlink"} =>
            verdict[c].pid = None

EvidenceInv ==
    /\ TypeOK
    /\ OutcomeKnown /\ ReportTruthful /\ VerdictTruthful /\ NoVerdictYet

\* A connector's step disturbs only what connectors say of brokers.
LEMMA ConnectorEvidence ==
    ASSUME EvidenceInv, NEW c \in Connectors, ConnectorStep(c)
    PROVE  EvidenceInv'
  <1> USE DEF TypeOK, EvidenceInv, OutcomeKnown, ReportTruthful, VerdictTruthful,
              NoVerdictYet, Truthful, Past, Attempting, Goto, Leave, files,
              brokerVars, connectorVars, Pid, BrokerState, ConnectorState
  <1>0. TypeOK'
    BY ConnectorTypeOK
  <1>a. NoReport.pid = None /\ NoReport \in Report
    BY AbsentFilesTyped DEF NoReport
  <1>1. CASE Start(c)
    BY <1>0, <1>1, <1>a DEF Start
  <1>2. CASE Connect(c)
    BY <1>0, <1>2 DEF Connect
  <1>3. CASE FirstGreetFails(c)
    BY <1>0, <1>3, <1>a DEF FirstGreetFails
  <1>4. CASE GreetFails(c)
    BY <1>0, <1>4 DEF GreetFails
  <1>5. CASE TakeLease(c) \/ LoseElection(c)
    BY <1>0, <1>5 DEF TakeLease, LoseElection
  <1>6. CASE ClearReport(c)
    BY <1>0, <1>6, <1>a DEF ClearReport
  <1>7. CASE \E b \in Brokers : SpawnBroker(c, b)
    <2> PICK b \in Brokers : SpawnBroker(c, b)
      BY <1>7
    <2>1. \A a \in Brokers : broker[a] \in Past => a # b /\ broker'[a] = broker[a]
      BY DEF SpawnBroker
    <2>2. OutcomeKnown' /\ ReportTruthful'
      BY <1>0, <2>1 DEF SpawnBroker
    <2>3. VerdictTruthful' /\ NoVerdictYet'
      BY <1>0, <2>1 DEF SpawnBroker
    <2> QED
      BY <1>0, <2>2, <2>3
  <1>8. CASE SpawnFails(c)
    BY <1>0, <1>8 DEF SpawnFails
  <1>9. CASE RecordOwner(c)
    BY <1>0, <1>9 DEF RecordOwner
  <1>10. CASE LearnOwner(c)
    BY <1>0, <1>10 DEF LearnOwner
  <1>11. CASE ReadReport(c)
    BY <1>0, <1>11 DEF ReadReport, Attributable
  <1>12. CASE Sleep(c) \/ Expire(c)
    BY <1>0, <1>12 DEF Sleep, Expire
  <1>13. CASE GiveUpLease(c) \/ KeepLease(c)
    BY <1>0, <1>13 DEF GiveUpLease, KeepLease
  <1>14. CASE ReleaseLease(c) \/ UnlinkLease(c)
    BY <1>0, <1>14 DEF ReleaseLease, UnlinkLease
  <1>15. CASE Register(c) \/ Disconnect(c)
    BY <1>0, <1>15 DEF Register, Disconnect
  <1> QED
    BY <1>1, <1>2, <1>3, <1>4, <1>5, <1>6, <1>7, <1>8, <1>9, <1>10, <1>11,
       <1>12, <1>13, <1>14, <1>15 DEF ConnectorStep

\* A broker reports on itself, after it has failed, and then never fails again.
LEMMA BrokerEvidence ==
    ASSUME EvidenceInv, NEW b \in Brokers, BrokerStep(b)
    PROVE  EvidenceInv'
  <1> USE DEF TypeOK, EvidenceInv, OutcomeKnown, ReportTruthful, VerdictTruthful,
              NoVerdictYet, Truthful, Past, Attempting, Become, Return, files,
              brokerVars, connectorVars, Pid, BrokerState
  <1>0. TypeOK'
    BY BrokerTypeOK
  <1>1. CASE Publish(b) \/ Serve(b)
    BY <1>0, <1>1 DEF Publish, Serve
  <1>2. CASE SetupFails(b)
    BY <1>0, <1>2 DEF SetupFails
  <1>3. CASE \E o \in {"ok", "closed", "io"} : StopAccepting(b, o)
    BY <1>0, <1>3 DEF StopAccepting
  <1>4. CASE ServerReaped(b)
    BY <1>0, <1>4 DEF ServerReaped
  <1>5. CASE WriteReport(b)
    <2>1. /\ broker[b] = "reporting"
          /\ broker' = [broker EXCEPT ![b] = "releasing"]
          /\ UNCHANGED <<outcome, verdict, pc, owner>>
      BY <1>5 DEF WriteReport
    <2>2. \A a \in Brokers : broker[a] \in Past => broker'[a] = broker[a]
      BY <2>1
    <2>3. OutcomeKnown'
      BY <2>1
    <2>4. ReportTruthful'
      <3>1. CASE report' = [pid |-> b, ran |-> outcome[b] = "closed"]
        <4>1. report'.pid = b /\ (report'.ran <=> outcome[b] = "closed")
          BY <3>1
        <4> QED
          BY <2>1, <4>1
      <3>2. CASE UNCHANGED report
        BY <2>1, <2>2, <3>2
      <3>3. \/ report' = [pid |-> b, ran |-> outcome[b] = "closed"]
            \/ UNCHANGED report
        BY <1>5, Zenon DEF WriteReport
      <3> QED
        BY <3>1, <3>2, <3>3, Zenon
    <2>5. VerdictTruthful' /\ NoVerdictYet'
      BY <2>1, <2>2
    <2> QED
      BY <1>0, <2>3, <2>4, <2>5
  <1>6. CASE ReleaseEndpoint(b) \/ RemoveEndpoint(b)
    BY <1>0, <1>6 DEF ReleaseEndpoint, RemoveEndpoint
  <1>7. CASE ReleaseOwnLease(b) \/ RemoveOwnLease(b)
    BY <1>0, <1>7 DEF ReleaseOwnLease, RemoveOwnLease
  <1> QED
    BY <1>1, <1>2, <1>3, <1>4, <1>5, <1>6, <1>7 DEF BrokerStep

\* EvidenceInv is inductive.
LEMMA EvidenceStep == EvidenceInv /\ [Next]_vars => EvidenceInv'
  <1> SUFFICES ASSUME EvidenceInv, [Next]_vars PROVE EvidenceInv'
    OBVIOUS
  <1>0. TypeOK'
    BY NextTypeOK DEF EvidenceInv
  <1> USE DEF TypeOK, EvidenceInv, OutcomeKnown, ReportTruthful, VerdictTruthful,
              NoVerdictYet, Truthful, Past, Attempting, files, brokerVars,
              connectorVars, Pid, BrokerState
  <1>1. CASE \E c \in Connectors : ConnectorStep(c)
    BY <1>1, ConnectorEvidence
  <1>2. CASE \E b \in Brokers : BrokerStep(b)
    BY <1>2, BrokerEvidence
  <1>3. CASE \E c \in Connectors : Crash(c)
    BY <1>0, <1>3 DEF Crash, Leave, Goto, ConnectorState
  <1>4. CASE \E b \in Brokers : Kill(b)
    BY <1>0, <1>4 DEF Kill, Become
  <1>5. CASE \E b \in Brokers : ReusePid(b)
    BY <1>0, <1>5 DEF ReusePid, Become, Return, Mentioned
  <1>6. CASE AgeLease
    BY <1>0, <1>6 DEF AgeLease
  <1>7. CASE UNCHANGED vars
    BY <1>0, <1>7 DEF vars
  <1> QED
    BY <1>1, <1>2, <1>3, <1>4, <1>5, <1>6, <1>7, StepCases

\* A launch verdict is always about a broker that failed, whatever files were
\* unlinked under whom: connect_observed accepts a report only from the broker
\* it elected or read from the lease.
THEOREM VerdictTruth == Spec => []VerdictIsTrue
  <1>1. Init => EvidenceInv
    <2> SUFFICES ASSUME Init PROVE EvidenceInv
      OBVIOUS
    <2>1. TypeOK
      BY InitTypeOK
    <2>2. NoReport.pid = None
      BY DEF NoReport
    <2> QED
      BY <2>1, <2>2 DEF Init, EvidenceInv, OutcomeKnown, ReportTruthful,
                        VerdictTruthful, NoVerdictYet, Attempting
  <1>2. EvidenceInv => VerdictIsTrue
    BY DEF EvidenceInv, VerdictTruthful, Truthful, VerdictIsTrue
  <1> QED
    BY <1>1, <1>2, EvidenceStep, PTL DEF Spec

-----------------------------------------------------------------------------
(* Mutual exclusion of brokers *)

\* The lock file stands for the only broker that may hold the key.
LeaseGuards == \A b \in Brokers : Holding(b) => lease.elected = b

\* Until it has spawned, the winner of an election owns a young, empty lease.
WinnerOwns ==
    \A c \in Connectors :
        pc[c] \in {"clear", "spawn"} =>
            lease.taker = c /\ lease.elected = None /\ lease.aged = FALSE

\* What the lock file says is the broker it stands for, or nothing.
LeaseNames ==
    /\ lease.owner \in {None, lease.elected}
    /\ ~Leased => lease.elected = None
    /\ \A c \in Connectors :
          pc[c] = "record" =>
              owner[c] # None /\ (lease.taker = c => lease.elected = owner[c])

\* The age backstop and a release are only reached once the broker is over.
GoneWhenReleased ==
    /\ lease.aged => ~LeaseInUse
    /\ \A c \in Connectors :
          pc[c] = "release" => owner[c] # None /\ ~Holding(owner[c])
    /\ \A c \in Connectors : child[c] => owner[c] # None

\* A process id nobody runs under is named by no live piece of state, and an
\* endpoint is written by a broker that has come that far.
PidsInUse ==
    /\ \A b \in Brokers :
          broker[b] = "unused" =>
              /\ b # lease.elected /\ b # endpoint
              /\ \A c \in Connectors : owner[c] # b
    /\ endpoint # None => broker[endpoint] # "starting"

\* With atomic unlinks nobody rests between a check and its unlink.
NoWindow ==
    /\ \A c \in Connectors : pc[c] # "unlink"
    /\ \A b \in Brokers : broker[b] \notin {"rmEndpoint", "rmLease"}

KeyInv ==
    /\ EvidenceInv
    /\ LeaseGuards /\ WinnerOwns /\ LeaseNames /\ GoneWhenReleased
    /\ PidsInUse /\ NoWindow /\ ListenerIsPublished

\* Under which nothing but the code above decides who holds the key.
Undisturbed == AtomicUnlink /\ ~LiveLeasesAge

\* Steps of a connector that leave the lease and the brokers alone.
LEMMA ConnectorKeyQuiet ==
    ASSUME Undisturbed, KeyInv, NEW c \in Connectors,
           \/ Start(c) \/ Connect(c) \/ FirstGreetFails(c) \/ GreetFails(c)
           \/ LoseElection(c) \/ ClearReport(c) \/ LearnOwner(c)
           \/ ReadReport(c) \/ Sleep(c) \/ Expire(c) \/ KeepLease(c)
           \/ Register(c) \/ Disconnect(c)
    PROVE  KeyInv'
  <1> USE DEF KeyInv, LeaseGuards, WinnerOwns, LeaseNames, GoneWhenReleased,
              PidsInUse, NoWindow, ListenerIsPublished, Holding, Listening,
              Leased, LeaseInUse, Goto, Leave, files, brokerVars
  <1>0. EvidenceInv'
    BY ConnectorEvidence DEF ConnectorStep
  <1>t. /\ pc \in [Connectors -> ConnectorState] /\ owner \in [Connectors -> Pid]
        /\ child \in [Connectors -> BOOLEAN] /\ None \notin Brokers
        /\ broker \in [Brokers -> BrokerState]
    BY DEF EvidenceInv, TypeOK
  <1>1. CASE Start(c)
    BY <1>0, <1>t, <1>1 DEF Start
  <1>2. CASE Connect(c)
    BY <1>0, <1>t, <1>2 DEF Connect
  <1>3. CASE FirstGreetFails(c)
    BY <1>0, <1>t, <1>3 DEF FirstGreetFails
  <1>4. CASE GreetFails(c)
    BY <1>0, <1>t, <1>4 DEF GreetFails
  <1>5. CASE LoseElection(c)
    BY <1>0, <1>t, <1>5 DEF LoseElection
  <1>6. CASE ClearReport(c)
    BY <1>0, <1>t, <1>6 DEF ClearReport
  <1>7. CASE LearnOwner(c)
    BY <1>0, <1>t, <1>7 DEF LearnOwner
  <1>8. CASE ReadReport(c)
    <2>1. Attributable(c) => owner[c] # None /\ ~Holding(owner[c])
      BY <1>t DEF Attributable, EvidenceInv, ReportTruthful, Truthful, Past, Pid
    <2> QED
      BY <1>0, <1>t, <1>8, <2>1 DEF ReadReport
  <1>9. CASE Sleep(c) \/ Expire(c)
    BY <1>0, <1>t, <1>9 DEF Sleep, Expire
  <1>10. CASE KeepLease(c)
    BY <1>0, <1>t, <1>10 DEF KeepLease
  <1>11. CASE Register(c) \/ Disconnect(c)
    BY <1>0, <1>t, <1>11 DEF Register, Disconnect
  <1> QED
    BY <1>1, <1>2, <1>3, <1>4, <1>5, <1>6, <1>7, <1>8, <1>9, <1>10, <1>11

\* The steps of an election that write the lease.
LEMMA ConnectorKeyElect ==
    ASSUME Undisturbed, KeyInv, NEW c \in Connectors,
           \/ TakeLease(c) \/ (\E b \in Brokers : SpawnBroker(c, b))
           \/ SpawnFails(c) \/ RecordOwner(c)
    PROVE  KeyInv'
  <1> USE DEF KeyInv, LeaseGuards, WinnerOwns, LeaseNames, GoneWhenReleased,
              PidsInUse, NoWindow, ListenerIsPublished, Holding, Listening,
              Leased, LeaseInUse, Goto, Leave, files, brokerVars, NoLease
  <1>0. EvidenceInv'
    BY ConnectorEvidence DEF ConnectorStep
  <1>t. /\ pc \in [Connectors -> ConnectorState] /\ owner \in [Connectors -> Pid]
        /\ child \in [Connectors -> BOOLEAN] /\ None \notin Brokers
        /\ broker \in [Brokers -> BrokerState] /\ None \notin Connectors
        /\ lease \in Lease
    BY DEF EvidenceInv, TypeOK
  <1>1. CASE TakeLease(c)
    BY <1>0, <1>t, <1>1 DEF TakeLease
  <1>2. CASE \E b \in Brokers : SpawnBroker(c, b)
    <2> PICK b \in Brokers : SpawnBroker(c, b)
      BY <1>2
    <2>1. /\ lease.taker = c /\ lease.elected = None /\ lease.aged = FALSE
          /\ lease.owner = None /\ broker[b] = "unused"
          /\ pc[c] = "spawn"
      BY DEF SpawnBroker
    <2>2. /\ lease' = [lease EXCEPT !.elected = b]
          /\ broker' = [broker EXCEPT ![b] = "starting"]
          /\ pc' = [pc EXCEPT ![c] = "record"]
          /\ owner' = [owner EXCEPT ![c] = b]
          /\ child' = [child EXCEPT ![c] = TRUE]
          /\ endpoint' = endpoint
      BY <2>1 DEF SpawnBroker
    <2>3. lease'.elected = b /\ lease'.taker = c /\ lease'.owner = None /\ lease'.aged = FALSE
      BY <2>1, <2>2, <1>t DEF Lease
    <2>4. \A a \in Brokers : Holding(a)' => a = b
      BY <2>1, <2>2, <1>t
    <2>5. LeaseGuards' /\ WinnerOwns'
      BY <2>1, <2>2, <2>3, <2>4, <1>t
    <2>6. LeaseNames'
      BY <2>1, <2>2, <2>3, <1>t
    <2>7. GoneWhenReleased'
      BY <2>1, <2>2, <2>3, <1>t
    <2>8. PidsInUse' /\ NoWindow' /\ ListenerIsPublished'
      BY <2>1, <2>2, <2>3, <1>t
    <2> QED
      BY <1>0, <2>5, <2>6, <2>7, <2>8
  <1>3. CASE SpawnFails(c)
    BY <1>0, <1>t, <1>3 DEF SpawnFails
  <1>4. CASE RecordOwner(c)
    BY <1>0, <1>t, <1>4 DEF RecordOwner, Lease
  <1> QED
    BY <1>1, <1>2, <1>3, <1>4

\* The steps of a connector that give the lease up.
LEMMA ConnectorKeyRelease ==
    ASSUME Undisturbed, KeyInv, NEW c \in Connectors,
           GiveUpLease(c) \/ ReleaseLease(c) \/ UnlinkLease(c)
    PROVE  KeyInv'
  <1> USE DEF KeyInv, LeaseGuards, WinnerOwns, LeaseNames, GoneWhenReleased,
              PidsInUse, NoWindow, ListenerIsPublished, Holding, Listening,
              Leased, LeaseInUse, Goto, Leave, files, brokerVars, NoLease,
              Undisturbed
  <1>0. EvidenceInv'
    BY ConnectorEvidence DEF ConnectorStep
  <1>t. /\ pc \in [Connectors -> ConnectorState] /\ owner \in [Connectors -> Pid]
        /\ child \in [Connectors -> BOOLEAN] /\ None \notin Brokers
        /\ broker \in [Brokers -> BrokerState] /\ None \notin Connectors
        /\ lease \in Lease /\ endpoint \in Pid
    BY DEF EvidenceInv, TypeOK
  <1>1. CASE GiveUpLease(c)
    <2>1. CASE owner[c] # None
      <3>1. ~Holding(owner[c])
        BY <1>1, <2>1, <1>t DEF GiveUpLease, LeaseIsDead, ChildExited,
           AnsweredByStranger, LeaseIsAbandoned, Greeting, Pid
      <3> QED
        BY <1>0, <1>1, <2>1, <3>1, <1>t DEF GiveUpLease
    <2>2. CASE owner[c] = None
      <3>1. /\ lease' = NoLease
            /\ pc' = [pc EXCEPT ![c] = "idle"]
            /\ owner' = [owner EXCEPT ![c] = None]
            /\ child' = [child EXCEPT ![c] = FALSE]
            /\ broker' = broker /\ endpoint' = endpoint
        BY <1>1, <2>2 DEF GiveUpLease
      <3>2. lease.aged \/ lease.taker = None
        BY <1>1, <2>2, <1>t DEF GiveUpLease, LeaseIsDead, ChildExited,
           AnsweredByStranger, LeaseIsAbandoned
      <3>3. \A b \in Brokers : ~Holding(b)
        BY <3>2, <1>t
      <3>4. \A d \in Connectors : pc[d] \notin {"clear", "spawn"}
        BY <3>2, <1>t
      <3> QED
        BY <1>0, <3>1, <3>3, <3>4, <1>t
    <2> QED
      BY <2>1, <2>2
  <1>2. CASE ReleaseLease(c)
    <2>1. CASE lease.owner # owner[c]
      BY <1>0, <1>2, <2>1, <1>t DEF ReleaseLease
    <2>2. CASE lease.owner = owner[c]
      <3>1. /\ lease' = NoLease
            /\ pc' = [pc EXCEPT ![c] = "idle"]
            /\ owner' = [owner EXCEPT ![c] = None]
            /\ child' = [child EXCEPT ![c] = FALSE]
            /\ broker' = broker /\ endpoint' = endpoint
        BY <1>2, <2>2 DEF ReleaseLease
      <3>2. owner[c] # None /\ lease.elected = owner[c] /\ ~Holding(owner[c])
        BY <1>2, <2>2, <1>t DEF ReleaseLease
      <3>3. \A b \in Brokers : ~Holding(b)
        BY <3>2, <1>t
      <3>4. \A d \in Connectors : pc[d] \notin {"clear", "spawn"}
        BY <3>2, <1>t
      <3> QED
        BY <1>0, <3>1, <3>3, <3>4, <1>t
    <2> QED
      BY <2>1, <2>2
  <1>3. CASE UnlinkLease(c)
    BY <1>3 DEF UnlinkLease
  <1> QED
    BY <1>1, <1>2, <1>3

\* The steps of a broker.
LEMMA BrokerKey ==
    ASSUME Undisturbed, KeyInv, NEW b \in Brokers, BrokerStep(b)
    PROVE  KeyInv'
  <1> USE DEF KeyInv, LeaseGuards, WinnerOwns, LeaseNames, GoneWhenReleased,
              PidsInUse, NoWindow, ListenerIsPublished, Holding, Listening,
              Leased, LeaseInUse, Become, files, connectorVars, NoLease,
              Undisturbed
  <1>0. EvidenceInv'
    BY BrokerEvidence
  <1>t. /\ pc \in [Connectors -> ConnectorState] /\ owner \in [Connectors -> Pid]
        /\ None \notin Brokers /\ lease \in Lease
        /\ broker \in [Brokers -> BrokerState] /\ None \notin Connectors
        /\ endpoint \in Pid
    BY DEF EvidenceInv, TypeOK
  <1>1. CASE Publish(b)
    BY <1>0, <1>1, <1>t DEF Publish
  <1>2. CASE SetupFails(b)
    BY <1>0, <1>2, <1>t DEF SetupFails
  <1>3. CASE Serve(b)
    BY <1>0, <1>3, <1>t DEF Serve
  <1>4. CASE \E o \in {"ok", "closed", "io"} : StopAccepting(b, o)
    BY <1>0, <1>4, <1>t DEF StopAccepting
  <1>5. CASE ServerReaped(b)
    BY <1>0, <1>5, <1>t DEF ServerReaped
  <1>6. CASE WriteReport(b)
    BY <1>0, <1>6, <1>t DEF WriteReport
  <1>7. CASE ReleaseEndpoint(b)
    <2>1. /\ lease' = lease /\ pc' = pc /\ owner' = owner /\ child' = child
          /\ broker[b] = "releasing"
          /\ broker' = [broker EXCEPT ![b] = "relLease"]
          /\ endpoint' = endpoint \/ (endpoint = b /\ endpoint' = None)
      <3>1. /\ lease' = lease /\ pc' = pc /\ owner' = owner /\ child' = child
            /\ broker[b] = "releasing"
        BY <1>7 DEF ReleaseEndpoint
      <3>2. CASE endpoint # b
        BY <1>7, <3>1, <3>2 DEF ReleaseEndpoint
      <3>3. CASE endpoint = b
        BY <1>7, <3>1, <3>3 DEF ReleaseEndpoint
      <3> QED
        BY <3>2, <3>3
    <2>2. ListenerIsPublished' /\ PidsInUse'
      BY <2>1, <1>t
    <2>3. LeaseGuards' /\ WinnerOwns' /\ LeaseNames' /\ GoneWhenReleased' /\ NoWindow'
      BY <2>1, <1>t
    <2> QED
      BY <1>0, <2>2, <2>3
  <1>8. CASE RemoveEndpoint(b) \/ RemoveOwnLease(b)
    BY <1>8 DEF RemoveEndpoint, RemoveOwnLease
  <1>9. CASE ReleaseOwnLease(b)
    <2>1. CASE lease.owner # b
      <3>1. /\ lease' = lease /\ broker' = [broker EXCEPT ![b] = "gone"]
            /\ pc' = pc /\ owner' = owner /\ child' = child /\ endpoint' = endpoint
            /\ broker[b] = "relLease"
        BY <1>9, <2>1 DEF ReleaseOwnLease
      <3> QED
        BY <1>0, <3>1, <1>t
    <2>2. CASE lease.owner = b
      <3>1. /\ lease' = NoLease /\ broker' = [broker EXCEPT ![b] = "gone"]
            /\ pc' = pc /\ owner' = owner /\ child' = child /\ endpoint' = endpoint
        BY <1>9, <2>2 DEF ReleaseOwnLease
      <3>2. lease.elected = b /\ broker[b] = "relLease"
        BY <1>9, <2>2, <1>t DEF ReleaseOwnLease
      <3>3. \A a \in Brokers : ~Holding(a)
        BY <3>2, <1>t
      <3>4. \A d \in Connectors : pc[d] \notin {"clear", "spawn"}
        BY <3>2, <1>t
      <3> QED
        BY <1>0, <3>1, <3>3, <3>4, <1>t
    <2> QED
      BY <2>1, <2>2
  <1> QED
    BY <1>1, <1>2, <1>3, <1>4, <1>5, <1>6, <1>7, <1>8, <1>9 DEF BrokerStep

\* KeyInv is inductive when nothing disturbs the files.
LEMMA KeyStep == Undisturbed => (KeyInv /\ [Next]_vars => KeyInv')
  <1> SUFFICES ASSUME Undisturbed, KeyInv, [Next]_vars PROVE KeyInv'
    OBVIOUS
  <1>0. EvidenceInv'
    BY EvidenceStep DEF KeyInv
  <1>t. /\ pc \in [Connectors -> ConnectorState] /\ owner \in [Connectors -> Pid]
        /\ child \in [Connectors -> BOOLEAN]
        /\ None \notin Brokers /\ lease \in Lease
        /\ broker \in [Brokers -> BrokerState] /\ None \notin Connectors
        /\ endpoint \in Pid
    BY DEF KeyInv, EvidenceInv, TypeOK
  <1>1. CASE \E c \in Connectors : ConnectorStep(c)
    BY <1>1, ConnectorKeyQuiet, ConnectorKeyElect, ConnectorKeyRelease
       DEF ConnectorStep
  <1>2. CASE \E b \in Brokers : BrokerStep(b)
    BY <1>2, BrokerKey
  <1> USE DEF KeyInv, LeaseGuards, WinnerOwns, LeaseNames, GoneWhenReleased,
              PidsInUse, NoWindow, ListenerIsPublished, Holding, Listening,
              Leased, LeaseInUse, files, brokerVars, connectorVars
  <1>3. CASE \E c \in Connectors : Crash(c)
    BY <1>0, <1>3, <1>t DEF Crash, Leave, Goto
  <1>4. CASE \E b \in Brokers : Kill(b)
    BY <1>0, <1>4, <1>t DEF Kill, Become
  <1>5. CASE \E b \in Brokers : ReusePid(b)
    BY <1>0, <1>5, <1>t DEF ReusePid, Become, Mentioned
  <1>6. CASE AgeLease
    BY <1>0, <1>6, <1>t DEF AgeLease, Undisturbed, Attempting, Lease
  <1>7. CASE UNCHANGED vars
    BY <1>0, <1>7 DEF vars
  <1> QED
    BY <1>1, <1>2, <1>3, <1>4, <1>5, <1>6, <1>7, StepCases

\* KeyInv holds initially.
LEMMA KeyInit == Init => KeyInv
  <1> SUFFICES ASSUME Init PROVE KeyInv
    OBVIOUS
  <1>1. EvidenceInv
    BY InitTypeOK DEF Init, EvidenceInv, OutcomeKnown, ReportTruthful,
                      VerdictTruthful, NoVerdictYet, Attempting, NoReport
  <1> QED
    BY <1>1 DEF Init, KeyInv, LeaseGuards, WinnerOwns, LeaseNames,
       GoneWhenReleased, PidsInUse, NoWindow, ListenerIsPublished, Holding,
       Listening, Leased, LeaseInUse, NoLease

\* When no process acts inside a check-then-unlink window and a serving
\* broker's lease is never mistaken for an abandoned one, one key never has two
\* brokers, whatever crashes, is killed, fails or is slow.
THEOREM Exclusion == ASSUME Undisturbed PROVE Spec => []SingleBroker
  <1>1. KeyInv => SingleBroker
    BY DEF KeyInv, LeaseGuards, SingleBroker
  <1>2. KeyInv /\ [Next]_vars => KeyInv'
    BY KeyStep
  <1> QED
    BY <1>1, <1>2, KeyInit, PTL DEF Spec

\* Under the same conditions a listening broker stays the published one until
\* it stops listening.
THEOREM Reachability == ASSUME Undisturbed PROVE Spec => []ListenerIsPublished
  <1>1. KeyInv => ListenerIsPublished
    BY DEF KeyInv
  <1>2. KeyInv /\ [Next]_vars => KeyInv'
    BY KeyStep
  <1> QED
    BY <1>1, <1>2, KeyInit, PTL DEF Spec

-----------------------------------------------------------------------------
(* The election implements KeyOwner *)

\* A step moves at most one broker process.
LEMMA OneBrokerMoves ==
    ASSUME TypeOK, [Next]_vars
    PROVE  \E b \in Brokers \cup {None} :
              \A a \in Brokers : a # b => broker'[a] = broker[a]
  <1> USE DEF TypeOK, Become, files, brokerVars, connectorVars
  <1>1. CASE \E c \in Connectors : ConnectorStep(c)
    <2> PICK c \in Connectors : ConnectorStep(c)
      BY <1>1
    <2>1. CASE \E b \in Brokers : SpawnBroker(c, b)
      BY <2>1 DEF SpawnBroker
    <2>2. CASE ~\E b \in Brokers : SpawnBroker(c, b)
      <3>1. broker' = broker
        BY <2>2 DEF ConnectorStep, Start, Connect, FirstGreetFails, GreetFails,
           TakeLease, LoseElection, ClearReport, SpawnFails, RecordOwner,
           LearnOwner, ReadReport, Sleep, Expire, GiveUpLease, KeepLease,
           ReleaseLease, UnlinkLease, Register, Disconnect
      <3> QED
        BY <3>1
    <2> QED
      BY <2>1, <2>2
  <1>2. CASE \E b \in Brokers : BrokerStep(b)
    BY <1>2 DEF BrokerStep, Publish, SetupFails, Serve, StopAccepting,
       ServerReaped, WriteReport, ReleaseEndpoint, RemoveEndpoint,
       ReleaseOwnLease, RemoveOwnLease
  <1>3. CASE \E c \in Connectors : Crash(c)
    BY <1>3 DEF Crash
  <1>4. CASE \E b \in Brokers : Kill(b) \/ ReusePid(b)
    BY <1>4 DEF Kill, ReusePid
  <1>5. CASE AgeLease \/ UNCHANGED vars
    BY <1>5 DEF AgeLease, vars
  <1> QED
    BY <1>1, <1>2, <1>3, <1>4, <1>5, StepCases

\* The holder is the one holding broker, when there is one.
LEMMA HolderIs ==
    ASSUME SingleBroker, NEW b \in Brokers
    PROVE  Holding(b) <=> Holder = b
  BY DEF SingleBroker, Holder

\* Every behaviour of the election is one of KeyOwner: a key changes hands only
\* through nobody's.
THEOREM ImplementsKeyOwner == ASSUME Undisturbed PROVE Spec => KeyHasOneOwner
  <1>1. Init => Key!Init
    BY DEF Init, Key!Init, Holder, Holding, Listening
  <1>2. KeyInv /\ KeyInv' /\ [Next]_vars => [Key!Next]_Holder
    <2> SUFFICES ASSUME KeyInv, KeyInv', [Next]_vars PROVE [Key!Next]_Holder
      OBVIOUS
    <2>1. SingleBroker /\ SingleBroker'
      BY DEF KeyInv, LeaseGuards, SingleBroker
    <2>2. \A b \in Brokers : Holding(b) <=> Holder = b
      BY <2>1, HolderIs
    <2>3. \A b \in Brokers : Holding(b)' <=> Holder' = b
      BY <2>1 DEF SingleBroker, Holder
    <2>4. Holder \in Brokers \cup {None} /\ Holder' \in Brokers \cup {None}
      BY DEF Holder
    <2>5. PICK m \in Brokers \cup {None} :
              \A a \in Brokers : a # m => Holding(a)' = Holding(a)
      BY OneBrokerMoves DEF KeyInv, EvidenceInv, Holding
    <2> QED
      BY <2>2, <2>3, <2>4, <2>5 DEF Key!Next, Key!Acquire, Key!Resign
  <1>3. KeyInv /\ [Next]_vars => KeyInv'
    BY KeyStep
  <1> QED
    BY <1>1, <1>2, <1>3, KeyInit, PTL DEF Spec, Key!Spec, KeyHasOneOwner
=============================================================================
