--------------------------- MODULE BrokerElection ---------------------------
(***************************************************************************)
(* Election of the hidden broker process of one key                        *)
(* (karet-supervisor/src/broker/{lease,serve,failure,endpoint}.rs).        *)
(*                                                                         *)
(* Connectors are client processes running connect_observed; brokers are   *)
(* the hidden processes running run_broker.  They share three files:       *)
(*   {key}.lock   `lease`     created O_EXCL, filled in by its taker later *)
(*   {key}.json   `endpoint`  the published address, as the pid it names   *)
(*   {key}.error  `report`    why a broker gave up                         *)
(*                                                                         *)
(* Time is abstract: a deadline may expire, a greeting may go unanswered   *)
(* and an idle period may elapse whenever the code lets it.                *)
(***************************************************************************)
EXTENDS Naturals

CONSTANTS
    Connectors,     \* client processes that want the brokered server
    Brokers,        \* process ids a broker can have
    None,           \* no process
    AtomicUnlink,   \* nobody acts between the check and the unlink of a file
    LiveLeasesAge,  \* the lease of a serving broker gets as old as STALE_LEASE
    MaxCrashes      \* bound on connector crashes

ASSUME NoneIsNoProcess == None \notin Brokers /\ None \notin Connectors
ASSUME FlagsAreBoolean == AtomicUnlink \in BOOLEAN /\ LiveLeasesAge \in BOOLEAN
ASSUME MaxCrashesIsNat == MaxCrashes \in Nat

VARIABLES
    lease,      \* the lock file: who created it, whom it names, its age
    endpoint,   \* the pid in the endpoint file
    report,     \* the failure report
    broker,     \* where each broker process is
    outcome,    \* what run_broker_inner returned in it
    pc,         \* where each connector is
    owner,      \* the broker a connector elected or read from the lease
    child,      \* whether that broker is the connector's own child
    peer,       \* the broker that acknowledged the connector
    verdict,    \* the report returned as BrokerError::Launch
    crashes     \* connector crashes so far (bounds the model)

connectorVars == <<pc, owner, child, peer, verdict>>
brokerVars == <<broker, outcome>>
files == <<lease, endpoint, report>>
vars == <<files, brokerVars, connectorVars, crashes>>

Pid == Brokers \cup {None}
Report == [pid : Pid, ran : BOOLEAN]
Lease == [taker : Connectors \cup {None}, owner : Pid, elected : Pid,
          aged : BOOLEAN]
BrokerState == {"unused", "starting", "published", "serving", "draining",
                "reporting", "releasing", "rmEndpoint", "relLease", "rmLease",
                "gone"}
ConnectorState == {"idle", "first", "elect", "clear", "spawn", "record",
                   "greet", "learn", "report", "deadline", "abandon",
                   "release", "unlink", "acked", "client"}

NoReport == [pid |-> None, ran |-> FALSE]
NoLease == [taker |-> None, owner |-> None, elected |-> None, aged |-> FALSE]
Leased == lease.taker # None

Listening == {"published", "serving", "draining"}

\* A broker between its spawn and the return of run_broker_inner: it owns, or
\* is about to own, a server process.
Holding(b) == broker[b] \in {"starting"} \cup Listening

Init ==
    /\ lease = NoLease
    /\ endpoint = None
    /\ report = NoReport
    /\ broker = [b \in Brokers |-> "unused"]
    /\ outcome = [b \in Brokers |-> "none"]
    /\ pc = [c \in Connectors |-> "idle"]
    /\ owner = [c \in Connectors |-> None]
    /\ child = [c \in Connectors |-> FALSE]
    /\ peer = [c \in Connectors |-> None]
    /\ verdict = [c \in Connectors |-> NoReport]
    /\ crashes = 0

-----------------------------------------------------------------------------
(* Greeting the published endpoint *)

\* What greet can conclude about the address b published.  Only a broker in
\* its accept loop acknowledges; a listener that is bound but not accepting is
\* silent; an address nobody listens on refuses, or was recycled by a listener
\* that answers something else (Stranger) or nothing at all (Unproven).
Greeting(b) ==
    {"unproven"} \cup
    (IF broker[b] = "serving" THEN {"broker"} ELSE {}) \cup
    (IF broker[b] \notin Listening THEN {"stranger"} ELSE {})

Goto(c, at) == pc' = [pc EXCEPT ![c] = at]

\* connect_observed returns (or its process dies): its locals are dropped.
Leave(c, at) ==
    /\ Goto(c, at)
    /\ owner' = [owner EXCEPT ![c] = None]
    /\ child' = [child EXCEPT ![c] = FALSE]

\* A connector inside connect_observed.
Attempting(c) == pc[c] \notin {"idle", "acked", "client"}

Start(c) ==
    /\ pc[c] = "idle"
    /\ Goto(c, "first")
    /\ verdict' = [verdict EXCEPT ![c] = NoReport]
    /\ UNCHANGED <<files, brokerVars, owner, child, peer, crashes>>

\* connect_existing succeeds, before the election or while waiting.
Connect(c) ==
    /\ pc[c] \in {"first", "greet"}
    /\ endpoint # None
    /\ "broker" \in Greeting(endpoint)
    /\ Leave(c, "acked")
    /\ peer' = [peer EXCEPT ![c] = endpoint]
    /\ UNCHANGED <<files, brokerVars, verdict, crashes>>

\* An hour-old report is nobody's any more: no connector still waits for it.
Unclaimed(r) == \A c \in Connectors : owner[c] # r.pid

\* connect_existing finds nobody; before the election, failure::sweep follows.
FirstGreetFails(c) ==
    /\ pc[c] = "first"
    /\ Goto(c, "elect")
    /\ \/ UNCHANGED report
       \/ Unclaimed(report) /\ report' = NoReport
    /\ UNCHANGED <<lease, endpoint, brokerVars, owner, child, peer, verdict,
                   crashes>>

GreetFails(c) ==
    /\ pc[c] = "greet"
    /\ Goto(c, "learn")
    /\ UNCHANGED <<files, brokerVars, owner, child, peer, verdict, crashes>>

-----------------------------------------------------------------------------
(* The election *)

TakeLease(c) ==
    /\ pc[c] = "elect"
    /\ ~Leased
    /\ lease' = [NoLease EXCEPT !.taker = c]
    /\ Goto(c, "clear")
    /\ UNCHANGED <<endpoint, report, brokerVars, owner, child, peer, verdict,
                   crashes>>

LoseElection(c) ==
    /\ pc[c] = "elect"
    /\ Leased
    /\ Goto(c, "greet")
    /\ UNCHANGED <<files, brokerVars, owner, child, peer, verdict, crashes>>

ClearReport(c) ==
    /\ pc[c] = "clear"
    /\ report' = NoReport
    /\ Goto(c, "spawn")
    /\ UNCHANGED <<lease, endpoint, brokerVars, owner, child, peer, verdict,
                   crashes>>

\* `elected` is a history field: whose spawn this lock file stands for.
SpawnBroker(c, b) ==
    /\ pc[c] = "spawn"
    /\ broker[b] = "unused"
    /\ broker' = [broker EXCEPT ![b] = "starting"]
    /\ lease' = IF lease.taker = c THEN [lease EXCEPT !.elected = b] ELSE lease
    /\ owner' = [owner EXCEPT ![c] = b]
    /\ child' = [child EXCEPT ![c] = TRUE]
    /\ Goto(c, "record")
    /\ UNCHANGED <<endpoint, report, outcome, peer, verdict, crashes>>

SpawnFails(c) ==
    /\ pc[c] = "spawn"
    /\ lease' = NoLease
    /\ Leave(c, "idle")
    /\ UNCHANGED <<endpoint, report, brokerVars, peer, verdict, crashes>>

\* record_owner writes through the open file: if the lock was unlinked in the
\* meantime the pid lands in a file nobody can read.
RecordOwner(c) ==
    /\ pc[c] = "record"
    /\ lease' = IF lease.taker = c
                THEN [lease EXCEPT !.owner = owner[c], !.aged = FALSE]
                ELSE lease
    /\ Goto(c, "greet")
    /\ UNCHANGED <<endpoint, report, brokerVars, owner, child, peer, verdict,
                   crashes>>

-----------------------------------------------------------------------------
(* Waiting for the broker to publish, to report, or for the deadline *)

LearnOwner(c) ==
    /\ pc[c] = "learn"
    /\ owner' = [owner EXCEPT ![c] = IF @ = None THEN lease.owner ELSE @]
    /\ Goto(c, "report")
    /\ UNCHANGED <<files, brokerVars, child, peer, verdict, crashes>>

\* Bug: any report found while waiting counts.
AttributeAny(c) == owner[c] # None /\ report.pid # None

\* Only the elected broker's own report counts.
Attributable(c) == owner[c] # None /\ report.pid = owner[c]

ReadReport(c) ==
    /\ pc[c] = "report"
    /\ IF Attributable(c)
       THEN /\ verdict' = [verdict EXCEPT ![c] = report]
            /\ Goto(c, "release")
       ELSE /\ Goto(c, "deadline")
            /\ UNCHANGED verdict
    /\ UNCHANGED <<files, brokerVars, owner, child, peer, crashes>>

Sleep(c) ==
    /\ pc[c] = "deadline"
    /\ Goto(c, "greet")
    /\ UNCHANGED <<files, brokerVars, owner, child, peer, verdict, crashes>>

Expire(c) ==
    /\ pc[c] = "deadline"
    /\ Goto(c, "abandon")
    /\ UNCHANGED <<files, brokerVars, owner, child, peer, verdict, crashes>>

\* lease_is_dead: the own child exited, or the published endpoint of the owner
\* was answered by a stranger.
ChildExited(c) == child[c] /\ broker[owner[c]] = "gone"
AnsweredByStranger(c) ==
    /\ owner[c] # None
    /\ endpoint = owner[c]
    /\ "stranger" \in Greeting(endpoint)
LeaseIsDead(c) == ChildExited(c) \/ AnsweredByStranger(c)

\* Bug: the deadline alone gives up a lease.
AlwaysAbandoned == TRUE

\* Bug: no backstop for a lease whose broker left no trace.
NeverAbandoned == ~Leased

\* lease_is_abandoned: too old, or not there to have an age.
LeaseIsAbandoned == lease.aged \/ ~Leased

\* abandon_lease on evidence.  A lease that never named anyone is unlinked
\* without looking at it again.
GiveUpLease(c) ==
    /\ pc[c] = "abandon"
    /\ LeaseIsDead(c) \/ LeaseIsAbandoned
    /\ \/ /\ owner[c] # None
          /\ Goto(c, "release")
          /\ UNCHANGED <<lease, owner, child>>
       \/ /\ owner[c] = None
          /\ ~AtomicUnlink
          /\ Goto(c, "unlink")
          /\ UNCHANGED <<lease, owner, child>>
       \/ /\ owner[c] = None
          /\ AtomicUnlink
          /\ lease' = NoLease
          /\ Leave(c, "idle")
    /\ UNCHANGED <<endpoint, report, brokerVars, peer, verdict, crashes>>

\* abandon_lease without evidence: the greeting of a live broker, or of an
\* address somebody silent recycled, proves nothing.
KeepLease(c) ==
    /\ pc[c] = "abandon"
    /\ ~ChildExited(c) /\ ~LeaseIsAbandoned
    /\ Leave(c, "idle")
    /\ UNCHANGED <<files, brokerVars, peer, verdict, crashes>>

\* Bug: the lease is released whoever it names by now.
ReleaseAnyLease(c) ==
    /\ pc[c] = "release"
    /\ lease' = NoLease
    /\ Leave(c, "idle")
    /\ UNCHANGED <<endpoint, report, brokerVars, peer, verdict, crashes>>

\* release_lease(lock, owner): read the lock file ...
ReleaseLease(c) ==
    /\ pc[c] = "release"
    /\ \/ /\ lease.owner # owner[c]
          /\ Leave(c, "idle")
          /\ UNCHANGED lease
       \/ /\ lease.owner = owner[c]
          /\ AtomicUnlink
          /\ lease' = NoLease
          /\ Leave(c, "idle")
       \/ /\ lease.owner = owner[c]
          /\ ~AtomicUnlink
          /\ Goto(c, "unlink")
          /\ UNCHANGED <<lease, owner, child>>
    /\ UNCHANGED <<endpoint, report, brokerVars, peer, verdict, crashes>>

\* ... and unlink whatever is at its path by then.
UnlinkLease(c) ==
    /\ pc[c] = "unlink"
    /\ lease' = NoLease
    /\ Leave(c, "idle")
    /\ UNCHANGED <<endpoint, report, brokerVars, peer, verdict, crashes>>

-----------------------------------------------------------------------------
(* Clients of a broker, and connectors that die *)

\* serve_client counts a client only after it has acknowledged it.
Register(c) ==
    /\ pc[c] = "acked"
    /\ broker[peer[c]] # "gone"
    /\ Goto(c, "client")
    /\ UNCHANGED <<files, brokerVars, owner, child, peer, verdict, crashes>>

Disconnect(c) ==
    /\ pc[c] \in {"acked", "client"}
    /\ Goto(c, "idle")
    /\ peer' = [peer EXCEPT ![c] = None]
    /\ UNCHANGED <<files, brokerVars, owner, child, verdict, crashes>>

Crash(c) ==
    /\ crashes < MaxCrashes
    /\ Attempting(c)
    /\ crashes' = crashes + 1
    /\ Leave(c, "idle")
    /\ UNCHANGED <<files, brokerVars, peer, verdict>>

-----------------------------------------------------------------------------
(* The broker process *)

Become(b, s) == broker' = [broker EXCEPT ![b] = s]
Return(b, o) == outcome' = [outcome EXCEPT ![b] = o]

\* write_endpoint: staged, then renamed over whatever was published before.
Publish(b) ==
    /\ broker[b] = "starting"
    /\ endpoint' = b
    /\ Become(b, "published")
    /\ UNCHANGED <<lease, report, outcome, connectorVars, crashes>>

\* The bind, the publication or the spawn of the server fails; the listener is
\* dropped with run_broker_inner's frame.
SetupFails(b) ==
    /\ broker[b] \in {"starting", "published"}
    /\ Become(b, "reporting")
    /\ Return(b, "io")
    /\ UNCHANGED <<files, connectorVars, crashes>>

Serve(b) ==
    /\ broker[b] = "published"
    /\ Become(b, "serving")
    /\ UNCHANGED <<files, outcome, connectorVars, crashes>>

\* accept_clients ends: nobody registered for the idle period, the server's
\* stdout ended, or accept itself failed.
ActiveClients(b) == {c \in Connectors : pc[c] = "client" /\ peer[c] = b}

StopAccepting(b, o) ==
    /\ broker[b] = "serving"
    /\ o = "ok" => ActiveClients(b) = {}
    /\ Become(b, "draining")
    /\ Return(b, o)
    /\ UNCHANGED <<files, connectorVars, crashes>>

\* The server process was waited for or killed and run_broker_inner returns.
ServerReaped(b) ==
    /\ broker[b] = "draining"
    /\ Become(b, IF outcome[b] = "ok" THEN "releasing" ELSE "reporting")
    /\ UNCHANGED <<files, outcome, connectorVars, crashes>>

\* Bug: the report does not say whose it is.
WriteAnonymousReport(b) ==
    /\ broker[b] = "reporting"
    /\ report' = [ran |-> outcome[b] = "closed"]
    /\ Become(b, "releasing")
    /\ UNCHANGED <<lease, endpoint, outcome, connectorVars, crashes>>

\* Best effort: a report that cannot be written leaves the old one.
WriteReport(b) ==
    /\ broker[b] = "reporting"
    /\ \/ report' = [pid |-> b, ran |-> outcome[b] = "closed"]
       \/ UNCHANGED report
    /\ Become(b, "releasing")
    /\ UNCHANGED <<lease, endpoint, outcome, connectorVars, crashes>>

\* Bug: the endpoint is removed whoever it names by now.
ReleaseAnyEndpoint(b) ==
    /\ broker[b] = "releasing"
    /\ endpoint' = None
    /\ Become(b, "relLease")
    /\ UNCHANGED <<lease, report, outcome, connectorVars, crashes>>

\* release_election: the endpoint if it still names this broker ...
ReleaseEndpoint(b) ==
    /\ broker[b] = "releasing"
    /\ \/ endpoint # b /\ Become(b, "relLease") /\ UNCHANGED endpoint
       \/ endpoint = b /\ AtomicUnlink /\ Become(b, "relLease") /\ endpoint' = None
       \/ endpoint = b /\ ~AtomicUnlink /\ Become(b, "rmEndpoint") /\ UNCHANGED endpoint
    /\ UNCHANGED <<lease, report, outcome, connectorVars, crashes>>

RemoveEndpoint(b) ==
    /\ broker[b] = "rmEndpoint"
    /\ endpoint' = None
    /\ Become(b, "relLease")
    /\ UNCHANGED <<lease, report, outcome, connectorVars, crashes>>

\* ... then the lease, likewise; then the process exits.
ReleaseOwnLease(b) ==
    /\ broker[b] = "relLease"
    /\ \/ lease.owner # b /\ Become(b, "gone") /\ UNCHANGED lease
       \/ lease.owner = b /\ AtomicUnlink /\ Become(b, "gone") /\ lease' = NoLease
       \/ lease.owner = b /\ ~AtomicUnlink /\ Become(b, "rmLease") /\ UNCHANGED lease
    /\ UNCHANGED <<endpoint, report, outcome, connectorVars, crashes>>

RemoveOwnLease(b) ==
    /\ broker[b] = "rmLease"
    /\ lease' = NoLease
    /\ Become(b, "gone")
    /\ UNCHANGED <<endpoint, report, outcome, connectorVars, crashes>>

\* SIGKILL: the process vanishes, its files stay.
Kill(b) ==
    /\ broker[b] \notin {"unused", "gone"}
    /\ Become(b, "gone")
    /\ UNCHANGED <<files, outcome, connectorVars, crashes>>

-----------------------------------------------------------------------------
(* The environment *)

\* STALE_LEASE is far above CONNECT_TIMEOUT: no attempt that saw a lease being
\* created still runs when the lease reaches that age.  The model ages a lease
\* between attempts; one that runs at that moment cannot tell the difference.
LeaseInUse == lease.elected # None /\ Holding(lease.elected)

AgeLease ==
    /\ Leased /\ ~lease.aged
    /\ \A c \in Connectors : ~Attempting(c)
    /\ LeaseInUse => LiveLeasesAge
    /\ lease' = [lease EXCEPT !.aged = TRUE]
    /\ UNCHANGED <<endpoint, report, brokerVars, connectorVars, crashes>>

\* A process id is handed out again only when nothing mentions it any more.
Mentioned(b) ==
    \/ b \in {lease.owner, lease.elected, endpoint, report.pid}
    \/ \E c \in Connectors : b \in {owner[c], peer[c], verdict[c].pid}

ReusePid(b) ==
    /\ broker[b] = "gone"
    /\ ~Mentioned(b)
    /\ Become(b, "unused")
    /\ Return(b, "none")
    /\ UNCHANGED <<files, connectorVars, crashes>>

-----------------------------------------------------------------------------
ConnectorStep(c) ==
    \/ Start(c) \/ Connect(c) \/ FirstGreetFails(c) \/ GreetFails(c)
    \/ TakeLease(c) \/ LoseElection(c) \/ ClearReport(c)
    \/ (\E b \in Brokers : SpawnBroker(c, b)) \/ SpawnFails(c) \/ RecordOwner(c)
    \/ LearnOwner(c) \/ ReadReport(c) \/ Sleep(c) \/ Expire(c)
    \/ GiveUpLease(c) \/ KeepLease(c) \/ ReleaseLease(c) \/ UnlinkLease(c)
    \/ Register(c) \/ Disconnect(c)

BrokerStep(b) ==
    \/ Publish(b) \/ SetupFails(b) \/ Serve(b)
    \/ (\E o \in {"ok", "closed", "io"} : StopAccepting(b, o))
    \/ ServerReaped(b) \/ WriteReport(b)
    \/ ReleaseEndpoint(b) \/ RemoveEndpoint(b)
    \/ ReleaseOwnLease(b) \/ RemoveOwnLease(b)

Next ==
    \/ \E c \in Connectors : ConnectorStep(c) \/ Crash(c)
    \/ \E b \in Brokers : BrokerStep(b) \/ Kill(b) \/ ReusePid(b)
    \/ AgeLease

Spec == Init /\ [][Next]_vars

\* Processes are scheduled; a waiting connector's clock reaches its deadline;
\* a file's age grows; a process id comes free.  Crashes, kills and reports
\* are never obliged to happen.
Fairness ==
    /\ \A c \in Connectors : WF_vars(ConnectorStep(c)) /\ SF_vars(Expire(c))
    /\ \A b \in Brokers : WF_vars(BrokerStep(b)) /\ WF_vars(ReusePid(b))
    /\ SF_vars(AgeLease)

FairSpec == Spec /\ Fairness

-----------------------------------------------------------------------------
(* Properties *)

TypeOK ==
    /\ lease \in Lease
    /\ endpoint \in Pid
    /\ report \in Report
    /\ broker \in [Brokers -> BrokerState]
    /\ outcome \in [Brokers -> {"none", "ok", "io", "closed"}]
    /\ pc \in [Connectors -> ConnectorState]
    /\ owner \in [Connectors -> Pid]
    /\ child \in [Connectors -> BOOLEAN]
    /\ peer \in [Connectors -> Pid]
    /\ verdict \in [Connectors -> Report]
    /\ crashes \in 0..MaxCrashes

\* One key never has two brokers that own, or are about to own, a server.
SingleBroker == \A a, b \in Brokers : Holding(a) /\ Holding(b) => a = b

\* A broker that listens is the published one, so every connector can find it
\* until it stops listening.
ListenerIsPublished ==
    \A b \in Brokers : broker[b] \in Listening => endpoint = b

\* A launch verdict is permanent, so it is only ever about a broker that really
\* failed, and says "ran" only of one whose server's output ended.
VerdictIsTrue ==
    \A c \in Connectors : \A b \in Brokers :
        verdict[c].pid = b =>
            /\ outcome[b] \in {"io", "closed"}
            /\ verdict[c].ran <=> outcome[b] = "closed"
            /\ pc[c] = "release" => owner[c] = b

\* Give up a lease at the startup deadline, but only if its broker is gone
\* (lease.rs): no step removes the lease of a broker that is starting or serving.
LeaseOutlivesDeadline ==
    [][\A b \in Brokers : Holding(b) /\ lease.elected = b =>
          Leased' \/ ~Holding(b)']_vars

\* A key is never wedged: whatever was killed, its lease is given up as long as
\* connectors keep trying.
NeverWedged == []<>(~Leased \/ \E b \in Brokers : Holding(b))

Holder == IF \E b \in Brokers : Holding(b)
          THEN CHOOSE b \in Brokers : Holding(b)
          ELSE None

Key == INSTANCE KeyOwner WITH holder <- Holder

KeyHasOneOwner == Key!Spec
=============================================================================
