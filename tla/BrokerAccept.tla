---------------------------- MODULE BrokerAccept ----------------------------
(***************************************************************************)
(* The accept loop of one running broker, which decides when it stops:     *)
(* accept_clients, the life of every connection (serve_client around its   *)
(* pump, which BrokerCore models), and the end of upstream_reader          *)
(* (karet-supervisor/src/broker/serve.rs).                                 *)
(*                                                                         *)
(* last_activity is read only against IDLE_TIMEOUT, so `idle` is whether   *)
(* that long has passed since the last touch.                              *)
(***************************************************************************)
EXTENDS Naturals, FiniteSets

CONSTANT Sessions   \* connections clients may open
ASSUME SessionsFinite == IsFiniteSet(Sessions)

VARIABLES
    loop,     \* where accept_clients is, or what it returned
    reader,   \* where the end of upstream_reader is
    closed,   \* Core.upstream_closed
    conn,     \* where each connection is
    active,   \* Core.active_clients
    idle      \* IDLE_TIMEOUT has passed since Core.last_activity

vars == <<loop, reader, closed, conn, active, idle>>

Running == {"top", "checked", "parked"}
ConnState == {"none", "backlog", "accepted", "acked", "mapped", "counted",
              "serving", "unmapped", "leaving", "uncounted", "over"}

Init ==
    /\ loop = "top"
    /\ reader = "reading" /\ closed = FALSE
    /\ conn = [s \in Sessions |-> "none"]
    /\ active = 0
    /\ idle = FALSE

-----------------------------------------------------------------------------
(* accept_clients *)

\* Bug: a bare signal, no latch.
CheckNothing ==
    /\ loop = "top"
    /\ loop' = "checked"
    /\ UNCHANGED <<reader, closed, conn, active, idle>>

\* The latch is looked at before every park, so a signal nobody was parked for
\* is not lost.
CheckLatch ==
    /\ loop = "top"
    /\ loop' = IF closed THEN "closed" ELSE "checked"
    /\ UNCHANGED <<reader, closed, conn, active, idle>>

\* select! creates its futures: from here on a signal wakes the loop.
Park ==
    /\ loop = "checked"
    /\ loop' = "parked"
    /\ UNCHANGED <<reader, closed, conn, active, idle>>

Accept(s) ==
    /\ loop = "parked"
    /\ conn[s] = "backlog"
    /\ conn' = [conn EXCEPT ![s] = "accepted"]
    /\ loop' = "top"
    /\ UNCHANGED <<reader, closed, active, idle>>

AcceptFails ==
    /\ loop = "parked"
    /\ loop' = "io"
    /\ UNCHANGED <<reader, closed, conn, active, idle>>

\* Bug: a quiet client is no client.
TickOnSilence ==
    /\ loop = "parked"
    /\ loop' = IF idle THEN "ok" ELSE "top"
    /\ UNCHANGED <<reader, closed, conn, active, idle>>

Tick ==
    /\ loop = "parked"
    /\ loop' = IF active = 0 /\ idle THEN "ok" ELSE "top"
    /\ UNCHANGED <<reader, closed, conn, active, idle>>

-----------------------------------------------------------------------------
(* The end of upstream_reader *)

SetLatch ==
    /\ reader = "reading"
    /\ closed' = TRUE
    /\ reader' = "latched"
    /\ UNCHANGED <<loop, conn, active, idle>>

\* notify_waiters wakes the loop if it is parked and stores nothing otherwise.
Signal ==
    /\ reader = "latched"
    /\ reader' = "done"
    /\ loop' = IF loop = "parked" THEN "closed" ELSE loop
    /\ UNCHANGED <<closed, conn, active, idle>>

-----------------------------------------------------------------------------
(* serve_client; the process may stop under it at any step *)

Move(s, from, to) ==
    /\ conn[s] = from
    /\ conn' = [conn EXCEPT ![s] = to]

Touched == idle' = FALSE

Connect(s) ==
    /\ Move(s, "none", "backlog")
    /\ UNCHANGED <<loop, reader, closed, active, idle>>

\* The prelude is right and is acknowledged: the connector takes the connection
\* for established.
Acknowledge(s) ==
    /\ Move(s, "accepted", "acked")
    /\ UNCHANGED <<loop, reader, closed, active, idle>>

\* Bug: a connection that was never counted is uncounted.
RejectUncounting(s) ==
    /\ Move(s, "accepted", "over")
    /\ active' = active - 1
    /\ UNCHANGED <<loop, reader, closed, idle>>

\* The prelude is wrong, or the peer is gone before it is acknowledged.
Reject(s) ==
    /\ Move(s, "accepted", "over")
    /\ UNCHANGED <<loop, reader, closed, active, idle>>

EnterMap(s) ==
    /\ Move(s, "acked", "mapped")
    /\ UNCHANGED <<loop, reader, closed, active, idle>>

Count(s) ==
    /\ Move(s, "mapped", "counted")
    /\ active' = active + 1
    /\ UNCHANGED <<loop, reader, closed, idle>>

TouchOnEntry(s) ==
    /\ Move(s, "counted", "serving")
    /\ Touched
    /\ UNCHANGED <<loop, reader, closed, active>>

Message(s) ==
    /\ conn[s] = "serving"
    /\ Touched
    /\ UNCHANGED <<loop, reader, closed, conn, active>>

\* Bug: an error of the pump escapes past the teardown.
LeaveWithoutTeardown(s) ==
    /\ Move(s, "serving", "over")
    /\ UNCHANGED <<loop, reader, closed, active, idle>>

\* The pump ended, cleanly or with an error; the teardown runs either way.
LeaveMap(s) ==
    /\ Move(s, "serving", "unmapped")
    /\ UNCHANGED <<loop, reader, closed, active, idle>>

\* on_client_gone: its documents are closed.
ClientGone(s) ==
    /\ Move(s, "unmapped", "leaving")
    /\ UNCHANGED <<loop, reader, closed, active, idle>>

Uncount(s) ==
    /\ Move(s, "leaving", "uncounted")
    /\ active' = active - 1
    /\ UNCHANGED <<loop, reader, closed, idle>>

TouchOnExit(s) ==
    /\ Move(s, "uncounted", "over")
    /\ Touched
    /\ UNCHANGED <<loop, reader, closed, active>>

-----------------------------------------------------------------------------
(* Time *)

IdlePeriod ==
    /\ ~idle
    /\ idle' = TRUE
    /\ UNCHANGED <<loop, reader, closed, conn, active>>

-----------------------------------------------------------------------------
LoopStep == CheckLatch \/ Park \/ (\E s \in Sessions : Accept(s)) \/ Tick

SessionStep(s) ==
    \/ Acknowledge(s) \/ Reject(s) \/ EnterMap(s) \/ Count(s) \/ TouchOnEntry(s)
    \/ ClientGone(s) \/ Uncount(s) \/ TouchOnExit(s)

PeerStep(s) == Connect(s) \/ Message(s) \/ LeaveMap(s)

\* run_broker_inner goes on to kill the server and to leave the process.
Stopped == loop \notin Running /\ UNCHANGED vars

Next ==
    \/ LoopStep \/ AcceptFails \/ SetLatch \/ Signal \/ IdlePeriod
    \/ \E s \in Sessions : SessionStep(s) \/ PeerStep(s)
    \/ Stopped

Spec == Init /\ [][Next]_vars

\* The runtime polls every task, the interval ticks, time passes.  No peer is
\* obliged to connect, to speak or to leave, no server to end.
Fairness ==
    /\ WF_vars(LoopStep) /\ WF_vars(Signal) /\ WF_vars(IdlePeriod)
    /\ \A s \in Sessions : WF_vars(SessionStep(s))

FairSpec == Spec /\ Fairness

-----------------------------------------------------------------------------
(* Properties *)

TypeOK ==
    /\ loop \in Running \cup {"ok", "closed", "io"}
    /\ reader \in {"reading", "latched", "done"}
    /\ conn \in [Sessions -> ConnState]
    /\ closed \in BOOLEAN /\ idle \in BOOLEAN
    /\ active \in Nat

\* A session between its registration and the end of its teardown.
Registered(s) == conn[s] \in {"counted", "serving", "unmapped", "leaving"}

\* The broker never retires under a client it serves, nor before the documents
\* of one that left are closed (serve.rs, the teardown order of serve_client).
RetiresUnderNobody ==
    [][loop # "ok" /\ loop' = "ok" => \A s \in Sessions : ~Registered(s)]_vars

\* A server whose output ended stops the broker, whenever that happens: before
\* the loop first runs, between its check and its park, or while it is parked
\* (serve.rs, upstream_closed).
DeathIsNoticed == closed ~> loop \notin Running

\* Once the last client is gone, whatever ended its session, the broker does
\* not stay: it retires (or stops for another reason).
RetiresWhenAlone ==
    (<>[](\A s \in Sessions : conn[s] \in {"none", "over"})) =>
        <>(loop \notin Running)
=============================================================================
