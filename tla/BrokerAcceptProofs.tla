------------------------- MODULE BrokerAcceptProofs -------------------------
(***************************************************************************)
(* Proofs about BrokerAccept: active_clients is exactly the number of      *)
(* sessions that are registered and not yet torn down, so the broker       *)
(* retires under none of them, whatever the number of connections.         *)
(***************************************************************************)
EXTENDS BrokerAccept, FiniteSetTheorems, TLAPS

RegisteredSessions == {s \in Sessions : Registered(s)}

\* The counter the loop reads is the set it stands for.
CountInv == TypeOK /\ active = Cardinality(RegisteredSessions)

USE SessionsFinite

\* There are finitely many registered sessions.
LEMMA RegisteredFinite == IsFiniteSet(RegisteredSessions)
  BY FS_Subset, RegisteredSessions \subseteq Sessions DEF RegisteredSessions

\* Nobody is registered before the loop runs.
LEMMA InitCount == Init => CountInv
  <1> SUFFICES ASSUME Init PROVE CountInv
    OBVIOUS
  <1>1. TypeOK
    BY DEF Init, TypeOK, Running, ConnState
  <1>2. RegisteredSessions = {}
    BY DEF Init, RegisteredSessions, Registered
  <1>3. active = 0
    BY DEF Init
  <1> QED
    BY <1>1, <1>2, <1>3, FS_EmptySet DEF CountInv

\* A step of the loop, the reader or the clock moves no session into or out of
\* the registered ones.
LEMMA ElsewhereCount ==
    ASSUME CountInv, LoopStep \/ AcceptFails \/ SetLatch \/ Signal \/ IdlePeriod
    PROVE  CountInv'
  <1> USE DEF CountInv, TypeOK, Running, ConnState
  <1>1. TypeOK'
    BY DEF LoopStep, CheckLatch, Park, Accept, Tick, AcceptFails, SetLatch,
           Signal, IdlePeriod
  <1>2. active' = active
    BY DEF LoopStep, CheckLatch, Park, Accept, Tick, AcceptFails, SetLatch,
           Signal, IdlePeriod
  <1>3. RegisteredSessions' = RegisteredSessions
    BY DEF RegisteredSessions, Registered, LoopStep, CheckLatch, Park, Accept,
           Tick, AcceptFails, SetLatch, Signal, IdlePeriod
  <1> QED
    BY <1>1, <1>2, <1>3

\* A session that moves within the registered stages, or outside them, leaves
\* the count alone.
LEMMA MoveCount ==
    ASSUME CountInv, NEW s \in Sessions, active' = active,
           NEW from \in ConnState, NEW to \in ConnState, Move(s, from, to),
           from \in {"counted", "serving", "unmapped", "leaving"} <=>
               to \in {"counted", "serving", "unmapped", "leaving"},
           UNCHANGED <<loop, reader, closed>>, idle' \in BOOLEAN
    PROVE  CountInv'
  <1> USE DEF CountInv, TypeOK, Move
  <1>1. TypeOK'
    OBVIOUS
  <1>2. RegisteredSessions' = RegisteredSessions
    BY DEF RegisteredSessions, Registered
  <1> QED
    BY <1>1, <1>2

\* Every step of a session or its peer keeps the count exact.
LEMMA SessionCount ==
    ASSUME CountInv, NEW s \in Sessions, SessionStep(s) \/ PeerStep(s)
    PROVE  CountInv'
  <1>0. /\ idle \in BOOLEAN /\ active \in Nat
        /\ active = Cardinality(RegisteredSessions)
        /\ conn \in [Sessions -> ConnState]
    BY DEF CountInv, TypeOK
  <1>1. CASE Acknowledge(s)
    BY <1>0, <1>1, MoveCount DEF Acknowledge, ConnState
  <1>2. CASE Reject(s)
    BY <1>0, <1>2, MoveCount DEF Reject, ConnState
  <1>3. CASE EnterMap(s)
    BY <1>0, <1>3, MoveCount DEF EnterMap, ConnState
  <1>4. CASE Count(s)
    <2>1. s \notin RegisteredSessions
      BY <1>4 DEF Count, Move, RegisteredSessions, Registered
    <2>2. RegisteredSessions' = RegisteredSessions \cup {s}
      BY <1>0, <1>4 DEF Count, Move, RegisteredSessions, Registered, ConnState
    <2>3. Cardinality(RegisteredSessions') = Cardinality(RegisteredSessions) + 1
      BY <2>1, <2>2, RegisteredFinite, FS_AddElement
    <2>4. TypeOK'
      BY <1>4, active + 1 \in Nat DEF Count, Move, CountInv, TypeOK, ConnState
    <2>5. active' = Cardinality(RegisteredSessions')
      BY <1>0, <1>4, <2>3 DEF Count
    <2> QED
      BY <2>4, <2>5 DEF CountInv
  <1>5. CASE TouchOnEntry(s)
    BY <1>0, <1>5, MoveCount DEF TouchOnEntry, Touched, ConnState
  <1>6. CASE ClientGone(s)
    BY <1>0, <1>6, MoveCount DEF ClientGone, ConnState
  <1>7. CASE Uncount(s)
    <2>1. s \in RegisteredSessions
      BY <1>7 DEF Uncount, Move, RegisteredSessions, Registered
    <2>2. RegisteredSessions' = RegisteredSessions \ {s}
      BY <1>0, <1>7 DEF Uncount, Move, RegisteredSessions, Registered, ConnState
    <2>3. /\ Cardinality(RegisteredSessions') = Cardinality(RegisteredSessions) - 1
          /\ IsFiniteSet(RegisteredSessions')
      BY <2>1, <2>2, RegisteredFinite, FS_RemoveElement
    <2>4. Cardinality(RegisteredSessions') \in Nat
      BY <2>3, FS_CardinalityType
    <2>5. active' = Cardinality(RegisteredSessions')
      BY <1>0, <1>7, <2>3 DEF Uncount
    <2>6. TypeOK'
      BY <1>7, <2>4, <2>5 DEF Uncount, Move, CountInv, TypeOK, ConnState
    <2> QED
      BY <2>5, <2>6 DEF CountInv
  <1>8. CASE TouchOnExit(s)
    BY <1>0, <1>8, MoveCount DEF TouchOnExit, Touched, ConnState
  <1>9. CASE Connect(s)
    BY <1>0, <1>9, MoveCount DEF Connect, ConnState
  <1>10. CASE Message(s)
    BY <1>10 DEF Message, Touched, CountInv, TypeOK, RegisteredSessions, Registered
  <1>11. CASE LeaveMap(s)
    BY <1>0, <1>11, MoveCount DEF LeaveMap, ConnState
  <1> QED
    BY <1>1, <1>2, <1>3, <1>4, <1>5, <1>6, <1>7, <1>8, <1>9, <1>10, <1>11
       DEF SessionStep, PeerStep

\* Every step of the broker keeps the count exact.
LEMMA NextCount == CountInv /\ [Next]_vars => CountInv'
  <1> SUFFICES ASSUME CountInv, [Next]_vars PROVE CountInv'
    OBVIOUS
  <1>1. CASE UNCHANGED vars
    BY <1>1 DEF vars, CountInv, TypeOK, RegisteredSessions, Registered
  <1>2. CASE Next
    BY <1>1, <1>2, ElsewhereCount, SessionCount DEF Next, Stopped
  <1> QED
    BY <1>1, <1>2

\* active_clients counts the registered sessions, and everything has its type.
THEOREM CountIsExact ==
    Spec => [](TypeOK /\ active = Cardinality(RegisteredSessions))
  BY InitCount, NextCount, PTL DEF Spec, CountInv

\* The broker never retires under a session it serves or is still tearing
\* down: the only step that retires read a counter that says there is none.
THEOREM NobodyIsCutOff == Spec => RetiresUnderNobody
  <1>1. CountInv /\ [Next]_vars =>
          [loop # "ok" /\ loop' = "ok" => \A s \in Sessions : ~Registered(s)]_vars
    <2> SUFFICES ASSUME CountInv, Next, loop # "ok", loop' = "ok"
                 PROVE  \A s \in Sessions : ~Registered(s)
      BY DEF vars
    <2>1. active = 0
      BY DEF Next, LoopStep, CheckLatch, Park, Accept, AcceptFails, Tick, SetLatch,
             Signal, IdlePeriod, SessionStep, PeerStep, Acknowledge, Reject,
             EnterMap, Count, TouchOnEntry, ClientGone, Uncount, TouchOnExit,
             Connect, Message, LeaveMap, Stopped, vars
    <2>2. RegisteredSessions = {}
      BY <2>1, RegisteredFinite, FS_EmptySet DEF CountInv
    <2> QED
      BY <2>2 DEF RegisteredSessions
  <1>2. Spec => []CountInv
    BY InitCount, NextCount, PTL DEF Spec
  <1> QED
    BY <1>1, <1>2, PTL DEF Spec, RetiresUnderNobody
=============================================================================
