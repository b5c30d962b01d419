-------------------------- MODULE RpcRepliesProofs --------------------------
(***************************************************************************)
(* Proofs about RpcReplies, for any number of requests of the peer and any *)
(* capacity of the queues.                                                 *)
(***************************************************************************)
EXTENDS RpcReplies, FiniteSetTheorems, FunctionTheorems, TLAPS

OutFrames == {Other} \cup {Item(n) : n \in Items}
PeerFrames == {Other} \cup {Ask(n) : n \in 1..MaxAsks}
Stages == {"load", "fast", "park", "push"}

\* What TypeOK leaves open, and: the drainer outlives the writer, and a queue
\* does not outlive the task that takes from it.
Typed ==
    /\ outbound \in Seq(OutFrames) /\ Len(outbound) <= Outbound
    /\ writer \in {Receiving, Over} \cup [at : {"writing"}, frame : OutFrames]
    /\ reader \in {"reading", "over"}
    /\ overflow \in Seq(Items)
    /\ drainer \in {Receiving, Over, [at |-> "uncount"]}
                   \cup [at : {"send"}, item : Items]
    /\ delivery \in [Deliverers -> {Resting} \cup [at : Stages, item : Items]]
    /\ stream \in {"untaken", "held", "dropped"}
    /\ inbox \in Seq(1..MaxAsks) /\ Len(inbox) <= Inbox
    /\ hands \subseteq 1..MaxAsks
    /\ owner \in {"open", "closing", "closed", "dropped"}
    /\ inbound \in Seq(PeerFrames)
    /\ todo = <<>> \/ \E f \in PeerFrames : todo = <<f>>
    /\ asks \in 0..MaxAsks
    /\ handed \subseteq Items /\ before \in [Items -> SUBSET Items]
    /\ written \in Seq(Items)
    /\ drainer = Over => ~WriterLives /\ overflow = <<>>
    /\ ~WriterLives => outbound = <<>>

LEMMA InitTyped == Init => Typed
<1> SUFFICES ASSUME Init PROVE Typed
  OBVIOUS
<1> USE DEF Init
<1>1. \A S : <<>> \in Seq(S)
  OBVIOUS
<1>2. Len(outbound) <= Outbound /\ Len(inbox) <= Inbox
  BY CapacitiesArePositive
<1>3. writer \in {Receiving, Over} /\ WriterLives
  BY DEF WriterLives, Receiving, Over
<1>4. delivery \in [Deliverers -> {Resting} \cup [at : Stages, item : Items]]
  OBVIOUS
<1>5. asks \in 0..MaxAsks
  BY FrameBoundsAreNat
<1>6. drainer # Over
  BY DEF Receiving, Over
<1> QED
  BY <1>1, <1>2, <1>3, <1>4, <1>5, <1>6 DEF Typed

\* A queue stays typed when a member is taken from its head.
LEMMA TakenTyped ==
  ASSUME NEW S, NEW s \in Seq(S), s # <<>>
  PROVE  Head(s) \in S /\ Tail(s) \in Seq(S) /\ Len(Tail(s)) = Len(s) - 1
  OBVIOUS

LEMMA AppendedTyped ==
  ASSUME NEW S, NEW s \in Seq(S), NEW x \in S
  PROVE  Append(s, x) \in Seq(S) /\ Len(Append(s, x)) = Len(s) + 1
  OBVIOUS

LEMMA MembersTyped ==
  ASSUME NEW S, NEW s \in Seq(S)
  PROVE  \A i \in DOMAIN s : s[i] \in S
  OBVIOUS

LEMMA QueuedTyped ==
  ASSUME Typed, Room, NEW f \in OutFrames
  PROVE  Append(outbound, f) \in Seq(OutFrames) /\ Len(Append(outbound, f)) <= Outbound
<1>1. outbound \in Seq(OutFrames) /\ Len(outbound) < Outbound
  BY DEF Typed, Room
<1> QED BY <1>1, CapacitiesArePositive

LEMMA DeliverTyped ==
  ASSUME Typed, NEW p \in Deliverers, NEW n \in Items, Deliver(p, n)
  PROVE  /\ delivery' \in [Deliverers -> {Resting} \cup [at : Stages, item : Items]]
         /\ before' \in [Items -> SUBSET Items]
<1>1. [at |-> "load", item |-> n] \in [at : Stages, item : Items]
  BY DEF Stages
<1> QED BY <1>1 DEF Typed, Deliver

\* Where a delivery is, it is about an item.
LEMMA AboutAnItem ==
  ASSUME Typed, NEW p \in Deliverers, delivery[p].at \in Stages
  PROVE  /\ delivery[p].item \in Items
         /\ delivery[p] = [at |-> delivery[p].at, item |-> delivery[p].item]
         /\ delivery[p] # Resting
  BY DEF Typed, Stages, Resting

LEMMA AdvanceTyped ==
  ASSUME Typed, NEW p \in Deliverers, delivery[p].at \in Stages,
         NEW s \in Stages, Advance(p, s)
  PROVE  delivery' \in [Deliverers -> {Resting} \cup [at : Stages, item : Items]]
<1>0. DOMAIN delivery[p] = {"at", "item"}
      /\ delivery[p] = [x \in {"at", "item"} |-> delivery[p][x]]
  BY AboutAnItem
<1>1. [delivery[p] EXCEPT !.at = s] = [at |-> s, item |-> delivery[p].item]
  BY <1>0
<1>2. [delivery[p] EXCEPT !.at = s] \in [at : Stages, item : Items]
  BY <1>1, AboutAnItem
<1> QED BY <1>2 DEF Typed, Advance

LEMMA HandedTyped ==
  ASSUME Typed, NEW p \in Deliverers, delivery[p].at \in Stages, Handed(p)
  PROVE  /\ delivery' \in [Deliverers -> {Resting} \cup [at : Stages, item : Items]]
         /\ handed' \subseteq Items
  BY AboutAnItem DEF Typed, Handed

LEMMA StepTyped == Typed /\ [Next]_vars => Typed'
<1> SUFFICES ASSUME Typed, [Next]_vars PROVE Typed'
  OBVIOUS
<1> USE DEF path, consumer, peer
<1>1. CASE UNCHANGED vars
  BY <1>1 DEF Typed, vars, WriterLives
<1>2. ASSUME NEW p \in Deliverers, LoadBacklog(p) PROVE Typed'
  <2>1. delivery[p].at \in Stages /\ {"fast", "park"} \subseteq Stages
    BY <1>2 DEF LoadBacklog, Stages
  <2>2. PICK s \in Stages : Advance(p, s)
    BY <1>2, <2>1 DEF LoadBacklog
  <2>3. delivery' \in [Deliverers -> {Resting} \cup [at : Stages, item : Items]]
    BY <2>1, <2>2, AdvanceTyped
  <2> QED BY <1>2, <2>3 DEF Typed, LoadBacklog, Advance, WriterLives
<1>3. ASSUME NEW p \in Deliverers, TrySend(p) PROVE Typed'
  <2>1. delivery[p].at \in Stages /\ "park" \in Stages
    BY <1>3 DEF TrySend, Stages
  <2>2. Item(delivery[p].item) \in OutFrames
    BY <2>1, AboutAnItem DEF OutFrames
  <2>3. outbound' \in Seq(OutFrames) /\ Len(outbound') <= Outbound
    <3>1. UNCHANGED outbound \/ (Room /\ outbound' = Append(outbound, Item(delivery[p].item)))
      BY <1>3 DEF TrySend
    <3> QED BY <2>2, <3>1, QueuedTyped DEF Typed
  <2>4. /\ delivery' \in [Deliverers -> {Resting} \cup [at : Stages, item : Items]]
        /\ handed' \subseteq Items
    <3>1. Handed(p) \/ (Advance(p, "park") /\ UNCHANGED handed)
      BY <1>3 DEF TrySend, Advance
    <3> QED BY <2>1, <3>1, HandedTyped, AdvanceTyped DEF Typed
  <2>5. (~WriterLives => outbound = <<>>)'
    BY <1>3 DEF TrySend, Typed, WriterLives
  <2> QED BY <1>3, <2>3, <2>4, <2>5 DEF Typed, TrySend, WriterLives
<1>4. ASSUME NEW p \in Deliverers, Park(p) PROVE Typed'
  <2>1. delivery[p].at \in Stages /\ "push" \in Stages
    BY <1>4 DEF Park, Stages
  <2>2. delivery' \in [Deliverers -> {Resting} \cup [at : Stages, item : Items]]
    BY <1>4, <2>1, AdvanceTyped DEF Park
  <2> QED BY <1>4, <2>2 DEF Typed, Park, Advance, WriterLives
<1>5. ASSUME NEW p \in Deliverers, Push(p) PROVE Typed'
  <2>1. delivery[p].at \in Stages
    BY <1>5 DEF Push, Stages
  <2>2. /\ delivery' \in [Deliverers -> {Resting} \cup [at : Stages, item : Items]]
        /\ handed' \subseteq Items
    BY <1>5, <2>1, HandedTyped DEF Push
  <2>3. overflow' \in Seq(Items) /\ (drainer = Over => UNCHANGED overflow)
    <3>1. delivery[p].item \in Items /\ overflow \in Seq(Items)
      BY <2>1, AboutAnItem DEF Typed
    <3>2. \/ drainer = Over /\ UNCHANGED overflow
          \/ drainer # Over /\ overflow' = Append(overflow, delivery[p].item)
      BY <1>5 DEF Push
    <3> QED BY <3>1, <3>2
  <2> QED BY <1>5, <2>2, <2>3 DEF Typed, Push, WriterLives
<1>6. CASE DrainerTakes
  <2>1. Head(overflow) \in Items /\ Tail(overflow) \in Seq(Items)
    BY <1>6, TakenTyped DEF DrainerTakes, Typed
  <2>2. drainer' \in [at : {"send"}, item : Items] /\ drainer' # Over
    BY <1>6, <2>1 DEF DrainerTakes, Over
  <2> QED BY <1>6, <2>1, <2>2 DEF Typed, DrainerTakes, WriterLives
<1>7. CASE DrainerSends
  <2>1. drainer \in [at : {"send"}, item : Items]
    BY <1>7 DEF DrainerSends, Typed, Receiving, Over
  <2>2. Item(drainer.item) \in OutFrames
    BY <2>1 DEF OutFrames
  <2>3. outbound' \in Seq(OutFrames) /\ Len(outbound') <= Outbound
    BY <1>7, <2>2, QueuedTyped DEF DrainerSends, Typed
  <2>4. drainer' # Over /\ drainer' = [at |-> "uncount"]
    BY <1>7 DEF DrainerSends, Over
  <2>5. (~WriterLives => outbound = <<>>)'
    BY <1>7 DEF DrainerSends, Typed, WriterLives
  <2> QED BY <1>7, <2>3, <2>4, <2>5 DEF Typed, DrainerSends, WriterLives
<1>8. CASE DrainerUncounts
  <2>1. drainer' # Over /\ drainer' = Receiving
    BY <1>8 DEF DrainerUncounts, Receiving, Over
  <2> QED BY <1>8, <2>1 DEF Typed, DrainerUncounts, WriterLives
<1>9. CASE QueueOther
  <2>1. outbound' \in Seq(OutFrames) /\ Len(outbound') <= Outbound
    BY <1>9, QueuedTyped DEF QueueOther, OutFrames
  <2> QED BY <1>9, <2>1 DEF Typed, QueueOther, WriterLives
<1>10. CASE WriterReceives
  <2>1. Head(outbound) \in OutFrames /\ Tail(outbound) \in Seq(OutFrames)
        /\ Len(Tail(outbound)) = Len(outbound) - 1 /\ Len(outbound) \in Nat
    BY <1>10, TakenTyped DEF WriterReceives, Typed
  <2>2. CASE Head(outbound) = Item(Close)
    <3>1. writer' = Over /\ outbound' = <<>> /\ written' = Append(written, Close)
      BY <1>10, <2>2 DEF WriterReceives
    <3>2. written' \in Seq(Items) /\ outbound' \in Seq(OutFrames) /\ Len(outbound') <= Outbound
      BY <3>1, FrameBoundsAreNat, CapacitiesArePositive DEF Typed, Items, Close
    <3> QED BY <1>10, <3>1, <3>2 DEF Typed, WriterReceives, WriterLives
  <2>3. CASE Head(outbound) # Item(Close)
    <3>1. /\ writer' = [at |-> "writing", frame |-> Head(outbound)]
          /\ outbound' = Tail(outbound) /\ written' = written
      BY <1>10, <2>3 DEF WriterReceives
    <3>2. writer' \in [at : {"writing"}, frame : OutFrames] /\ writer' # Over
      BY <2>1, <3>1 DEF Over
    <3>3. Len(outbound') <= Outbound
      BY <2>1, <3>1, CapacitiesArePositive DEF Typed
    <3>4. WriterLives
      BY <1>10 DEF WriterReceives, WriterLives, Receiving, Over
    <3> QED BY <1>10, <2>1, <3>1, <3>2, <3>3, <3>4 DEF Typed, WriterReceives, WriterLives
  <2> QED BY <2>2, <2>3
<1>11. CASE WriteFrame
  <2>1. writer \in [at : {"writing"}, frame : OutFrames]
    BY <1>11 DEF WriteFrame, Typed, Receiving, Over
  <2>2. writer.frame # Other => writer.frame.id \in Items
    BY <2>1 DEF OutFrames, Item
  <2>3. written' \in Seq(Items)
    BY <1>11, <2>2 DEF WriteFrame, Typed
  <2>4. writer' = Receiving /\ writer' # Over /\ writer # Over
    BY <1>11 DEF WriteFrame, Receiving, Over
  <2> QED BY <1>11, <2>3, <2>4 DEF Typed, WriteFrame, WriterLives
<1>12. CASE WriteFails
  <2>1. outbound' \in Seq(OutFrames) /\ Len(outbound') <= Outbound
    BY <1>12, CapacitiesArePositive DEF WriteFails
  <2> QED BY <1>12, <2>1 DEF Typed, WriteFails, WriterLives
<1>13. CASE ReaderStep \/ ReaderEnds
  <2>1. inbound' \in Seq(PeerFrames)
    <3>1. (inbound # <<>> /\ inbound' = Tail(inbound)) \/ inbound' = <<>>
      BY <1>13 DEF ReaderStep, ReadOther, ReadAsk, ReaderEnds, Reads
    <3>2. inbound \in Seq(PeerFrames)
      BY DEF Typed
    <3>3. inbound # <<>> => Tail(inbound) \in Seq(PeerFrames)
      BY <3>2, TakenTyped
    <3>4. <<>> \in Seq(PeerFrames)
      OBVIOUS
    <3> QED BY <3>1, <3>3, <3>4, Zenon
  <2>2. CASE ReadOther \/ ReaderEnds
    BY <2>1, <2>2 DEF Typed, ReadOther, ReaderEnds, WriterLives
  <2>3. CASE ReadAsk
    <3>1. Head(inbound) \in PeerFrames
      BY <2>3, TakenTyped DEF ReadAsk, Reads, Typed
    <3>2. Head(inbound).id \in 1..MaxAsks /\ Head(inbound).id \in Items
      BY <2>3, <3>1, FrameBoundsAreNat DEF ReadAsk, Frame, PeerFrames, Ask, Other, Items
    <3>3. inbox' \in Seq(1..MaxAsks) /\ Len(inbox') <= Inbox
      <4>1. UNCHANGED inbox
            \/ (Len(inbox) < Inbox /\ inbox' = Append(inbox, Head(inbound).id))
        BY <2>3 DEF ReadAsk, Frame
      <4>2. inbox \in Seq(1..MaxAsks) /\ Len(inbox) <= Inbox
        BY DEF Typed
      <4>3. Len(inbox) \in Nat
        BY <4>2
      <4>4. /\ Append(inbox, Head(inbound).id) \in Seq(1..MaxAsks)
            /\ Len(Append(inbox, Head(inbound).id)) = Len(inbox) + 1
        BY <3>2, <4>2, AppendedTyped
      <4>5. CASE UNCHANGED inbox
        BY <4>2, <4>5
      <4>6. CASE Len(inbox) < Inbox /\ inbox' = Append(inbox, Head(inbound).id)
        <5>1. Len(inbox) + 1 <= Inbox
          BY <4>3, <4>6, CapacitiesArePositive
        <5> QED BY <4>4, <4>6, <5>1, Zenon
      <4> QED BY <4>1, <4>5, <4>6
    <3>4. /\ delivery' \in [Deliverers -> {Resting} \cup [at : Stages, item : Items]]
          /\ before' \in [Items -> SUBSET Items]
      <4>1. UNCHANGED <<delivery, before>> \/ Deliver("reader", Head(inbound).id)
        BY <2>3 DEF ReadAsk, Frame
      <4> QED BY <3>2, <4>1, DeliverTyped DEF Typed, Deliverers
    <3> QED BY <2>1, <2>3, <3>3, <3>4 DEF Typed, ReadAsk, WriterLives
  <2> QED BY <1>13, <2>2, <2>3 DEF ReaderStep
<1>14. CASE TakeStream
  BY <1>14 DEF Typed, TakeStream, WriterLives
<1>15. CASE TakeAsk
  <2>1. Head(inbox) \in 1..MaxAsks /\ Tail(inbox) \in Seq(1..MaxAsks)
        /\ Len(Tail(inbox)) <= Inbox
    <3>1. inbox \in Seq(1..MaxAsks) /\ Len(inbox) <= Inbox /\ inbox # <<>>
      BY <1>15 DEF TakeAsk, Typed
    <3>2. Head(inbox) \in 1..MaxAsks /\ Tail(inbox) \in Seq(1..MaxAsks)
          /\ Len(Tail(inbox)) = Len(inbox) - 1
      BY <3>1, TakenTyped
    <3>3. Len(inbox) \in Nat
      BY <3>1
    <3> QED BY <3>1, <3>2, <3>3, CapacitiesArePositive
  <2> QED BY <1>15, <2>1 DEF Typed, TakeAsk, WriterLives
<1>16. ASSUME NEW n \in hands, Respond(n) PROVE Typed'
  <2>1. n \in Items
    <3>1. hands \subseteq 1..MaxAsks
      BY DEF Typed
    <3> QED BY <3>1, FrameBoundsAreNat DEF Items
  <2>2. /\ delivery' \in [Deliverers -> {Resting} \cup [at : Stages, item : Items]]
        /\ before' \in [Items -> SUBSET Items]
    BY <1>16, <2>1, DeliverTyped DEF Respond, Deliverers
  <2> QED BY <1>16, <2>2 DEF Typed, Respond, WriterLives
<1>17. CASE DropStream
  <2>1. ToSet(inbox) \subseteq 1..MaxAsks
    <3>1. inbox \in Seq(1..MaxAsks)
      BY DEF Typed
    <3>2. \A i \in DOMAIN inbox : inbox[i] \in 1..MaxAsks
      BY <3>1, MembersTyped
    <3> QED BY <3>2 DEF ToSet
  <2>2. inbox' \in Seq(1..MaxAsks) /\ Len(inbox') <= Inbox
    BY <1>17, CapacitiesArePositive DEF DropStream
  <2> QED BY <1>17, <2>1, <2>2 DEF Typed, DropStream, WriterLives
<1>18. CASE CloseActor
  <2>1. /\ delivery' \in [Deliverers -> {Resting} \cup [at : Stages, item : Items]]
        /\ before' \in [Items -> SUBSET Items]
    BY <1>18, DeliverTyped, FrameBoundsAreNat DEF CloseActor, Deliverers, Items, Close
  <2> QED BY <1>18, <2>1 DEF Typed, CloseActor, WriterLives
<1>19. CASE FinishClose \/ DropActor
  <2>1. Abort /\ owner' \in {"closed", "dropped"}
    BY <1>19 DEF FinishClose, DropActor
  <2>2. /\ outbound' \in Seq(OutFrames) /\ Len(outbound') <= Outbound
        /\ overflow' \in Seq(Items) /\ inbound' \in Seq(PeerFrames)
    BY <2>1, CapacitiesArePositive DEF Abort
  <2> QED BY <2>1, <2>2 DEF Typed, Abort, WriterLives
<1>20. CASE PeerSpeaks \/ PeerAsks
  <2>1. PICK f \in PeerFrames : todo' = <<f>>
    <3>1. asks \in 0..MaxAsks
      BY DEF Typed
    <3>2. CASE PeerSpeaks
      BY <3>2 DEF PeerSpeaks, PeerFrames
    <3>3. CASE PeerAsks
      <4>1. asks + 1 \in 1..MaxAsks /\ todo' = <<Ask(asks + 1)>>
        BY <3>1, <3>3, FrameBoundsAreNat DEF PeerAsks
      <4>2. Ask(asks + 1) \in PeerFrames
        BY <4>1 DEF PeerFrames
      <4> QED BY <4>1, <4>2
    <3> QED BY <1>20, <3>2, <3>3
  <2>2. asks' \in 0..MaxAsks
    BY <1>20, FrameBoundsAreNat DEF PeerSpeaks, PeerAsks, Typed
  <2> QED BY <1>20, <2>1, <2>2 DEF Typed, PeerSpeaks, PeerAsks, WriterLives
<1>21. CASE PeerWrites
  <2>1. PICK f \in PeerFrames : todo = <<f>>
    BY <1>21 DEF PeerWrites, Typed
  <2>2. inbound' \in Seq(PeerFrames)
    BY <1>21, <2>1 DEF PeerWrites, Typed
  <2> QED BY <1>21, <2>2 DEF Typed, PeerWrites, WriterLives
<1>22. CASE Gone
  BY <1>22 DEF Gone, Typed, vars, WriterLives
<1> QED
  BY <1>1, <1>2, <1>3, <1>4, <1>5, <1>6, <1>7, <1>8, <1>9, <1>10, <1>11, <1>12,
     <1>13, <1>14, <1>15, <1>16, <1>17, <1>18, <1>19, <1>20, <1>21, <1>22
     DEF Next, DeliverStep, DrainerStep, ConsumerStep

-----------------------------------------------------------------------------
(* Counting in queues and sets *)

LEMMA CountType ==
  ASSUME NEW S, NEW s \in Seq(S), NEW x
  PROVE  /\ IsFiniteSet({i \in DOMAIN s : s[i] = x})
         /\ CountIn(x, s) \in Nat
<1>1. IsFiniteSet(1..Len(s)) /\ DOMAIN s = 1..Len(s)
  BY FS_Interval
<1>2. {i \in DOMAIN s : s[i] = x} \subseteq 1..Len(s)
  BY <1>1
<1>3. IsFiniteSet({i \in DOMAIN s : s[i] = x})
  BY <1>1, <1>2, FS_Subset
<1> QED BY <1>3, FS_CardinalityType DEF CountIn

LEMMA CountEmpty == \A x : CountIn(x, <<>>) = 0
<1> SUFFICES ASSUME NEW x PROVE CountIn(x, <<>>) = 0
  OBVIOUS
<1>1. {i \in DOMAIN <<>> : <<>>[i] = x} = {}
  OBVIOUS
<1> QED BY <1>1, FS_EmptySet DEF CountIn

LEMMA CountNone ==
  ASSUME NEW S, NEW s \in Seq(S), NEW x
  PROVE  CountIn(x, s) = 0 <=> \A i \in DOMAIN s : s[i] # x
<1>1. CountIn(x, s) = 0 <=> {i \in DOMAIN s : s[i] = x} = {}
  BY CountType, FS_EmptySet DEF CountIn
<1> QED BY <1>1

LEMMA CountAppend ==
  ASSUME NEW S, NEW s \in Seq(S), NEW y \in S, NEW x
  PROVE  CountIn(x, Append(s, y)) = CountIn(x, s) + (IF y = x THEN 1 ELSE 0)
<1> DEFINE I == {i \in DOMAIN s : s[i] = x}
           J == {i \in DOMAIN Append(s, y) : Append(s, y)[i] = x}
<1>1. /\ Len(s) \in Nat /\ DOMAIN s = 1..Len(s)
      /\ DOMAIN Append(s, y) = 1..(Len(s) + 1)
      /\ Append(s, y)[Len(s) + 1] = y
      /\ \A i \in 1..Len(s) : Append(s, y)[i] = s[i]
  OBVIOUS
<1>2. J = IF y = x THEN I \cup {Len(s) + 1} ELSE I
  BY <1>1
<1>3. Len(s) + 1 \notin I
  BY <1>1
<1>4. IsFiniteSet(I) /\ Cardinality(I) = CountIn(x, s)
      /\ Cardinality(J) = CountIn(x, Append(s, y)) /\ Cardinality(I) \in Nat
  BY CountType DEF CountIn
<1> HIDE DEF I, J
<1>5. Cardinality(I \cup {Len(s) + 1}) = Cardinality(I) + 1
  BY <1>3, <1>4, FS_AddElement
<1> QED BY <1>2, <1>4, <1>5

LEMMA CountTail ==
  ASSUME NEW S, NEW s \in Seq(S), s # <<>>, NEW x
  PROVE  CountIn(x, s) = CountIn(x, Tail(s)) + (IF Head(s) = x THEN 1 ELSE 0)
<1> DEFINE I == {i \in DOMAIN s : s[i] = x}
           J == {i \in DOMAIN Tail(s) : Tail(s)[i] = x}
           K == I \ {1}
           f == [j \in J |-> j + 1]
<1>1. /\ Len(s) \in Nat \ {0} /\ DOMAIN s = 1..Len(s)
      /\ Tail(s) \in Seq(S) /\ Len(Tail(s)) = Len(s) - 1
      /\ DOMAIN Tail(s) = 1..(Len(s) - 1)
      /\ \A i \in 1..(Len(s) - 1) : Tail(s)[i] = s[i + 1]
      /\ Head(s) = s[1]
  OBVIOUS
<1>2. IsFiniteSet(I) /\ Cardinality(I) = CountIn(x, s)
  BY CountType DEF CountIn
<1>3. IsFiniteSet(J) /\ Cardinality(J) = CountIn(x, Tail(s)) /\ Cardinality(J) \in Nat
  BY <1>1, CountType DEF CountIn
<1>4. f \in Bijection(J, K)
  <2>1. f \in [J -> K]
    BY <1>1
  <2>2. \A j, k \in J : f[j] = f[k] => j = k
    BY <1>1
  <2>3. \A k \in K : \E j \in J : f[j] = k
    <3> SUFFICES ASSUME NEW k \in K PROVE \E j \in J : f[j] = k
      OBVIOUS
    <3>1. k \in 2..Len(s) /\ s[k] = x
      BY <1>1
    <3>2. k - 1 \in 1..(Len(s) - 1) /\ (k - 1) + 1 = k
      BY <1>1, <3>1
    <3>3. k - 1 \in J
      BY <1>1, <3>1, <3>2
    <3> QED BY <3>2, <3>3
  <2> QED BY <2>1, <2>2, <2>3, Fun_IsBij
<1> HIDE DEF I, J, K, f
<1>5. Cardinality(K) = Cardinality(J)
  BY <1>3, <1>4, FS_Bijection DEF ExistsBijection
<1>6. 1 \in I <=> Head(s) = x
  BY <1>1 DEF I
<1>7. Cardinality(I) \in Nat 
      /\ Cardinality(K) = IF 1 \in I THEN Cardinality(I) - 1 ELSE Cardinality(I)
  BY <1>2, FS_RemoveElement, FS_CardinalityType DEF K
<1> QED BY <1>2, <1>3, <1>5, <1>6, <1>7

LEMMA CountOne == \A x, y : CountIn(x, <<y>>) = IF y = x THEN 1 ELSE 0
<1> SUFFICES ASSUME NEW x, NEW y PROVE CountIn(x, <<y>>) = IF y = x THEN 1 ELSE 0
  OBVIOUS
<1>1. <<>> \in Seq({y}) /\ y \in {y}
  OBVIOUS
<1>2. CountIn(x, Append(<<>>, y)) = CountIn(x, <<>>) + (IF y = x THEN 1 ELSE 0)
  BY <1>1, CountAppend, Zenon
<1>3. Append(<<>>, y) = <<y>>
  OBVIOUS
<1> QED BY <1>2, <1>3, CountEmpty

\* At most one member makes a set of one or none.
LEMMA CountMeet ==
  ASSUME NEW S, NEW n
  PROVE  Cardinality({n} \cap S) = IF n \in S THEN 1 ELSE 0
<1>1. {n} \cap S = IF n \in S THEN {n} ELSE {}
  OBVIOUS
<1> QED BY <1>1, FS_EmptySet, FS_Singleton

-----------------------------------------------------------------------------
(* Where the duty to answer is *)

\* The request is underway, waits for the consumer, or is behind it.
Coming(n) == CountIn(Ask(n), todo) + CountIn(Ask(n), inbound)
Kept(n) == CountIn(n, inbox) + Cardinality({n} \cap hands)
Sent(n) == CountIn(Item(n), outbound) + CountIn(n, written)
Places(n) == Coming(n) + Kept(n) + Delivering(n) + CountIn(n, overflow)
             + InHand(n) + Sent(n)

Issued(n) == IF n = Close THEN owner # "open" ELSE n <= asks

\* No request is answered twice, and none is lost while both tasks work.
OneAnswer ==
    /\ \A n \in Items : Places(n) <= (IF Issued(n) THEN 1 ELSE 0)
    /\ WriterLives /\ reader = "reading" => \A n \in 1..asks : Places(n) = 1

InWriter(n) == IF writer.at = "writing" /\ writer.frame = Item(n) THEN 1 ELSE 0
InDrainer(n) == IF drainer.at = "send" /\ drainer.item = n THEN 1 ELSE 0

LEMMA InHandCounts == \A n : InHand(n) = InWriter(n) + InDrainer(n)
<1> SUFFICES ASSUME NEW n PROVE InHand(n) = InWriter(n) + InDrainer(n)
  OBVIOUS
<1>1. {t \in {writer} : t.at = "writing" /\ t.frame = Item(n)}
      = IF writer.at = "writing" /\ writer.frame = Item(n) THEN {writer} ELSE {}
  OBVIOUS
<1>2. {t \in {drainer} : t.at = "send" /\ t.item = n}
      = IF drainer.at = "send" /\ drainer.item = n THEN {drainer} ELSE {}
  OBVIOUS
<1> QED BY <1>1, <1>2, FS_EmptySet, FS_Singleton DEF InHand, InWriter, InDrainer

LEMMA InHandCounts2 == \A n : InHand(n)' = InWriter(n)' + InDrainer(n)'
<1> SUFFICES ASSUME NEW n PROVE InHand(n)' = InWriter(n)' + InDrainer(n)'
  OBVIOUS
<1>1. {t \in {writer'} : t.at = "writing" /\ t.frame = Item(n)}
      = IF writer'.at = "writing" /\ writer'.frame = Item(n) THEN {writer'} ELSE {}
  OBVIOUS
<1>2. {t \in {drainer'} : t.at = "send" /\ t.item = n}
      = IF drainer'.at = "send" /\ drainer'.item = n THEN {drainer'} ELSE {}
  OBVIOUS
<1> QED BY <1>1, <1>2, FS_EmptySet, FS_Singleton DEF InHand, InWriter, InDrainer

\* The deliveries of an item, and those at a stage.
About(n) == {p \in Deliverers : delivery[p] # Resting /\ delivery[p].item = n}
Pushing == {p \in Deliverers : delivery[p].at = "push"}

LEMMA FewDeliverers ==
  \A S : S \subseteq Deliverers => IsFiniteSet(S) /\ Cardinality(S) \in Nat
<1>1. IsFiniteSet(Deliverers)
  <2>1. Deliverers = (({} \cup {"reader"}) \cup {"consumer"}) \cup {"owner"}
    BY DEF Deliverers
  <2> QED BY <2>1, FS_EmptySet, FS_AddElement
<1> QED BY <1>1, FS_Subset, FS_CardinalityType

LEMMA DeliveringType == \A n : Delivering(n) = Cardinality(About(n)) /\ Delivering(n) \in Nat
  BY FewDeliverers DEF Delivering, About

LEMMA DeliverCounts ==
  ASSUME Typed, NEW p \in Deliverers, NEW m \in Items, Deliver(p, m)
  PROVE  /\ \A n : Delivering(n)' = Delivering(n) + (IF n = m THEN 1 ELSE 0)
         /\ Pushing' = Pushing
<1>1. /\ delivery' = [delivery EXCEPT ![p] = [at |-> "load", item |-> m]]
      /\ delivery[p] = Resting /\ DOMAIN delivery = Deliverers
  BY DEF Deliver, Typed
<1>2. ASSUME NEW n PROVE Delivering(n)' = Delivering(n) + (IF n = m THEN 1 ELSE 0)
  <2>1. p \notin About(n)
    BY <1>1 DEF About
  <2>2. About(n)' = IF n = m THEN About(n) \cup {p} ELSE About(n)
    BY <1>1 DEF About, Resting
  <2>3. Cardinality(About(n) \cup {p}) = Cardinality(About(n)) + 1
    BY <2>1, FewDeliverers, FS_AddElement DEF About
  <2>4. Delivering(n)' = Cardinality(About(n)') /\ Delivering(n) = Cardinality(About(n))
        /\ Delivering(n) \in Nat
    BY DeliveringType DEF Delivering, About
  <2> QED BY <2>2, <2>3, <2>4
<1>3. Pushing' = Pushing
  BY <1>1 DEF Pushing, Resting
<1> QED BY <1>2, <1>3

LEMMA HandedCounts ==
  ASSUME Typed, NEW p \in Deliverers, delivery[p].at \in Stages, Handed(p)
  PROVE  /\ \A n : Delivering(n) = Delivering(n)'
                                   + (IF n = delivery[p].item THEN 1 ELSE 0)
         /\ \A n : Delivering(n)' \in Nat
         /\ Pushing' = Pushing \ {p}
<1>1. /\ delivery' = [delivery EXCEPT ![p] = Resting]
      /\ delivery[p] # Resting /\ DOMAIN delivery = Deliverers
  BY AboutAnItem DEF Handed, Typed
<1>2. ASSUME NEW n
      PROVE  /\ Delivering(n) = Delivering(n)' + (IF n = delivery[p].item THEN 1 ELSE 0)
             /\ Delivering(n)' \in Nat
  <2>1. p \in About(n) <=> n = delivery[p].item
    BY <1>1 DEF About
  <2>2. About(n)' = About(n) \ {p}
    BY <1>1 DEF About
  <2>3. /\ Cardinality(About(n) \ {p})
           = IF p \in About(n) THEN Cardinality(About(n)) - 1 ELSE Cardinality(About(n))
        /\ Cardinality(About(n) \ {p}) \in Nat
    BY FewDeliverers, FS_RemoveElement DEF About
  <2>4. Delivering(n)' = Cardinality(About(n)') /\ Delivering(n) = Cardinality(About(n))
        /\ Delivering(n) \in Nat
    BY DeliveringType DEF Delivering, About
  <2> QED BY <2>1, <2>2, <2>3, <2>4
<1>3. Pushing' = Pushing \ {p}
  BY <1>1 DEF Pushing, Resting
<1> QED BY <1>2, <1>3

LEMMA AdvanceCounts ==
  ASSUME Typed, NEW p \in Deliverers, delivery[p].at \in Stages, NEW s \in Stages,
         Advance(p, s)
  PROVE  /\ \A n : Delivering(n)' = Delivering(n)
         /\ Pushing' = IF s = "push" THEN Pushing \cup {p} ELSE Pushing \ {p}
<1>0. DOMAIN delivery[p] = {"at", "item"}
      /\ delivery[p] = [x \in {"at", "item"} |-> delivery[p][x]]
  BY AboutAnItem
<1>1. [delivery[p] EXCEPT !.at = s] = [at |-> s, item |-> delivery[p].item]
  BY <1>0
<1>2. /\ delivery' = [delivery EXCEPT ![p] = [at |-> s, item |-> delivery[p].item]]
      /\ delivery[p] # Resting /\ DOMAIN delivery = Deliverers
  BY <1>1, AboutAnItem DEF Advance, Typed
<1>3. ASSUME NEW n PROVE About(n)' = About(n)
  <2>1. [at |-> s, item |-> delivery[p].item] # Resting
    BY DEF Resting, Stages
  <2> QED BY <1>2, <2>1 DEF About
<1>4. \A n : Delivering(n)' = Delivering(n)
  BY <1>3 DEF Delivering, About
<1>5. Pushing' = IF s = "push" THEN Pushing \cup {p} ELSE Pushing \ {p}
  BY <1>2 DEF Pushing
<1> QED BY <1>4, <1>5

\* Every count is a natural number.
LEMMA CountsTyped ==
  ASSUME Typed, NEW n
  PROVE  /\ CountIn(Ask(n), todo) \in Nat /\ CountIn(Ask(n), inbound) \in Nat
         /\ CountIn(n, inbox) \in Nat /\ Cardinality({n} \cap hands) \in Nat
         /\ Delivering(n) \in Nat /\ CountIn(n, overflow) \in Nat
         /\ InHand(n) \in Nat
         /\ CountIn(Item(n), outbound) \in Nat /\ CountIn(n, written) \in Nat
<1>1. CountIn(Ask(n), todo) \in Nat
  BY CountEmpty, CountOne DEF Typed
<1>2. Cardinality({n} \cap hands) \in Nat
  BY CountMeet
<1>3. InHand(n) \in Nat
  BY InHandCounts DEF InWriter, InDrainer
<1> QED BY <1>1, <1>2, <1>3, CountType, DeliveringType DEF Typed

LEMMA IdsTellFrames ==
  /\ \A n, m : (Item(n) = Item(m) <=> n = m) /\ (Ask(n) = Ask(m) <=> n = m)
  /\ \A n : Item(n) # Other /\ Ask(n) # Other
  BY DEF Item, Ask, Other

Working == WriterLives /\ reader = "reading"

\* What a step does to the duty to answer request n: it arises when the request
\* is issued, may vanish with a task, and otherwise only moves.
Flow(n) ==
    /\ Issued(n) => Issued(n)'
    /\ Working' => Working
    /\ LET new == IF Issued(n)' /\ ~Issued(n) THEN 1 ELSE 0
       IN  Places(n)' <= Places(n) + new /\ (Working' => Places(n)' = Places(n) + new)

LEMMA SumsTyped ==
  ASSUME Typed, NEW n
  PROVE  Coming(n) \in Nat /\ Kept(n) \in Nat /\ Sent(n) \in Nat
<1>1. /\ CountIn(Ask(n), todo) \in Nat /\ CountIn(Ask(n), inbound) \in Nat
      /\ CountIn(n, inbox) \in Nat /\ Cardinality({n} \cap hands) \in Nat
      /\ CountIn(Item(n), outbound) \in Nat /\ CountIn(n, written) \in Nat
  BY CountsTyped
<1> QED BY <1>1 DEF Coming, Kept, Sent

LEMMA PlacesType == ASSUME Typed, NEW n PROVE Places(n) \in Nat
  BY CountsTyped DEF Places, Coming, Kept, Sent

LEMMA PlacesTypeNext == Typed' => \A n : Places(n)' \in Nat
<1>1. Typed => \A n : Places(n) \in Nat
  BY PlacesType
<1>2. (Typed => \A n : Places(n) \in Nat)'
  BY <1>1, PTL
<1> QED BY <1>2

\* The steps of the reply path leave the requests themselves alone.
LEMMA PathFlow ==
  ASSUME Typed, NEW n, UNCHANGED <<owner, asks, reader>>,
         Working' => Working,
         /\ Places(n)' <= Places(n)
         /\ Working' => Places(n)' = Places(n)
  PROVE  Flow(n)
<1>1. Issued(n)' <=> Issued(n)
  BY DEF Issued
<1>2. Places(n) \in Nat /\ Places(n) + 0 = Places(n)
  BY PlacesType
<1> QED BY <1>1, <1>2 DEF Flow

\* The peer's side of the requests, when a step of the reply path is taken.
Upstream == <<todo, inbound, inbox, hands, owner, asks, reader>>

LEMMA UpstreamFlow ==
  ASSUME UNCHANGED Upstream, NEW n
  PROVE  Coming(n)' = Coming(n) /\ Kept(n)' = Kept(n)
  BY DEF Upstream, Coming, Kept

LEMMA DeliverStepFlow ==
  ASSUME Typed, NEW n, NEW p \in Deliverers, DeliverStep(p)
  PROVE  Flow(n)
<1> USE DEF path, consumer, peer
<1>1. UNCHANGED Upstream /\ UNCHANGED <<writer, written, drainer>>
  BY DEF DeliverStep, LoadBacklog, TrySend, Park, Push, Upstream
<1>2. /\ Coming(n)' = Coming(n) /\ Kept(n)' = Kept(n) /\ InHand(n)' = InHand(n)
      /\ CountIn(n, written)' = CountIn(n, written) /\ (Working' <=> Working)
  BY <1>1, UpstreamFlow DEF InHand, Working, WriterLives, Upstream
<1>3. /\ Coming(n) \in Nat /\ Kept(n) \in Nat /\ Delivering(n) \in Nat
      /\ CountIn(n, overflow) \in Nat /\ InHand(n) \in Nat
      /\ CountIn(Item(n), outbound) \in Nat /\ CountIn(n, written) \in Nat
  BY CountsTyped, SumsTyped
<1> DEFINE handedOver == IF n = delivery[p].item THEN 1 ELSE 0
<1>9. handedOver \in Nat
  OBVIOUS
<1>4. CASE UNCHANGED <<outbound, overflow>> /\ delivery[p].at \in Stages
           /\ \E s \in Stages : Advance(p, s)
  <2>1. Delivering(n)' = Delivering(n)
    BY <1>4, AdvanceCounts
  <2>2. Places(n)' = Places(n) /\ Places(n) \in Nat
    BY <1>2, <1>3, <1>4, <2>1 DEF Places, Sent
  <2> QED BY <1>1, <1>2, <2>2, PathFlow DEF Upstream
<1>5. ASSUME delivery[p].at \in Stages, Handed(p)
      PROVE  Delivering(n) = Delivering(n)' + handedOver /\ Delivering(n)' \in Nat
  BY <1>5, HandedCounts
<1>6. CASE LoadBacklog(p) \/ Park(p)
  <2>1. UNCHANGED <<outbound, overflow>> /\ delivery[p].at \in Stages
        /\ \E s \in Stages : Advance(p, s)
    BY <1>6 DEF LoadBacklog, Park, Stages
  <2> QED BY <1>4, <2>1
<1>7. CASE TrySend(p)
  <2>1. delivery[p].at \in Stages /\ "park" \in Stages /\ UNCHANGED overflow
    BY <1>7 DEF TrySend, Stages
  <2>2. CASE ~WriterLives /\ Handed(p) /\ UNCHANGED outbound
    <3>1. Places(n)' <= Places(n)
      BY <1>2, <1>3, <1>5, <2>1, <2>2 DEF Places, Sent
    <3>2. ~Working'
      BY <1>2, <2>2 DEF Working
    <3> QED BY <1>1, <3>1, <3>2, PathFlow DEF Upstream
  <2>3. CASE outbound' = Append(outbound, Item(delivery[p].item)) /\ Handed(p)
    <3>1. delivery[p].item \in Items /\ Item(delivery[p].item) \in OutFrames
      BY <2>1, AboutAnItem DEF OutFrames
    <3>2. CountIn(Item(n), outbound') = CountIn(Item(n), outbound) + handedOver
      BY <2>3, <3>1, CountAppend, IdsTellFrames DEF Typed
    <3>4. Delivering(n) = Delivering(n)' + handedOver /\ Delivering(n)' \in Nat
      BY <1>5, <2>1, <2>3
    <3>5. CountIn(n, overflow)' = CountIn(n, overflow)
      BY <2>1
    <3> HIDE DEF handedOver
    <3>3. Places(n)' = Places(n) /\ Places(n) \in Nat
      BY <1>2, <1>3, <1>9, <3>2, <3>4, <3>5 DEF Places, Sent
    <3> QED BY <1>1, <1>2, <3>3, PathFlow DEF Upstream
  <2>4. CASE Advance(p, "park") /\ UNCHANGED outbound
    BY <1>4, <2>1, <2>4
  <2> QED BY <1>7, <2>2, <2>3, <2>4 DEF TrySend
<1>8. CASE Push(p)
  <2>1. delivery[p].at \in Stages /\ Handed(p) /\ UNCHANGED outbound
    BY <1>8 DEF Push, Stages
  <2>2. CASE drainer = Over /\ UNCHANGED overflow
    <3>1. Places(n)' <= Places(n)
      BY <1>2, <1>3, <1>5, <2>1, <2>2 DEF Places, Sent
    <3>2. ~Working'
      BY <1>2, <2>2 DEF Working, Typed
    <3> QED BY <1>1, <3>1, <3>2, PathFlow DEF Upstream
  <2>3. CASE overflow' = Append(overflow, delivery[p].item)
    <3>1. delivery[p].item \in Items
      BY <2>1, AboutAnItem
    <3>2. CountIn(n, overflow') = CountIn(n, overflow) + handedOver
      BY <2>3, <3>1, CountAppend DEF Typed
    <3>4. Delivering(n) = Delivering(n)' + handedOver /\ Delivering(n)' \in Nat
      BY <1>5, <2>1, <2>3
    <3>5. CountIn(Item(n), outbound)' = CountIn(Item(n), outbound)
      BY <2>1
    <3> HIDE DEF handedOver
    <3>3. Places(n)' = Places(n) /\ Places(n) \in Nat
      BY <1>2, <1>3, <1>9, <3>2, <3>4, <3>5 DEF Places, Sent
    <3> QED BY <1>1, <1>2, <3>3, PathFlow DEF Upstream
  <2> QED BY <1>8, <2>2, <2>3 DEF Push
<1> QED BY <1>6, <1>7, <1>8 DEF DeliverStep

LEMMA DrainerFlow ==
  ASSUME Typed, NEW n, DrainerStep
  PROVE  Flow(n)
<1> USE DEF path, consumer, peer
<1>1. UNCHANGED Upstream /\ UNCHANGED <<writer, written, delivery>>
  BY DEF DrainerStep, DrainerTakes, DrainerSends, DrainerUncounts, Upstream
<1>2. /\ Coming(n)' = Coming(n) /\ Kept(n)' = Kept(n) /\ InWriter(n)' = InWriter(n)
      /\ Delivering(n)' = Delivering(n)
      /\ CountIn(n, written)' = CountIn(n, written) /\ (Working' <=> Working)
  BY <1>1, UpstreamFlow DEF InWriter, Working, WriterLives, Upstream, Delivering
<1>3. /\ Coming(n) \in Nat /\ Kept(n) \in Nat /\ Delivering(n) \in Nat
      /\ CountIn(n, overflow) \in Nat /\ InWriter(n) \in Nat /\ InDrainer(n) \in Nat
      /\ CountIn(Item(n), outbound) \in Nat /\ CountIn(n, written) \in Nat
  BY CountsTyped, SumsTyped DEF InWriter, InDrainer
<1>4. InHand(n) = InWriter(n) + InDrainer(n) /\ InHand(n)' = InWriter(n)' + InDrainer(n)'
  BY InHandCounts, InHandCounts2
<1>5. CASE DrainerTakes
  <2>1. overflow \in Seq(Items) /\ overflow # <<>> /\ overflow' = Tail(overflow)
        /\ UNCHANGED outbound
    BY <1>5 DEF DrainerTakes, Typed
  <2>2. CountIn(n, overflow) = CountIn(n, overflow') + (IF Head(overflow) = n THEN 1 ELSE 0)
    BY <2>1, CountTail
  <2>3. CountIn(n, overflow') \in Nat
    BY <2>1, CountType, TakenTyped
  <2>4. InDrainer(n) = 0 /\ InDrainer(n)' = IF Head(overflow) = n THEN 1 ELSE 0
    BY <1>5 DEF DrainerTakes, InDrainer, Receiving
  <2>5. InDrainer(n)' + CountIn(n, overflow)' = CountIn(n, overflow) /\ InDrainer(n) = 0
    BY <1>3, <2>2, <2>3, <2>4
  <2>6. InDrainer(n)' \in Nat /\ CountIn(n, overflow)' \in Nat
    BY <2>3, <2>4
  <2>7. CountIn(Item(n), outbound)' = CountIn(Item(n), outbound)
    BY <2>1
  <2>8. Places(n)' = Places(n) /\ Places(n) \in Nat
    BY <1>2, <1>3, <1>4, <2>5, <2>6, <2>7 DEF Places, Sent
  <2> QED BY <1>1, <1>2, <2>8, PathFlow DEF Upstream
<1>6. CASE DrainerSends
  <2>1. drainer \in [at : {"send"}, item : Items] /\ UNCHANGED overflow
    BY <1>6 DEF DrainerSends, Typed, Receiving, Over
  <2>2. InDrainer(n)' = 0 /\ InDrainer(n) = IF drainer.item = n THEN 1 ELSE 0
    BY <1>6 DEF DrainerSends, InDrainer
  <2>3. CASE WriterLives
    <3>1. outbound' = Append(outbound, Item(drainer.item))
      BY <1>6, <2>3 DEF DrainerSends
    <3>2. Item(drainer.item) \in OutFrames
      BY <2>1 DEF OutFrames
    <3>3. CountIn(Item(n), outbound') = CountIn(Item(n), outbound)
                                        + (IF drainer.item = n THEN 1 ELSE 0)
      BY <3>1, <3>2, CountAppend, IdsTellFrames DEF Typed
    <3>4. Places(n)' = Places(n) /\ Places(n) \in Nat
      BY <1>2, <1>3, <1>4, <2>1, <2>2, <3>3 DEF Places, Sent
    <3> QED BY <1>1, <1>2, <3>4, PathFlow DEF Upstream
  <2>4. CASE ~WriterLives
    <3>1. UNCHANGED outbound
      BY <1>6, <2>4 DEF DrainerSends
    <3>2. Places(n)' <= Places(n)
      BY <1>2, <1>3, <1>4, <2>1, <2>2, <3>1 DEF Places, Sent
    <3>3. ~Working'
      BY <1>2, <2>4 DEF Working
    <3> QED BY <1>1, <3>2, <3>3, PathFlow DEF Upstream
  <2> QED BY <2>3, <2>4
<1>7. CASE DrainerUncounts
  <2>1. InDrainer(n)' = 0 /\ InDrainer(n) = 0 /\ UNCHANGED <<overflow, outbound>>
    BY <1>7 DEF DrainerUncounts, InDrainer, Receiving
  <2>2. Places(n)' = Places(n) /\ Places(n) \in Nat
    BY <1>2, <1>3, <1>4, <2>1 DEF Places, Sent
  <2> QED BY <1>1, <1>2, <2>2, PathFlow DEF Upstream
<1> QED BY <1>5, <1>6, <1>7 DEF DrainerStep

LEMMA WriterFlow ==
  ASSUME Typed, NEW n, WriterReceives \/ WriteFrame \/ WriteFails
  PROVE  Flow(n)
<1> USE DEF path, consumer, peer
<1>1. UNCHANGED Upstream /\ UNCHANGED <<drainer, delivery, overflow>> /\ writer # Over
  BY DEF WriterReceives, WriteFrame, WriteFails, Upstream, Receiving, Over
<1>2. /\ Coming(n)' = Coming(n) /\ Kept(n)' = Kept(n) /\ InDrainer(n)' = InDrainer(n)
      /\ Delivering(n)' = Delivering(n) /\ CountIn(n, overflow)' = CountIn(n, overflow)
      /\ (Working' => Working)
  BY <1>1, UpstreamFlow DEF InDrainer, Working, WriterLives, Upstream, Delivering
<1>3. /\ Coming(n) \in Nat /\ Kept(n) \in Nat /\ Delivering(n) \in Nat
      /\ CountIn(n, overflow) \in Nat /\ InWriter(n) \in Nat /\ InDrainer(n) \in Nat
      /\ CountIn(Item(n), outbound) \in Nat /\ CountIn(n, written) \in Nat
  BY CountsTyped, SumsTyped DEF InWriter, InDrainer
<1>4. InHand(n) = InWriter(n) + InDrainer(n) /\ InHand(n)' = InWriter(n)' + InDrainer(n)'
  BY InHandCounts, InHandCounts2
<1>5. ASSUME InWriter(n)' \in Nat, CountIn(Item(n), outbound)' \in Nat,
             CountIn(n, written)' \in Nat,
             InWriter(n)' + CountIn(Item(n), outbound)' + CountIn(n, written)'
               <= InWriter(n) + CountIn(Item(n), outbound) + CountIn(n, written),
             Working' => InWriter(n)' + CountIn(Item(n), outbound)' + CountIn(n, written)'
                         = InWriter(n) + CountIn(Item(n), outbound) + CountIn(n, written)
      PROVE  Flow(n)
  <2>1. Places(n)' <= Places(n) /\ (Working' => Places(n)' = Places(n))
    BY <1>2, <1>3, <1>4, <1>5 DEF Places, Sent
  <2> QED BY <1>1, <1>2, <2>1, PathFlow DEF Upstream
<1>6. CASE WriterReceives
  <2>1. outbound \in Seq(OutFrames) /\ outbound # <<>> /\ InWriter(n) = 0
    BY <1>6 DEF WriterReceives, Typed, InWriter, Receiving
  <2>2. CountIn(Item(n), outbound) = CountIn(Item(n), Tail(outbound))
                                     + (IF Head(outbound) = Item(n) THEN 1 ELSE 0)
    BY <2>1, CountTail
  <2>3. CountIn(Item(n), Tail(outbound)) \in Nat
    BY <2>1, TakenTyped, CountType
  <2>4. CASE Head(outbound) = Item(Close)
    <3>1. writer' = Over /\ outbound' = <<>> /\ written' = Append(written, Close)
      BY <1>6, <2>4 DEF WriterReceives
    <3>2. InWriter(n)' = 0 /\ ~Working'
      BY <3>1 DEF InWriter, Over, Working, WriterLives
    <3>3. CountIn(Item(n), outbound)' = 0
      BY <3>1, CountEmpty
    <3>4. CountIn(n, written)' = CountIn(n, written) + (IF Close = n THEN 1 ELSE 0)
      <4>1. written \in Seq(Items) /\ Close \in Items
        BY FrameBoundsAreNat DEF Typed, Items, Close
      <4> QED BY <3>1, <4>1, CountAppend
    <3>5. Head(outbound) = Item(n) <=> Close = n
      BY <2>4, IdsTellFrames
    <3> QED BY <1>3, <1>5, <2>1, <2>2, <2>3, <3>2, <3>3, <3>4, <3>5
  <2>5. CASE Head(outbound) # Item(Close)
    <3>1. /\ writer' = [at |-> "writing", frame |-> Head(outbound)]
          /\ outbound' = Tail(outbound) /\ UNCHANGED written
      BY <1>6, <2>5 DEF WriterReceives
    <3>2. InWriter(n)' = IF Head(outbound) = Item(n) THEN 1 ELSE 0
      BY <3>1 DEF InWriter
    <3> QED BY <1>3, <1>5, <2>1, <2>2, <2>3, <3>1, <3>2
  <2> QED BY <2>4, <2>5
<1>7. CASE WriteFrame
  <2>1. writer \in [at : {"writing"}, frame : OutFrames]
    BY <1>7 DEF WriteFrame, Typed, Receiving, Over
  <2>2. InWriter(n)' = 0 /\ UNCHANGED outbound
    BY <1>7 DEF WriteFrame, InWriter, Receiving
  <2>3. CASE writer.frame = Other
    <3>1. InWriter(n) = 0 /\ UNCHANGED written
      BY <1>7, <2>3, IdsTellFrames DEF WriteFrame, InWriter
    <3> QED BY <1>3, <1>5, <2>2, <3>1
  <2>4. CASE writer.frame # Other
    <3>1. PICK m \in Items : writer.frame = Item(m)
      BY <2>1, <2>4 DEF OutFrames
    <3>2. InWriter(n) = IF m = n THEN 1 ELSE 0
      BY <2>1, <3>1, IdsTellFrames DEF InWriter
    <3>3. written' = Append(written, m)
      BY <1>7, <2>4, <3>1 DEF WriteFrame, Item
    <3>4. CountIn(n, written)' = CountIn(n, written) + (IF m = n THEN 1 ELSE 0)
      BY <3>3, CountAppend DEF Typed
    <3> QED BY <1>3, <1>5, <2>2, <3>2, <3>4
  <2> QED BY <2>3, <2>4
<1>8. CASE WriteFails
  <2>1. InWriter(n)' = 0 /\ ~Working' /\ CountIn(Item(n), outbound)' = 0
        /\ UNCHANGED written
    BY <1>8, CountEmpty DEF WriteFails, InWriter, Over, Working, WriterLives
  <2> QED BY <1>3, <1>5, <2>1
<1> QED BY <1>6, <1>7, <1>8

LEMMA QueueOtherFlow == ASSUME Typed, NEW n, QueueOther PROVE Flow(n)
<1> USE DEF path, consumer, peer
<1>1. UNCHANGED Upstream /\ UNCHANGED <<drainer, delivery, overflow, writer, written>>
  BY DEF QueueOther, Upstream
<1>2. /\ Coming(n)' = Coming(n) /\ Kept(n)' = Kept(n) /\ InHand(n)' = InHand(n)
      /\ Delivering(n)' = Delivering(n) /\ (Working' <=> Working)
  BY <1>1, UpstreamFlow DEF InHand, Working, WriterLives, Upstream, Delivering
<1>3. CountIn(Item(n), outbound') = CountIn(Item(n), outbound)
  <2>1. outbound \in Seq(OutFrames) /\ Other \in OutFrames
        /\ outbound' = Append(outbound, Other)
    BY DEF QueueOther, Typed, OutFrames
  <2>2. CountIn(Item(n), outbound') = CountIn(Item(n), outbound) + 0
    BY <2>1, CountAppend, IdsTellFrames
  <2>3. CountIn(Item(n), outbound) \in Nat
    BY CountsTyped
  <2> QED BY <2>1, <2>2, <2>3
<1>4. Places(n)' = Places(n) /\ Places(n) \in Nat
  BY <1>1, <1>2, <1>3, PlacesType DEF Places, Sent
<1> QED BY <1>1, <1>2, <1>4, PathFlow DEF Upstream

\* Behind the deliveries nothing moves when the other side of the actor does.
Downstream == <<outbound, writer, written, overflow, drainer>>

LEMMA DownstreamFlow ==
  ASSUME UNCHANGED Downstream, NEW n
  PROVE  /\ CountIn(n, overflow)' = CountIn(n, overflow) /\ InHand(n)' = InHand(n)
         /\ Sent(n)' = Sent(n) /\ WriterLives' = WriterLives
  BY DEF Downstream, InHand, Sent, WriterLives

LEMMA ReaderFlow ==
  ASSUME Typed, NEW n, ReaderStep \/ ReaderEnds
  PROVE  Flow(n)
<1> USE DEF path, consumer, peer
<1>1. UNCHANGED Downstream /\ UNCHANGED <<todo, hands, owner, asks>> /\ reader = "reading"
      /\ inbound \in Seq(PeerFrames)
  BY DEF ReaderStep, ReadOther, ReadAsk, ReaderEnds, Reads, Downstream, Typed
<1>2. /\ CountIn(n, overflow)' = CountIn(n, overflow) /\ InHand(n)' = InHand(n)
      /\ Sent(n)' = Sent(n) /\ WriterLives' = WriterLives
      /\ CountIn(Ask(n), todo)' = CountIn(Ask(n), todo)
      /\ Cardinality({n} \cap hands)' = Cardinality({n} \cap hands)
      /\ (Working' => Working) /\ (Issued(n)' <=> Issued(n))
  BY <1>1, DownstreamFlow DEF Working, Issued
<1>3. /\ CountIn(Ask(n), todo) \in Nat /\ CountIn(Ask(n), inbound) \in Nat
      /\ CountIn(n, inbox) \in Nat /\ Cardinality({n} \cap hands) \in Nat
      /\ Delivering(n) \in Nat /\ CountIn(n, overflow) \in Nat /\ InHand(n) \in Nat
      /\ Sent(n) \in Nat /\ Places(n) \in Nat
  BY CountsTyped, SumsTyped, PlacesType
<1>4. ASSUME Places(n)' <= Places(n), Working' => Places(n)' = Places(n)
      PROVE  Flow(n)
  <2>1. Places(n) + 0 = Places(n)
    BY <1>3
  <2> QED BY <1>2, <1>4, <2>1 DEF Flow
<1>5. CASE ReaderEnds
  <2>1. CountIn(Ask(n), inbound)' = 0 /\ ~Working' /\ UNCHANGED <<inbox, delivery>>
    BY <1>5, CountEmpty DEF ReaderEnds, Working
  <2>2. CountIn(n, inbox)' = CountIn(n, inbox) /\ Delivering(n)' = Delivering(n)
    BY <2>1 DEF Delivering
  <2>3. Places(n)' <= Places(n)
    BY <1>2, <1>3, <2>1, <2>2 DEF Places, Coming, Kept
  <2> QED BY <1>4, <2>1, <2>3
<1>6. ASSUME ReaderStep
      PROVE  /\ inbound # <<>> /\ Head(inbound) \in PeerFrames
             /\ CountIn(Ask(n), inbound) = CountIn(Ask(n), inbound)'
                                           + (IF Head(inbound) = Ask(n) THEN 1 ELSE 0)
             /\ CountIn(Ask(n), inbound)' \in Nat
  <2>1. inbound # <<>> /\ inbound' = Tail(inbound)
    BY <1>6 DEF ReaderStep, ReadOther, ReadAsk, Reads
  <2> QED BY <1>1, <2>1, CountTail, TakenTyped, CountType
<1>7. CASE ReadOther
  <2>1. Head(inbound) = Other /\ UNCHANGED <<inbox, delivery>>
    BY <1>7 DEF ReadOther, Frame
  <2>2. CountIn(n, inbox)' = CountIn(n, inbox) /\ Delivering(n)' = Delivering(n)
    BY <2>1 DEF Delivering
  <2>3. CountIn(Ask(n), inbound)' = CountIn(Ask(n), inbound)
    BY <1>3, <1>6, <1>7, <2>1, IdsTellFrames DEF ReaderStep
  <2>4. Places(n)' = Places(n)
    BY <1>2, <2>2, <2>3 DEF Places, Coming, Kept
  <2> QED BY <1>3, <1>4, <2>4
<1>8. CASE ReadAsk
  <2>1. PICK m \in 1..MaxAsks : Head(inbound) = Ask(m)
    BY <1>6, <1>8 DEF ReaderStep, ReadAsk, Frame, PeerFrames, Other
  <2>2. Head(inbound).id = m /\ m \in Items
    BY <2>1, FrameBoundsAreNat DEF Ask, Items
  <2>3. CountIn(Ask(n), inbound) = CountIn(Ask(n), inbound)' + (IF m = n THEN 1 ELSE 0)
        /\ CountIn(Ask(n), inbound)' \in Nat
    BY <1>6, <1>8, <2>1, IdsTellFrames DEF ReaderStep
  <2>4. CASE inbox' = Append(inbox, m) /\ UNCHANGED delivery
    <3>1. CountIn(n, inbox)' = CountIn(n, inbox) + (IF m = n THEN 1 ELSE 0)
      <4>1. inbox \in Seq(1..MaxAsks)
        BY DEF Typed
      <4> QED BY <2>4, <4>1, CountAppend
    <3>2. Delivering(n)' = Delivering(n)
      BY <2>4 DEF Delivering
    <3>3. Places(n)' = Places(n)
      BY <1>2, <1>3, <2>3, <3>1, <3>2 DEF Places, Coming, Kept
    <3> QED BY <1>3, <1>4, <3>3
  <2>5. CASE Deliver("reader", m) /\ UNCHANGED inbox
    <3>1. Delivering(n)' = Delivering(n) + (IF n = m THEN 1 ELSE 0)
      BY <2>2, <2>5, DeliverCounts DEF Deliverers
    <3>2. CountIn(n, inbox)' = CountIn(n, inbox)
      BY <2>5
    <3>3. Places(n)' = Places(n)
      BY <1>2, <1>3, <2>3, <3>1, <3>2 DEF Places, Coming, Kept
    <3> QED BY <1>3, <1>4, <3>3
  <2> QED BY <1>8, <2>2, <2>4, <2>5 DEF ReadAsk, Frame
<1> QED BY <1>5, <1>7, <1>8 DEF ReaderStep

LEMMA ConsumerFlow ==
  ASSUME Typed, NEW n, Places(n) <= 1, TakeStream \/ ConsumerStep \/ DropStream
  PROVE  Flow(n)
<1> USE DEF path, consumer, peer
<1>1. UNCHANGED Downstream /\ UNCHANGED <<todo, inbound, owner, asks, reader>>
  BY DEF TakeStream, ConsumerStep, TakeAsk, Respond, DropStream, Downstream
<1>2. /\ CountIn(n, overflow)' = CountIn(n, overflow) /\ InHand(n)' = InHand(n)
      /\ Sent(n)' = Sent(n) /\ Coming(n)' = Coming(n)
      /\ (Working' <=> Working) /\ (Issued(n)' <=> Issued(n))
  BY <1>1, DownstreamFlow DEF Working, Issued, Coming
<1>3. /\ Coming(n) \in Nat
      /\ CountIn(n, inbox) \in Nat /\ Cardinality({n} \cap hands) \in Nat
      /\ Delivering(n) \in Nat /\ CountIn(n, overflow) \in Nat /\ InHand(n) \in Nat
      /\ Sent(n) \in Nat /\ Places(n) \in Nat
  BY CountsTyped, SumsTyped, PlacesType
<1>4. ASSUME Kept(n)' + Delivering(n)' = Kept(n) + Delivering(n),
             Kept(n)' \in Nat, Delivering(n)' \in Nat
      PROVE  Flow(n)
  <2>1. Kept(n) \in Nat
    BY SumsTyped
  <2>2. Places(n)' = Places(n) /\ Places(n) + 0 = Places(n)
    BY <1>2, <1>3, <1>4, <2>1 DEF Places
  <2> QED BY <1>2, <1>3, <2>2 DEF Flow
<1>5. /\ Cardinality({n} \cap hands) = IF n \in hands THEN 1 ELSE 0
      /\ Cardinality({n} \cap hands)' = IF n \in hands' THEN 1 ELSE 0
  BY CountMeet
<1>6. CountIn(n, inbox) + Cardinality({n} \cap hands) <= 1
  BY <1>3 DEF Places, Kept
<1>7. inbox \in Seq(1..MaxAsks)
  BY DEF Typed
<1>8. CASE TakeStream
  <2>1. Kept(n)' = Kept(n) /\ Delivering(n)' = Delivering(n)
    BY <1>8 DEF TakeStream, Kept, Delivering
  <2> QED BY <1>3, <1>4, <2>1, SumsTyped
<1>9. CASE TakeAsk
  <2>1. inbox # <<>> /\ inbox' = Tail(inbox) /\ hands' = hands \cup {Head(inbox)}
        /\ UNCHANGED delivery
    BY <1>9 DEF TakeAsk
  <2>2. CountIn(n, inbox) = CountIn(n, inbox') + (IF Head(inbox) = n THEN 1 ELSE 0)
        /\ CountIn(n, inbox') \in Nat
    BY <1>7, <2>1, CountTail, TakenTyped, CountType
  <2>3. Cardinality({n} \cap hands)' = Cardinality({n} \cap hands)
                                       + (IF Head(inbox) = n THEN 1 ELSE 0)
    BY <1>3, <1>5, <1>6, <2>1, <2>2
  <2>4. Kept(n)' = Kept(n) /\ Delivering(n)' = Delivering(n)
    <3>1. Delivering(n)' = Delivering(n)
      BY <2>1 DEF Delivering
    <3> QED BY <1>3, <2>2, <2>3, <3>1 DEF Kept
  <2> QED BY <1>3, <1>4, <2>4, SumsTyped
<1>10. ASSUME NEW m \in hands, Respond(m) PROVE Flow(n)
  <2>1. m \in Items /\ Deliver("consumer", m) /\ hands' = hands \ {m} /\ UNCHANGED inbox
    <3>1. hands \subseteq 1..MaxAsks
      BY DEF Typed
    <3> QED BY <1>10, <3>1, FrameBoundsAreNat DEF Respond, Items
  <2>2. Delivering(n)' = Delivering(n) + (IF n = m THEN 1 ELSE 0)
    BY <2>1, DeliverCounts DEF Deliverers
  <2>3. Cardinality({n} \cap hands) = Cardinality({n} \cap hands)'
                                      + (IF n = m THEN 1 ELSE 0)
        /\ Cardinality({n} \cap hands)' \in Nat
    BY <1>5, <2>1
  <2>4. CountIn(n, inbox)' = CountIn(n, inbox)
    BY <2>1
  <2>5. Kept(n)' + Delivering(n)' = Kept(n) + Delivering(n)
        /\ Kept(n)' \in Nat /\ Delivering(n)' \in Nat
    BY <1>3, <2>2, <2>3, <2>4 DEF Kept
  <2> QED BY <1>4, <2>5
<1>11. CASE DropStream
  <2>1. inbox' = <<>> /\ hands' = hands \cup ToSet(inbox) /\ UNCHANGED delivery
    BY <1>11 DEF DropStream
  <2>2. CountIn(n, inbox)' = 0
    BY <2>1, CountEmpty
  <2>3. CountIn(n, inbox) = 0 <=> n \notin ToSet(inbox)
    BY <1>7, CountNone DEF ToSet
  <2>4. Cardinality({n} \cap hands)' = Cardinality({n} \cap hands) + CountIn(n, inbox)
    BY <1>3, <1>5, <1>6, <2>1, <2>3
  <2>5. Kept(n)' = Kept(n) /\ Delivering(n)' = Delivering(n)
    <3>1. Delivering(n)' = Delivering(n)
      BY <2>1 DEF Delivering
    <3> QED BY <1>3, <2>2, <2>4, <3>1 DEF Kept
  <2> QED BY <1>3, <1>4, <2>5, SumsTyped
<1> QED BY <1>8, <1>9, <1>10, <1>11 DEF ConsumerStep

LEMMA OwnerFlow ==
  ASSUME Typed, NEW n \in Items, CloseActor \/ FinishClose \/ DropActor
  PROVE  Flow(n)
<1> USE DEF path, consumer, peer
<1>1. Places(n) \in Nat /\ Delivering(n) \in Nat /\ Coming(n) \in Nat /\ Kept(n) \in Nat
      /\ CountIn(n, overflow) \in Nat /\ InHand(n) \in Nat
      /\ CountIn(Item(n), outbound) \in Nat /\ CountIn(n, written) \in Nat
      /\ CountIn(Ask(n), todo) \in Nat /\ CountIn(Ask(n), inbound) \in Nat
  BY PlacesType, CountsTyped, SumsTyped
<1>2. CASE CloseActor
  <2>1. UNCHANGED Downstream /\ UNCHANGED <<todo, inbound, asks, reader, inbox, hands>>
        /\ owner = "open" /\ owner' = "closing" /\ Deliver("owner", Close)
    BY <1>2 DEF CloseActor, Downstream
  <2>2. Delivering(n)' = Delivering(n) + (IF n = Close THEN 1 ELSE 0)
    <3>1. Close \in Items /\ "owner" \in Deliverers
      BY FrameBoundsAreNat DEF Close, Items, Deliverers
    <3> QED BY <2>1, <3>1, DeliverCounts
  <2>3. /\ CountIn(n, overflow)' = CountIn(n, overflow) /\ InHand(n)' = InHand(n)
        /\ Sent(n)' = Sent(n) /\ Coming(n)' = Coming(n) /\ Kept(n)' = Kept(n)
        /\ (Working' <=> Working)
    BY <2>1, DownstreamFlow DEF Working, Coming, Kept
  <2>4. Places(n)' = Places(n) + (IF n = Close THEN 1 ELSE 0)
    BY <1>1, <2>2, <2>3, SumsTyped DEF Places
  <2>5. (Issued(n)' /\ ~Issued(n) <=> n = Close) /\ (Issued(n) => Issued(n)')
    BY <2>1 DEF Issued
  <2> QED BY <1>1, <2>3, <2>4, <2>5 DEF Flow
<1>3. CASE FinishClose \/ DropActor
  <2>1. Abort /\ owner' \in {"closed", "dropped"} /\ (owner = "open" => DropActor)
    BY <1>3 DEF FinishClose, DropActor
  <2>2. ~Working' /\ (Issued(n) => Issued(n)')
    BY <2>1 DEF Abort, Working, Issued, WriterLives
  <2>3. Coming(n)' <= Coming(n)
    <3>1. CountIn(Ask(n), inbound)' = 0 /\ CountIn(Ask(n), todo)' = CountIn(Ask(n), todo)
      BY <2>1, CountEmpty DEF Abort
    <3> QED BY <1>1, <3>1 DEF Coming
  <2>4. CountIn(n, overflow)' = 0 /\ InHand(n)' = 0
    <3>1. InWriter(n)' = 0 /\ InDrainer(n)' = 0
      BY <2>1 DEF Abort, InWriter, InDrainer, Over
    <3> QED BY <2>1, <3>1, CountEmpty, InHandCounts2 DEF Abort
  <2>5. Sent(n)' <= Sent(n)
    <3>1. CountIn(Item(n), outbound)' = 0 /\ CountIn(n, written)' = CountIn(n, written)
      BY <2>1, CountEmpty DEF Abort
    <3> QED BY <1>1, <3>1 DEF Sent
  <2>6. Kept(n)' = Kept(n) /\ Delivering(n)' = Delivering(n)
    BY <2>1 DEF Abort, Kept, Delivering
  <2>7. Coming(n)' \in Nat /\ Sent(n)' \in Nat
    BY <1>1, <2>1, CountEmpty DEF Abort, Coming, Sent
  <2>8. Places(n)' <= Places(n)
    BY <1>1, <2>3, <2>4, <2>5, <2>6, <2>7, SumsTyped DEF Places
  <2>9. Places(n)' \in Nat
    BY <1>1, <2>4, <2>6, <2>7 DEF Places
  <2> QED BY <1>1, <2>2, <2>8, <2>9 DEF Flow, Working
<1> QED BY <1>2, <1>3

LEMMA PeerFlow ==
  ASSUME Typed, NEW n \in Items, PeerSpeaks \/ PeerAsks \/ PeerWrites
  PROVE  Flow(n)
<1> USE DEF path, consumer, peer
<1>1. UNCHANGED Downstream /\ UNCHANGED <<owner, reader, inbox, hands, delivery>>
  BY DEF PeerSpeaks, PeerAsks, PeerWrites, Downstream
<1>2. /\ CountIn(n, overflow)' = CountIn(n, overflow) /\ InHand(n)' = InHand(n)
      /\ Sent(n)' = Sent(n) /\ Kept(n)' = Kept(n) /\ Delivering(n)' = Delivering(n)
      /\ (Working' <=> Working)
  BY <1>1, DownstreamFlow DEF Working, Kept, Delivering
<1>3. Places(n) \in Nat /\ Delivering(n) \in Nat /\ Coming(n) \in Nat /\ Kept(n) \in Nat
      /\ CountIn(n, overflow) \in Nat /\ InHand(n) \in Nat /\ Sent(n) \in Nat
      /\ CountIn(Ask(n), todo) \in Nat /\ CountIn(Ask(n), inbound) \in Nat
  BY PlacesType, CountsTyped, SumsTyped
<1>4. CASE PeerSpeaks
  <2>1. CountIn(Ask(n), todo) = 0 /\ CountIn(Ask(n), todo') = 0
    BY <1>4, CountEmpty, CountOne, IdsTellFrames DEF PeerSpeaks
  <2>2. Coming(n)' = Coming(n) /\ (Issued(n)' <=> Issued(n))
    BY <1>4, <2>1 DEF PeerSpeaks, Coming, Issued
  <2>3. Places(n)' = Places(n) /\ Places(n) + 0 = Places(n)
    BY <1>2, <1>3, <2>2 DEF Places
  <2> QED BY <1>2, <1>3, <2>2, <2>3 DEF Flow
<1>5. CASE PeerAsks
  <2>1. asks \in 0..MaxAsks /\ asks' = asks + 1 /\ todo' = <<Ask(asks + 1)>>
        /\ todo = <<>> /\ UNCHANGED <<inbound, owner>>
    BY <1>5 DEF PeerAsks, Typed
  <2>2. CountIn(Ask(n), todo) = 0
        /\ CountIn(Ask(n), todo') = IF n = asks + 1 THEN 1 ELSE 0
    BY <2>1, CountEmpty, CountOne, IdsTellFrames
  <2>3. Coming(n)' = Coming(n) + (IF n = asks + 1 THEN 1 ELSE 0)
    BY <1>3, <2>1, <2>2 DEF Coming
  <2>4. (Issued(n)' /\ ~Issued(n) <=> n = asks + 1) /\ (Issued(n) => Issued(n)')
    BY <2>1, FrameBoundsAreNat DEF Issued, Items, Close
  <2>5. Places(n)' = Places(n) + (IF n = asks + 1 THEN 1 ELSE 0)
    BY <1>2, <1>3, <2>3 DEF Places
  <2> QED BY <1>2, <1>3, <2>4, <2>5 DEF Flow
<1>6. CASE PeerWrites
  <2>1. PICK f \in PeerFrames : todo = <<f>>
    BY <1>6 DEF PeerWrites, Typed
  <2>2. inbound \in Seq(PeerFrames) /\ todo' = <<>> /\ UNCHANGED <<asks, owner>>
    BY <1>6 DEF PeerWrites, Typed
  <2>3. CountIn(Ask(n), todo)' = 0
        /\ CountIn(Ask(n), todo) = IF f = Ask(n) THEN 1 ELSE 0
    BY <2>1, <2>2, CountEmpty, CountOne
  <2>4. Issued(n)' <=> Issued(n)
    BY <2>2 DEF Issued
  <2>5. CASE reader = "reading"
    <3>1. inbound' = Append(inbound, f)
      BY <1>6, <2>1, <2>2, <2>5 DEF PeerWrites
    <3>2. CountIn(Ask(n), inbound)' = CountIn(Ask(n), inbound)
                                      + (IF f = Ask(n) THEN 1 ELSE 0)
      BY <2>2, <3>1, CountAppend
    <3>3. Coming(n)' = Coming(n)
      BY <1>3, <2>3, <3>2 DEF Coming
    <3>4. Places(n)' = Places(n) /\ Places(n) + 0 = Places(n)
      BY <1>2, <1>3, <3>3 DEF Places
    <3> QED BY <1>2, <1>3, <2>4, <3>4 DEF Flow
  <2>6. CASE reader # "reading"
    <3>1. UNCHANGED inbound
      BY <1>6, <2>6 DEF PeerWrites
    <3>2. Coming(n)' <= Coming(n) /\ Coming(n)' \in Nat
      BY <1>3, <2>3, <3>1 DEF Coming
    <3>3. Places(n)' <= Places(n) /\ Places(n)' \in Nat
      BY <1>2, <1>3, <3>2 DEF Places
    <3>4. ~Working'
      BY <1>1, <2>6 DEF Working
    <3> QED BY <1>2, <1>3, <2>4, <3>3, <3>4 DEF Flow
  <2> QED BY <2>5, <2>6
<1> QED BY <1>4, <1>5, <1>6

LEMMA StepFlow ==
  ASSUME Typed, [Next]_vars, NEW n \in Items, Places(n) <= 1
  PROVE  Flow(n)
<1>1. CASE UNCHANGED vars
  <2>1. /\ Places(n)' = Places(n) /\ (Issued(n)' <=> Issued(n)) /\ (Working' <=> Working)
    BY <1>1 DEF vars, path, consumer, peer, Places, Coming, Kept, Delivering, InHand,
                Sent, Issued, Working, WriterLives
  <2>2. Places(n) \in Nat
    BY PlacesType
  <2> QED BY <2>1, <2>2 DEF Flow
<1>2. ASSUME NEW p \in Deliverers, DeliverStep(p) PROVE Flow(n)
  BY <1>2, DeliverStepFlow
<1>3. CASE DrainerStep
  BY <1>3, DrainerFlow
<1>4. CASE QueueOther
  BY <1>4, QueueOtherFlow
<1>5. CASE WriterReceives \/ WriteFrame \/ WriteFails
  BY <1>5, WriterFlow
<1>6. CASE ReaderStep \/ ReaderEnds
  BY <1>6, ReaderFlow
<1>7. CASE TakeStream \/ ConsumerStep \/ DropStream
  BY <1>7, ConsumerFlow
<1>8. CASE CloseActor \/ FinishClose \/ DropActor
  BY <1>8, OwnerFlow
<1>9. CASE PeerSpeaks \/ PeerAsks \/ PeerWrites
  BY <1>9, PeerFlow
<1>10. CASE Gone
  BY <1>1, <1>10 DEF Gone
<1> QED
  BY <1>1, <1>2, <1>3, <1>4, <1>5, <1>6, <1>7, <1>8, <1>9, <1>10 DEF Next

LEMMA InitOneAnswer == Init => OneAnswer
<1> SUFFICES ASSUME Init PROVE OneAnswer
  OBVIOUS
<1>1. ASSUME NEW n \in Items PROVE Places(n) = 0
  <2>1. Coming(n) = 0 /\ Sent(n) = 0 /\ CountIn(n, overflow) = 0 /\ CountIn(n, inbox) = 0
    BY CountEmpty DEF Init, Coming, Sent
  <2>2. Cardinality({n} \cap hands) = 0
    BY CountMeet DEF Init
  <2>3. InHand(n) = 0
    BY InHandCounts DEF Init, InWriter, InDrainer, Receiving
  <2>4. Delivering(n) = 0
    <3>1. About(n) = {}
      BY DEF Init, About
    <3> QED BY <3>1, DeliveringType, FS_EmptySet
  <2> QED BY <2>1, <2>2, <2>3, <2>4 DEF Places, Kept
<1>2. 1..asks = {}
  BY DEF Init
<1> QED BY <1>1, <1>2 DEF OneAnswer

LEMMA StepOneAnswer == Typed /\ OneAnswer /\ [Next]_vars => OneAnswer'
<1> SUFFICES ASSUME Typed, OneAnswer, [Next]_vars PROVE OneAnswer'
  OBVIOUS
<1>1. ASSUME NEW n \in Items PROVE Flow(n) /\ Places(n) \in Nat
  <2>1. Places(n) <= 1 /\ Places(n) \in Nat
    BY PlacesType DEF OneAnswer
  <2> QED BY <2>1, StepFlow
<1>2. ASSUME NEW n \in Items PROVE (Places(n) <= (IF Issued(n) THEN 1 ELSE 0))'
  <2>1. Places(n) <= (IF Issued(n) THEN 1 ELSE 0)
    BY DEF OneAnswer
  <2>2. /\ Issued(n) => Issued(n)'
        /\ Places(n)' <= Places(n) + (IF Issued(n)' /\ ~Issued(n) THEN 1 ELSE 0)
    BY <1>1 DEF Flow
  <2>3. Places(n) \in Nat /\ Places(n)' \in Nat
    BY <1>1, StepTyped, PlacesTypeNext
  <2> QED BY <2>1, <2>2, <2>3
<1>3. ASSUME Working', NEW n \in 1..asks' PROVE Places(n)' = 1
  <2>1. n \in Items /\ n # Close /\ Issued(n)'
    BY StepTyped, FrameBoundsAreNat DEF Typed, Items, Close, Issued
  <2>2. Working /\ Places(n)' = Places(n) + (IF Issued(n)' /\ ~Issued(n) THEN 1 ELSE 0)
    BY <1>1, <1>3, <2>1 DEF Flow
  <2>3. CASE Issued(n)
    <3>1. n \in 1..asks
      BY <2>1, <2>3 DEF Issued, Typed
    <3>2. Places(n) = 1
      BY <2>2, <3>1 DEF OneAnswer, Working
    <3> QED BY <2>2, <2>3, <3>2
  <2>4. CASE ~Issued(n)
    <3>1. Places(n) <= 0 /\ Places(n) \in Nat
      BY <1>1, <2>1, <2>4 DEF OneAnswer
    <3> QED BY <2>1, <2>2, <2>4, <3>1
  <2> QED BY <2>3, <2>4
<1> QED BY <1>2, <1>3 DEF OneAnswer, Working

\* A request that was read is not underway any more.
LEMMA OneAnswerImplies == Typed /\ OneAnswer => EveryAskHasOneAnswer
<1> SUFFICES ASSUME Typed, OneAnswer, Working, NEW n \in 1..asks, Read(n)
             PROVE  CountIn(n, inbox) + Cardinality({n} \cap hands) + Delivering(n)
                    + CountIn(n, overflow) + InHand(n) + CountIn(Item(n), outbound)
                    + CountIn(n, written) = 1
  BY DEF EveryAskHasOneAnswer, Working
<1>1. Places(n) = 1
  BY DEF OneAnswer, Working
<1>2. CountIn(Ask(n), inbound) = 0
  <2>1. \A i \in DOMAIN inbound : inbound[i] # Ask(n)
    BY DEF Read, ToSet
  <2> QED BY <2>1, CountNone DEF Typed
<1>3. CountIn(Ask(n), todo) = 0
  <2>1. CASE todo = <<>>
    BY <2>1, CountEmpty
  <2>2. ASSUME NEW f \in PeerFrames, todo = <<f>> PROVE CountIn(Ask(n), todo) = 0
    <3>1. f \in ToSet(todo)
      BY <2>2 DEF ToSet
    <3> QED BY <2>2, <3>1, CountOne DEF Read
  <2> QED BY <2>1, <2>2 DEF Typed
<1> QED BY <1>1, <1>2, <1>3, CountsTyped DEF Places, Coming, Kept, Sent

-----------------------------------------------------------------------------
(* The backlog *)

Busy == IF drainer.at \in {"send", "uncount"} THEN 1 ELSE 0

\* The counter never runs below what is about to be parked, and while the
\* drainer lives it is what is parked, about to be, or in the drainer's hands.
Counted ==
    /\ backlog \in Nat
    /\ backlog >= Cardinality(Pushing)
    /\ drainer # Over => backlog = Len(overflow) + Cardinality(Pushing) + Busy

LEMMA InitCounted == Init => Counted
<1> SUFFICES ASSUME Init PROVE Counted
  OBVIOUS
<1>1. Cardinality(Pushing) = 0
  <2>1. Pushing = {}
    BY DEF Init, Pushing, Resting
  <2> QED BY <2>1, FS_EmptySet
<1>2. Len(overflow) = 0 /\ Busy = 0 /\ backlog = 0
  BY DEF Init, Busy, Receiving
<1> QED BY <1>1, <1>2 DEF Counted

LEMMA StepCounted == Typed /\ Counted /\ [Next]_vars => Counted'
<1> SUFFICES ASSUME Typed, Counted, [Next]_vars PROVE Counted'
  OBVIOUS
<1> USE DEF path, consumer, peer
<1>1. /\ backlog \in Nat /\ Cardinality(Pushing) \in Nat /\ Len(overflow) \in Nat
      /\ IsFiniteSet(Pushing) /\ Busy \in {0, 1} /\ overflow \in Seq(Items)
      /\ backlog >= Cardinality(Pushing)
  BY FewDeliverers DEF Pushing, Counted, Typed, Busy
<1>2. CASE UNCHANGED <<backlog, overflow, drainer>> /\ Pushing' = Pushing
  BY <1>2 DEF Counted, Busy
<1>3. CASE UNCHANGED <<backlog, overflow, drainer, delivery>>
  BY <1>2, <1>3 DEF Pushing
<1>4. ASSUME NEW p \in Deliverers, delivery[p].at \in Stages, delivery[p].at # "push",
             UNCHANGED <<backlog, overflow, drainer>>,
             Handed(p) \/ \E s \in {"fast", "park"} : Advance(p, s)
      PROVE  Counted'
  <2>1. Pushing \ {p} = Pushing
    BY <1>4 DEF Pushing
  <2>2. Pushing' = Pushing
    BY <1>4, <2>1, HandedCounts, AdvanceCounts DEF Stages
  <2> QED BY <1>2, <1>4, <2>2
<1>5. ASSUME NEW p \in Deliverers, LoadBacklog(p) PROVE Counted'
  BY <1>4, <1>5 DEF LoadBacklog, Stages
<1>6. ASSUME NEW p \in Deliverers, TrySend(p) PROVE Counted'
  BY <1>4, <1>6 DEF TrySend, Stages
<1>7. ASSUME NEW p \in Deliverers, Park(p) PROVE Counted'
  <2>1. /\ delivery[p].at = "park" /\ backlog' = backlog + 1 /\ Advance(p, "push")
        /\ UNCHANGED <<overflow, drainer>>
    BY <1>7 DEF Park
  <2>2. Pushing' = Pushing \cup {p} /\ p \notin Pushing
    BY <2>1, AdvanceCounts DEF Pushing, Stages
  <2>3. Cardinality(Pushing') = Cardinality(Pushing) + 1
    BY <1>1, <2>2, FS_AddElement
  <2>4. Busy' = Busy
    BY <2>1 DEF Busy
  <2> QED BY <1>1, <2>1, <2>3, <2>4 DEF Counted
<1>8. ASSUME NEW p \in Deliverers, Push(p) PROVE Counted'
  <2>1. delivery[p].at = "push" /\ Handed(p) /\ UNCHANGED drainer
    BY <1>8 DEF Push
  <2>2. Pushing' = Pushing \ {p} /\ p \in Pushing
    BY <2>1, HandedCounts DEF Pushing, Stages
  <2>3. Cardinality(Pushing') = Cardinality(Pushing) - 1 /\ Cardinality(Pushing') \in Nat
    BY <1>1, <2>2, FS_RemoveElement, FS_CardinalityType
  <2>4. Busy' = Busy
    BY <2>1 DEF Busy
  <2>5. CASE drainer = Over
    <3>1. backlog' = backlog - 1 /\ UNCHANGED overflow
      BY <1>8, <2>5 DEF Push
    <3> QED BY <1>1, <2>1, <2>3, <2>5, <3>1 DEF Counted
  <2>6. CASE drainer # Over
    <3>1. overflow' = Append(overflow, delivery[p].item) /\ UNCHANGED backlog
      BY <1>8, <2>6 DEF Push
    <3>2. Len(overflow') = Len(overflow) + 1
      BY <2>1, <3>1, AboutAnItem, AppendedTyped DEF Typed, Stages
    <3> QED BY <1>1, <2>3, <2>4, <2>6, <3>1, <3>2 DEF Counted
  <2> QED BY <2>5, <2>6
<1>9. ASSUME UNCHANGED delivery PROVE Cardinality(Pushing') = Cardinality(Pushing)
  BY <1>9 DEF Pushing
<1>10. CASE DrainerTakes
  <2>1. /\ UNCHANGED <<backlog, delivery>> /\ overflow # <<>> /\ overflow' = Tail(overflow)
        /\ drainer # Over
    BY <1>10 DEF DrainerTakes, Receiving, Over
  <2>2. Busy = 0 /\ Busy' = 1
    BY <1>10 DEF DrainerTakes, Busy, Receiving
  <2>3. Len(overflow') = Len(overflow) - 1
    BY <1>1, <2>1, TakenTyped
  <2> QED BY <1>1, <1>9, <2>1, <2>2, <2>3 DEF Counted
<1>11. CASE DrainerSends
  <2>1. /\ UNCHANGED <<backlog, delivery, overflow>> /\ drainer # Over
        /\ Busy = 1 /\ Busy' = 1
    BY <1>11 DEF DrainerSends, Over, Busy
  <2> QED BY <1>1, <1>9, <2>1 DEF Counted
<1>12. CASE DrainerUncounts
  <2>1. /\ UNCHANGED <<delivery, overflow>> /\ backlog' = backlog - 1
        /\ drainer # Over
    BY <1>12 DEF DrainerUncounts, Over
  <2>2. Busy = 1 /\ Busy' = 0
    BY <1>12 DEF DrainerUncounts, Busy, Receiving
  <2> QED BY <1>1, <1>9, <2>1, <2>2 DEF Counted
<1>13. CASE FinishClose \/ DropActor
  <2>1. UNCHANGED <<backlog, delivery>> /\ drainer' = Over
    BY <1>13 DEF FinishClose, DropActor, Abort
  <2> QED BY <1>1, <1>9, <2>1 DEF Counted
<1>14. ASSUME NEW p \in Deliverers, NEW m \in Items, Deliver(p, m),
              UNCHANGED <<backlog, overflow, drainer>>
       PROVE  Counted'
  BY <1>2, <1>14, DeliverCounts
<1>15. CASE CloseActor
  BY <1>14, <1>15, FrameBoundsAreNat DEF CloseActor, Close, Items, Deliverers
<1>16. ASSUME NEW m \in hands, Respond(m) PROVE Counted'
  <2>1. m \in Items
    <3>1. hands \subseteq 1..MaxAsks
      BY DEF Typed
    <3> QED BY <3>1, FrameBoundsAreNat DEF Items
  <2> QED BY <1>14, <1>16, <2>1 DEF Respond, Deliverers
<1>17. CASE ReadAsk
  <2>1. Frame.id \in Items
    <3>1. Head(inbound) \in PeerFrames
      BY <1>17, TakenTyped DEF ReadAsk, Reads, Typed
    <3> QED BY <1>17, <3>1, FrameBoundsAreNat DEF ReadAsk, Frame, PeerFrames, Ask, Other, Items
  <2> QED BY <1>3, <1>14, <1>17, <2>1 DEF ReadAsk, Deliverers
<1>18. CASE QueueOther \/ WriterReceives \/ WriteFrame \/ WriteFails \/ ReadOther
            \/ ReaderEnds \/ TakeStream \/ TakeAsk \/ DropStream \/ PeerSpeaks
            \/ PeerAsks \/ PeerWrites \/ Gone \/ UNCHANGED vars
  <2>1. UNCHANGED <<backlog, overflow, drainer, delivery>>
    BY <1>18 DEF QueueOther, WriterReceives, WriteFrame, WriteFails, ReadOther, ReaderEnds,
                 TakeStream, TakeAsk, DropStream, PeerSpeaks, PeerAsks, PeerWrites, Gone,
                 vars
  <2> QED BY <1>3, <2>1
<1> QED
  BY <1>5, <1>6, <1>7, <1>8, <1>10, <1>11, <1>12, <1>13, <1>15, <1>16, <1>17, <1>18
     DEF Next, DeliverStep, DrainerStep, ReaderStep, ConsumerStep

-----------------------------------------------------------------------------
(* The order of the replies *)

\* The way of an item to the wire: written, with the writer, queued, with the
\* drainer, parked.
Done(m) == \E j \in DOMAIN written : written[j] = m
InPen(m) == writer.at = "writing" /\ writer.frame = Item(m)
Ahead(m) == Done(m) \/ InPen(m) \/ \E j \in DOMAIN outbound : outbound[j] = Item(m)
Draining(m) == drainer.at = "send" /\ drainer.item = m
InLine(m) == Ahead(m) \/ Draining(m) \/ \E j \in DOMAIN overflow : overflow[j] = m

\* Behind each of them, all that was handed over before its delivery began.
PenBehind == \A n \in Items : InPen(n) => \A m \in before[n] : Done(m)
QueueBehind ==
    \A i \in DOMAIN outbound : \A n \in Items : outbound[i] = Item(n) =>
        \A m \in before[n] :
            Done(m) \/ InPen(m) \/ \E j \in 1..(i - 1) : outbound[j] = Item(m)
DrainerBehind == \A n \in Items : Draining(n) => \A m \in before[n] : Ahead(m)
OverflowBehind ==
    \A i \in DOMAIN overflow : \A m \in before[overflow[i]] :
        Ahead(m) \/ Draining(m) \/ \E j \in 1..(i - 1) : overflow[j] = m
FastBehind ==
    \A p \in Deliverers : delivery[p].at = "fast" =>
        \A m \in before[delivery[p].item] : Ahead(m)
HandedInLine == \A m \in handed : InLine(m)
Behind == /\ PenBehind /\ QueueBehind /\ DrainerBehind
          /\ OverflowBehind /\ FastBehind /\ HandedInLine

WrittenBehind ==
    \A i \in DOMAIN written : \A m \in before[written[i]] :
        \E j \in 1..(i - 1) : written[j] = m
BegunBehind ==
    \A p \in Deliverers : delivery[p] # Resting =>
        before[delivery[p].item] \subseteq handed

\* Once the writer is gone nothing is written, and the line is of no interest.
Ordered == WrittenBehind /\ BegunBehind /\ (WriterLives => Behind)

LEMMA InitOrdered == Init => Ordered
<1> SUFFICES ASSUME Init PROVE Ordered
  OBVIOUS
<1>1. /\ written = <<>> /\ outbound = <<>> /\ overflow = <<>> /\ handed = {}
      /\ writer.at = "receive" /\ drainer.at = "receive"
      /\ \A p \in Deliverers : delivery[p] = Resting /\ delivery[p].at = "rest"
  BY DEF Init, Receiving, Resting
<1>2. DOMAIN <<>> = {}
  OBVIOUS
<1> QED BY <1>1, <1>2 DEF Ordered, WrittenBehind, BegunBehind, Behind, PenBehind, QueueBehind,
                          DrainerBehind, OverflowBehind, FastBehind, HandedInLine, InPen,
                          Draining

\* The invariant says what the property says.
LEMMA OrderedImplies == Typed /\ Ordered => RepliesInOrder
<1> SUFFICES ASSUME Typed, Ordered, NEW i \in DOMAIN written, NEW m \in before[written[i]]
             PROVE  m \in {written[j] : j \in 1..(i - 1)}
  BY DEF RepliesInOrder
<1> QED BY DEF Ordered, WrittenBehind

\* An item without a place is nowhere on the way.
LEMMA NowhereElse ==
  ASSUME Typed, NEW n \in Items,
         Delivering(n) + CountIn(n, overflow) + InHand(n) + Sent(n) = 0
  PROVE  /\ ~Done(n) /\ ~InPen(n) /\ ~Draining(n)
         /\ \A i \in DOMAIN outbound : outbound[i] # Item(n)
         /\ \A i \in DOMAIN overflow : overflow[i] # n
         /\ \A p \in Deliverers : delivery[p] # Resting => delivery[p].item # n
<1>1. /\ Delivering(n) = 0 /\ CountIn(n, overflow) = 0 /\ InHand(n) = 0
      /\ CountIn(Item(n), outbound) = 0 /\ CountIn(n, written) = 0
  <2>1. /\ Delivering(n) \in Nat /\ CountIn(n, overflow) \in Nat /\ InHand(n) \in Nat
        /\ CountIn(Item(n), outbound) \in Nat /\ CountIn(n, written) \in Nat
    BY CountsTyped
  <2>2. Delivering(n) + CountIn(n, overflow) + InHand(n)
        + (CountIn(Item(n), outbound) + CountIn(n, written)) = 0
    BY DEF Sent
  <2>3. Delivering(n) = 0 /\ CountIn(n, overflow) = 0 /\ InHand(n) = 0
        /\ CountIn(Item(n), outbound) + CountIn(n, written) = 0
    BY <2>1, <2>2
  <2>4. CountIn(Item(n), outbound) = 0
    BY <2>1, <2>3
  <2>5. CountIn(n, written) = 0
    BY <2>1, <2>3
  <2> QED BY <2>3, <2>4, <2>5
<1>2. ~Done(n) /\ (\A i \in DOMAIN outbound : outbound[i] # Item(n))
      /\ (\A i \in DOMAIN overflow : overflow[i] # n)
  BY <1>1, CountNone DEF Typed, Done
<1>3. ~InPen(n) /\ ~Draining(n)
  BY <1>1, InHandCounts DEF InWriter, InDrainer, InPen, Draining
<1>4. About(n) = {}
  <2>1. Cardinality(About(n)) = 0 /\ IsFiniteSet(About(n))
    BY <1>1, DeliveringType, FewDeliverers DEF About
  <2> QED BY <2>1, FS_EmptySet
<1>5. \A p \in Deliverers : delivery[p] # Resting => delivery[p].item # n
  BY <1>4 DEF About
<1> QED BY <1>2, <1>3, <1>5

\* Beginning the delivery of an item that is nowhere on the way.
LEMMA DeliverOrdered ==
  ASSUME Typed, Ordered, NEW p \in Deliverers, NEW n \in Items, Deliver(p, n),
         Delivering(n) + CountIn(n, overflow) + InHand(n) + Sent(n) = 0,
         UNCHANGED <<outbound, writer, written, overflow, drainer, handed>>
  PROVE  Ordered'
<1>1. /\ ~Done(n) /\ ~InPen(n) /\ ~Draining(n)
      /\ \A i \in DOMAIN outbound : outbound[i] # Item(n)
      /\ \A i \in DOMAIN overflow : overflow[i] # n
      /\ \A q \in Deliverers : delivery[q] # Resting => delivery[q].item # n
  BY NowhereElse
<1>2. /\ before' = [before EXCEPT ![n] = handed] /\ before \in [Items -> SUBSET Items]
      /\ delivery' = [delivery EXCEPT ![p] = [at |-> "load", item |-> n]]
      /\ DOMAIN delivery = Deliverers
  BY DEF Deliver, Typed
<1>3. \A m \in Items : m # n => before'[m] = before[m]
  BY <1>2
<1>4. /\ \A m : Done(m)' <=> Done(m)
      /\ \A m : InPen(m)' <=> InPen(m)
      /\ \A m : Ahead(m)' <=> Ahead(m)
      /\ \A m : Draining(m)' <=> Draining(m)
      /\ \A m : InLine(m)' <=> InLine(m)
      /\ (WriterLives' <=> WriterLives)
  BY DEF Done, InPen, Ahead, Draining, InLine, WriterLives
<1>5. WrittenBehind'
  <2>1. \A i \in DOMAIN written : written[i] \in Items /\ written[i] # n
    BY <1>1, MembersTyped DEF Done, Typed
  <2>2. WrittenBehind
    BY DEF Ordered
  <2> QED BY <1>3, <2>1, <2>2 DEF WrittenBehind
<1>6. BegunBehind'
  <2>1. ASSUME NEW q \in Deliverers, delivery'[q] # Resting
        PROVE  before'[delivery'[q].item] \subseteq handed
    <3>1. CASE q = p
      BY <1>2, <3>1
    <3>2. CASE q # p
      <4>1. delivery'[q] = delivery[q] /\ delivery[q].item \in Items
        BY <1>2, <2>1, <3>2 DEF Typed
      <4>2. before'[delivery'[q].item] = before[delivery[q].item]
        BY <1>1, <1>3, <2>1, <4>1
      <4> QED BY <2>1, <4>1, <4>2 DEF Ordered, BegunBehind
    <3> QED BY <3>1, <3>2
  <2> QED BY <2>1 DEF BegunBehind
<1>7. ASSUME WriterLives PROVE Behind'
  <2>1. Behind
    BY <1>7 DEF Ordered
  <2>2. PenBehind'
    BY <1>1, <1>3, <1>4, <2>1 DEF Behind, PenBehind
  <2>3. QueueBehind'
    BY <1>1, <1>3, <1>4, <2>1 DEF Behind, QueueBehind
  <2>4. DrainerBehind'
    BY <1>1, <1>3, <1>4, <2>1 DEF Behind, DrainerBehind
  <2>5. OverflowBehind'
    <3>1. \A i \in DOMAIN overflow : overflow[i] \in Items /\ overflow[i] # n
      BY <1>1, MembersTyped DEF Typed
    <3> QED BY <1>3, <1>4, <2>1, <3>1 DEF Behind, OverflowBehind
  <2>6. FastBehind'
    <3>1. ASSUME NEW q \in Deliverers, delivery'[q].at = "fast"
          PROVE  \A m \in before'[delivery'[q].item] : Ahead(m)'
      <4>1. q # p
        BY <1>2, <3>1
      <4>2. delivery'[q] = delivery[q] /\ delivery[q].at = "fast"
        BY <1>2, <3>1, <4>1
      <4>3. delivery[q].item \in Items /\ delivery[q] # Resting
        BY <4>2, AboutAnItem DEF Stages
      <4>4. before'[delivery'[q].item] = before[delivery[q].item]
        BY <1>1, <1>3, <4>2, <4>3
      <4> QED BY <1>4, <2>1, <4>2, <4>4 DEF Behind, FastBehind
    <3> QED BY <3>1 DEF FastBehind
  <2>7. HandedInLine'
    BY <1>4, <2>1 DEF Behind, HandedInLine
  <2> QED BY <2>2, <2>3, <2>4, <2>5, <2>6, <2>7 DEF Behind
<1> QED BY <1>4, <1>5, <1>6, <1>7 DEF Ordered

\* What a delivery in progress is about, when it moves on.
LEMMA AdvanceItem ==
  ASSUME Typed, NEW p \in Deliverers, delivery[p].at \in Stages, NEW s, Advance(p, s)
  PROVE  /\ delivery' = [delivery EXCEPT ![p] = [at |-> s, item |-> delivery[p].item]]
         /\ UNCHANGED handed
<1>1. DOMAIN delivery[p] = {"at", "item"}
      /\ delivery[p] = [x \in {"at", "item"} |-> delivery[p][x]]
  BY AboutAnItem
<1>2. [delivery[p] EXCEPT !.at = s] = [at |-> s, item |-> delivery[p].item]
  BY <1>1
<1> QED BY <1>2 DEF Advance

LEMMA AdvanceBegun ==
  ASSUME Typed, BegunBehind, NEW p \in Deliverers, delivery[p].at \in Stages, NEW s,
         Advance(p, s), UNCHANGED before
  PROVE  BegunBehind'
<1>1. delivery' = [delivery EXCEPT ![p] = [at |-> s, item |-> delivery[p].item]]
      /\ UNCHANGED handed /\ delivery[p] # Resting /\ DOMAIN delivery = Deliverers
  BY AdvanceItem, AboutAnItem DEF Typed
<1> QED BY <1>1 DEF BegunBehind

LEMMA HandedBegun ==
  ASSUME Typed, BegunBehind, NEW p \in Deliverers, Handed(p), UNCHANGED before
  PROVE  BegunBehind'
  BY DEF BegunBehind, Handed, Typed

\* The fast path is taken when nothing is parked, and then all is ahead.
LEMMA LoadOrdered ==
  ASSUME Typed, Counted, Ordered, NEW p \in Deliverers, LoadBacklog(p)
  PROVE  Ordered'
<1>1. delivery[p].at \in Stages
      /\ UNCHANGED <<outbound, writer, written, overflow, drainer, before>>
      /\ Advance(p, IF backlog = 0 THEN "fast" ELSE "park")
  BY DEF LoadBacklog, Stages
<1>2. delivery' = [delivery EXCEPT ![p] = [at |-> IF backlog = 0 THEN "fast" ELSE "park",
                                           item |-> delivery[p].item]]
      /\ UNCHANGED handed /\ DOMAIN delivery = Deliverers /\ delivery[p] # Resting
  BY <1>1, AdvanceItem, AboutAnItem DEF Typed
<1>3. WrittenBehind' /\ (WriterLives' <=> WriterLives)
  BY <1>1 DEF Ordered, WrittenBehind, WriterLives
<1>4. BegunBehind'
  BY <1>1, AdvanceBegun DEF Ordered
<1>5. ASSUME WriterLives PROVE Behind'
  <2>1. Behind
    BY <1>5 DEF Ordered
  <2>2. /\ PenBehind' /\ QueueBehind' /\ DrainerBehind' /\ OverflowBehind' /\ HandedInLine'
    BY <1>1, <1>2, <2>1 DEF Behind, PenBehind, QueueBehind, DrainerBehind, OverflowBehind,
                            HandedInLine, Done, InPen, Ahead, Draining, InLine
  <2>3. \A m : Ahead(m)' <=> Ahead(m)
    BY <1>1 DEF Ahead, Done, InPen
  <2>4. backlog = 0 => \A m \in before[delivery[p].item] : Ahead(m)
    <3> SUFFICES ASSUME backlog = 0, NEW m \in before[delivery[p].item] PROVE Ahead(m)
      OBVIOUS
    <3>1. drainer # Over
      BY <1>5 DEF Typed
    <3>2. Len(overflow) = 0 /\ Busy = 0
      <4>1. Len(overflow) \in Nat /\ Cardinality(Pushing) \in Nat /\ Busy \in Nat
        BY FewDeliverers DEF Typed, Pushing, Busy
      <4> QED BY <3>1, <4>1 DEF Counted
    <3>3. m \in handed
      BY <1>2 DEF Ordered, BegunBehind
    <3>4. InLine(m)
      BY <2>1, <3>3 DEF Behind, HandedInLine
    <3>5. ~Draining(m)
      BY <3>2 DEF Busy, Draining
    <3>6. DOMAIN overflow = {}
      BY <3>2 DEF Typed
    <3> QED BY <3>4, <3>5, <3>6 DEF InLine
  <2>5. FastBehind'
    <3>1. ASSUME NEW q \in Deliverers, delivery'[q].at = "fast"
          PROVE  \A m \in before'[delivery'[q].item] : Ahead(m)'
      <4>1. CASE q = p
        BY <1>1, <1>2, <2>3, <2>4, <3>1, <4>1
      <4>2. CASE q # p
        BY <1>1, <1>2, <2>1, <2>3, <3>1, <4>2 DEF Behind, FastBehind
      <4> QED BY <4>1, <4>2
    <3> QED BY <3>1 DEF FastBehind
  <2> QED BY <2>2, <2>5 DEF Behind
<1> QED BY <1>3, <1>4, <1>5 DEF Ordered

\* An item that joins the queue of the writer joins it last.
LEMMA QueuedOrdered ==
  ASSUME Typed, Behind, NEW n \in Items, outbound' = Append(outbound, Item(n)),
         \A m \in before[n] : Ahead(m), UNCHANGED <<writer, written, before>>
  PROVE  /\ QueueBehind' /\ PenBehind'
         /\ \A m : Ahead(m)' <=> Ahead(m) \/ m = n
<1>1. /\ outbound \in Seq(OutFrames) /\ Len(outbound) \in Nat
      /\ DOMAIN outbound = 1..Len(outbound)
  BY DEF Typed
<1>2. /\ DOMAIN outbound' = 1..(Len(outbound) + 1)
      /\ outbound'[Len(outbound) + 1] = Item(n)
      /\ \A i \in 1..Len(outbound) : outbound'[i] = outbound[i]
  BY <1>1
<1>3. \A m : (Done(m)' <=> Done(m)) /\ (InPen(m)' <=> InPen(m))
  BY DEF Done, InPen
<1>4. \A m : (\E j \in DOMAIN outbound' : outbound'[j] = Item(m))
             <=> (\E j \in DOMAIN outbound : outbound[j] = Item(m)) \/ m = n
  BY <1>1, <1>2, IdsTellFrames
<1>5. \A m : Ahead(m)' <=> Ahead(m) \/ m = n
  BY <1>3, <1>4 DEF Ahead
<1>6. PenBehind'
  BY <1>3 DEF Behind, PenBehind
<1>7. QueueBehind'
  <2>1. ASSUME NEW i \in DOMAIN outbound', NEW k \in Items, outbound'[i] = Item(k),
               NEW m \in before[k]
        PROVE  Done(m) \/ InPen(m) \/ \E j \in 1..(i - 1) : outbound'[j] = Item(m)
    <3>1. CASE i \in 1..Len(outbound)
      <4>1. outbound[i] = Item(k) /\ \A j \in 1..(i - 1) : outbound'[j] = outbound[j]
        BY <1>1, <1>2, <2>1, <3>1
      <4> QED BY <1>1, <2>1, <3>1, <4>1 DEF Behind, QueueBehind
    <3>2. CASE i = Len(outbound) + 1
      <4>1. k = n
        BY <1>2, <2>1, <3>2, IdsTellFrames
      <4>2. Ahead(m)
        BY <2>1, <4>1
      <4> QED BY <1>1, <1>2, <3>2, <4>2 DEF Ahead
    <3> QED BY <1>1, <1>2, <3>1, <3>2
  <2> QED BY <1>3, <2>1 DEF QueueBehind
<1> QED BY <1>5, <1>6, <1>7

LEMMA TrySendOrdered ==
  ASSUME Typed, Ordered, NEW p \in Deliverers, TrySend(p)
  PROVE  Ordered'
<1>1. /\ delivery[p].at \in Stages /\ delivery[p].at = "fast"
      /\ UNCHANGED <<writer, written, overflow, drainer, before>>
  BY DEF TrySend, Stages
<1>2. delivery[p].item \in Items /\ delivery[p] # Resting /\ DOMAIN delivery = Deliverers
  BY <1>1, AboutAnItem DEF Typed
<1>3. WrittenBehind' /\ (WriterLives' <=> WriterLives)
  BY <1>1 DEF Ordered, WrittenBehind, WriterLives
<1>4. BegunBehind'
  <2>1. Handed(p) \/ Advance(p, "park")
    BY DEF TrySend
  <2> QED BY <1>1, <2>1, AdvanceBegun, HandedBegun DEF Ordered
<1>5. ASSUME WriterLives PROVE Behind'
  <2>1. Behind
    BY <1>5 DEF Ordered
  <2>2. CASE outbound' = Append(outbound, Item(delivery[p].item)) /\ Handed(p)
    <3>1. \A m \in before[delivery[p].item] : Ahead(m)
      BY <1>1, <2>1 DEF Behind, FastBehind
    <3>2. /\ QueueBehind' /\ PenBehind'
          /\ \A m : Ahead(m)' <=> Ahead(m) \/ m = delivery[p].item
      BY <1>1, <1>2, <2>1, <2>2, <3>1, QueuedOrdered
    <3>3. /\ \A m : Draining(m)' <=> Draining(m)
          /\ \A m : InLine(m)' <=> InLine(m) \/ m = delivery[p].item
      BY <1>1, <3>2 DEF Draining, InLine
    <3>4. DrainerBehind' /\ OverflowBehind'
      BY <1>1, <2>1, <3>2, <3>3 DEF Behind, DrainerBehind, OverflowBehind
    <3>5. HandedInLine'
      BY <2>1, <2>2, <3>3 DEF Behind, HandedInLine, Handed
    <3>6. FastBehind'
      <4>1. delivery' = [delivery EXCEPT ![p] = Resting]
        BY <2>2 DEF Handed
      <4> QED BY <1>1, <1>2, <2>1, <3>2, <4>1 DEF Behind, FastBehind, Resting
    <3> QED BY <3>2, <3>4, <3>5, <3>6 DEF Behind
  <2>3. CASE Advance(p, "park") /\ UNCHANGED outbound
    <3>1. delivery' = [delivery EXCEPT ![p] = [at |-> "park", item |-> delivery[p].item]]
          /\ UNCHANGED handed
      BY <1>1, <2>3, AdvanceItem
    <3>2. /\ PenBehind' /\ QueueBehind' /\ DrainerBehind' /\ OverflowBehind' /\ HandedInLine'
      BY <1>1, <2>1, <2>3, <3>1 DEF Behind, PenBehind, QueueBehind, DrainerBehind,
                            OverflowBehind, HandedInLine, Done, InPen, Ahead, Draining, InLine
    <3>3. \A m : Ahead(m)' <=> Ahead(m)
      BY <1>1, <2>3 DEF Ahead, Done, InPen
    <3>4. FastBehind'
      BY <1>1, <1>2, <2>1, <3>1, <3>3 DEF Behind, FastBehind
    <3> QED BY <3>2, <3>4 DEF Behind
  <2> QED BY <1>5, <2>2, <2>3 DEF TrySend
<1> QED BY <1>3, <1>4, <1>5 DEF Ordered

LEMMA ParkOrdered ==
  ASSUME Typed, Ordered, NEW p \in Deliverers, Park(p)
  PROVE  Ordered'
<1>1. /\ delivery[p].at \in Stages /\ Advance(p, "push")
      /\ UNCHANGED <<outbound, writer, written, overflow, drainer, before>>
  BY DEF Park, Stages
<1>2. delivery' = [delivery EXCEPT ![p] = [at |-> "push", item |-> delivery[p].item]]
      /\ UNCHANGED handed /\ DOMAIN delivery = Deliverers
  BY <1>1, AdvanceItem DEF Typed
<1>3. WrittenBehind' /\ (WriterLives' <=> WriterLives)
  BY <1>1 DEF Ordered, WrittenBehind, WriterLives
<1>4. BegunBehind'
  BY <1>1, AdvanceBegun DEF Ordered
<1>5. ASSUME Behind PROVE Behind'
  <2>1. /\ PenBehind' /\ QueueBehind' /\ DrainerBehind' /\ OverflowBehind' /\ HandedInLine'
    BY <1>1, <1>2, <1>5 DEF Behind, PenBehind, QueueBehind, DrainerBehind,
                            OverflowBehind, HandedInLine, Done, InPen, Ahead, Draining, InLine
  <2>2. \A m : Ahead(m)' <=> Ahead(m)
    BY <1>1 DEF Ahead, Done, InPen
  <2>3. FastBehind'
    BY <1>1, <1>2, <1>5, <2>2 DEF Behind, FastBehind
  <2> QED BY <2>1, <2>3 DEF Behind
<1> QED BY <1>3, <1>4, <1>5 DEF Ordered

\* An item is parked behind all that was handed over.
LEMMA PushOrdered ==
  ASSUME Typed, Ordered, NEW p \in Deliverers, Push(p)
  PROVE  Ordered'
<1>1. /\ delivery[p].at \in Stages /\ Handed(p)
      /\ UNCHANGED <<outbound, writer, written, drainer, before>>
  BY DEF Push, Stages
<1>2. delivery[p].item \in Items /\ delivery[p] # Resting /\ DOMAIN delivery = Deliverers
  BY <1>1, AboutAnItem DEF Typed
<1>3. WrittenBehind' /\ (WriterLives' <=> WriterLives)
  BY <1>1 DEF Ordered, WrittenBehind, WriterLives
<1>4. BegunBehind'
  BY <1>1, HandedBegun DEF Ordered
<1>5. ASSUME WriterLives PROVE Behind'
  <2>1. Behind
    BY <1>5 DEF Ordered
  <2>2. overflow' = Append(overflow, delivery[p].item)
    BY <1>5 DEF Push, Typed
  <2>3. overflow \in Seq(Items) /\ Len(overflow) \in Nat
        /\ DOMAIN overflow = 1..Len(overflow)
    BY DEF Typed
  <2>4. /\ DOMAIN overflow' = 1..(Len(overflow) + 1)
        /\ overflow'[Len(overflow) + 1] = delivery[p].item
        /\ \A i \in 1..Len(overflow) : overflow'[i] = overflow[i]
    BY <2>2, <2>3
  <2>5. /\ \A m : (Ahead(m)' <=> Ahead(m)) /\ (Draining(m)' <=> Draining(m))
        /\ \A m : InLine(m)' <=> InLine(m) \/ m = delivery[p].item
    <3>1. \A m : (Ahead(m)' <=> Ahead(m)) /\ (Draining(m)' <=> Draining(m))
      BY <1>1 DEF Ahead, Done, InPen, Draining
    <3>2. \A m : (\E j \in DOMAIN overflow' : overflow'[j] = m)
                 <=> (\E j \in DOMAIN overflow : overflow[j] = m) \/ m = delivery[p].item
      BY <2>3, <2>4
    <3> QED BY <3>1, <3>2 DEF InLine
  <2>6. PenBehind' /\ QueueBehind' /\ DrainerBehind'
    BY <1>1, <2>1, <2>5 DEF Behind, PenBehind, QueueBehind, DrainerBehind, Done, InPen
  <2>7. HandedInLine'
    BY <1>1, <2>1, <2>5 DEF Behind, HandedInLine, Handed
  <2>8. FastBehind'
    <3>1. delivery' = [delivery EXCEPT ![p] = Resting]
      BY <1>1 DEF Handed
    <3> QED BY <1>1, <1>2, <2>1, <2>5, <3>1 DEF Behind, FastBehind, Resting
  <2>9. OverflowBehind'
    <3>1. ASSUME NEW i \in DOMAIN overflow', NEW m \in before[overflow'[i]]
          PROVE  Ahead(m) \/ Draining(m) \/ \E j \in 1..(i - 1) : overflow'[j] = m
      <4>1. CASE i \in 1..Len(overflow)
        <5>1. overflow'[i] = overflow[i] /\ \A j \in 1..(i - 1) : overflow'[j] = overflow[j]
          BY <2>3, <2>4, <4>1
        <5> QED BY <2>1, <2>3, <3>1, <4>1, <5>1 DEF Behind, OverflowBehind
      <4>2. CASE i = Len(overflow) + 1
        <5>1. m \in handed
          BY <1>2, <2>4, <3>1, <4>2 DEF Ordered, BegunBehind
        <5>2. InLine(m)
          BY <2>1, <5>1 DEF Behind, HandedInLine
        <5> QED BY <2>3, <2>4, <4>2, <5>2 DEF InLine
      <4> QED BY <2>3, <2>4, <4>1, <4>2
    <3> QED BY <1>1, <2>5, <3>1 DEF OverflowBehind
  <2> QED BY <2>6, <2>7, <2>8, <2>9 DEF Behind
<1> QED BY <1>3, <1>4, <1>5 DEF Ordered

\* The order of deliveries does not depend on what the drainer and the writer do.
LEMMA DeliveriesStay ==
  ASSUME UNCHANGED <<delivery, handed, before>>
  PROVE  BegunBehind' <=> BegunBehind
  BY DEF BegunBehind

LEMMA DrainerOrdered ==
  ASSUME Typed, Ordered, DrainerStep
  PROVE  Ordered'
<1>1. UNCHANGED <<delivery, handed, before, writer, written>>
  BY DEF DrainerStep, DrainerTakes, DrainerSends, DrainerUncounts
<1>2. WrittenBehind' /\ BegunBehind' /\ (WriterLives' <=> WriterLives)
  BY <1>1, DeliveriesStay DEF Ordered, WrittenBehind, WriterLives
<1>3. ASSUME WriterLives, DrainerTakes PROVE Behind'
  <2>1. Behind /\ UNCHANGED outbound
    BY <1>3 DEF Ordered, DrainerTakes
  <2>2. overflow \in Seq(Items) /\ overflow # <<>> /\ overflow' = Tail(overflow)
        /\ drainer' = [at |-> "send", item |-> Head(overflow)]
    BY <1>3 DEF DrainerTakes, Typed
  <2>3. /\ Len(overflow) \in Nat \ {0} /\ DOMAIN overflow = 1..Len(overflow)
        /\ DOMAIN overflow' = 1..(Len(overflow) - 1)
        /\ \A i \in 1..(Len(overflow) - 1) : overflow'[i] = overflow[i + 1]
        /\ Head(overflow) = overflow[1]
    BY <2>2
  <2>4. /\ \A m : ~Draining(m)
        /\ \A m : Draining(m)' <=> m = Head(overflow)
        /\ \A m : (Ahead(m)' <=> Ahead(m)) /\ (Done(m)' <=> Done(m))
    <3>1. \A m : ~Draining(m)
      BY <1>3 DEF DrainerTakes, Draining, Receiving
    <3>2. \A m : Draining(m)' <=> m = Head(overflow)
      BY <2>2 DEF Draining
    <3> QED BY <1>1, <2>1, <3>1, <3>2 DEF Ahead, Done, InPen
  <2>5. PenBehind' /\ QueueBehind' /\ FastBehind'
    BY <1>1, <2>1, <2>4 DEF Behind, PenBehind, QueueBehind, FastBehind, InPen, Done
  <2>6. DrainerBehind'
    <3>1. \A m \in before[overflow[1]] : Ahead(m)
      BY <2>1, <2>3, <2>4 DEF Behind, OverflowBehind
    <3> QED BY <1>1, <2>3, <2>4, <3>1 DEF DrainerBehind
  <2>7. OverflowBehind'
    <3>1. ASSUME NEW i \in DOMAIN overflow', NEW m \in before[overflow'[i]]
          PROVE  Ahead(m) \/ m = Head(overflow) \/ \E j \in 1..(i - 1) : overflow'[j] = m
      <4>1. i + 1 \in DOMAIN overflow /\ m \in before[overflow[i + 1]]
        BY <2>3, <3>1
      <4>2. Ahead(m) \/ \E j \in 1..i : overflow[j] = m
        BY <2>1, <2>3, <2>4, <4>1 DEF Behind, OverflowBehind
      <4>3. ASSUME NEW j \in 1..i, overflow[j] = m, j # 1
            PROVE  \E k \in 1..(i - 1) : overflow'[k] = m
        <5>1. j - 1 \in 1..(i - 1) /\ overflow'[j - 1] = overflow[j]
          BY <2>3, <4>3
        <5> QED BY <4>3, <5>1
      <4> QED BY <2>3, <4>2, <4>3
    <3> QED BY <1>1, <2>4, <3>1 DEF OverflowBehind
  <2>8. HandedInLine'
    <3>1. ASSUME NEW m, InLine(m) PROVE InLine(m)'
      <4>1. Ahead(m) \/ \E j \in DOMAIN overflow : overflow[j] = m
        BY <2>4, <3>1 DEF InLine
      <4>2. ASSUME NEW j \in DOMAIN overflow, overflow[j] = m
            PROVE  m = Head(overflow) \/ \E k \in DOMAIN overflow' : overflow'[k] = m
        <5>1. CASE j = 1
          BY <2>3, <4>2, <5>1
        <5>2. CASE j # 1
          <6>1. j - 1 \in DOMAIN overflow' /\ overflow'[j - 1] = overflow[j]
            BY <2>3, <5>2
          <6> QED BY <4>2, <6>1
        <5> QED BY <5>1, <5>2
      <4> QED BY <2>4, <4>1, <4>2 DEF InLine
    <3> QED BY <1>1, <2>1, <3>1 DEF Behind, HandedInLine
  <2> QED BY <2>5, <2>6, <2>7, <2>8 DEF Behind
<1>4. ASSUME WriterLives, DrainerSends PROVE Behind'
  <2>1. Behind /\ UNCHANGED overflow
    BY <1>4 DEF Ordered, DrainerSends
  <2>2. drainer \in [at : {"send"}, item : Items] /\ drainer' = [at |-> "uncount"]
        /\ outbound' = Append(outbound, Item(drainer.item))
    BY <1>4 DEF DrainerSends, Typed, Receiving, Over
  <2>3. drainer.item \in Items /\ \A m : Draining(m) <=> m = drainer.item
    BY <2>2 DEF Draining
  <2>4. \A m \in before[drainer.item] : Ahead(m)
    BY <2>1, <2>3 DEF Behind, DrainerBehind
  <2>5. /\ QueueBehind' /\ PenBehind'
        /\ \A m : Ahead(m)' <=> Ahead(m) \/ m = drainer.item
    BY <1>1, <2>1, <2>2, <2>3, <2>4, QueuedOrdered
  <2>6. \A m : ~Draining(m)'
    BY <2>2 DEF Draining
  <2>7. \A m : InLine(m)' <=> InLine(m)
    BY <2>1, <2>3, <2>5, <2>6 DEF InLine
  <2>8. DrainerBehind' /\ OverflowBehind'
    BY <1>1, <2>1, <2>3, <2>5, <2>6 DEF Behind, DrainerBehind, OverflowBehind
  <2>9. FastBehind' /\ HandedInLine'
    BY <1>1, <2>1, <2>5, <2>7 DEF Behind, FastBehind, HandedInLine
  <2> QED BY <2>5, <2>8, <2>9 DEF Behind
<1>5. ASSUME WriterLives, DrainerUncounts PROVE Behind'
  <2>1. Behind /\ UNCHANGED <<overflow, outbound>>
    BY <1>5 DEF Ordered, DrainerUncounts
  <2>2. \A m : ~Draining(m) /\ ~Draining(m)'
    BY <1>5 DEF DrainerUncounts, Draining, Receiving
  <2>3. \A m : (Ahead(m)' <=> Ahead(m)) /\ (InLine(m)' <=> InLine(m))
    BY <1>1, <2>1, <2>2 DEF Ahead, Done, InPen, InLine
  <2> QED BY <1>1, <2>1, <2>2, <2>3 DEF Behind, PenBehind, QueueBehind, DrainerBehind,
                                        OverflowBehind, FastBehind, HandedInLine, Done, InPen
<1> QED BY <1>2, <1>3, <1>4, <1>5 DEF Ordered, DrainerStep

LEMMA QueueOtherOrdered == ASSUME Typed, Ordered, QueueOther PROVE Ordered'
<1>1. UNCHANGED <<delivery, handed, before, writer, written, overflow, drainer>>
      /\ WriterLives /\ outbound' = Append(outbound, Other)
  BY DEF QueueOther, path
<1>2. WrittenBehind' /\ BegunBehind' /\ (WriterLives' <=> WriterLives) /\ Behind
  BY <1>1, DeliveriesStay DEF Ordered, WrittenBehind, WriterLives
<1>3. /\ outbound \in Seq(OutFrames) /\ Len(outbound) \in Nat
      /\ DOMAIN outbound = 1..Len(outbound)
  BY DEF Typed
<1>4. /\ DOMAIN outbound' = 1..(Len(outbound) + 1)
      /\ outbound'[Len(outbound) + 1] = Other
      /\ \A i \in 1..Len(outbound) : outbound'[i] = outbound[i]
  BY <1>1, <1>3
<1>5. /\ \A m : (Done(m)' <=> Done(m)) /\ (InPen(m)' <=> InPen(m))
               /\ (Draining(m)' <=> Draining(m))
      /\ \A m : (\E j \in DOMAIN outbound' : outbound'[j] = Item(m))
                <=> (\E j \in DOMAIN outbound : outbound[j] = Item(m))
  <2>1. \A m : (\E j \in DOMAIN outbound' : outbound'[j] = Item(m))
                <=> (\E j \in DOMAIN outbound : outbound[j] = Item(m))
    BY <1>3, <1>4, IdsTellFrames
  <2> QED BY <1>1, <2>1 DEF Done, InPen, Draining
<1>6. \A m : (Ahead(m)' <=> Ahead(m)) /\ (InLine(m)' <=> InLine(m))
  BY <1>1, <1>5 DEF Ahead, InLine
<1>7. QueueBehind'
  <2>1. ASSUME NEW i \in DOMAIN outbound', NEW k \in Items, outbound'[i] = Item(k),
               NEW m \in before[k]
        PROVE  Done(m) \/ InPen(m) \/ \E j \in 1..(i - 1) : outbound'[j] = Item(m)
    <3>1. i \in 1..Len(outbound)
      BY <1>3, <1>4, <2>1, IdsTellFrames
    <3>2. outbound[i] = Item(k) /\ \A j \in 1..(i - 1) : outbound'[j] = outbound[j]
      BY <1>3, <1>4, <2>1, <3>1
    <3> QED BY <1>2, <1>3, <2>1, <3>1, <3>2 DEF Behind, QueueBehind
  <2> QED BY <1>1, <1>5, <2>1 DEF QueueBehind
<1>8. PenBehind' /\ DrainerBehind' /\ OverflowBehind' /\ FastBehind' /\ HandedInLine'
  BY <1>1, <1>2, <1>5, <1>6 DEF Behind, PenBehind, DrainerBehind, OverflowBehind,
                            FastBehind, HandedInLine
<1> QED BY <1>2, <1>7, <1>8 DEF Ordered, Behind

\* What is written last is written behind its predecessors.
LEMMA WrittenLast ==
  ASSUME Typed, WrittenBehind, NEW n \in Items, written' = Append(written, n),
         \A m \in before[n] : Done(m), UNCHANGED before
  PROVE  WrittenBehind' /\ \A m : Done(m)' <=> Done(m) \/ m = n
<1>1. /\ written \in Seq(Items) /\ Len(written) \in Nat
      /\ DOMAIN written = 1..Len(written)
  BY DEF Typed
<1>2. /\ DOMAIN written' = 1..(Len(written) + 1)
      /\ written'[Len(written) + 1] = n
      /\ \A i \in 1..Len(written) : written'[i] = written[i]
  BY <1>1
<1>3. \A m : Done(m)' <=> Done(m) \/ m = n
  BY <1>1, <1>2 DEF Done
<1>4. ASSUME NEW i \in DOMAIN written', NEW m \in before[written'[i]]
      PROVE  \E j \in 1..(i - 1) : written'[j] = m
  <2>1. CASE i \in 1..Len(written)
    <3>1. written'[i] = written[i] /\ \A j \in 1..(i - 1) : written'[j] = written[j]
      BY <1>1, <1>2, <2>1
    <3> QED BY <1>1, <1>4, <2>1, <3>1 DEF WrittenBehind
  <2>2. CASE i = Len(written) + 1
    <3>1. Done(m)
      BY <1>2, <1>4, <2>2
    <3> QED BY <1>1, <1>2, <2>2, <3>1 DEF Done
  <2> QED BY <1>1, <1>2, <2>1, <2>2
<1> QED BY <1>3, <1>4 DEF WrittenBehind

LEMMA WriterOrdered ==
  ASSUME Typed, Ordered, WriterReceives \/ WriteFrame \/ WriteFails
  PROVE  Ordered'
<1>1. UNCHANGED <<delivery, handed, before, overflow, drainer>> /\ WriterLives
  BY DEF WriterReceives, WriteFrame, WriteFails, path, WriterLives, Receiving, Over
<1>2. BegunBehind' /\ WrittenBehind /\ Behind
  BY <1>1, DeliveriesStay DEF Ordered
<1>3. \A m : Draining(m)' <=> Draining(m)
  BY <1>1 DEF Draining
<1>4. CASE WriteFails
  <2>1. UNCHANGED written /\ ~WriterLives'
    BY <1>4 DEF WriteFails, WriterLives
  <2> QED BY <1>1, <1>2, <2>1 DEF Ordered, WrittenBehind
<1>5. CASE WriterReceives
  <2>1. /\ outbound \in Seq(OutFrames) /\ outbound # <<>>
        /\ \A m : ~InPen(m)
    BY <1>5 DEF WriterReceives, Typed, InPen, Receiving
  <2>2. /\ Len(outbound) \in Nat \ {0} /\ DOMAIN outbound = 1..Len(outbound)
        /\ DOMAIN Tail(outbound) = 1..(Len(outbound) - 1)
        /\ \A i \in 1..(Len(outbound) - 1) : Tail(outbound)[i] = outbound[i + 1]
        /\ Head(outbound) = outbound[1]
    BY <2>1
  <2>3. ASSUME NEW n \in Items, outbound[1] = Item(n), NEW m \in before[n] PROVE Done(m)
    BY <1>2, <2>1, <2>2, <2>3 DEF Behind, QueueBehind
  <2>4. CASE Head(outbound) = Item(Close)
    <3>1. ~WriterLives' /\ written' = Append(written, Close) /\ Close \in Items
      BY <1>5, <2>4, FrameBoundsAreNat DEF WriterReceives, WriterLives, Close, Items
    <3>2. WrittenBehind'
      BY <1>1, <1>2, <2>2, <2>3, <2>4, <3>1, WrittenLast
    <3> QED BY <1>2, <3>1, <3>2 DEF Ordered
  <2>5. CASE Head(outbound) # Item(Close)
    <3>1. /\ writer' = [at |-> "writing", frame |-> Head(outbound)]
          /\ outbound' = Tail(outbound) /\ UNCHANGED written
      BY <1>5, <2>5 DEF WriterReceives
    <3>2. WrittenBehind'
      BY <1>1, <1>2, <3>1 DEF WrittenBehind
    <3>3. /\ \A m : Done(m)' <=> Done(m)
          /\ \A m : InPen(m)' <=> outbound[1] = Item(m)
      BY <2>2, <3>1 DEF Done, InPen
    <3>4. \A m : (\E j \in DOMAIN outbound : outbound[j] = Item(m))
                 <=> \/ outbound[1] = Item(m)
                     \/ \E j \in DOMAIN outbound' : outbound'[j] = Item(m)
      <4>1. ASSUME NEW m, NEW j \in DOMAIN outbound, outbound[j] = Item(m)
            PROVE  outbound[1] = Item(m) \/ \E k \in DOMAIN outbound' : outbound'[k] = Item(m)
        <5>1. CASE j # 1
          <6>1. j - 1 \in DOMAIN outbound' /\ outbound'[j - 1] = outbound[j]
            BY <2>2, <3>1, <5>1
          <6> QED BY <4>1, <6>1
        <5> QED BY <4>1, <5>1
      <4>2. ASSUME NEW m, NEW k \in DOMAIN outbound', outbound'[k] = Item(m)
            PROVE  \E j \in DOMAIN outbound : outbound[j] = Item(m)
        <5>1. k + 1 \in DOMAIN outbound /\ outbound[k + 1] = outbound'[k]
          BY <2>2, <3>1
        <5> QED BY <4>2, <5>1
      <4>3. 1 \in DOMAIN outbound
        BY <2>2
      <4> QED BY <4>1, <4>2, <4>3
    <3>5. \A m : (Ahead(m)' <=> Ahead(m)) /\ (InLine(m)' <=> InLine(m))
      <4>1. \A m : Ahead(m)' <=> Ahead(m)
        BY <2>1, <3>3, <3>4 DEF Ahead
      <4> QED BY <1>1, <1>3, <4>1 DEF InLine
    <3>6. PenBehind'
      BY <1>1, <2>3, <3>3 DEF PenBehind
    <3>7. QueueBehind'
      <4>1. ASSUME NEW i \in DOMAIN outbound', NEW k \in Items, outbound'[i] = Item(k),
                   NEW m \in before[k]
            PROVE  Done(m) \/ outbound[1] = Item(m)
                   \/ \E j \in 1..(i - 1) : outbound'[j] = Item(m)
        <5>1. i + 1 \in DOMAIN outbound /\ outbound[i + 1] = Item(k) /\ (i + 1) - 1 = i
              /\ i \in 1..(Len(outbound) - 1)
          BY <2>2, <3>1, <4>1
        <5>2. Done(m) \/ \E j \in 1..i : outbound[j] = Item(m)
          BY <1>2, <2>1, <4>1, <5>1 DEF Behind, QueueBehind
        <5>3. ASSUME NEW j \in 1..i, outbound[j] = Item(m), j # 1
              PROVE  \E l \in 1..(i - 1) : outbound'[l] = Item(m)
          <6>1. j - 1 \in 1..(i - 1) /\ outbound'[j - 1] = outbound[j]
            BY <2>2, <3>1, <5>1, <5>3
          <6> QED BY <5>3, <6>1
        <5> QED BY <5>2, <5>3
      <4> QED BY <1>1, <3>3, <4>1 DEF QueueBehind
    <3>8. DrainerBehind' /\ OverflowBehind' /\ FastBehind' /\ HandedInLine'
      BY <1>1, <1>2, <1>3, <3>5 DEF Behind, DrainerBehind, OverflowBehind, FastBehind,
                                    HandedInLine
    <3> QED BY <1>2, <3>2, <3>6, <3>7, <3>8 DEF Ordered, Behind
  <2> QED BY <2>4, <2>5
<1>6. CASE WriteFrame
  <2>1. writer \in [at : {"writing"}, frame : OutFrames] /\ UNCHANGED outbound
        /\ writer' = Receiving
    BY <1>6 DEF WriteFrame, Typed, Receiving, Over
  <2>2. \A m : ~InPen(m)'
    BY <2>1 DEF InPen, Receiving
  <2>3. ASSUME WrittenBehind', \A m : Done(m)' <=> Done(m) \/ InPen(m) PROVE Ordered'
    <3>1. \A m : (Ahead(m)' <=> Ahead(m)) /\ (InLine(m)' <=> InLine(m))
      <4>1. \A m : Ahead(m)' <=> Ahead(m)
        BY <2>1, <2>2, <2>3 DEF Ahead
      <4> QED BY <1>1, <1>3, <4>1 DEF InLine
    <3>2. PenBehind' /\ QueueBehind'
      BY <1>1, <1>2, <2>1, <2>2, <2>3 DEF Behind, PenBehind, QueueBehind
    <3>3. DrainerBehind' /\ OverflowBehind' /\ FastBehind' /\ HandedInLine'
      BY <1>1, <1>2, <1>3, <3>1 DEF Behind, DrainerBehind, OverflowBehind, FastBehind,
                                    HandedInLine
    <3> QED BY <1>2, <2>3, <3>2, <3>3 DEF Ordered, Behind
  <2>4. CASE writer.frame = Other
    <3>1. UNCHANGED written /\ \A m : ~InPen(m)
      BY <1>6, <2>4, IdsTellFrames DEF WriteFrame, InPen
    <3> QED BY <1>1, <1>2, <2>3, <3>1 DEF WrittenBehind, Done
  <2>5. CASE writer.frame # Other
    <3>1. PICK n \in Items : writer.frame = Item(n)
      BY <2>1, <2>5 DEF OutFrames
    <3>2. \A m : InPen(m) <=> m = n
      BY <2>1, <3>1, IdsTellFrames DEF InPen
    <3>3. written' = Append(written, n)
      BY <1>6, <2>5, <3>1 DEF WriteFrame, Item
    <3>4. \A m \in before[n] : Done(m)
      BY <1>2, <3>2 DEF Behind, PenBehind
    <3> QED BY <1>1, <1>2, <2>3, <3>2, <3>3, <3>4, WrittenLast
  <2> QED BY <2>4, <2>5
<1> QED BY <1>4, <1>5, <1>6

\* A place with the requests leaves none on the way of the replies.
LEMMA StartsNowhere ==
  ASSUME Typed, OneAnswer, NEW n \in Items,
         n \in hands \/ (inbound # <<>> /\ Head(inbound) = Ask(n)) \/ ~Issued(n)
  PROVE  Delivering(n) + CountIn(n, overflow) + InHand(n) + Sent(n) = 0
<1>1. /\ CountIn(Ask(n), todo) \in Nat /\ CountIn(Ask(n), inbound) \in Nat
      /\ CountIn(n, inbox) \in Nat /\ Cardinality({n} \cap hands) \in Nat
      /\ Delivering(n) \in Nat /\ CountIn(n, overflow) \in Nat
      /\ InHand(n) \in Nat /\ Sent(n) \in Nat
  BY CountsTyped, SumsTyped
<1>2. Places(n) <= (IF Issued(n) THEN 1 ELSE 0) /\ Places(n) \in Nat
  BY PlacesType DEF OneAnswer
<1>6. Places(n) = Coming(n) + Kept(n) + Delivering(n) + CountIn(n, overflow)
                  + InHand(n) + Sent(n)
      /\ Coming(n) \in Nat /\ Kept(n) \in Nat
  BY SumsTyped DEF Places
<1>7. ASSUME Coming(n) + Kept(n) >= 1
      PROVE  Delivering(n) + CountIn(n, overflow) + InHand(n) + Sent(n) = 0
  <2>1. Places(n) <= 1
    BY <1>2
  <2>2. Delivering(n) + CountIn(n, overflow) + InHand(n) + Sent(n) \in Nat
    BY <1>1
  <2>3. Places(n) = (Coming(n) + Kept(n))
                    + (Delivering(n) + CountIn(n, overflow) + InHand(n) + Sent(n))
    BY <1>1, <1>6
  <2>4. Coming(n) + Kept(n) \in Nat
    BY <1>6
  <2> QED BY <1>2, <1>7, <2>1, <2>2, <2>3, <2>4
<1>3. CASE n \in hands
  <2>1. Cardinality({n} \cap hands) = 1
    BY <1>3, CountMeet
  <2>2. Kept(n) >= 1
    BY <1>1, <2>1 DEF Kept
  <2> QED BY <1>6, <1>7, <2>2
<1>4. CASE inbound # <<>> /\ Head(inbound) = Ask(n)
  <2>1. CountIn(Ask(n), inbound) = CountIn(Ask(n), Tail(inbound)) + 1
        /\ CountIn(Ask(n), Tail(inbound)) \in Nat
    BY <1>4, CountTail, TakenTyped, CountType DEF Typed
  <2>2. Coming(n) >= 1
    BY <1>1, <2>1 DEF Coming
  <2> QED BY <1>6, <1>7, <2>2
<1>5. CASE ~Issued(n)
  BY <1>1, <1>2, <1>5, <1>6
<1> QED BY <1>3, <1>4, <1>5

LEMMA StepOrdered ==
  Typed /\ Counted /\ OneAnswer /\ Ordered /\ [Next]_vars => Ordered'
<1> SUFFICES ASSUME Typed, Counted, OneAnswer, Ordered, [Next]_vars PROVE Ordered'
  OBVIOUS
<1> USE DEF path, consumer, peer
<1>1. CASE UNCHANGED <<outbound, writer, written, overflow, drainer, delivery, before, handed>>
  BY <1>1 DEF Ordered, WrittenBehind, BegunBehind, Behind, PenBehind, QueueBehind,
              DrainerBehind, OverflowBehind, FastBehind, HandedInLine, Done, InPen, Ahead,
              Draining, InLine, WriterLives
<1>2. ASSUME NEW p \in Deliverers, DeliverStep(p) PROVE Ordered'
  BY <1>2, LoadOrdered, TrySendOrdered, ParkOrdered, PushOrdered DEF DeliverStep
<1>3. CASE DrainerStep
  BY <1>3, DrainerOrdered
<1>4. CASE QueueOther
  BY <1>4, QueueOtherOrdered
<1>5. CASE WriterReceives \/ WriteFrame \/ WriteFails
  BY <1>5, WriterOrdered
<1>6. CASE FinishClose \/ DropActor
  <2>1. ~WriterLives' /\ UNCHANGED <<written, delivery, handed, before>>
    BY <1>6 DEF FinishClose, DropActor, Abort, WriterLives
  <2> QED BY <2>1, DeliveriesStay DEF Ordered, WrittenBehind
<1>7. ASSUME NEW n \in hands, Respond(n) PROVE Ordered'
  <2>1. n \in Items
    <3>1. hands \subseteq 1..MaxAsks
      BY DEF Typed
    <3> QED BY <3>1, FrameBoundsAreNat DEF Items
  <2>2. Delivering(n) + CountIn(n, overflow) + InHand(n) + Sent(n) = 0
    BY <2>1, StartsNowhere
  <2> QED BY <1>7, <2>1, <2>2, DeliverOrdered DEF Respond, Deliverers
<1>8. CASE CloseActor
  <2>1. Close \in Items /\ ~Issued(Close)
    BY <1>8, FrameBoundsAreNat DEF CloseActor, Issued, Close, Items
  <2>2. Delivering(Close) + CountIn(Close, overflow) + InHand(Close) + Sent(Close) = 0
    BY <2>1, StartsNowhere
  <2> QED BY <1>8, <2>1, <2>2, DeliverOrdered DEF CloseActor, Deliverers
<1>9. CASE ReadAsk
  <2>1. inbound # <<>> /\ Head(inbound) \in PeerFrames /\ Head(inbound).kind = "ask"
    BY <1>9, TakenTyped DEF ReadAsk, Reads, Frame, Typed
  <2>2. PICK n \in 1..MaxAsks : Head(inbound) = Ask(n)
    BY <2>1 DEF PeerFrames, Other
  <2>3. n \in Items /\ Head(inbound).id = n
    BY <2>2, FrameBoundsAreNat DEF Items, Ask
  <2>4. Delivering(n) + CountIn(n, overflow) + InHand(n) + Sent(n) = 0
    BY <2>1, <2>2, <2>3, StartsNowhere
  <2>5. \/ Deliver("reader", n) \/ UNCHANGED <<delivery, before>>
    BY <1>9, <2>3 DEF ReadAsk, Frame
  <2>6. UNCHANGED <<outbound, writer, written, overflow, drainer, handed>>
    BY <1>9 DEF ReadAsk
  <2> QED BY <1>1, <2>3, <2>4, <2>5, <2>6, DeliverOrdered DEF Deliverers
<1>10. CASE ReadOther \/ ReaderEnds \/ TakeStream \/ TakeAsk \/ DropStream \/ PeerSpeaks
            \/ PeerAsks \/ PeerWrites \/ Gone \/ UNCHANGED vars
  <2>1. UNCHANGED <<outbound, writer, written, overflow, drainer, delivery, before, handed>>
    BY <1>10 DEF ReadOther, ReaderEnds, TakeStream, TakeAsk, DropStream, PeerSpeaks,
                 PeerAsks, PeerWrites, Gone, vars
  <2> QED BY <1>1, <2>1
<1> QED
  BY <1>2, <1>3, <1>4, <1>5, <1>6, <1>7, <1>8, <1>9, <1>10
     DEF Next, ReaderStep, ConsumerStep

-----------------------------------------------------------------------------
(* The theorems *)

\* What holds of every reachable state.
Inv == Typed /\ Counted /\ OneAnswer /\ Ordered

LEMMA Invariance == Spec => []Inv
<1>1. Init => Inv
  BY InitTyped, InitCounted, InitOneAnswer, InitOrdered DEF Inv
<1>2. Inv /\ [Next]_vars => Inv'
  BY StepTyped, StepCounted, StepOneAnswer, StepOrdered DEF Inv
<1> QED BY <1>1, <1>2, PTL DEF Spec

\* The state of the reply path has its type: the queues keep within their
\* capacities, and the backlog counter never wraps below zero (peer.rs).
THEOREM TypeCorrect == Spec => []TypeOK
<1>1. Inv => TypeOK
  <2> SUFFICES ASSUME Typed, Counted PROVE TypeOK
    BY DEF Inv
  <2>1. writer.at \in {"receive", "writing", "over"}
        /\ drainer.at \in {"receive", "send", "uncount", "over"}
    BY DEF Typed, Receiving, Over
  <2>2. \A p \in Deliverers : delivery[p].at \in {"rest", "load", "fast", "park", "push"}
    BY DEF Typed, Resting, Stages
  <2> QED BY <2>1, <2>2 DEF Typed, Counted, TypeOK
<1> QED BY <1>1, Invariance, PTL

\* A reply and the close signal are written behind everything handed over
\* before them, whether it found room in the queue or was parked (peer.rs,
\* Replies::deliver and drain).
THEOREM ReplyOrder == Spec => []RepliesInOrder
<1>1. Inv => RepliesInOrder
  BY OrderedImplies DEF Inv
<1> QED BY <1>1, Invariance, PTL

\* While there is a wire, a request the reader took is answered once or has
\* exactly one holder who will: none is lost, none is answered twice (peer.rs,
\* Responder).
THEOREM AnsweredOnce == Spec => []EveryAskHasOneAnswer
<1>1. Inv => EveryAskHasOneAnswer
  BY OneAnswerImplies DEF Inv
<1> QED BY <1>1, Invariance, PTL
=============================================================================
