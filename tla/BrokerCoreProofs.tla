-------------------------- MODULE BrokerCoreProofs --------------------------
(***************************************************************************)
(* Proofs about BrokerCore, for any sessions, documents, queue capacities  *)
(* and numbers of requests and pushes.                                     *)
(***************************************************************************)
EXTENDS BrokerCore, FiniteSetTheorems, FunctionTheorems, TLAPS

USE QueuesHoldAMessage, BoundsAreNat, RacesAreBoolean

-----------------------------------------------------------------------------
(* Sequences *)

N(b) == IF b THEN 1 ELSE 0
CountIn(S, s) == Cardinality({i \in DOMAIN s : s[i] \in S})

LEMMA TakenTyped ==
  ASSUME NEW S, NEW s \in Seq(S), s # <<>>
  PROVE  /\ Head(s) \in S /\ Tail(s) \in Seq(S)
         /\ Len(s) \in Nat \ {0} /\ Len(Tail(s)) = Len(s) - 1
  OBVIOUS

LEMMA AppendedTyped ==
  ASSUME NEW S, NEW s \in Seq(S), NEW x \in S
  PROVE  /\ Append(s, x) \in Seq(S)
         /\ Len(s) \in Nat /\ Len(Append(s, x)) = Len(s) + 1
  OBVIOUS

LEMMA OneTyped ==
  ASSUME NEW S, NEW x \in S
  PROVE  /\ <<x>> \in Seq(S) /\ <<x>> # <<>> /\ Len(<<x>>) = 1
         /\ Head(<<x>>) = x /\ Tail(<<x>>) = <<>> /\ DOMAIN <<x>> = {1} /\ <<x>>[1] = x
<1>1. DOMAIN <<x>> = {1} /\ Len(<<x>>) = 1
  OBVIOUS
<1> QED BY <1>1

LEMMA EmptyTyped == \A S : <<>> \in Seq(S)
  OBVIOUS

LEMMA TailOfOne ==
  ASSUME NEW S, NEW s \in Seq(S), Len(s) = 1
  PROVE  Tail(s) = <<>> /\ s # <<>> /\ s = <<Head(s)>>
<1>1. Tail(s) \in Seq(S) /\ Len(Tail(s)) = 0
  OBVIOUS
<1>2. \A t \in Seq(S) : Len(t) = 0 => t = <<>>
  OBVIOUS
<1>3. s # <<>> /\ s = <<Head(s)>>
  OBVIOUS
<1> QED BY <1>1, <1>2, <1>3

LEMMA WiderTyped ==
  ASSUME NEW S, NEW T, S \subseteq T, NEW s \in Seq(S)
  PROVE  s \in Seq(T)
  OBVIOUS

LEMMA MembersTyped ==
  ASSUME NEW S, NEW s \in Seq(S)
  PROVE  ToSet(s) \subseteq S
  BY DEF ToSet

LEMMA MembersEmpty == ToSet(<<>>) = {}
  BY DEF ToSet

LEMMA MembersOne == \A x : ToSet(<<x>>) = {x}
<1> SUFFICES ASSUME NEW x PROVE ToSet(<<x>>) = {x}
  OBVIOUS
<1>1. DOMAIN <<x>> = {1} /\ <<x>>[1] = x
  BY OneTyped
<1> QED BY <1>1 DEF ToSet

LEMMA MembersAppend ==
  ASSUME NEW S, NEW s \in Seq(S), NEW x \in S
  PROVE  ToSet(Append(s, x)) = ToSet(s) \cup {x}
<1>1. /\ Len(s) \in Nat /\ DOMAIN s = 1..Len(s)
      /\ DOMAIN Append(s, x) = 1..(Len(s) + 1)
      /\ Append(s, x)[Len(s) + 1] = x
      /\ \A i \in 1..Len(s) : Append(s, x)[i] = s[i]
  OBVIOUS
<1>2. \A i \in 1..(Len(s) + 1) : i \in 1..Len(s) \/ i = Len(s) + 1
  BY <1>1
<1> QED BY <1>1, <1>2 DEF ToSet

LEMMA MembersTail ==
  ASSUME NEW S, NEW s \in Seq(S), s # <<>>
  PROVE  ToSet(s) = ToSet(Tail(s)) \cup {Head(s)}
<1>1. /\ Len(s) \in Nat \ {0} /\ DOMAIN s = 1..Len(s)
      /\ DOMAIN Tail(s) = 1..(Len(s) - 1)
      /\ \A i \in 1..(Len(s) - 1) : Tail(s)[i] = s[i + 1]
      /\ Head(s) = s[1]
  OBVIOUS
<1>2. \A i \in 1..Len(s) : i = 1 \/ (i - 1 \in 1..(Len(s) - 1) /\ (i - 1) + 1 = i)
  BY <1>1
<1>3. ToSet(s) \subseteq ToSet(Tail(s)) \cup {Head(s)}
  <2> SUFFICES ASSUME NEW i \in 1..Len(s)
               PROVE  s[i] \in ToSet(Tail(s)) \cup {Head(s)}
    BY <1>1 DEF ToSet
  <2>1. CASE i = 1
    BY <1>1, <2>1
  <2>2. CASE i - 1 \in 1..(Len(s) - 1) /\ (i - 1) + 1 = i
    <3>1. s[i] = Tail(s)[i - 1]
      BY <1>1, <2>2
    <3> QED BY <1>1, <2>2, <3>1 DEF ToSet
  <2> QED BY <1>2, <2>1, <2>2
<1>4. ToSet(Tail(s)) \subseteq ToSet(s)
  BY <1>1 DEF ToSet
<1>5. Head(s) \in ToSet(s)
  BY <1>1 DEF ToSet
<1> QED BY <1>3, <1>4, <1>5

LEMMA MembersConcat ==
  ASSUME NEW S, NEW s \in Seq(S), NEW t \in Seq(S)
  PROVE  s \o t \in Seq(S) /\ ToSet(s \o t) = ToSet(s) \cup ToSet(t)
         /\ Len(s \o t) = Len(s) + Len(t) /\ Len(t) \in Nat
<1>1. /\ Len(s) \in Nat /\ Len(t) \in Nat
      /\ DOMAIN s = 1..Len(s) /\ DOMAIN t = 1..Len(t)
      /\ DOMAIN (s \o t) = 1..(Len(s) + Len(t))
      /\ \A i \in 1..Len(s) : (s \o t)[i] = s[i]
      /\ \A i \in 1..Len(t) : (s \o t)[Len(s) + i] = t[i]
  OBVIOUS
<1>2. \A i \in 1..(Len(s) + Len(t)) :
         i \in 1..Len(s) \/ (i - Len(s) \in 1..Len(t) /\ Len(s) + (i - Len(s)) = i)
  BY <1>1
<1>3. ToSet(s \o t) \subseteq ToSet(s) \cup ToSet(t)
  <2> SUFFICES ASSUME NEW i \in 1..(Len(s) + Len(t))
               PROVE  (s \o t)[i] \in ToSet(s) \cup ToSet(t)
    BY <1>1 DEF ToSet
  <2>1. CASE i \in 1..Len(s)
    BY <1>1, <2>1 DEF ToSet
  <2>2. CASE i - Len(s) \in 1..Len(t) /\ Len(s) + (i - Len(s)) = i
    <3>1. (s \o t)[i] = t[i - Len(s)]
      BY <1>1, <2>2
    <3> QED BY <1>1, <2>2, <3>1 DEF ToSet
  <2> QED BY <1>2, <2>1, <2>2
<1>4. ToSet(s) \subseteq ToSet(s \o t)
  BY <1>1 DEF ToSet
<1>5. \A i \in 1..Len(t) : Len(s) + i \in 1..(Len(s) + Len(t))
  BY <1>1
<1>6. ToSet(t) \subseteq ToSet(s \o t)
  BY <1>1, <1>5 DEF ToSet
<1>7. s \o t \in Seq(S) /\ Len(s \o t) = Len(s) + Len(t)
  OBVIOUS
<1> QED BY <1>1, <1>3, <1>4, <1>6, <1>7

\* An order of a finite set lists all of it.
LEMMA OrdersList ==
  ASSUME NEW S, IsFiniteSet(S), NEW s \in SetToSeqs(S)
  PROVE  s \in Seq(S) /\ ToSet(s) = S
<1>1. Cardinality(S) \in Nat
  BY FS_CardinalityType
<1> DEFINE D == 1..Cardinality(S)
<1>2. s \in [D -> S] /\ \A i, j \in D : s[i] = s[j] => i = j
  BY DEF SetToSeqs
<1>3. IsFiniteSet(D) /\ Cardinality(D) = Cardinality(S)
  BY <1>1, FS_Interval
<1>4. s \in Injection(D, S)
  BY <1>2, Fun_IsInj
<1>5. s \in Surjection(D, S)
  <2> HIDE DEF D
  <2> QED BY <1>3, <1>4, FS_Injection
<1>6. S = {s[i] : i \in D}
  BY <1>2, <1>5 DEF Surjection
<1>7. s \in Seq(S)
  BY <1>1, <1>2
<1>8. DOMAIN s = D
  BY <1>2
<1> QED BY <1>6, <1>7, <1>8 DEF ToSet

LEMMA CountType ==
  ASSUME NEW T, NEW s \in Seq(T), NEW S
  PROVE  /\ IsFiniteSet({i \in DOMAIN s : s[i] \in S})
         /\ CountIn(S, s) \in Nat
<1>1. IsFiniteSet(1..Len(s)) /\ DOMAIN s = 1..Len(s)
  BY FS_Interval
<1>2. {i \in DOMAIN s : s[i] \in S} \subseteq 1..Len(s)
  BY <1>1
<1>3. IsFiniteSet({i \in DOMAIN s : s[i] \in S})
  BY <1>1, <1>2, FS_Subset
<1> QED BY <1>3, FS_CardinalityType DEF CountIn

LEMMA CountEmpty == \A S : CountIn(S, <<>>) = 0
<1> SUFFICES ASSUME NEW S PROVE CountIn(S, <<>>) = 0
  OBVIOUS
<1>1. {i \in DOMAIN <<>> : <<>>[i] \in S} = {}
  OBVIOUS
<1> QED BY <1>1, FS_EmptySet DEF CountIn

LEMMA CountNone ==
  ASSUME NEW T, NEW s \in Seq(T), NEW S
  PROVE  CountIn(S, s) = 0 <=> ToSet(s) \cap S = {}
<1>1. IsFiniteSet({i \in DOMAIN s : s[i] \in S})
  BY CountType
<1>2. CountIn(S, s) = 0 <=> {i \in DOMAIN s : s[i] \in S} = {}
  BY <1>1, FS_EmptySet DEF CountIn
<1> QED BY <1>2 DEF ToSet

LEMMA CountAppend ==
  ASSUME NEW T, NEW s \in Seq(T), NEW y \in T, NEW S
  PROVE  CountIn(S, Append(s, y)) = CountIn(S, s) + N(y \in S)
<1> DEFINE I == {i \in DOMAIN s : s[i] \in S}
           J == {i \in DOMAIN Append(s, y) : Append(s, y)[i] \in S}
<1>1. /\ Len(s) \in Nat /\ DOMAIN s = 1..Len(s)
      /\ DOMAIN Append(s, y) = 1..(Len(s) + 1)
      /\ Append(s, y)[Len(s) + 1] = y
      /\ \A i \in 1..Len(s) : Append(s, y)[i] = s[i]
  OBVIOUS
<1>2. J = IF y \in S THEN I \cup {Len(s) + 1} ELSE I
  BY <1>1
<1>3. Len(s) + 1 \notin I
  BY <1>1
<1>4. IsFiniteSet(I) /\ Cardinality(I) = CountIn(S, s)
      /\ Cardinality(J) = CountIn(S, Append(s, y)) /\ Cardinality(I) \in Nat
  BY CountType DEF CountIn
<1> HIDE DEF I, J
<1>5. Cardinality(I \cup {Len(s) + 1}) = Cardinality(I) + 1
  BY <1>3, <1>4, FS_AddElement
<1> QED BY <1>2, <1>4, <1>5 DEF N

LEMMA CountTail ==
  ASSUME NEW T, NEW s \in Seq(T), s # <<>>, NEW S
  PROVE  CountIn(S, s) = CountIn(S, Tail(s)) + N(Head(s) \in S)
<1> DEFINE I == {i \in DOMAIN s : s[i] \in S}
           J == {i \in DOMAIN Tail(s) : Tail(s)[i] \in S}
           K == I \ {1}
           f == [j \in J |-> j + 1]
<1>1. /\ Len(s) \in Nat \ {0} /\ DOMAIN s = 1..Len(s)
      /\ Tail(s) \in Seq(T) /\ Len(Tail(s)) = Len(s) - 1
      /\ DOMAIN Tail(s) = 1..(Len(s) - 1)
      /\ \A i \in 1..(Len(s) - 1) : Tail(s)[i] = s[i + 1]
      /\ Head(s) = s[1]
  OBVIOUS
<1>2. IsFiniteSet(I) /\ Cardinality(I) = CountIn(S, s)
  BY CountType DEF CountIn
<1>3. IsFiniteSet(J) /\ Cardinality(J) = CountIn(S, Tail(s)) /\ Cardinality(J) \in Nat
  BY <1>1, CountType DEF CountIn
<1>4. f \in Bijection(J, K)
  <2>1. f \in [J -> K]
    BY <1>1
  <2>2. \A j, k \in J : f[j] = f[k] => j = k
    BY <1>1
  <2>3. \A k \in K : \E j \in J : f[j] = k
    <3> SUFFICES ASSUME NEW k \in K PROVE \E j \in J : f[j] = k
      OBVIOUS
    <3>1. k \in 2..Len(s) /\ s[k] \in S
      BY <1>1
    <3>2. k - 1 \in 1..(Len(s) - 1) /\ (k - 1) + 1 = k
      BY <1>1, <3>1
    <3>3. k - 1 \in J
      BY <1>1, <3>1, <3>2
    <3> QED BY <3>2, <3>3
  <2> QED BY <2>1, <2>2, <2>3, Fun_IsBij
<1> HIDE DEF I, J, K, f
<1>5. Cardinality(K) = Cardinality(J)
  BY <1>3, <1>4, FS_Bijection DEF ExistsBijection
<1>6. 1 \in I <=> Head(s) \in S
  BY <1>1 DEF I
<1>7. Cardinality(I) \in Nat
      /\ Cardinality(K) = IF 1 \in I THEN Cardinality(I) - 1 ELSE Cardinality(I)
  BY <1>2, FS_RemoveElement, FS_CardinalityType DEF K
<1> QED BY <1>2, <1>3, <1>5, <1>6, <1>7 DEF N

LEMMA CountOne == \A S, y : CountIn(S, <<y>>) = N(y \in S)
<1> SUFFICES ASSUME NEW S, NEW y PROVE CountIn(S, <<y>>) = N(y \in S)
  OBVIOUS
<1>1. <<>> \in Seq({y}) /\ y \in {y}
  OBVIOUS
<1>2. CountIn(S, Append(<<>>, y)) = CountIn(S, <<>>) + N(y \in S)
  BY <1>1, CountAppend
<1>3. Append(<<>>, y) = <<y>>
  OBVIOUS
<1>4. N(y \in S) \in Nat
  BY DEF N
<1> QED BY <1>2, <1>3, <1>4, CountEmpty

LEMMA CountConcat ==
  ASSUME NEW T, NEW s \in Seq(T), NEW t \in Seq(T), NEW S, ToSet(t) \cap S = {}
  PROVE  CountIn(S, s \o t) = CountIn(S, s)
<1>1. /\ Len(s) \in Nat /\ Len(t) \in Nat
      /\ DOMAIN s = 1..Len(s) /\ DOMAIN t = 1..Len(t)
      /\ DOMAIN (s \o t) = 1..(Len(s) + Len(t))
      /\ \A i \in 1..Len(s) : (s \o t)[i] = s[i]
      /\ \A i \in 1..Len(t) : (s \o t)[Len(s) + i] = t[i]
  OBVIOUS
<1>2. \A i \in 1..(Len(s) + Len(t)) :
         i \in 1..Len(s) \/ (i - Len(s) \in 1..Len(t) /\ Len(s) + (i - Len(s)) = i)
  BY <1>1
<1>3. \A i \in 1..Len(t) : t[i] \notin S
  BY <1>1 DEF ToSet
<1>4. {i \in DOMAIN (s \o t) : (s \o t)[i] \in S} = {i \in DOMAIN s : s[i] \in S}
  BY <1>1, <1>2, <1>3
<1> QED BY <1>4 DEF CountIn

LEMMA NIsNat == \A b : N(b) \in 0..1
  BY DEF N

-----------------------------------------------------------------------------
(* Messages *)

Requests == [kind : {"plain", "initialize"}, id : Nat, about : Clients \X Ids]
Shutdowns == [kind : {"shutdown"}, id : Nat, about : [1..1 -> Nat]]
Notes == [kind : {"open", "close"}, doc : Docs]
Answers == [kind : {"answer"}, id : 1..MaxPushes]
Plains == [kind : {"settings", "initialized", "exit"}]
UpMsgs == Requests \cup Shutdowns \cup Notes \cup Answers \cup Plains

Pendings ==
    [id : Nat, client : Clients, original : Ids, tag : {"plain", "initialize"}]

\* The replies a session can get: to what it asked, and, when it registered
\* while the broker retired, to the broker's own `shutdown`.
RepliesTo(c) == {Reply(id, ok, <<c, id>>) : id \in Ids, ok \in BOOLEAN}
Strays == [kind : {"reply"}, id : Nat, ok : {TRUE}, about : [1..1 -> Nat]]
LateStrays == IF LateClients THEN Strays ELSE {}
Asks == [kind : {"ask"}, id : 1..MaxPushes]
Tells == [kind : {"tell"}, id : 1..MaxPushes]
DownMsgs(c) == RepliesTo(c) \cup Asks \cup Tells \cup LateStrays

\* What upstream_reader can be doing: a reply on its way to the session that
\* asked, an ask to one session, or something for any number of them.
Carrying(c) ==
    [at : {"hook", "greet", "notify", "lookup"}, client : {c}, msg : RepliesTo(c)]
Singly(c) == [at : {"send"}, to : {<<c>>}, msg : RepliesTo(c) \cup Asks]
Widely == [at : {"send"}, to : Seq(Clients) \ {<<>>}, msg : Tells \cup LateStrays]

\* An id and a session make a pair, a broker id alone does not.
LEMMA OneIsNotTwo == \A n, c, id : <<n>> # <<c, id>>
<1> SUFFICES ASSUME NEW n, NEW c, NEW id, <<n>> = <<c, id>> PROVE FALSE
  OBVIOUS
<1>1. Len(<<n>>) = 1 /\ Len(<<c, id>>) = 2
  OBVIOUS
<1> QED BY <1>1

LEMMA SingleIsFunction == \A n \in Nat : <<n>> \in [1..1 -> Nat]
  OBVIOUS

LEMMA PairIsNoSingle == \A c, id : <<c, id>> \notin [1..1 -> Nat]
<1> SUFFICES ASSUME NEW c, NEW id, <<c, id>> \in [1..1 -> Nat] PROVE FALSE
  OBVIOUS
<1>1. DOMAIN <<c, id>> = 1..2 /\ 2 \in 1..2 /\ 2 \notin 1..1
  OBVIOUS
<1> QED BY <1>1

LEMMA StrayFacts ==
  \A m \in LateStrays : LateClients /\ m.kind = "reply" /\ m.about \in [1..1 -> Nat]
<1>1. CASE LateClients
  BY <1>1 DEF LateStrays, Strays
<1>2. CASE ~LateClients
  BY <1>2 DEF LateStrays
<1> QED BY <1>1, <1>2

\* Messages told apart by their kind.
LEMMA UpKinds ==
  ASSUME NEW m \in UpMsgs
  PROVE  /\ m \in Requests <=> m.kind \in {"plain", "initialize"}
         /\ m \in Shutdowns <=> m.kind = "shutdown"
         /\ m \in Notes <=> m.kind \in {"open", "close"}
         /\ m \in Answers <=> m.kind = "answer"
         /\ m \in Plains <=> m.kind \in {"settings", "initialized", "exit"}
         /\ IsRequest(m) <=> m \in Requests \cup Shutdowns
<1>1. CASE m \in Requests
  BY <1>1 DEF Requests, Shutdowns, Notes, Answers, Plains, IsRequest
<1>2. CASE m \in Shutdowns
  BY <1>2 DEF Requests, Shutdowns, Notes, Answers, Plains, IsRequest
<1>3. CASE m \in Notes
  BY <1>3 DEF Requests, Shutdowns, Notes, Answers, Plains, IsRequest
<1>4. CASE m \in Answers
  BY <1>4 DEF Requests, Shutdowns, Notes, Answers, Plains, IsRequest
<1>5. CASE m \in Plains
  BY <1>5 DEF Requests, Shutdowns, Notes, Answers, Plains, IsRequest
<1> QED BY <1>1, <1>2, <1>3, <1>4, <1>5 DEF UpMsgs

LEMMA Built ==
  /\ \A tag \in {"plain", "initialize"}, id \in Nat, c \in Clients, n \in Ids :
        Request(tag, id, <<c, n>>) \in Requests
  /\ \A id \in Nat : Request("shutdown", id, <<id>>) \in Shutdowns
  /\ \A kind \in {"open", "close"}, d \in Docs : Note(kind, d) \in Notes
  /\ \A n \in 1..MaxPushes : Answered(n) \in Answers
  /\ \A kind \in {"settings", "initialized", "exit"} : Plain(kind) \in Plains
<1>1. \A id \in Nat : Request("shutdown", id, <<id>>) \in Shutdowns
  BY SingleIsFunction DEF Request, Shutdowns
<1> QED BY <1>1 DEF Request, Note, Answered, Plain, Requests, Notes, Answers, Plains

LEMMA BuiltUp ==
  Requests \subseteq UpMsgs /\ Shutdowns \subseteq UpMsgs /\ Notes \subseteq UpMsgs
  /\ Answers \subseteq UpMsgs /\ Plains \subseteq UpMsgs
  BY DEF UpMsgs

LEMMA DownKinds ==
  ASSUME NEW c \in Clients, NEW m \in DownMsgs(c)
  PROVE  /\ m.kind \in {"reply", "ask", "tell"}
         /\ m \in Asks <=> m.kind = "ask"
         /\ m.kind = "reply" <=> m \in RepliesTo(c) \cup LateStrays
         /\ m \in RepliesTo(c) => m.id \in Ids /\ m.ok \in BOOLEAN /\ m.about = <<c, m.id>>
         /\ m \in LateStrays => LateClients /\ m.about \in [1..1 -> Nat]
<1>1. CASE m \in RepliesTo(c)
  <2>1. PICK id \in Ids, ok \in BOOLEAN : m = Reply(id, ok, <<c, id>>)
    BY <1>1 DEF RepliesTo
  <2>2. m.kind = "reply" /\ m.id = id /\ m.ok = ok /\ m.about = <<c, id>>
    BY <2>1 DEF Reply
  <2>3. m \notin Asks
    BY <2>2 DEF Asks
  <2>4. m \notin LateStrays
    BY <2>2, PairIsNoSingle, StrayFacts
  <2> QED BY <1>1, <2>2, <2>3, <2>4
<1>2. CASE m \in Asks
  <2>1. m.kind = "ask"
    BY <1>2 DEF Asks
  <2>2. m \notin RepliesTo(c) /\ m \notin LateStrays
    BY <2>1, StrayFacts DEF RepliesTo, Reply
  <2> QED BY <1>2, <2>1, <2>2
<1>3. CASE m \in Tells
  <2>1. m.kind = "tell"
    BY <1>3 DEF Tells
  <2>2. m \notin RepliesTo(c) /\ m \notin LateStrays /\ m \notin Asks
    BY <2>1, StrayFacts DEF RepliesTo, Reply, Asks
  <2> QED BY <2>1, <2>2
<1>4. CASE m \in LateStrays
  <2>1. m.kind = "reply" /\ m.about \in [1..1 -> Nat] /\ LateClients
    BY <1>4, StrayFacts
  <2>2. m \notin RepliesTo(c)
    BY <2>1, PairIsNoSingle DEF RepliesTo, Reply
  <2>3. m \notin Asks
    BY <2>1 DEF Asks
  <2> QED BY <1>4, <2>1, <2>2, <2>3
<1> QED BY <1>1, <1>2, <1>3, <1>4 DEF DownMsgs

-----------------------------------------------------------------------------
(* Types *)

Stages == {"absent", "reading", "enrol", "check", "elect", "parked", "replying",
           "sending", "gone", "closing", "ended"}

SessionTypes ==
    /\ clients \subseteq Clients /\ IsFiniteSet(clients)
    /\ task \in [Clients -> Stages]
    /\ asking \in [Clients -> 0..MaxRequests]
    /\ phase \in [Clients -> {"new", "asked", "ready", "configured", "refused"}]
    /\ asked \in [Clients -> 0..MaxRequests]
    /\ waiting \in [Clients -> SUBSET Ids]
    /\ obliged \in [Clients -> SUBSET (1..MaxPushes)]

BrokerTypes ==
    /\ started \in BOOLEAN /\ cached \in BOOLEAN
    /\ enrolled \subseteq Clients
    /\ retired \in {"no", "shutdown", "exit"}
    /\ owners \in [Docs -> SUBSET Clients]
    /\ IsFiniteSet({d \in Docs : owners[d] # {}})

ServerTypes ==
    /\ owed \subseteq 1..MaxPushes /\ pushes \in 0..MaxPushes
    /\ serverOpen \subseteq Docs
    /\ greeted \in Nat /\ errors \in 0..MaxErrors

UpstreamTypes ==
    /\ held \in [Clients -> Seq(UpMsgs)]
    /\ upstream \in Seq(UpMsgs) /\ Len(upstream) <= UpstreamQueue

RequestTypes ==
    /\ pending \subseteq Pendings /\ nextRequest \in Nat
    /\ working \subseteq Requests \cup Shutdowns /\ IsFiniteSet(working)

QueueTypes ==
    /\ queue = [c \in Clients |-> queue[c]]
    /\ \A c \in Clients : queue[c] \in Seq(DownMsgs(c)) /\ Len(queue[c]) <= ClientQueue

ReaderTypes ==
    \/ reader \in {Idle, Ended} \cup Widely
    \/ \E c \in Clients : reader \in Carrying(c) \cup Singly(c)

Typed == SessionTypes /\ BrokerTypes /\ ServerTypes /\ UpstreamTypes
         /\ RequestTypes /\ QueueTypes /\ ReaderTypes

LEMMA InitTyped == Init => Typed
<1> SUFFICES ASSUME Init PROVE Typed
  OBVIOUS
<1>1. SessionTypes
  BY FS_EmptySet DEF Init, SessionTypes, Stages
<1>2. BrokerTypes
  <2>1. {d \in Docs : owners[d] # {}} = {}
    BY DEF Init
  <2> QED BY <2>1, FS_EmptySet DEF Init, BrokerTypes
<1>3. ServerTypes
  BY DEF Init, ServerTypes
<1>4. UpstreamTypes
  BY EmptyTyped DEF Init, UpstreamTypes
<1>5. RequestTypes
  BY FS_EmptySet DEF Init, RequestTypes
<1>6. QueueTypes
  BY EmptyTyped DEF Init, QueueTypes
<1>7. ReaderTypes
  BY DEF Init, ReaderTypes
<1> QED BY <1>1, <1>2, <1>3, <1>4, <1>5, <1>6, <1>7 DEF Typed

LEMMA AskTypes ==
  ASSUME SessionTypes, NEW c \in Clients, Ask(c)
  PROVE  /\ asked' \in [Clients -> 0..MaxRequests] /\ asked'[c] = asked[c] + 1
         /\ asked'[c] \in Ids
         /\ waiting' \in [Clients -> SUBSET Ids]
         /\ asking' \in [Clients -> 0..MaxRequests] /\ asking'[c] = asked'[c]
         /\ obliged' = obliged
<1>1. asked[c] \in 0..MaxRequests /\ asked[c] < MaxRequests
  BY DEF SessionTypes, Ask
<1>2. asked'[c] = asked[c] + 1 /\ asked'[c] \in Ids /\ asked'[c] \in 0..MaxRequests
  BY <1>1 DEF SessionTypes, Ask, Ids
<1>3. asked' \in [Clients -> 0..MaxRequests]
  BY <1>2 DEF SessionTypes, Ask
<1>4. waiting' \in [Clients -> SUBSET Ids]
  BY <1>2 DEF SessionTypes, Ask
<1>5. asking' \in [Clients -> 0..MaxRequests] /\ asking'[c] = asked'[c]
  BY <1>2 DEF SessionTypes, Ask
<1> QED BY <1>2, <1>3, <1>4, <1>5 DEF Ask

\* What the head of a session's queue does to its peer.
LEMMA ReceiveTypes ==
  ASSUME SessionTypes, QueueTypes, NEW c \in Clients, Receive(c)
  PROVE  /\ phase' \in [Clients -> {"new", "asked", "ready", "configured", "refused"}]
         /\ waiting' \in [Clients -> SUBSET Ids]
         /\ \A d \in Clients : waiting'[d] \subseteq waiting[d]
         /\ obliged' \in [Clients -> SUBSET (1..MaxPushes)]
<1> DEFINE m == Head(queue[c])
<1>1. queue[c] # <<>> /\ queue[c] \in Seq(DownMsgs(c))
  BY DEF Receive, QueueTypes
<1>2. m \in DownMsgs(c)
  BY <1>1, TakenTyped
<1>3. m.kind \in {"reply", "ask", "tell"} /\ (m.kind = "ask" => m \in Asks)
  BY <1>2, DownKinds
<1>4. CASE m.kind = "reply"
  <2>1. /\ waiting' = [waiting EXCEPT ![c] = @ \ {m.id}]
        /\ phase' = [phase EXCEPT ![c] =
                        CASE @ # "asked" -> @
                          [] m.ok        -> "ready"
                          [] OTHER       -> "refused"]
        /\ UNCHANGED obliged
    BY <1>4 DEF Receive
  <2> HIDE DEF m
  <2>2. waiting' \in [Clients -> SUBSET Ids]
        /\ \A d \in Clients : waiting'[d] \subseteq waiting[d]
    BY <2>1 DEF SessionTypes
  <2>3. phase' \in [Clients -> {"new", "asked", "ready", "configured", "refused"}]
    BY <2>1 DEF SessionTypes
  <2> QED BY <2>1, <2>2, <2>3 DEF SessionTypes
<1>5. CASE m.kind = "ask"
  <2>1. obliged' = [obliged EXCEPT ![c] = @ \cup {m.id}] /\ UNCHANGED <<waiting, phase>>
    BY <1>5 DEF Receive
  <2>2. m.id \in 1..MaxPushes
    BY <1>3, <1>5 DEF Asks
  <2> HIDE DEF m
  <2> QED BY <2>1, <2>2 DEF SessionTypes
<1>6. CASE m.kind = "tell"
  <2>1. UNCHANGED <<waiting, phase, obliged>>
    BY <1>6 DEF Receive
  <2> QED BY <2>1 DEF SessionTypes
<1> QED BY <1>3, <1>4, <1>5, <1>6

LEMMA StepSessionTypes ==
  ASSUME SessionTypes, QueueTypes, [Next]_vars
  PROVE  SessionTypes'
<1>1. ASSUME NEW c \in Clients, Register(c) PROVE SessionTypes'
  <2>1. IsFiniteSet(clients')
    BY <1>1, FS_AddElement DEF SessionTypes, Register
  <2> QED BY <1>1, <2>1 DEF SessionTypes, Register, Go, At, peer, Stages
<1>2. ASSUME NEW c \in Clients, ReadRequest(c) \/ ReadShutdown(c) \/ ReadInitialize(c)
      PROVE SessionTypes'
  <2>1. Ask(c)
    BY <1>2 DEF ReadRequest, ReadShutdown, ReadInitialize
  <2>2. task' \in [Clients -> Stages] /\ clients' = clients
        /\ phase' \in [Clients -> {"new", "asked", "ready", "configured", "refused"}]
    BY <1>2 DEF ReadRequest, ReadShutdown, ReadInitialize, Proxy, Go, SessionTypes,
                Stages, broker
  <2> QED BY <2>1, <2>2, AskTypes DEF SessionTypes
<1>3. ASSUME NEW c \in Clients,
             Enrol(c) \/ CheckCache(c) \/ WinInitialize(c) \/ LoseInitialize(c)
             \/ Wake(c) \/ ReplyLocally(c) \/ Send(c) \/ DropLeases(c) \/ EndSession(c)
      PROVE SessionTypes'
  <2>1. clients' = clients /\ asking' = asking
    BY <1>3 DEF Enrol, CheckCache, WinInitialize, LoseInitialize, Wake, ReplyLocally,
                Send, DropLeases, EndSession, broker
  <2>2. UNCHANGED peer
    BY <1>3 DEF Enrol, CheckCache, WinInitialize, LoseInitialize, Wake, ReplyLocally,
                Send, DropLeases, EndSession
  <2>3. task' \in [Clients -> Stages]
    BY <1>3 DEF Enrol, CheckCache, WinInitialize, LoseInitialize, Wake, ReplyLocally,
                Send, DropLeases, EndSession, Proxy, Go, SessionTypes, Stages
  <2> QED BY <2>1, <2>2, <2>3 DEF peer, SessionTypes
<1>4. ASSUME NEW c \in Clients, ReadSettings(c) PROVE SessionTypes'
  BY <1>4 DEF ReadSettings, Forward, Go, SessionTypes, Stages, broker
<1>5. ASSUME NEW c \in Clients, NEW n \in obliged[c], ReadAnswer(c, n)
      PROVE SessionTypes'
  BY <1>5 DEF ReadAnswer, Forward, Go, SessionTypes, Stages, broker
<1>6. ASSUME NEW c \in Clients, NEW d \in Docs, ReadOpen(c, d) \/ ReadClose(c, d)
      PROVE SessionTypes'
  BY <1>6 DEF ReadOpen, ReadClose, Forward, Go, SessionTypes, Stages, broker, peer
<1>7. ASSUME NEW c \in Clients, Leave(c) PROVE SessionTypes'
  <2>1. IsFiniteSet(clients')
    BY <1>7, FS_RemoveElement DEF SessionTypes, Leave
  <2> QED BY <1>7, <2>1 DEF SessionTypes, Leave, Go, peer, Stages
<1>8. ASSUME NEW c \in Clients, Receive(c) PROVE SessionTypes'
  <2>1. UNCHANGED <<clients, task, asking, asked>>
    BY <1>8 DEF Receive, broker, session
  <2> QED BY <1>8, <2>1, ReceiveTypes DEF SessionTypes
<1>9. CASE ReaderStep \/ ServerReads \/ ServerEnds \/ RetireShutdown \/ RetireExit
           \/ AllOver \/ UNCHANGED vars
  <2>1. UNCHANGED <<clients, session, peer>>
    BY <1>9 DEF ReaderStep, TakeMessage, TakeReply, TakeStrayReply, TakePush,
       KeepResult, GreetServer, ReleaseInitialize, NotifyWaiters, LookUp, SendDown,
       ServerReads, ServerEnds, RetireShutdown, RetireExit, AllOver, vars, broker
  <2> QED BY <2>1 DEF SessionTypes, session, peer
<1>10. CASE BrokerExits
  BY <1>10, FS_EmptySet DEF BrokerExits, SessionTypes, peer, Stages
<1> QED
  BY <1>1, <1>2, <1>3, <1>4, <1>5, <1>6, <1>7, <1>8, <1>9, <1>10
     DEF Next, TaskStep, PeerStep, EndStep

LEMMA StepServerTypes ==
  ASSUME ServerTypes, UpstreamTypes, [Next]_vars
  PROVE  ServerTypes'
<1>1. ASSUME NEW c \in Clients, TaskStep(c) \/ PeerStep(c) \/ Receive(c) PROVE UNCHANGED server
  <2>1. CASE TaskStep(c)
    BY <2>1 DEF TaskStep, Enrol, CheckCache, WinInitialize, LoseInitialize, Wake,
       ReplyLocally, Send, DropLeases, EndSession
  <2>2. CASE PeerStep(c)
    BY <2>2 DEF PeerStep, Register, ReadRequest, ReadShutdown, ReadInitialize,
       ReadSettings, ReadAnswer, ReadOpen, ReadClose, Leave
  <2>3. CASE Receive(c)
    BY <2>3 DEF Receive
  <2> QED BY <1>1, <2>1, <2>2, <2>3
<1>2. ASSUME NEW m \in working, NEW ok \in BOOLEAN, TakeReply(m, ok) PROVE ServerTypes'
  BY <1>2 DEF TakeReply, ServerTypes
<1>3. ASSUME NEW kind \in {"ask", "tell"}, TakePush(kind) PROVE ServerTypes'
  BY <1>3 DEF TakePush, ServerTypes
<1>4. CASE ServerReads
  <2> DEFINE m == Head(upstream)
  <2>1. m \in UpMsgs
    BY <1>4, TakenTyped DEF ServerReads, UpstreamTypes
  <2>2. m.kind \in {"open", "close"} => m.doc \in Docs
    BY <2>1, UpKinds DEF Notes
  <2>3. /\ owed' = IF m.kind = "answer" THEN owed \ {m.id} ELSE owed
        /\ serverOpen' = CASE m.kind = "open"  -> serverOpen \cup {m.doc}
                          [] m.kind = "close" -> serverOpen \ {m.doc}
                          [] OTHER            -> serverOpen
        /\ greeted' = IF m.kind = "initialized" THEN greeted + 1 ELSE greeted
        /\ UNCHANGED <<pushes, errors>>
    BY <1>4 DEF ServerReads
  <2> HIDE DEF m
  <2> QED BY <2>2, <2>3 DEF ServerTypes
<1>5. CASE \/ \E m \in working : TakeStrayReply(m)
           \/ KeepResult \/ GreetServer \/ ReleaseInitialize \/ NotifyWaiters \/ LookUp
           \/ SendDown \/ ServerEnds \/ EndStep \/ AllOver \/ UNCHANGED vars
  <2>1. UNCHANGED <<owed, pushes, serverOpen, greeted, errors>>
    BY <1>5 DEF TakeStrayReply, KeepResult, GreetServer, ReleaseInitialize,
       NotifyWaiters, LookUp, SendDown, ServerEnds, EndStep, RetireShutdown, RetireExit,
       BrokerExits, AllOver, vars, server
  <2> QED BY <2>1 DEF ServerTypes
<1> QED
  BY <1>1, <1>2, <1>3, <1>4, <1>5
     DEF Next, ReaderStep, TakeMessage, server, ServerTypes

\* What the stages of a task say about the session.
Live == {"reading", "enrol", "check", "elect", "parked", "replying", "sending"}
Answering == {"enrol", "check", "elect", "parked", "replying"}

Orderly(c) ==
    /\ held[c] # <<>> => task[c] \in {"sending", "closing"}
    /\ task[c] = "sending" => Len(held[c]) = 1
    /\ task[c] = "closing" => held[c] \in Seq(Notes)
    /\ task[c] = "absent" => asked[c] = 0
    /\ task[c] \in Answering => asking[c] \in Ids
    /\ waiting[c] \subseteq 1..asked[c]
    /\ ~LeaseRaces => held[c] \in Seq(Requests)

Sessions ==
    /\ clients = {c \in Clients : task[c] \in Live}
    /\ \A c \in Clients : Orderly(c)
    /\ retired # "no" /\ ~LateClients => clients = {}

LEMMA StepBrokerTypes ==
  ASSUME BrokerTypes, [Next]_vars
  PROVE  BrokerTypes'
<1>1. ASSUME NEW c \in Clients, NEW d \in Docs, ReadOpen(c, d) PROVE BrokerTypes'
  <2>1. {e \in Docs : owners'[e] # {}} \subseteq {e \in Docs : owners[e] # {}} \cup {d}
    BY <1>1 DEF ReadOpen, BrokerTypes
  <2>2. IsFiniteSet({e \in Docs : owners[e] # {}} \cup {d})
    BY FS_AddElement DEF BrokerTypes
  <2>3. IsFiniteSet({e \in Docs : owners'[e] # {}})
    BY <2>1, <2>2, FS_Subset
  <2>4. owners' \in [Docs -> SUBSET Clients] /\ UNCHANGED <<handshake, retired>>
    BY <1>1 DEF ReadOpen, BrokerTypes, broker
  <2> QED BY <2>3, <2>4 DEF BrokerTypes, handshake
<1>2. ASSUME NEW c \in Clients, DropLeases(c) \/ \E d \in Docs : ReadClose(c, d)
      PROVE BrokerTypes'
  <2>1. /\ owners' \in [Docs -> SUBSET Clients] /\ UNCHANGED <<handshake, retired>>
        /\ \A e \in Docs : owners'[e] \subseteq owners[e]
    BY <1>2 DEF ReadClose, DropLeases, BrokerTypes, broker
  <2>2. {e \in Docs : owners'[e] # {}} \subseteq {e \in Docs : owners[e] # {}}
    BY <2>1
  <2>3. IsFiniteSet({e \in Docs : owners'[e] # {}})
    BY <2>2, FS_Subset DEF BrokerTypes
  <2> QED BY <2>1, <2>3 DEF BrokerTypes, handshake
<1>3. ASSUME NEW c \in Clients, Enrol(c) \/ CheckCache(c) \/ WinInitialize(c)
      PROVE BrokerTypes'
  BY <1>3 DEF Enrol, CheckCache, WinInitialize, BrokerTypes, broker
<1>4. CASE KeepResult \/ ReleaseInitialize \/ NotifyWaiters
  BY <1>4 DEF KeepResult, ReleaseInitialize, NotifyWaiters, BrokerTypes
<1>5. CASE EndStep
  BY <1>5 DEF EndStep, RetireShutdown, RetireExit, BrokerExits, BrokerTypes, handshake
<1>6. ASSUME NEW c \in Clients,
             LoseInitialize(c) \/ Wake(c) \/ ReplyLocally(c) \/ Send(c) \/ EndSession(c)
             \/ Register(c) \/ ReadRequest(c) \/ ReadShutdown(c) \/ ReadInitialize(c)
             \/ ReadSettings(c) \/ (\E n \in obliged[c] : ReadAnswer(c, n)) \/ Leave(c)
             \/ Receive(c)
      PROVE BrokerTypes'
  <2>1. UNCHANGED <<handshake, owners, retired>>
    BY <1>6 DEF LoseInitialize, Wake, ReplyLocally, Send, EndSession, Register,
       ReadRequest, ReadShutdown, ReadInitialize, ReadSettings, ReadAnswer, Leave,
       Receive, broker
  <2> QED BY <2>1 DEF BrokerTypes, handshake
<1>7. CASE TakeMessage \/ GreetServer \/ LookUp \/ SendDown \/ ServerReads \/ ServerEnds
           \/ AllOver \/ UNCHANGED vars
  <2>1. UNCHANGED <<handshake, owners, retired>>
    BY <1>7 DEF TakeMessage, TakeReply, TakeStrayReply, TakePush, GreetServer, LookUp,
       SendDown, ServerReads, ServerEnds, AllOver, vars, broker
  <2> QED BY <2>1 DEF BrokerTypes, handshake
<1> QED
  BY <1>1, <1>2, <1>3, <1>4, <1>5, <1>6, <1>7
     DEF Next, TaskStep, PeerStep, ReaderStep

\* A task that leaves `held` to the message it decided to send.
LEMMA HoldTypes ==
  ASSUME UpstreamTypes, NEW c \in Clients, NEW s \in Seq(UpMsgs), Hold(c, s)
  PROVE  /\ held' \in [Clients -> Seq(UpMsgs)] /\ held'[c] = s
         /\ \A d \in Clients : d # c => held'[d] = held[d]
  BY DEF Hold, UpstreamTypes

LEMMA AppendUpstream ==
  ASSUME UpstreamTypes, NEW m \in UpMsgs, Len(upstream) < UpstreamQueue,
         upstream' = Append(upstream, m)
  PROVE  upstream' \in Seq(UpMsgs) /\ Len(upstream') <= UpstreamQueue
<1>1. upstream \in Seq(UpMsgs)
  BY DEF UpstreamTypes
<1> QED BY <1>1, AppendedTyped

LEMMA ForwardTypes ==
  ASSUME UpstreamTypes, NEW c \in Clients, NEW m \in UpMsgs, Forward(c, m)
  PROVE  UpstreamTypes'
<1>1. CASE Hold(c, <<m>>) /\ UNCHANGED upstream
  BY <1>1, OneTyped, HoldTypes DEF UpstreamTypes
<1>2. CASE Len(upstream) < UpstreamQueue /\ upstream' = Append(upstream, m) /\ UNCHANGED held
  BY <1>2, AppendUpstream DEF UpstreamTypes
<1> QED BY <1>1, <1>2 DEF Forward

LEMMA ProxyTypes ==
  ASSUME UpstreamTypes, RequestTypes, NEW c \in Clients,
         NEW tag \in {"plain", "initialize"}, NEW id \in Ids, Proxy(c, tag, id)
  PROVE  /\ held' \in [Clients -> Seq(UpMsgs)]
         /\ pending' \subseteq Pendings /\ nextRequest' \in Nat
<1>1. Request(tag, nextRequest, <<c, id>>) \in UpMsgs
  BY Built, BuiltUp DEF RequestTypes
<1>2. held' \in [Clients -> Seq(UpMsgs)]
  BY <1>1, OneTyped, HoldTypes DEF Proxy
<1>3. [id |-> nextRequest, client |-> c, original |-> id, tag |-> tag] \in Pendings
  BY DEF RequestTypes, Pendings
<1> QED BY <1>2, <1>3 DEF Proxy, RequestTypes

LEMMA DropTypes ==
  ASSUME UpstreamTypes, BrokerTypes, NEW c \in Clients, DropLeases(c)
  PROVE  \E closes \in Seq(Notes) :
            /\ ToSet(closes) = {Note("close", d) : d \in LastOwned(c)}
            /\ closes \in Seq(UpMsgs)
            /\ \/ LeaseRaces /\ Hold(c, closes) /\ UNCHANGED upstream
               \/ /\ ~LeaseRaces
                  /\ Len(upstream) + Len(closes) <= UpstreamQueue
                  /\ upstream' = upstream \o closes
                  /\ UNCHANGED held
<1> DEFINE S == {Note("close", d) : d \in LastOwned(c)}
<1>1. IsFiniteSet(LastOwned(c))
  <2>1. LastOwned(c) \subseteq {d \in Docs : owners[d] # {}}
    BY DEF LastOwned
  <2> QED BY <2>1, FS_Subset DEF BrokerTypes
<1>2. IsFiniteSet(S)
  <2> DEFINE f == [d \in LastOwned(c) |-> Note("close", d)]
  <2>1. f \in Surjection(LastOwned(c), S)
    BY Fun_IsSurj
  <2> QED BY <1>1, <2>1, FS_Surjection
<1>3. S \subseteq Notes
  BY Built DEF LastOwned
<1> HIDE DEF S
<1>4. PICK closes \in SetToSeqs(S) :
          \/ LeaseRaces /\ Hold(c, closes) /\ UNCHANGED upstream
          \/ /\ ~LeaseRaces
             /\ Len(upstream) + Len(closes) <= UpstreamQueue
             /\ upstream' = upstream \o closes
             /\ UNCHANGED held
  BY DEF DropLeases, S
<1>5. closes \in Seq(S) /\ ToSet(closes) = S
  BY <1>2, OrdersList
<1>6. closes \in Seq(Notes)
  BY <1>3, <1>5, WiderTyped
<1>7. closes \in Seq(UpMsgs)
  BY <1>6, WiderTyped, BuiltUp
<1> QED BY <1>4, <1>5, <1>6, <1>7 DEF S

LEMMA StepUpstreamTypes ==
  ASSUME Typed, Sessions, [Next]_vars
  PROVE  UpstreamTypes'
<1> USE DEF Typed
<1>1. ASSUME NEW c \in Clients, ReadRequest(c) \/ WinInitialize(c) PROVE UpstreamTypes'
  <2>1. UNCHANGED upstream
    BY <1>1 DEF ReadRequest, WinInitialize
  <2>2. held' \in [Clients -> Seq(UpMsgs)]
    <3>1. CASE ReadRequest(c)
      BY <3>1, ProxyTypes, AskTypes DEF ReadRequest
    <3>2. CASE WinInitialize(c)
      <4>1. asking[c] \in Ids
        BY <3>2 DEF WinInitialize, At, Sessions, Orderly, Answering
      <4> QED BY <3>2, <4>1, ProxyTypes DEF WinInitialize
    <3> QED BY <1>1, <3>1, <3>2
  <2> QED BY <2>1, <2>2 DEF UpstreamTypes
<1>2. ASSUME NEW c \in Clients, ReadSettings(c) PROVE UpstreamTypes'
  BY <1>2, Built, BuiltUp, ForwardTypes DEF ReadSettings
<1>3. ASSUME NEW c \in Clients, NEW n \in obliged[c], ReadAnswer(c, n) PROVE UpstreamTypes'
  <2>1. n \in 1..MaxPushes
    BY DEF SessionTypes
  <2> QED BY <1>3, <2>1, Built, BuiltUp, ForwardTypes DEF ReadAnswer
<1>4. ASSUME NEW c \in Clients, NEW d \in Docs, ReadOpen(c, d) \/ ReadClose(c, d)
      PROVE UpstreamTypes'
  <2>1. \/ Forward(c, Note("open", d)) \/ Forward(c, Note("close", d))
        \/ UNCHANGED <<held, upstream>>
    BY <1>4 DEF ReadOpen, ReadClose
  <2>2. Note("open", d) \in UpMsgs /\ Note("close", d) \in UpMsgs
    BY Built, BuiltUp
  <2>3. CASE UNCHANGED <<held, upstream>>
    BY <2>3 DEF UpstreamTypes
  <2> QED BY <2>1, <2>2, <2>3, ForwardTypes
<1>5. ASSUME NEW c \in Clients, Send(c) PROVE UpstreamTypes'
  <2>1. held[c] \in Seq(UpMsgs) /\ held[c] # <<>>
    BY <1>5 DEF Send, UpstreamTypes
  <2>2. Head(held[c]) \in UpMsgs /\ Tail(held[c]) \in Seq(UpMsgs)
    BY <2>1, TakenTyped
  <2>3. held' \in [Clients -> Seq(UpMsgs)]
    BY <1>5, <2>2, HoldTypes DEF Send
  <2>4. upstream' \in Seq(UpMsgs) /\ Len(upstream') <= UpstreamQueue
    BY <1>5, <2>2, AppendUpstream DEF Send
  <2> QED BY <2>3, <2>4 DEF UpstreamTypes
<1>6. ASSUME NEW c \in Clients, DropLeases(c) PROVE UpstreamTypes'
  <2>1. PICK closes \in Seq(UpMsgs) :
            \/ LeaseRaces /\ Hold(c, closes) /\ UNCHANGED upstream
            \/ /\ ~LeaseRaces
               /\ Len(upstream) + Len(closes) <= UpstreamQueue
               /\ upstream' = upstream \o closes
               /\ UNCHANGED held
    BY <1>6, DropTypes
  <2>2. CASE Hold(c, closes) /\ UNCHANGED upstream
    BY <2>2, HoldTypes DEF UpstreamTypes
  <2>3. CASE /\ Len(upstream) + Len(closes) <= UpstreamQueue
             /\ upstream' = upstream \o closes
             /\ UNCHANGED held
    <3>1. upstream \in Seq(UpMsgs)
      BY DEF UpstreamTypes
    <3>2. upstream \o closes \in Seq(UpMsgs)
          /\ Len(upstream \o closes) = Len(upstream) + Len(closes)
      BY <3>1, MembersConcat
    <3> QED BY <2>3, <3>2 DEF UpstreamTypes
  <2> QED BY <2>1, <2>2, <2>3
<1>7. CASE GreetServer \/ RetireShutdown \/ RetireExit
  <2>1. PICK m \in UpMsgs : Len(upstream) < UpstreamQueue /\ upstream' = Append(upstream, m)
    <3>1. nextRequest \in Nat
      BY DEF RequestTypes
    <3>2. /\ Plain("initialized") \in UpMsgs /\ Plain("exit") \in UpMsgs
          /\ Request("shutdown", nextRequest, <<nextRequest>>) \in UpMsgs
      BY <3>1, Built, BuiltUp
    <3> QED BY <1>7, <3>2 DEF GreetServer, RetireShutdown, RetireExit
  <2>2. UNCHANGED held
    BY <1>7 DEF GreetServer, RetireShutdown, RetireExit, session
  <2> QED BY <2>1, <2>2, AppendUpstream DEF UpstreamTypes
<1>8. CASE ServerReads
  <2>1. upstream \in Seq(UpMsgs) /\ upstream # <<>> /\ upstream' = Tail(upstream)
        /\ UNCHANGED held
    BY <1>8 DEF ServerReads, UpstreamTypes, session
  <2>2. Tail(upstream) \in Seq(UpMsgs) /\ Len(upstream) \in Nat
        /\ Len(Tail(upstream)) = Len(upstream) - 1
    BY <2>1, TakenTyped
  <2> QED BY <2>1, <2>2 DEF UpstreamTypes
<1>9. CASE BrokerExits
  BY <1>9, EmptyTyped DEF BrokerExits, UpstreamTypes
<1>10. ASSUME NEW c \in Clients,
              Enrol(c) \/ CheckCache(c) \/ LoseInitialize(c) \/ Wake(c)
              \/ ReplyLocally(c) \/ EndSession(c) \/ Register(c) \/ ReadShutdown(c)
              \/ ReadInitialize(c) \/ Leave(c) \/ Receive(c)
       PROVE UpstreamTypes'
  <2>1. UNCHANGED <<held, upstream>>
    BY <1>10 DEF Enrol, CheckCache, LoseInitialize, Wake, ReplyLocally, EndSession,
       Register, ReadShutdown, ReadInitialize, Leave, Receive, session
  <2> QED BY <2>1 DEF UpstreamTypes
<1>11. CASE TakeMessage \/ KeepResult \/ ReleaseInitialize \/ NotifyWaiters \/ LookUp
            \/ SendDown \/ ServerEnds \/ AllOver \/ UNCHANGED vars
  <2>1. UNCHANGED <<held, upstream>>
    BY <1>11 DEF TakeMessage, TakeReply, TakeStrayReply, TakePush, KeepResult,
       ReleaseInitialize, NotifyWaiters, LookUp, SendDown, ServerEnds, AllOver, vars,
       session
  <2> QED BY <2>1 DEF UpstreamTypes
<1> QED
  BY <1>1, <1>2, <1>3, <1>4, <1>5, <1>6, <1>7, <1>8, <1>9, <1>10, <1>11
     DEF Next, TaskStep, PeerStep, ReaderStep, EndStep

LEMMA StepRequestTypes ==
  ASSUME Typed, Sessions, [Next]_vars
  PROVE  RequestTypes'
<1> USE DEF Typed
<1>1. ASSUME NEW c \in Clients, ReadRequest(c) \/ WinInitialize(c) PROVE RequestTypes'
  <2>1. UNCHANGED working
    BY <1>1 DEF ReadRequest, WinInitialize, server
  <2>2. pending' \subseteq Pendings /\ nextRequest' \in Nat
    <3>1. CASE ReadRequest(c)
      BY <3>1, ProxyTypes, AskTypes DEF ReadRequest
    <3>2. CASE WinInitialize(c)
      <4>1. asking[c] \in Ids
        BY <3>2 DEF WinInitialize, At, Sessions, Orderly, Answering
      <4> QED BY <3>2, <4>1, ProxyTypes DEF WinInitialize
    <3> QED BY <1>1, <3>1, <3>2
  <2> QED BY <2>1, <2>2 DEF RequestTypes
<1>2. ASSUME NEW m \in working, TakeStrayReply(m) \/ \E ok \in BOOLEAN : TakeReply(m, ok)
      PROVE RequestTypes'
  <2>1. working' = working \ {m} /\ pending' \subseteq pending /\ UNCHANGED nextRequest
    BY <1>2 DEF TakeStrayReply, TakeReply, requests
  <2>2. IsFiniteSet(working \ {m})
    BY FS_RemoveElement DEF RequestTypes
  <2> QED BY <2>1, <2>2 DEF RequestTypes
<1>3. CASE ServerReads
  <2> DEFINE m == Head(upstream)
  <2>1. m \in UpMsgs
    BY <1>3, TakenTyped DEF ServerReads, UpstreamTypes
  <2>2. IsRequest(m) => m \in Requests \cup Shutdowns
    BY <2>1, UpKinds
  <2>3. working' = (IF IsRequest(m) THEN working \cup {m} ELSE working) /\ UNCHANGED requests
    BY <1>3 DEF ServerReads
  <2> HIDE DEF m
  <2>4. IsFiniteSet(working \cup {m})
    BY FS_AddElement DEF RequestTypes
  <2> QED BY <2>2, <2>3, <2>4 DEF RequestTypes, requests
<1>4. CASE RetireShutdown
  BY <1>4 DEF RetireShutdown, RequestTypes, server
<1>5. ASSUME NEW c \in Clients,
             Enrol(c) \/ CheckCache(c) \/ LoseInitialize(c) \/ Wake(c)
             \/ ReplyLocally(c) \/ Send(c) \/ DropLeases(c) \/ EndSession(c)
             \/ Register(c) \/ ReadShutdown(c) \/ ReadInitialize(c) \/ ReadSettings(c)
             \/ (\E n \in obliged[c] : ReadAnswer(c, n))
             \/ (\E d \in Docs : ReadOpen(c, d) \/ ReadClose(c, d))
             \/ Leave(c) \/ Receive(c)
      PROVE RequestTypes'
  <2>1. UNCHANGED <<requests, working>>
    BY <1>5 DEF Enrol, CheckCache, LoseInitialize, Wake, ReplyLocally, Send, DropLeases,
       EndSession, Register, ReadShutdown, ReadInitialize, ReadSettings, ReadAnswer,
       ReadOpen, ReadClose, Leave, Receive, server
  <2> QED BY <2>1 DEF RequestTypes, requests
<1>6. CASE \/ \E kind \in {"ask", "tell"} : TakePush(kind)
           \/ KeepResult \/ GreetServer \/ ReleaseInitialize \/ NotifyWaiters \/ LookUp
           \/ SendDown \/ ServerEnds \/ RetireExit \/ BrokerExits \/ AllOver
           \/ UNCHANGED vars
  <2>1. UNCHANGED <<requests, working>>
    BY <1>6 DEF TakePush, KeepResult, GreetServer, ReleaseInitialize, NotifyWaiters,
       LookUp, SendDown, ServerEnds, RetireExit, BrokerExits, AllOver, vars, server
  <2> QED BY <2>1 DEF RequestTypes, requests
<1> QED
  BY <1>1, <1>2, <1>3, <1>4, <1>5, <1>6
     DEF Next, TaskStep, PeerStep, ReaderStep, TakeMessage, EndStep

\* What can be on its way does not change.
LEMMA Constants ==
  \A c : /\ DownMsgs(c)' = DownMsgs(c)
         /\ Carrying(c)' = Carrying(c) /\ Singly(c)' = Singly(c)
         /\ RepliesTo(c)' = RepliesTo(c)
  BY DEF DownMsgs, Carrying, Singly, RepliesTo, Asks, Tells, LateStrays, Strays, Reply

LEMMA ReaderKinds ==
  ASSUME ReaderTypes
  PROVE  /\ reader.at \in {"hook", "greet", "notify", "lookup"} =>
               \E c \in Clients : reader \in Carrying(c)
         /\ reader.at = "send" => reader \in Widely \/ \E c \in Clients : reader \in Singly(c)
         /\ reader.at = "idle" <=> reader = Idle
         /\ reader.at = "ended" <=> reader = Ended
<1>1. CASE reader \in {Idle, Ended}
  BY <1>1 DEF Idle, Ended
<1>2. CASE reader \in Widely
  BY <1>2 DEF Widely, Idle, Ended
<1>3. ASSUME NEW c \in Clients, reader \in Carrying(c)
      PROVE reader.at \in {"hook", "greet", "notify", "lookup"}
  BY <1>3 DEF Carrying
<1>4. ASSUME NEW c \in Clients, reader \in Singly(c) PROVE reader.at = "send"
  BY <1>4 DEF Singly
<1>5. CASE \E c \in Clients : reader \in Carrying(c) \cup Singly(c)
  BY <1>3, <1>4, <1>5 DEF Idle, Ended
<1> QED BY <1>1, <1>2, <1>5 DEF ReaderTypes

\* Whatever the reader sends fits the queue it sends it to.
LEMMA SentFits ==
  ASSUME ReaderTypes, reader.at = "send"
  PROVE  /\ reader.to \in Seq(Clients) /\ reader.to # <<>>
         /\ Head(reader.to) \in Clients /\ Tail(reader.to) \in Seq(Clients)
         /\ reader.msg \in DownMsgs(Head(reader.to))
<1>1. CASE reader \in Widely
  <2>1. reader.to \in Seq(Clients) /\ reader.to # <<>> /\ reader.msg \in Tells \cup LateStrays
    BY <1>1 DEF Widely
  <2> QED BY <2>1, TakenTyped DEF DownMsgs
<1>2. ASSUME NEW c \in Clients, reader \in Singly(c)
      PROVE  /\ reader.to \in Seq(Clients) /\ reader.to # <<>>
             /\ Head(reader.to) \in Clients /\ Tail(reader.to) \in Seq(Clients)
             /\ reader.msg \in DownMsgs(Head(reader.to))
  <2>1. reader.to = <<c>> /\ reader.msg \in RepliesTo(c) \cup Asks
    BY <1>2 DEF Singly
  <2>2. <<c>> \in Seq(Clients) /\ <<c>> # <<>> /\ Head(<<c>>) = c /\ Tail(<<c>>) = <<>>
    BY OneTyped
  <2> QED BY <2>1, <2>2, EmptyTyped DEF DownMsgs
<1> QED BY <1>1, <1>2, ReaderKinds

LEMMA QueueChange ==
  ASSUME QueueTypes, NEW c \in Clients, NEW s \in Seq(DownMsgs(c)), Len(s) <= ClientQueue,
         queue' = [queue EXCEPT ![c] = s]
  PROVE  QueueTypes' /\ queue'[c] = s /\ \A d \in Clients : d # c => queue'[d] = queue[d]
<1>1. DOMAIN queue = Clients
  BY DEF QueueTypes
<1>2. queue'[c] = s /\ \A d \in Clients : d # c => queue'[d] = queue[d]
  BY <1>1
<1>3. queue' = [d \in Clients |-> queue'[d]]
  BY <1>1
<1>4. \A d \in Clients : queue'[d] \in Seq(DownMsgs(d)) /\ Len(queue'[d]) <= ClientQueue
  BY <1>2 DEF QueueTypes
<1> QED BY <1>2, <1>3, <1>4, Constants DEF QueueTypes

LEMMA ReplyFits ==
  ASSUME NEW c \in Clients, NEW id \in Ids, NEW ok \in BOOLEAN
  PROVE  Reply(id, ok, <<c, id>>) \in RepliesTo(c)
  BY DEF RepliesTo

LEMMA StepQueueTypes ==
  ASSUME Typed, Sessions, [Next]_vars
  PROVE  QueueTypes'
<1> USE DEF Typed
<1>1. ASSUME NEW c \in Clients, ReplyLocally(c) PROVE QueueTypes'
  <2>1. asking[c] \in Ids
    BY <1>1 DEF ReplyLocally, At, Sessions, Orderly, Answering
  <2> DEFINE m == Reply(asking[c], TRUE, <<c, asking[c]>>)
  <2>2. m \in DownMsgs(c)
    BY <2>1, ReplyFits DEF DownMsgs
  <2>3. queue[c] \in Seq(DownMsgs(c)) /\ Len(queue[c]) < ClientQueue
        /\ queue' = [queue EXCEPT ![c] = Append(queue[c], m)]
    BY <1>1 DEF ReplyLocally, QueueTypes
  <2> HIDE DEF m
  <2>4. Append(queue[c], m) \in Seq(DownMsgs(c)) /\ Len(Append(queue[c], m)) <= ClientQueue
    BY <2>2, <2>3, AppendedTyped
  <2> QED BY <2>3, <2>4, QueueChange
<1>2. ASSUME NEW c \in Clients, EndSession(c) PROVE QueueTypes'
  <2>1. <<>> \in Seq(DownMsgs(c)) /\ Len(<<>>) <= ClientQueue
    BY EmptyTyped
  <2> QED BY <1>2, <2>1, QueueChange DEF EndSession
<1>3. ASSUME NEW c \in Clients, Receive(c) PROVE QueueTypes'
  <2>1. queue[c] \in Seq(DownMsgs(c)) /\ queue[c] # <<>> /\ Len(queue[c]) <= ClientQueue
        /\ queue' = [queue EXCEPT ![c] = Tail(queue[c])]
    BY <1>3 DEF Receive, QueueTypes
  <2>2. Tail(queue[c]) \in Seq(DownMsgs(c)) /\ Len(Tail(queue[c])) <= ClientQueue
    BY <2>1, TakenTyped
  <2> QED BY <2>1, <2>2, QueueChange
<1>4. CASE SendDown
  <2> DEFINE c == Head(reader.to)
  <2>1. reader.at = "send" /\ c \in Clients /\ reader.msg \in DownMsgs(c)
    BY <1>4, SentFits DEF SendDown
  <2>2. \/ UNCHANGED queue
        \/ Len(queue[c]) < ClientQueue
           /\ queue' = [queue EXCEPT ![c] = Append(queue[c], reader.msg)]
    BY <1>4 DEF SendDown
  <2> HIDE DEF c
  <2>3. queue[c] \in Seq(DownMsgs(c))
    BY <2>1 DEF QueueTypes
  <2>4. Append(queue[c], reader.msg) \in Seq(DownMsgs(c))
        /\ Len(Append(queue[c], reader.msg)) = Len(queue[c]) + 1 /\ Len(queue[c]) \in Nat
    BY <2>1, <2>3, AppendedTyped
  <2>5. CASE UNCHANGED queue
    BY <2>5, Constants DEF QueueTypes
  <2> QED BY <2>1, <2>2, <2>4, <2>5, QueueChange
<1>5. CASE BrokerExits
  BY <1>5, EmptyTyped DEF BrokerExits, QueueTypes
<1>6. ASSUME NEW c \in Clients,
             Enrol(c) \/ CheckCache(c) \/ WinInitialize(c) \/ LoseInitialize(c) \/ Wake(c)
             \/ Send(c) \/ DropLeases(c)
             \/ Register(c) \/ ReadRequest(c) \/ ReadShutdown(c) \/ ReadInitialize(c)
             \/ ReadSettings(c) \/ (\E n \in obliged[c] : ReadAnswer(c, n))
             \/ (\E d \in Docs : ReadOpen(c, d) \/ ReadClose(c, d)) \/ Leave(c)
      PROVE QueueTypes'
  <2>1. UNCHANGED queue
    BY <1>6 DEF Enrol, CheckCache, WinInitialize, LoseInitialize, Wake, Send, DropLeases,
       Register, ReadRequest, ReadShutdown, ReadInitialize, ReadSettings, ReadAnswer,
       ReadOpen, ReadClose, Leave
  <2> QED BY <2>1, Constants DEF QueueTypes
<1>7. CASE TakeMessage \/ KeepResult \/ GreetServer \/ ReleaseInitialize \/ NotifyWaiters
           \/ LookUp \/ ServerReads \/ ServerEnds \/ RetireShutdown \/ RetireExit
           \/ AllOver \/ UNCHANGED vars
  <2>1. UNCHANGED queue
    BY <1>7 DEF TakeMessage, TakeReply, TakeStrayReply, TakePush, KeepResult, GreetServer,
       ReleaseInitialize, NotifyWaiters, LookUp, ServerReads, ServerEnds, RetireShutdown,
       RetireExit, AllOver, vars
  <2> QED BY <2>1, Constants DEF QueueTypes
<1> QED
  BY <1>1, <1>2, <1>3, <1>4, <1>5, <1>6, <1>7
     DEF Next, TaskStep, PeerStep, ReaderStep, EndStep

-----------------------------------------------------------------------------
(* Requests in flight *)

InFlight == working \cup ToSet(upstream) \cup UNION {ToSet(held[c]) : c \in Clients}

PendingFor(p, m) ==
    p.id = m.id /\ p.tag = m.kind /\ <<p.client, p.original>> = m.about

\* A request on its way to its answer is the one its pending entry is about,
\* and no two entries have one id; the broker's `shutdown` has an id of its own.
Tracked ==
    /\ \A p, q \in pending : p.id = q.id => p = q
    /\ \A p \in pending : p.id < nextRequest
    /\ \A m \in InFlight :
          /\ m \in Requests => \E p \in pending : PendingFor(p, m)
          /\ m \in Shutdowns => /\ m.id < nextRequest /\ retired # "no"
                                /\ \A p \in pending : p.id # m.id
    /\ \A c \in Clients : \A m \in ToSet(held[c]) : m \in Requests => m.about[1] = c

\* The pending entry of the request an answer is to.
LEMMA FoundEntry ==
  ASSUME Typed, Tracked, NEW m \in working, NEW p \in pending, p.id = m.id
  PROVE  m \in Requests /\ PendingFor(p, m)
<1>1. m \in InFlight /\ m \in Requests \cup Shutdowns
  BY DEF Typed, RequestTypes, InFlight
<1>2. m \notin Shutdowns
  BY <1>1 DEF Tracked
<1>3. PICK q \in pending : PendingFor(q, m)
  BY <1>1, <1>2 DEF Tracked
<1>4. q = p
  BY <1>3 DEF Tracked, PendingFor
<1> QED BY <1>1, <1>2, <1>3, <1>4

LEMMA TakeReplyReader ==
  ASSUME Typed, Tracked, NEW m \in working, NEW ok \in BOOLEAN, TakeReply(m, ok)
  PROVE  \E p \in pending :
            /\ PendingFor(p, m) /\ m \in Requests /\ p \in Pendings
            /\ pending' = pending \ {p}
            /\ reader' = [at |-> IF p.tag = "initialize" THEN "hook" ELSE "lookup",
                          client |-> p.client, msg |-> Reply(p.original, ok, m.about)]
            /\ m.about = <<p.client, p.original>>
            /\ reader' \in Carrying(p.client)
<1>1. PICK p \in pending :
          /\ p.id = m.id
          /\ pending' = pending \ {p}
          /\ reader' = [at |-> IF p.tag = "initialize" THEN "hook" ELSE "lookup",
                        client |-> p.client,
                        msg |-> Reply(p.original, ok, m.about)]
  BY DEF TakeReply
<1>2. PendingFor(p, m) /\ m \in Requests
  BY <1>1, FoundEntry
<1>3. p \in Pendings
  BY DEF Typed, RequestTypes
<1>4. m.about = <<p.client, p.original>> /\ p.client \in Clients /\ p.original \in Ids
  BY <1>2, <1>3 DEF PendingFor, Pendings
<1>5. Reply(p.original, ok, m.about) \in RepliesTo(p.client)
  BY <1>4, ReplyFits
<1>6. reader' \in Carrying(p.client)
  BY <1>1, <1>5 DEF Carrying
<1> QED BY <1>1, <1>2, <1>3, <1>4, <1>6

\* A stray reply can only go to sessions that came after the broker retired.
LEMMA TakeStrayReader ==
  ASSUME Typed, Sessions, Tracked, NEW m \in working, TakeStrayReply(m)
  PROVE  reader' \in {Idle} \cup [at : {"send"}, to : Seq(Clients) \ {<<>>}, msg : LateStrays]
         /\ m \in Shutdowns
<1>1. m \in InFlight /\ m \in Requests \cup Shutdowns
  BY DEF Typed, RequestTypes, InFlight
<1>2. m \in Shutdowns /\ retired # "no"
  BY <1>1 DEF TakeStrayReply, Tracked, PendingFor
<1>3. Reply(m.id, TRUE, m.about) \in Strays
  BY <1>2 DEF Shutdowns, Strays, Reply
<1>4. PICK order \in SetToSeqs(clients) : Dispatch(order, Reply(m.id, TRUE, m.about))
  BY DEF TakeStrayReply
<1>5. order \in Seq(clients) /\ ToSet(order) = clients
  BY OrdersList DEF Typed, SessionTypes
<1>6. order \in Seq(Clients)
  BY <1>5, WiderTyped DEF Typed, SessionTypes
<1>7. CASE LateClients
  BY <1>2, <1>3, <1>4, <1>6, <1>7 DEF Dispatch, LateStrays
<1>8. CASE ~LateClients
  <2>1. order \in Seq({})
    BY <1>2, <1>5, <1>8 DEF Sessions
  <2>2. order = <<>>
    BY <2>1
  <2> QED BY <1>2, <1>4, <2>2 DEF Dispatch
<1> QED BY <1>7, <1>8

\* A push goes to one of the sessions, or to all.
LEMMA TakePushReader ==
  ASSUME Typed, NEW kind \in {"ask", "tell"}, TakePush(kind)
  PROVE  /\ pushes + 1 \in 1..MaxPushes
         /\ \/ reader' = Idle
            \/ kind = "ask" /\ \E c \in clients :
                  reader' = [at |-> "send", to |-> <<c>>, msg |-> Push("ask", pushes + 1)]
            \/ kind = "tell" /\ \E to \in Seq(Clients) \ {<<>>} :
                  reader' = [at |-> "send", to |-> to, msg |-> Push("tell", pushes + 1)]
<1>1. pushes + 1 \in 1..MaxPushes /\ pushes' = pushes + 1
  BY DEF TakePush, Typed, ServerTypes
<1>2. PICK order \in SetToSeqs(clients) :
          Dispatch(IF kind = "ask" /\ order # <<>> THEN <<Head(order)>> ELSE order,
                   Push(kind, pushes'))
  BY DEF TakePush
<1>3. order \in Seq(clients)
  BY OrdersList DEF Typed, SessionTypes
<1>4. order \in Seq(Clients)
  BY <1>3, WiderTyped DEF Typed, SessionTypes
<1>5. CASE order = <<>>
  BY <1>1, <1>2, <1>5 DEF Dispatch
<1>6. CASE order # <<>> /\ kind = "ask"
  <2>1. Head(order) \in clients /\ <<Head(order)>> # <<>>
    BY <1>3, <1>6, TakenTyped
  <2> QED BY <1>1, <1>2, <1>6, <2>1 DEF Dispatch
<1>7. CASE order # <<>> /\ kind = "tell"
  BY <1>1, <1>2, <1>4, <1>7 DEF Dispatch
<1> QED BY <1>5, <1>6, <1>7

\* The steps that move the reader on with the reply it carries.
LEMMA MovesOn ==
  ASSUME ReaderTypes, NEW c \in Clients, reader \in Carrying(c),
         NEW s \in {"hook", "greet", "notify", "lookup"}, reader' = [reader EXCEPT !.at = s]
  PROVE  reader' \in Carrying(c) /\ reader'.at = s /\ reader'.msg = reader.msg
         /\ reader'.client = reader.client
<1>1. reader = [at |-> reader.at, client |-> c, msg |-> reader.msg]
      /\ reader.client = c /\ reader.msg \in RepliesTo(c)
  BY DEF Carrying
<1>2. reader' = [at |-> s, client |-> c, msg |-> reader.msg]
  BY <1>1
<1> QED BY <1>1, <1>2 DEF Carrying

LEMMA StepReaderTypes ==
  ASSUME Typed, Sessions, Tracked, [Next]_vars
  PROVE  ReaderTypes'
<1> USE DEF Typed
<1>0. (\E c \in Clients : reader' \in Carrying(c) \cup Singly(c)) => ReaderTypes'
  BY Constants DEF ReaderTypes
<1>1. ASSUME NEW m \in working, NEW ok \in BOOLEAN, TakeReply(m, ok) PROVE ReaderTypes'
  <2>1. PICK p \in pending : p \in Pendings /\ reader' \in Carrying(p.client)
    BY <1>1, TakeReplyReader DEF Typed
  <2>2. p.client \in Clients
    BY <2>1 DEF Pendings
  <2> QED BY <1>0, <2>1, <2>2
<1>2. ASSUME NEW m \in working, TakeStrayReply(m) PROVE ReaderTypes'
  <2>1. reader' \in {Idle} \cup [at : {"send"}, to : Seq(Clients) \ {<<>>}, msg : LateStrays]
    BY <1>2, TakeStrayReader DEF Typed
  <2>2. reader' \in {Idle, Ended} \cup Widely
    BY <2>1 DEF Widely
  <2> QED BY <2>2 DEF ReaderTypes, Widely, LateStrays, Strays, Tells, Idle, Ended
<1>3. ASSUME NEW kind \in {"ask", "tell"}, TakePush(kind) PROVE ReaderTypes'
  <2>1. /\ pushes + 1 \in 1..MaxPushes
        /\ \/ reader' = Idle
           \/ \E c \in clients :
                 reader' = [at |-> "send", to |-> <<c>>, msg |-> Push("ask", pushes + 1)]
           \/ \E to \in Seq(Clients) \ {<<>>} :
                 reader' = [at |-> "send", to |-> to, msg |-> Push("tell", pushes + 1)]
    BY <1>3, TakePushReader DEF Typed
  <2>2. CASE reader' = Idle
    BY <2>2 DEF ReaderTypes
  <2>3. ASSUME NEW c \in clients,
               reader' = [at |-> "send", to |-> <<c>>, msg |-> Push("ask", pushes + 1)]
        PROVE ReaderTypes'
    <3>1. c \in Clients
      BY DEF SessionTypes
    <3>2. reader' \in Singly(c)
      BY <2>1, <2>3 DEF Singly, Asks, Push
    <3> QED BY <1>0, <3>1, <3>2
  <2>4. ASSUME NEW to \in Seq(Clients) \ {<<>>},
               reader' = [at |-> "send", to |-> to, msg |-> Push("tell", pushes + 1)]
        PROVE ReaderTypes'
    <3>1. reader' \in Widely
      BY <2>1, <2>4 DEF Widely, Tells, Push
    <3> QED BY <3>1 DEF ReaderTypes, Widely, LateStrays, Strays, Tells
  <2> QED BY <2>1, <2>2, <2>3, <2>4
<1>4. CASE KeepResult \/ GreetServer \/ ReleaseInitialize \/ NotifyWaiters
  <2>1. PICK s \in {"hook", "greet", "notify", "lookup"} :
            reader.at \in {"hook", "greet"} \cup {"notify"} /\ reader' = [reader EXCEPT !.at = s]
    BY <1>4 DEF KeepResult, GreetServer, ReleaseInitialize, NotifyWaiters
  <2>2. PICK c \in Clients : reader \in Carrying(c)
    BY <2>1, ReaderKinds
  <2> QED BY <1>0, <2>1, <2>2, MovesOn
<1>5. CASE LookUp
  <2>1. PICK c \in Clients : reader \in Carrying(c)
    BY <1>5, ReaderKinds DEF LookUp
  <2>2. reader.client = c /\ reader.msg \in RepliesTo(c)
    BY <2>1 DEF Carrying
  <2>3. \/ reader' = Idle
        \/ reader' = [at |-> "send", to |-> <<c>>, msg |-> reader.msg]
    BY <1>5, <2>2 DEF LookUp, Dispatch
  <2>4. CASE reader' = Idle
    BY <2>4 DEF ReaderTypes
  <2>5. CASE reader' = [at |-> "send", to |-> <<c>>, msg |-> reader.msg]
    <3>1. reader' \in Singly(c)
      BY <2>2, <2>5 DEF Singly
    <3> QED BY <1>0, <3>1
  <2> QED BY <2>3, <2>4, <2>5
<1>6. CASE SendDown
  <2>1. reader.at = "send" /\ reader' = IF Tail(reader.to) = <<>> THEN Idle
              ELSE [at |-> "send", to |-> Tail(reader.to), msg |-> reader.msg]
    BY <1>6 DEF SendDown, Dispatch
  <2>2. CASE Tail(reader.to) = <<>>
    BY <2>1, <2>2 DEF ReaderTypes
  <2>3. CASE Tail(reader.to) # <<>>
    <3>1. \A c \in Clients : reader \notin Singly(c)
      <4> SUFFICES ASSUME NEW c \in Clients, reader \in Singly(c) PROVE FALSE
        OBVIOUS
      <4>1. reader.to = <<c>>
        BY DEF Singly
      <4> QED BY <2>3, <4>1, OneTyped
    <3>2. reader \in Widely
      BY <2>1, <3>1, ReaderKinds
    <3>3. reader' \in Widely
      BY <2>1, <2>3, <3>2, SentFits DEF Widely
    <3> QED BY <3>3 DEF ReaderTypes, Widely, LateStrays, Strays, Tells
  <2> QED BY <2>2, <2>3
<1>7. CASE ServerEnds \/ BrokerExits
  BY <1>7 DEF ServerEnds, BrokerExits, ReaderTypes
<1>8. ASSUME NEW c \in Clients, TaskStep(c) \/ PeerStep(c) \/ Receive(c)
      PROVE UNCHANGED reader
  <2>1. CASE TaskStep(c)
    BY <2>1 DEF TaskStep, Enrol, CheckCache, WinInitialize, LoseInitialize, Wake,
       ReplyLocally, Send, DropLeases, EndSession, broker
  <2>2. CASE PeerStep(c)
    BY <2>2 DEF PeerStep, Register, ReadRequest, ReadShutdown, ReadInitialize,
       ReadSettings, ReadAnswer, ReadOpen, ReadClose, Leave, broker
  <2>3. CASE Receive(c)
    BY <2>3 DEF Receive, broker
  <2> QED BY <1>8, <2>1, <2>2, <2>3
<1>9. ASSUME ServerReads \/ RetireShutdown \/ RetireExit \/ AllOver \/ UNCHANGED vars
      PROVE UNCHANGED reader
  BY <1>9 DEF ServerReads, RetireShutdown, RetireExit, AllOver, vars, broker
<1>10. UNCHANGED reader => ReaderTypes'
  BY <1>0, Constants DEF ReaderTypes
<1> QED
  BY <1>1, <1>2, <1>3, <1>4, <1>5, <1>6, <1>7, <1>8, <1>9, <1>10
     DEF Next, ReaderStep, TakeMessage, EndStep

-----------------------------------------------------------------------------
(* Sessions *)

LEMMA InitSessions == Init => Sessions
<1> SUFFICES ASSUME Init PROVE Sessions
  OBVIOUS
<1>1. ASSUME NEW c \in Clients PROVE Orderly(c)
  BY EmptyTyped DEF Init, Orderly, Answering
<1>2. clients = {c \in Clients : task[c] \in Live}
  BY DEF Init, Live
<1> QED BY <1>1, <1>2 DEF Sessions, Init

\* A step of one session that leaves the others as they are.
LEMMA OneSessionMoves ==
  ASSUME SessionTypes, Sessions, NEW c \in Clients,
         \A d \in Clients \ {c} :
            /\ task'[d] = task[d] /\ held'[d] = held[d] /\ asked'[d] = asked[d]
            /\ asking'[d] = asking[d] /\ waiting'[d] = waiting[d],
         clients' = IF task'[c] \in Live THEN clients \cup {c} ELSE clients \ {c},
         clients' \subseteq clients \/ retired = "no" \/ LateClients,
         retired' = retired, Orderly(c)'
  PROVE  Sessions'
<1>1. ASSUME NEW d \in Clients \ {c} PROVE Orderly(d)'
  BY <1>1 DEF Sessions, Orderly
<1>2. clients' = {d \in Clients : task'[d] \in Live}
  BY DEF Sessions
<1>3. retired' # "no" /\ ~LateClients => clients' = {}
  BY DEF Sessions
<1> QED BY <1>1, <1>2, <1>3 DEF Sessions

\* The same for a session that stays registered, or stays away.
LEMMA SessionMoves ==
  ASSUME SessionTypes, Sessions, NEW c \in Clients,
         \A d \in Clients \ {c} :
            /\ task'[d] = task[d] /\ held'[d] = held[d] /\ asked'[d] = asked[d]
            /\ asking'[d] = asking[d] /\ waiting'[d] = waiting[d],
         task'[c] \in Live <=> task[c] \in Live,
         UNCHANGED <<clients, retired>>, Orderly(c)'
  PROVE  Sessions'
<1>1. c \in clients <=> task[c] \in Live
  BY DEF Sessions
<1>2. clients' = IF task'[c] \in Live THEN clients \cup {c} ELSE clients \ {c}
  BY <1>1
<1> QED BY <1>2, OneSessionMoves

LEMMA GoMoves ==
  ASSUME SessionTypes, NEW c \in Clients, NEW s, Go(c, s)
  PROVE  task'[c] = s /\ \A d \in Clients \ {c} : task'[d] = task[d]
  BY DEF Go, SessionTypes

LEMMA AskMoves ==
  ASSUME SessionTypes, NEW c \in Clients, Ask(c)
  PROVE  /\ task[c] = "reading" /\ asked[c] \in Nat /\ asked'[c] = asked[c] + 1
         /\ asked'[c] \in Ids /\ asking'[c] = asked'[c]
         /\ waiting'[c] = waiting[c] \cup {asked'[c]}
         /\ \A d \in Clients \ {c} :
               asked'[d] = asked[d] /\ asking'[d] = asking[d] /\ waiting'[d] = waiting[d]
<1>1. asked[c] \in 0..MaxRequests
  BY DEF SessionTypes
<1>2. /\ asked' = [asked EXCEPT ![c] = @ + 1]
      /\ waiting' = [waiting EXCEPT ![c] = @ \cup {asked'[c]}]
      /\ asking' = [asking EXCEPT ![c] = asked'[c]]
      /\ task[c] = "reading"
  BY DEF Ask, At
<1>3. waiting'[c] = waiting[c] \cup {asked'[c]}
      /\ \A d \in Clients \ {c} :
            asked'[d] = asked[d] /\ asking'[d] = asking[d] /\ waiting'[d] = waiting[d]
  BY <1>2 DEF SessionTypes
<1> QED BY <1>1, <1>2, <1>3, AskTypes

LEMMA WaitingGrows ==
  ASSUME NEW k \in Nat, NEW S \in SUBSET (1..k)
  PROVE  S \cup {k + 1} \subseteq 1..(k + 1)
  OBVIOUS

\* A session that holds one message of its own.
LEMMA HoldsOne ==
  ASSUME UpstreamTypes, NEW c \in Clients, NEW m \in UpMsgs, Hold(c, <<m>>)
  PROVE  /\ held'[c] = <<m>> /\ held'[c] # <<>> /\ Len(held'[c]) = 1
         /\ (m \in Requests => held'[c] \in Seq(Requests))
         /\ \A d \in Clients \ {c} : held'[d] = held[d]
<1>1. <<m>> \in Seq(UpMsgs) /\ <<m>> # <<>> /\ Len(<<m>>) = 1
      /\ (m \in Requests => <<m>> \in Seq(Requests))
  BY OneTyped
<1>2. held'[c] = <<m>> /\ \A d \in Clients \ {c} : held'[d] = held[d]
  BY <1>1, HoldTypes
<1> QED BY <1>1, <1>2

LEMMA ForwardMoves ==
  ASSUME Typed, Sessions, NEW c \in Clients, NEW m \in UpMsgs, Forward(c, m), At(c, "reading"),
         UNCHANGED <<clients, retired, asking, asked, waiting>>
  PROVE  Sessions'
<1> USE DEF Typed
<1>1. Orderly(c) /\ task[c] = "reading"
  BY DEF Sessions, At
<1>2. CASE LeaseRaces /\ Hold(c, <<m>>) /\ Go(c, "sending")
  <2>1. task'[c] = "sending" /\ \A d \in Clients \ {c} : task'[d] = task[d]
    BY <1>2, GoMoves
  <2>2. /\ Len(held'[c]) = 1
        /\ \A d \in Clients \ {c} : held'[d] = held[d]
    BY <1>2, HoldsOne
  <2>3. Orderly(c)'
    BY <1>1, <1>2, <2>1, <2>2 DEF Orderly, Answering
  <2> QED BY <1>1, <2>1, <2>2, <2>3, SessionMoves DEF Live
<1>3. CASE UNCHANGED <<held, task>>
  <2>1. Orderly(c)'
    BY <1>1, <1>3 DEF Orderly
  <2> QED BY <1>3, <2>1, SessionMoves
<1> QED BY <1>2, <1>3 DEF Forward

LEMMA ProxyMoves ==
  ASSUME Typed, NEW c \in Clients, NEW tag \in {"plain", "initialize"}, NEW id \in Ids,
         Proxy(c, tag, id)
  PROVE  /\ task'[c] = "sending" /\ Len(held'[c]) = 1 /\ held'[c] \in Seq(Requests)
         /\ held'[c] = <<Request(tag, nextRequest, <<c, id>>)>>
         /\ Request(tag, nextRequest, <<c, id>>) \in Requests
         /\ \A d \in Clients \ {c} : task'[d] = task[d] /\ held'[d] = held[d]
<1> USE DEF Typed
<1>1. Request(tag, nextRequest, <<c, id>>) \in Requests
  BY Built DEF RequestTypes
<1>2. Request(tag, nextRequest, <<c, id>>) \in UpMsgs
  BY <1>1, BuiltUp
<1> QED BY <1>1, <1>2, HoldsOne, GoMoves DEF Proxy

LEMMA StepSessions ==
  ASSUME Typed, Sessions, [Next]_vars
  PROVE  Sessions'
<1> USE DEF Typed
<1>1. ASSUME NEW c \in Clients, Register(c) PROVE Sessions'
  <2>1. task[c] = "absent" /\ UNCHANGED <<asking, held, peer, retired>>
        /\ clients' = clients \cup {c} /\ (retired = "no" \/ LateClients) /\ Go(c, "reading")
    BY <1>1 DEF Register, At
  <2>2. task'[c] = "reading" /\ \A d \in Clients \ {c} : task'[d] = task[d]
    BY <2>1, GoMoves
  <2>3. Orderly(c)'
    <3>1. Orderly(c)
      BY DEF Sessions
    <3> QED BY <2>1, <2>2, <3>1 DEF Orderly, Answering, peer
  <2> QED BY <2>1, <2>2, <2>3, OneSessionMoves DEF peer, Live
<1>2. ASSUME NEW c \in Clients, ReadRequest(c) PROVE Sessions'
  <2>1. Ask(c) /\ Proxy(c, "plain", asked'[c]) /\ UNCHANGED <<clients, retired>>
    BY <1>2 DEF ReadRequest, broker
  <2>2. asked'[c] \in Ids
    BY <2>1, AskMoves
  <2>3. /\ task'[c] = "sending" /\ Len(held'[c]) = 1 /\ held'[c] \in Seq(Requests)
        /\ \A d \in Clients \ {c} : task'[d] = task[d] /\ held'[d] = held[d]
    BY <2>1, <2>2, ProxyMoves
  <2>4. waiting'[c] \subseteq 1..asked'[c]
    BY <2>1, AskMoves, WaitingGrows DEF Sessions, Orderly
  <2>5. Orderly(c)'
    BY <2>3, <2>4 DEF Orderly, Answering
  <2>6. task[c] \in Live /\ task'[c] \in Live
    BY <2>1, <2>3, AskMoves DEF Live
  <2> QED BY <2>1, <2>3, <2>5, <2>6, AskMoves, SessionMoves
<1>3. ASSUME NEW c \in Clients, ReadShutdown(c) \/ ReadInitialize(c) PROVE Sessions'
  <2>1. /\ Ask(c) /\ UNCHANGED <<clients, retired, held>>
        /\ Go(c, "replying") \/ Go(c, "enrol")
    BY <1>3 DEF ReadShutdown, ReadInitialize, broker
  <2>2. task'[c] \in {"replying", "enrol"} /\ \A d \in Clients \ {c} : task'[d] = task[d]
    BY <2>1, GoMoves
  <2>3. waiting'[c] \subseteq 1..asked'[c]
    BY <2>1, AskMoves, WaitingGrows DEF Sessions, Orderly
  <2>4. Orderly(c)'
    <3>1. Orderly(c) /\ task[c] = "reading" /\ asking'[c] \in Ids
      BY <2>1, AskMoves DEF Sessions
    <3> QED BY <2>1, <2>2, <2>3, <3>1 DEF Orderly
  <2>5. task[c] \in Live /\ task'[c] \in Live
    BY <2>1, <2>2, AskMoves DEF Live
  <2> QED BY <2>1, <2>2, <2>4, <2>5, AskMoves, SessionMoves
<1>4. ASSUME NEW c \in Clients,
             Enrol(c) \/ CheckCache(c) \/ LoseInitialize(c) \/ Wake(c) \/ ReplyLocally(c)
      PROVE Sessions'
  <2>1. /\ UNCHANGED <<clients, retired, asking, held, peer>>
        /\ task[c] \in Answering
        /\ \E s \in Answering \cup {"reading"} : Go(c, s)
    BY <1>4 DEF Enrol, CheckCache, LoseInitialize, Wake, ReplyLocally, broker, At, Answering
  <2>2. task'[c] \in Answering \cup {"reading"} /\ \A d \in Clients \ {c} : task'[d] = task[d]
    BY <2>1, GoMoves
  <2>3. Orderly(c)'
    <3>1. Orderly(c)
      BY DEF Sessions
    <3> QED BY <2>1, <2>2, <3>1 DEF Orderly, Answering, peer
  <2> QED BY <2>1, <2>2, <2>3, SessionMoves DEF Live, Answering, peer
<1>5. ASSUME NEW c \in Clients, WinInitialize(c) PROVE Sessions'
  <2>1. /\ task[c] = "elect" /\ UNCHANGED <<clients, retired, asking, peer>>
        /\ Proxy(c, "initialize", asking[c])
    BY <1>5 DEF WinInitialize, At, broker
  <2>2. Orderly(c) /\ asking[c] \in Ids
    BY <2>1 DEF Sessions, Orderly, Answering
  <2>3. /\ task'[c] = "sending" /\ Len(held'[c]) = 1 /\ held'[c] \in Seq(Requests)
        /\ \A d \in Clients \ {c} : task'[d] = task[d] /\ held'[d] = held[d]
    BY <2>1, <2>2, ProxyMoves
  <2>4. Orderly(c)'
    BY <2>1, <2>2, <2>3 DEF Orderly, Answering, peer
  <2> QED BY <2>1, <2>3, <2>4, SessionMoves DEF Live, peer
<1>6. ASSUME NEW c \in Clients, ReadSettings(c) PROVE Sessions'
  BY <1>6, Built, BuiltUp, ForwardMoves DEF ReadSettings, broker
<1>7. ASSUME NEW c \in Clients, NEW n \in obliged[c], ReadAnswer(c, n) PROVE Sessions'
  <2>1. n \in 1..MaxPushes
    BY DEF SessionTypes
  <2> QED BY <1>7, <2>1, Built, BuiltUp, ForwardMoves DEF ReadAnswer, broker
<1>8. ASSUME NEW c \in Clients, NEW d \in Docs, ReadOpen(c, d) \/ ReadClose(c, d)
      PROVE Sessions'
  <2>1. /\ \/ Forward(c, Note("open", d)) \/ Forward(c, Note("close", d))
           \/ UNCHANGED <<held, task>>
        /\ At(c, "reading") /\ UNCHANGED <<clients, retired, asking, asked, waiting>>
    BY <1>8 DEF ReadOpen, ReadClose, broker, peer
  <2>2. Note("open", d) \in UpMsgs /\ Note("close", d) \in UpMsgs
    BY Built, BuiltUp
  <2>3. CASE UNCHANGED <<held, task>>
    BY <2>1, <2>3 DEF Sessions, Orderly
  <2> QED BY <2>1, <2>2, <2>3, ForwardMoves
<1>9. ASSUME NEW c \in Clients, Send(c) PROVE Sessions'
  <2>1. /\ task[c] \in {"sending", "closing"} /\ held[c] # <<>> /\ Hold(c, Tail(held[c]))
        /\ UNCHANGED <<clients, retired, asking, peer>>
    BY <1>9 DEF Send, broker
  <2>2. held[c] \in Seq(UpMsgs) /\ Tail(held[c]) \in Seq(UpMsgs) /\ Orderly(c)
    BY <2>1, TakenTyped DEF UpstreamTypes, Sessions
  <2>3. held'[c] = Tail(held[c]) /\ \A d \in Clients \ {c} : held'[d] = held[d]
    BY <2>1, <2>2, HoldTypes
  <2>4. CASE task[c] = "sending"
    <3>1. task'[c] = "reading" /\ \A d \in Clients \ {c} : task'[d] = task[d]
      BY <1>9, <2>4, GoMoves DEF Send, At
    <3>2. held'[c] = <<>>
      BY <2>2, <2>3, <2>4, TailOfOne DEF Orderly
    <3>3. Orderly(c)'
      BY <2>1, <2>2, <3>1, <3>2, EmptyTyped DEF Orderly, Answering, peer
    <3> QED BY <2>1, <2>3, <2>4, <3>1, <3>3, SessionMoves DEF Live, peer
  <2>5. CASE task[c] = "closing"
    <3>1. UNCHANGED task
      BY <1>9, <2>5 DEF Send, At
    <3>2. held'[c] \in Seq(Notes) /\ (~LeaseRaces => held'[c] \in Seq(Requests))
      <4>1. held[c] \in Seq(Notes) /\ (~LeaseRaces => held[c] \in Seq(Requests))
        BY <2>2, <2>5 DEF Orderly
      <4> QED BY <2>1, <2>3, <4>1, TakenTyped
    <3>3. Orderly(c)'
      BY <2>1, <2>2, <2>5, <3>1, <3>2 DEF Orderly, Answering, peer
    <3> QED BY <2>1, <2>3, <3>1, <3>3, SessionMoves DEF peer
  <2> QED BY <2>1, <2>4, <2>5
<1>10. ASSUME NEW c \in Clients, Leave(c) PROVE Sessions'
  <2>1. /\ task[c] = "reading" /\ clients' = clients \ {c} /\ Go(c, "gone")
        /\ UNCHANGED <<retired, asking, held, peer>>
    BY <1>10 DEF Leave, At
  <2>2. task'[c] = "gone" /\ \A d \in Clients \ {c} : task'[d] = task[d]
    BY <2>1, GoMoves
  <2>3. Orderly(c)'
    BY <2>1, <2>2 DEF Sessions, Orderly, Answering, peer
  <2> QED BY <2>1, <2>2, <2>3, OneSessionMoves DEF Live, peer
<1>11. ASSUME NEW c \in Clients, DropLeases(c) PROVE Sessions'
  <2>1. task[c] = "gone" /\ Go(c, "closing") /\ UNCHANGED <<clients, retired, asking, peer>>
    BY <1>11 DEF DropLeases, At, broker
  <2>2. task'[c] = "closing" /\ \A d \in Clients \ {c} : task'[d] = task[d]
    BY <2>1, GoMoves
  <2>3. Orderly(c) /\ held[c] = <<>>
    BY <2>1 DEF Sessions, Orderly
  <2>4. PICK closes \in Seq(Notes) :
            /\ closes \in Seq(UpMsgs)
            /\ (LeaseRaces /\ Hold(c, closes)) \/ UNCHANGED held
    BY <1>11, DropTypes
  <2>5. /\ held'[c] \in Seq(Notes) /\ (~LeaseRaces => held'[c] = <<>>)
        /\ \A d \in Clients \ {c} : held'[d] = held[d]
    <3>1. CASE LeaseRaces /\ Hold(c, closes)
      BY <2>4, <3>1, HoldTypes
    <3>2. CASE UNCHANGED held
      BY <2>3, <3>2, EmptyTyped
    <3> QED BY <2>4, <3>1, <3>2
  <2>6. ~LeaseRaces => held'[c] \in Seq(Requests)
    BY <2>5, EmptyTyped
  <2>7. Orderly(c)'
    BY <2>1, <2>2, <2>3, <2>5, <2>6 DEF Orderly, Answering, peer
  <2> QED BY <2>1, <2>2, <2>5, <2>7, SessionMoves DEF Live, peer
<1>12. ASSUME NEW c \in Clients, EndSession(c) PROVE Sessions'
  <2>1. /\ task[c] = "closing" /\ held[c] = <<>> /\ Go(c, "ended")
        /\ UNCHANGED <<clients, retired, asking, held, peer>>
    BY <1>12 DEF EndSession, At, broker
  <2>2. task'[c] = "ended" /\ \A d \in Clients \ {c} : task'[d] = task[d]
    BY <2>1, GoMoves
  <2>3. Orderly(c)'
    BY <2>1, <2>2 DEF Sessions, Orderly, Answering, peer
  <2> QED BY <2>1, <2>2, <2>3, SessionMoves DEF Live, peer
<1>13. ASSUME NEW c \in Clients, Receive(c) PROVE Sessions'
  <2>1. UNCHANGED <<clients, retired, task, asking, held, asked>>
    BY <1>13 DEF Receive, broker, session
  <2>2. \A d \in Clients : waiting'[d] \subseteq waiting[d]
    BY <1>13, ReceiveTypes
  <2> QED BY <2>1, <2>2 DEF Sessions, Orderly
<1>14. CASE RetireShutdown
  <2>1. NobodyHere /\ UNCHANGED <<clients, session, peer>>
    BY <1>14 DEF RetireShutdown
  <2>2. clients = {}
    BY <2>1 DEF NobodyHere, Sessions, Live
  <2> QED BY <2>1, <2>2 DEF Sessions, Orderly, session, peer
<1>15. CASE BrokerExits
  <2>1. /\ clients' = {} /\ task' = [c \in Clients |-> "ended"]
        /\ held' = [c \in Clients |-> <<>>] /\ UNCHANGED <<peer, asking>>
    BY <1>15 DEF BrokerExits
  <2>2. ASSUME NEW c \in Clients PROVE Orderly(c)'
    <3>1. Orderly(c) /\ held'[c] = <<>> /\ task'[c] = "ended"
      BY <2>1 DEF Sessions
    <3> QED BY <2>1, <3>1, EmptyTyped DEF Orderly, Answering, peer
  <2> QED BY <2>1, <2>2 DEF Sessions, Live
<1>16. CASE ReaderStep \/ ServerReads \/ ServerEnds \/ AllOver \/ UNCHANGED vars
  <2>1. UNCHANGED <<clients, retired, session, peer>>
    BY <1>16 DEF ReaderStep, TakeMessage, TakeReply, TakeStrayReply, TakePush,
       KeepResult, GreetServer, ReleaseInitialize, NotifyWaiters, LookUp, SendDown,
       ServerReads, ServerEnds, AllOver, vars, broker
  <2> QED BY <2>1 DEF Sessions, Orderly, session, peer
<1>17. CASE RetireExit
  <2>1. UNCHANGED <<clients, session, peer>> /\ retired = "shutdown"
    BY <1>17 DEF RetireExit
  <2> QED BY <2>1 DEF Sessions, Orderly, session, peer
<1> QED
  BY <1>1, <1>2, <1>3, <1>4, <1>5, <1>6, <1>7, <1>8, <1>9, <1>10, <1>11, <1>12, <1>13,
     <1>14, <1>15, <1>16, <1>17
     DEF Next, TaskStep, PeerStep, EndStep

-----------------------------------------------------------------------------
(* Where a request can be *)

Calls(w) == [kind : {"plain", "initialize"}, id : Nat, about : {w}]
RepliesAbout(w) == [kind : {"reply"}, id : Nat, ok : BOOLEAN, about : {w}]
Returns(w) == reader \notin {Idle, Ended} /\ reader.msg \in RepliesAbout(w)

InUpstream(c, id) == CountIn(Calls(<<c, id>>), upstream)
InServer(c, id) == Cardinality(working \cap Calls(<<c, id>>))
InHeld(c, id) == CountIn(Calls(<<c, id>>), held[c])
InReader(c, id) == N(Returns(<<c, id>>))
InQueue(c, id) == CountIn(RepliesAbout(<<c, id>>), queue[c])
InHand(c, id) == N(task[c] \in Answering /\ asking[c] = id)
Wanted(c, id) == N(id \in waiting[c])

Places(c, id) ==
    InUpstream(c, id) + InServer(c, id) + InHeld(c, id)
    + InReader(c, id) + InQueue(c, id) + InHand(c, id)

\* A request is in one place until its session has the answer.
Conserves(c, id) ==
    /\ Places(c, id) <= 1
    /\ id > asked[c] => Places(c, id) = 0
    /\ ~LateClients => /\ Places(c, id) <= Wanted(c, id)
                       /\ c \in clients => Places(c, id) = Wanted(c, id)

Conserved == \A c \in Clients, id \in Ids : Conserves(c, id)

LEMMA PrimedPlaces ==
  \A c, id : /\ InUpstream(c, id)' = CountIn(Calls(<<c, id>>), upstream')
             /\ InServer(c, id)' = Cardinality(working' \cap Calls(<<c, id>>))
             /\ InHeld(c, id)' = CountIn(Calls(<<c, id>>), held'[c])
             /\ InReader(c, id)' = N(reader' \notin {Idle, Ended}
                                     /\ reader'.msg \in RepliesAbout(<<c, id>>))
             /\ InQueue(c, id)' = CountIn(RepliesAbout(<<c, id>>), queue'[c])
             /\ InHand(c, id)' = N(task'[c] \in Answering /\ asking'[c] = id)
  BY DEF InUpstream, InServer, InHeld, InReader, InQueue, InHand, Calls, RepliesAbout,
         Returns, CountIn, N, Answering, Idle, Ended

LEMMA PlacesType ==
  ASSUME Typed, NEW c \in Clients, NEW id
  PROVE  /\ InUpstream(c, id) \in Nat /\ InServer(c, id) \in Nat
         /\ InHeld(c, id) \in Nat /\ InReader(c, id) \in Nat
         /\ InQueue(c, id) \in Nat /\ InHand(c, id) \in Nat
<1> USE DEF Typed
<1>1. InUpstream(c, id) \in Nat
  BY CountType DEF UpstreamTypes, InUpstream
<1>2. InServer(c, id) \in Nat
  <2>1. IsFiniteSet(working \cap Calls(<<c, id>>))
    BY FS_Intersection DEF RequestTypes
  <2> QED BY <2>1, FS_CardinalityType DEF InServer
<1>3. InHeld(c, id) \in Nat
  <2>1. held[c] \in Seq(UpMsgs)
    BY DEF UpstreamTypes
  <2> QED BY <2>1, CountType DEF InHeld
<1>4. InQueue(c, id) \in Nat
  <2>1. queue[c] \in Seq(DownMsgs(c))
    BY DEF QueueTypes
  <2> QED BY <2>1, CountType DEF InQueue
<1>5. InReader(c, id) \in Nat /\ InHand(c, id) \in Nat
  BY DEF InReader, InHand, N
<1> QED BY <1>1, <1>2, <1>3, <1>4, <1>5

LEMMA RemovedFromServer ==
  ASSUME IsFiniteSet(working), NEW m \in working, NEW S
  PROVE  /\ Cardinality(working \cap S) = Cardinality((working \ {m}) \cap S) + N(m \in S)
         /\ Cardinality((working \ {m}) \cap S) \in Nat
<1> DEFINE A == working \cap S
<1>1. IsFiniteSet(A)
  BY FS_Intersection
<1>2. (working \ {m}) \cap S = A \ {m} /\ (m \in A <=> m \in S)
  OBVIOUS
<1> HIDE DEF A
<1>3. /\ Cardinality(A \ {m}) = IF m \in A THEN Cardinality(A) - 1 ELSE Cardinality(A)
      /\ IsFiniteSet(A \ {m})
  BY <1>1, FS_RemoveElement
<1>4. Cardinality(A) \in Nat /\ Cardinality(A \ {m}) \in Nat
  BY <1>1, <1>3, FS_CardinalityType
<1>5. Cardinality(A) = Cardinality(A \ {m}) + N(m \in S)
  BY <1>2, <1>3, <1>4 DEF N
<1> QED BY <1>2, <1>4, <1>5 DEF A

LEMMA AddedToServer ==
  ASSUME IsFiniteSet(working), NEW m, NEW S, m \in S => m \notin working
  PROVE  /\ Cardinality((working \cup {m}) \cap S) = Cardinality(working \cap S) + N(m \in S)
         /\ Cardinality(working \cap S) \in Nat
<1>1. IsFiniteSet(working \cap S) /\ Cardinality(working \cap S) \in Nat
  BY FS_Intersection, FS_CardinalityType
<1>2. CASE m \in S
  <2>1. (working \cup {m}) \cap S = (working \cap S) \cup {m} /\ m \notin working \cap S
    BY <1>2
  <2> QED BY <1>1, <1>2, <2>1, FS_AddElement DEF N
<1>3. CASE m \notin S
  <2>1. (working \cup {m}) \cap S = working \cap S
    BY <1>3
  <2>2. Cardinality((working \cup {m}) \cap S) = Cardinality(working \cap S) + 0
    BY <1>1, <2>1
  <2> QED BY <1>1, <1>3, <2>2 DEF N
<1> QED BY <1>2, <1>3

\* Only a request of the session itself is a call of it.
LEMMA CallFacts ==
  ASSUME NEW m \in UpMsgs, NEW c \in Clients, NEW id \in Ids
  PROVE  m \in Calls(<<c, id>>) <=> m \in Requests /\ m.about = <<c, id>>
<1>1. ASSUME m \in Calls(<<c, id>>) PROVE m \in Requests /\ m.about = <<c, id>>
  <2>1. m.kind \in {"plain", "initialize"} /\ m.about = <<c, id>>
    BY <1>1 DEF Calls
  <2> QED BY <2>1, UpKinds
<1>2. ASSUME m \in Requests, m.about = <<c, id>> PROVE m \in Calls(<<c, id>>)
  BY <1>2 DEF Requests, Calls
<1> QED BY <1>1, <1>2

LEMMA ReplyFacts ==
  ASSUME NEW d \in Clients, NEW m \in DownMsgs(d), NEW c \in Clients, NEW id \in Ids
  PROVE  m \in RepliesAbout(<<c, id>>) <=> m \in RepliesTo(d) /\ d = c /\ m.id = id
<1>1. CASE m \in RepliesTo(d)
  <2>1. PICK k \in Ids, ok \in BOOLEAN : m = Reply(k, ok, <<d, k>>)
    BY <1>1 DEF RepliesTo
  <2>2. k \in Nat
    BY DEF Ids
  <2> QED BY <1>1, <2>1, <2>2 DEF RepliesAbout, Reply
<1>2. CASE m \notin RepliesTo(d)
  <2>1. m.kind \in {"ask", "tell"} \/ m.about \in [1..1 -> Nat]
    <3>1. m \in Asks \cup Tells \cup LateStrays
      BY <1>2 DEF DownMsgs
    <3> QED BY <3>1, StrayFacts DEF Asks, Tells
  <2>2. m \notin RepliesAbout(<<c, id>>)
    BY <2>1, PairIsNoSingle DEF RepliesAbout
  <2> QED BY <1>2, <2>2
<1> QED BY <1>1, <1>2

PlacesInNat(c, id) ==
    /\ InUpstream(c, id) \in Nat /\ InServer(c, id) \in Nat
    /\ InHeld(c, id) \in Nat /\ InReader(c, id) \in Nat
    /\ InQueue(c, id) \in Nat /\ InHand(c, id) \in Nat

LEMMA PlacesTypeNext == Typed' => \A c \in Clients, id \in Ids : PlacesInNat(c, id)'
<1>1. Typed => \A c \in Clients, id \in Ids : PlacesInNat(c, id)
  BY PlacesType DEF PlacesInNat
<1>2. (Typed => \A c \in Clients, id \in Ids : PlacesInNat(c, id))'
  BY <1>1, PTL
<1> QED BY <1>2

\* What a step does to the places of a request, variable by variable.
LEMMA Unmoved ==
  ASSUME NEW c, NEW id
  PROVE  /\ UNCHANGED upstream => InUpstream(c, id)' = InUpstream(c, id)
         /\ UNCHANGED working => InServer(c, id)' = InServer(c, id)
         /\ held'[c] = held[c] => InHeld(c, id)' = InHeld(c, id)
         /\ UNCHANGED reader => InReader(c, id)' = InReader(c, id)
         /\ queue'[c] = queue[c] => InQueue(c, id)' = InQueue(c, id)
         /\ asking'[c] = asking[c] /\ (task'[c] \in Answering <=> task[c] \in Answering)
               => InHand(c, id)' = InHand(c, id)
<1>1. UNCHANGED reader => InReader(c, id)' = InReader(c, id)
  BY PrimedPlaces DEF InReader, Returns
<1>2. asking'[c] = asking[c] /\ (task'[c] \in Answering <=> task[c] \in Answering)
         => InHand(c, id)' = InHand(c, id)
  BY PrimedPlaces DEF InHand, N
<1> QED BY <1>1, <1>2, PrimedPlaces DEF InUpstream, InServer, InHeld, InQueue

LEMMA UpstreamGains ==
  ASSUME Typed, NEW c \in Clients, NEW id \in Ids, NEW m \in UpMsgs,
         upstream' = Append(upstream, m)
  PROVE  /\ m \in Calls(<<c, id>>) => InUpstream(c, id)' = InUpstream(c, id) + 1
         /\ m \notin Calls(<<c, id>>) => InUpstream(c, id)' = InUpstream(c, id)
<1>1. upstream \in Seq(UpMsgs) /\ InUpstream(c, id) \in Nat
  BY PlacesType DEF Typed, UpstreamTypes
<1> DEFINE S == Calls(<<c, id>>)
<1>2. InUpstream(c, id)' = CountIn(S, upstream') /\ InUpstream(c, id) = CountIn(S, upstream)
  BY PrimedPlaces DEF InUpstream
<1> HIDE DEF S
<1>3. CountIn(S, upstream') = CountIn(S, upstream) + N(m \in S)
  BY <1>1, CountAppend
<1>4. /\ m \in S => InUpstream(c, id)' = InUpstream(c, id) + 1
      /\ m \notin S => InUpstream(c, id)' = InUpstream(c, id)
  BY <1>1, <1>2, <1>3 DEF N
<1> QED BY <1>4 DEF S

LEMMA HeldFills ==
  ASSUME NEW c, NEW id, NEW m, held[c] = <<>>, held'[c] = <<m>>
  PROVE  /\ InHeld(c, id) = 0
         /\ m \in Calls(<<c, id>>) => InHeld(c, id)' = 1
         /\ m \notin Calls(<<c, id>>) => InHeld(c, id)' = 0
<1>1. InHeld(c, id) = 0
  BY CountEmpty DEF InHeld
<1> DEFINE S == Calls(<<c, id>>)
<1>2. InHeld(c, id)' = CountIn(S, <<m>>)
  BY PrimedPlaces
<1> HIDE DEF S
<1>3. CountIn(S, <<m>>) = N(m \in S)
  BY CountOne
<1>4. /\ m \in S => InHeld(c, id)' = 1
      /\ m \notin S => InHeld(c, id)' = 0
  BY <1>2, <1>3 DEF N
<1> QED BY <1>1, <1>4 DEF S

LEMMA HeldEmpty ==
  ASSUME NEW c, NEW id
  PROVE  /\ held[c] = <<>> => InHeld(c, id) = 0
         /\ held'[c] = <<>> => InHeld(c, id)' = 0
  BY CountEmpty, PrimedPlaces DEF InHeld

LEMMA QueueGains ==
  ASSUME Typed, NEW c \in Clients, NEW id \in Ids, NEW m \in DownMsgs(c),
         queue'[c] = Append(queue[c], m)
  PROVE  /\ m \in RepliesAbout(<<c, id>>) => InQueue(c, id)' = InQueue(c, id) + 1
         /\ m \notin RepliesAbout(<<c, id>>) => InQueue(c, id)' = InQueue(c, id)
<1>1. queue[c] \in Seq(DownMsgs(c)) /\ InQueue(c, id) \in Nat
  BY PlacesType DEF Typed, QueueTypes
<1> DEFINE S == RepliesAbout(<<c, id>>)
<1>2. InQueue(c, id)' = CountIn(S, queue'[c]) /\ InQueue(c, id) = CountIn(S, queue[c])
  BY PrimedPlaces DEF InQueue
<1> HIDE DEF S
<1>3. CountIn(S, queue'[c]) = CountIn(S, queue[c]) + N(m \in S)
  BY <1>1, CountAppend
<1>4. /\ m \in S => InQueue(c, id)' = InQueue(c, id) + 1
      /\ m \notin S => InQueue(c, id)' = InQueue(c, id)
  BY <1>1, <1>2, <1>3 DEF N
<1> QED BY <1>4 DEF S

LEMMA QueueLoses ==
  ASSUME Typed, NEW c \in Clients, NEW id \in Ids, queue[c] # <<>>,
         queue'[c] = Tail(queue[c])
  PROVE  /\ Head(queue[c]) \in RepliesAbout(<<c, id>>) =>
               InQueue(c, id) = InQueue(c, id)' + 1
         /\ Head(queue[c]) \notin RepliesAbout(<<c, id>>) =>
               InQueue(c, id)' = InQueue(c, id)
<1>1. queue[c] \in Seq(DownMsgs(c)) /\ InQueue(c, id) \in Nat
  BY PlacesType DEF Typed, QueueTypes
<1> DEFINE S == RepliesAbout(<<c, id>>)
           m == Head(queue[c])
<1>2. InQueue(c, id)' = CountIn(S, queue'[c]) /\ InQueue(c, id) = CountIn(S, queue[c])
  BY PrimedPlaces DEF InQueue
<1> HIDE DEF S, m
<1>3. CountIn(S, queue[c]) = CountIn(S, queue'[c]) + N(m \in S)
  BY <1>1, CountTail DEF m
<1>4. CountIn(S, queue'[c]) \in Nat
  BY <1>1, TakenTyped, CountType
<1>5. /\ m \in S => InQueue(c, id) = InQueue(c, id)' + 1
      /\ m \notin S => InQueue(c, id)' = InQueue(c, id)
  BY <1>1, <1>2, <1>3, <1>4 DEF N
<1> QED BY <1>5 DEF S, m

LEMMA ReaderEmpty ==
  ASSUME NEW c, NEW id
  PROVE  /\ reader \in {Idle, Ended} => InReader(c, id) = 0
         /\ reader' \in {Idle, Ended} => InReader(c, id)' = 0
<1>1. reader \in {Idle, Ended} => InReader(c, id) = 0
  BY DEF InReader, Returns, N
<1>2. reader' \in {Idle, Ended} => InReader(c, id)' = 0
  BY PrimedPlaces DEF N
<1> QED BY <1>1, <1>2

LEMMA ReaderBusy ==
  ASSUME NEW c, NEW id
  PROVE  /\ reader \notin {Idle, Ended} =>
              /\ reader.msg \in RepliesAbout(<<c, id>>) => InReader(c, id) = 1
              /\ reader.msg \notin RepliesAbout(<<c, id>>) => InReader(c, id) = 0
         /\ reader' \notin {Idle, Ended} =>
              /\ reader'.msg \in RepliesAbout(<<c, id>>) => InReader(c, id)' = 1
              /\ reader'.msg \notin RepliesAbout(<<c, id>>) => InReader(c, id)' = 0
<1>1. reader \notin {Idle, Ended} =>
              /\ reader.msg \in RepliesAbout(<<c, id>>) => InReader(c, id) = 1
              /\ reader.msg \notin RepliesAbout(<<c, id>>) => InReader(c, id) = 0
  BY DEF InReader, Returns, N
<1>2. reader' \notin {Idle, Ended} =>
              /\ reader'.msg \in RepliesAbout(<<c, id>>) => InReader(c, id)' = 1
              /\ reader'.msg \notin RepliesAbout(<<c, id>>) => InReader(c, id)' = 0
  BY PrimedPlaces DEF N
<1> QED BY <1>1, <1>2

LEMMA HandIs ==
  ASSUME NEW c, NEW id
  PROVE  /\ task[c] \in Answering /\ asking[c] = id => InHand(c, id) = 1
         /\ ~(task[c] \in Answering /\ asking[c] = id) => InHand(c, id) = 0
         /\ task'[c] \in Answering /\ asking'[c] = id => InHand(c, id)' = 1
         /\ ~(task'[c] \in Answering /\ asking'[c] = id) => InHand(c, id)' = 0
<1>1. /\ task[c] \in Answering /\ asking[c] = id => InHand(c, id) = 1
      /\ ~(task[c] \in Answering /\ asking[c] = id) => InHand(c, id) = 0
  BY DEF InHand, N
<1>2. /\ task'[c] \in Answering /\ asking'[c] = id => InHand(c, id)' = 1
      /\ ~(task'[c] \in Answering /\ asking'[c] = id) => InHand(c, id)' = 0
  BY PrimedPlaces DEF N
<1> QED BY <1>1, <1>2

\* What keeps a request conserved: it stays where it is, or it is dropped when
\* its session has left.
LEMMA StaysConserved ==
  ASSUME Typed, Typed', NEW c \in Clients, NEW id \in Ids, Conserves(c, id),
         Places(c, id)' <= Places(c, id), asked'[c] = asked[c], waiting'[c] = waiting[c],
         c \in clients' => c \in clients /\ Places(c, id)' = Places(c, id)
  PROVE  Conserves(c, id)'
<1>1. Places(c, id) \in Nat
  BY PlacesType DEF Places
<1>2. Places(c, id)' \in Nat
  BY PlacesTypeNext DEF Places, PlacesInNat
<1>3. Wanted(c, id)' = Wanted(c, id) /\ Wanted(c, id) \in Nat
  BY DEF Wanted, N
<1>4. asked[c] \in Nat /\ id \in Nat
  BY DEF Typed, SessionTypes, Ids
<1> QED BY <1>1, <1>2, <1>3, <1>4 DEF Conserves

\* A request the server has is nowhere else upstream.
LEMMA ServedOnly ==
  ASSUME Typed, Conserved, NEW m \in working, m \in Requests,
         NEW c \in Clients, NEW id \in Ids, m.about = <<c, id>>
  PROVE  InUpstream(c, id) = 0 /\ InHeld(c, id) = 0
<1> USE DEF Typed
<1>1. m \in Calls(<<c, id>>)
  BY BuiltUp, CallFacts
<1>2. InServer(c, id) >= 1
  <2>1. IsFiniteSet(working)
    BY DEF RequestTypes
  <2> DEFINE S == Calls(<<c, id>>)
  <2>2. m \in S
    BY <1>1
  <2>3. InServer(c, id) = Cardinality(working \cap S)
    BY DEF InServer
  <2> HIDE DEF S
  <2>4. /\ Cardinality(working \cap S) = Cardinality((working \ {m}) \cap S) + N(m \in S)
        /\ Cardinality((working \ {m}) \cap S) \in Nat
    BY <2>1, RemovedFromServer
  <2> QED BY <2>2, <2>3, <2>4 DEF N
<1>3. Places(c, id) <= 1
  BY DEF Conserved, Conserves
<1> QED BY <1>2, <1>3, PlacesType DEF Places

LEMMA SameRequest ==
  ASSUME NEW m \in Requests, NEW n \in Requests, m.id = n.id, m.kind = n.kind,
         m.about = n.about
  PROVE  m = n
  BY DEF Requests

LEMMA InitTracked == Init => Tracked
<1> SUFFICES ASSUME Init PROVE Tracked
  OBVIOUS
<1>1. InFlight = {} /\ \A c \in Clients : ToSet(held[c]) = {}
  BY MembersEmpty DEF Init, InFlight
<1> QED BY <1>1 DEF Init, Tracked

\* Steps that make no request: what is in flight was in flight, or is a
\* notification or an answer.
LEMMA NothingAsked ==
  ASSUME Tracked, UNCHANGED requests, retired' = retired \/ retired' # "no",
         \A m \in InFlight' : m \in InFlight \/ m \notin Requests \cup Shutdowns,
         \A c \in Clients : \A m \in ToSet(held'[c]) :
             m \in ToSet(held[c]) \/ m \notin Requests
  PROVE  Tracked'
<1>1. UNCHANGED <<pending, nextRequest>>
  BY DEF requests
<1>2. ASSUME NEW m \in InFlight'
      PROVE  /\ m \in Requests => \E p \in pending' : PendingFor(p, m)
             /\ m \in Shutdowns => /\ m.id < nextRequest' /\ retired' # "no"
                                   /\ \A p \in pending' : p.id # m.id
  BY <1>1, <1>2 DEF Tracked
<1>3. \A c \in Clients : \A m \in ToSet(held'[c]) : m \in Requests => m.about[1] = c
  BY DEF Tracked
<1>4. /\ \A p, q \in pending' : p.id = q.id => p = q
      /\ \A p \in pending' : p.id < nextRequest'
  BY <1>1 DEF Tracked
<1>5. \A c \in Clients : ToSet(held[c])' = ToSet(held'[c])
  BY DEF ToSet
<1> QED BY <1>2, <1>3, <1>4, <1>5 DEF Tracked, PendingFor

LEMMA PrimedInFlight ==
  InFlight' = working' \cup ToSet(upstream') \cup UNION {ToSet(held'[c]) : c \in Clients}
  BY DEF InFlight, ToSet

\* A message that is forwarded.
LEMMA ForwardTracked ==
  ASSUME Typed, Tracked, NEW c \in Clients, NEW m \in UpMsgs \ (Requests \cup Shutdowns),
         \/ Hold(c, <<m>>) /\ UNCHANGED upstream
         \/ upstream' = Append(upstream, m) /\ UNCHANGED held
         \/ UNCHANGED <<held, upstream>>,
         UNCHANGED <<requests, working>>, retired' = retired \/ retired' # "no"
  PROVE  Tracked'
<1> USE DEF Typed
<1>1. CASE Hold(c, <<m>>) /\ UNCHANGED upstream
  <2>1. ToSet(held'[c]) = {m} /\ \A d \in Clients \ {c} : held'[d] = held[d]
    BY <1>1, HoldsOne, MembersOne
  <2> QED BY <1>1, <2>1, NothingAsked, PrimedInFlight DEF InFlight
<1>2. CASE upstream' = Append(upstream, m) /\ UNCHANGED held
  <2>1. upstream \in Seq(UpMsgs)
    BY DEF UpstreamTypes
  <2>2. ToSet(upstream') = ToSet(upstream) \cup {m}
    BY <1>2, <2>1, MembersAppend
  <2> QED BY <1>2, <2>2, NothingAsked, PrimedInFlight DEF InFlight
<1>3. CASE UNCHANGED <<held, upstream>>
  BY <1>3, NothingAsked, PrimedInFlight DEF InFlight
<1> QED BY <1>1, <1>2, <1>3

LEMMA ProxyTracked ==
  ASSUME Typed, Sessions, Tracked, NEW c \in Clients, NEW tag \in {"plain", "initialize"},
         NEW id \in Ids, Proxy(c, tag, id), task[c] \notin {"sending", "closing"},
         UNCHANGED <<upstream, working, retired>>
  PROVE  Tracked'
<1> USE DEF Typed
<1> DEFINE m == Request(tag, nextRequest, <<c, id>>)
           e == [id |-> nextRequest, client |-> c, original |-> id, tag |-> tag]
<1>1. /\ held'[c] = <<m>> /\ m \in Requests
      /\ \A d \in Clients \ {c} : held'[d] = held[d]
  BY ProxyMoves
<1>2. pending' = pending \cup {e} /\ nextRequest' = nextRequest + 1
      /\ nextRequest \in Nat /\ pending \subseteq Pendings
  BY DEF Proxy, RequestTypes
<1>3. PendingFor(e, m) /\ e.id = nextRequest /\ m.about[1] = c /\ m.id = nextRequest
  BY DEF PendingFor, Request
<1>4. m \notin Shutdowns
  BY DEF Request, Shutdowns
<1> HIDE DEF m, e
<1>5. ToSet(held'[c]) = {m}
  BY <1>1, MembersOne
<1>6. InFlight' \subseteq InFlight \cup {m}
  BY <1>1, <1>5, PrimedInFlight DEF InFlight
<1>7. \A p \in pending : p.id \in Nat /\ p.id < nextRequest
  BY <1>2 DEF Tracked, Pendings
<1>8. \A p, q \in pending' : p.id = q.id => p = q
  BY <1>2, <1>3, <1>7 DEF Tracked
<1>9. \A p \in pending' : p.id < nextRequest'
  BY <1>2, <1>3, <1>7
<1>10. ASSUME NEW n \in InFlight'
       PROVE  /\ n \in Requests => \E p \in pending' : PendingFor(p, n)
              /\ n \in Shutdowns => /\ n.id < nextRequest' /\ retired' # "no"
                                    /\ \A p \in pending' : p.id # n.id
  <2>1. CASE n = m
    BY <1>1, <1>2, <1>3, <1>4, <2>1
  <2>2. CASE n \in InFlight
    <3>1. n \in Requests => \E p \in pending' : PendingFor(p, n)
      BY <1>2, <2>2 DEF Tracked
    <3>2. ASSUME n \in Shutdowns
          PROVE  n.id < nextRequest' /\ retired' # "no" /\ \A p \in pending' : p.id # n.id
      <4>1. n.id \in Nat /\ n.id < nextRequest /\ retired # "no" /\ \A p \in pending : p.id # n.id
        BY <2>2, <3>2 DEF Tracked, Shutdowns
      <4> QED BY <1>2, <1>3, <4>1
    <3> QED BY <3>1, <3>2
  <2> QED BY <1>6, <1>10, <2>1, <2>2
<1>11. ASSUME NEW d \in Clients, NEW n \in ToSet(held'[d])
       PROVE  n \in Requests => n.about[1] = d
  BY <1>1, <1>3, <1>5, <1>11 DEF Tracked
<1>12. \A d \in Clients : ToSet(held[d])' = ToSet(held'[d])
  BY DEF ToSet
<1> QED BY <1>8, <1>9, <1>10, <1>11, <1>12 DEF Tracked, PendingFor

LEMMA StepTracked ==
  ASSUME Typed, Sessions, Tracked, Conserved, [Next]_vars
  PROVE  Tracked'
<1> USE DEF Typed
<1>0. upstream \in Seq(UpMsgs) /\ nextRequest \in Nat
  BY DEF UpstreamTypes, RequestTypes
<1>1. ASSUME NEW c \in Clients, ReadRequest(c) PROVE Tracked'
  <2>1. Ask(c) /\ Proxy(c, "plain", asked'[c]) /\ UNCHANGED <<upstream, working, retired>>
    BY <1>1 DEF ReadRequest, broker, server
  <2>2. asked'[c] \in Ids /\ task[c] = "reading"
    BY <2>1, AskMoves
  <2> QED BY <2>1, <2>2, ProxyTracked
<1>2. ASSUME NEW c \in Clients, WinInitialize(c) PROVE Tracked'
  <2>1. /\ task[c] = "elect" /\ Proxy(c, "initialize", asking[c])
        /\ UNCHANGED <<upstream, working, retired>>
    BY <1>2 DEF WinInitialize, At, broker, server
  <2>2. asking[c] \in Ids
    BY <2>1 DEF Sessions, Orderly, Answering
  <2> QED BY <2>1, <2>2, ProxyTracked
<1>3. ASSUME NEW c \in Clients, ReadSettings(c) PROVE Tracked'
  <2>1. Plain("settings") \in UpMsgs \ (Requests \cup Shutdowns)
    BY Built, BuiltUp DEF Plain, Requests, Shutdowns
  <2>2. Forward(c, Plain("settings")) /\ UNCHANGED <<requests, working, retired>>
    BY <1>3 DEF ReadSettings, broker, server
  <2> QED BY <2>1, <2>2, ForwardTracked DEF Forward
<1>4. ASSUME NEW c \in Clients, NEW n \in obliged[c], ReadAnswer(c, n) PROVE Tracked'
  <2>1. n \in 1..MaxPushes
    BY DEF SessionTypes
  <2>2. Answered(n) \in UpMsgs \ (Requests \cup Shutdowns)
    BY <2>1, Built, BuiltUp DEF Answered, Requests, Shutdowns
  <2>3. Forward(c, Answered(n)) /\ UNCHANGED <<requests, working, retired>>
    BY <1>4 DEF ReadAnswer, broker, server
  <2> QED BY <2>2, <2>3, ForwardTracked DEF Forward
<1>5. ASSUME NEW c \in Clients, NEW d \in Docs, ReadOpen(c, d) \/ ReadClose(c, d)
      PROVE Tracked'
  <2>1. Note("open", d) \in UpMsgs \ (Requests \cup Shutdowns)
        /\ Note("close", d) \in UpMsgs \ (Requests \cup Shutdowns)
    BY Built, BuiltUp DEF Note, Requests, Shutdowns
  <2>2. /\ \/ Forward(c, Note("open", d)) \/ Forward(c, Note("close", d))
           \/ UNCHANGED <<held, upstream>>
        /\ UNCHANGED <<requests, working, retired>>
    BY <1>5 DEF ReadOpen, ReadClose, broker, server
  <2> QED BY <2>1, <2>2, ForwardTracked DEF Forward
<1>6. ASSUME NEW c \in Clients, Send(c) PROVE Tracked'
  <2>1. /\ held[c] # <<>> /\ held[c] \in Seq(UpMsgs)
        /\ upstream' = Append(upstream, Head(held[c])) /\ Hold(c, Tail(held[c]))
        /\ UNCHANGED <<requests, working, retired>>
    BY <1>6 DEF Send, broker, server, UpstreamTypes
  <2>2. Head(held[c]) \in UpMsgs /\ Tail(held[c]) \in Seq(UpMsgs)
    BY <2>1, TakenTyped
  <2>3. held'[c] = Tail(held[c]) /\ \A d \in Clients : d # c => held'[d] = held[d]
    BY <2>1, <2>2, HoldTypes
  <2>4. ToSet(held[c]) = ToSet(Tail(held[c])) \cup {Head(held[c])}
    BY <2>1, MembersTail
  <2>5. ToSet(upstream') = ToSet(upstream) \cup {Head(held[c])}
    BY <1>0, <2>1, <2>2, MembersAppend
  <2>6. \A d \in Clients : ToSet(held'[d]) \subseteq ToSet(held[d])
    BY <2>3, <2>4
  <2>7. InFlight' \subseteq InFlight
    BY <2>1, <2>4, <2>5, <2>6, PrimedInFlight DEF InFlight
  <2> QED BY <2>1, <2>6, <2>7, NothingAsked
<1>7. ASSUME NEW c \in Clients, DropLeases(c) PROVE Tracked'
  <2>1. PICK closes \in Seq(Notes) :
            /\ closes \in Seq(UpMsgs)
            /\ \/ Hold(c, closes) /\ UNCHANGED upstream
               \/ upstream' = upstream \o closes /\ UNCHANGED held
    BY <1>7, DropTypes
  <2>2. ToSet(closes) \subseteq Notes
    BY MembersTyped
  <2>3. \A m \in ToSet(closes) : m \notin Requests \cup Shutdowns
    BY <2>2 DEF Notes, Requests, Shutdowns
  <2>4. UNCHANGED <<requests, working, retired>>
    BY <1>7 DEF DropLeases, broker, server
  <2>5. CASE Hold(c, closes) /\ UNCHANGED upstream
    <3>1. held'[c] = closes /\ \A d \in Clients : d # c => held'[d] = held[d]
      BY <2>1, <2>5, HoldTypes
    <3> QED BY <2>3, <2>4, <2>5, <3>1, NothingAsked, PrimedInFlight DEF InFlight
  <2>6. CASE upstream' = upstream \o closes /\ UNCHANGED held
    <3>1. ToSet(upstream') = ToSet(upstream) \cup ToSet(closes)
      BY <1>0, <2>1, <2>6, MembersConcat
    <3> QED BY <2>3, <2>4, <2>6, <3>1, NothingAsked, PrimedInFlight DEF InFlight
  <2> QED BY <2>1, <2>5, <2>6
<1>8. ASSUME NEW m \in working, NEW ok \in BOOLEAN, TakeReply(m, ok) PROVE Tracked'
  <2>1. PICK p \in pending : /\ PendingFor(p, m) /\ m \in Requests
                             /\ pending' = pending \ {p}
    BY <1>8, TakeReplyReader DEF Typed
  <2>2. /\ working' = working \ {m} /\ UNCHANGED <<nextRequest, upstream, held, retired>>
    BY <1>8 DEF TakeReply, session
  <2>3. InFlight' \subseteq InFlight /\ \A n \in InFlight' : n \in InFlight
    BY <2>2, PrimedInFlight DEF InFlight
  <2>4. ASSUME NEW n \in InFlight', n \in Requests PROVE \E q \in pending' : PendingFor(q, n)
    <3>1. PICK q \in pending : PendingFor(q, n)
      BY <2>3, <2>4 DEF Tracked
    <3>2. CASE q # p
      BY <2>1, <3>1, <3>2
    <3>3. CASE q = p
      <4>1. n = m
        BY <2>1, <2>4, <3>1, <3>3, SameRequest DEF PendingFor
      <4>2. n \in ToSet(upstream) \cup UNION {ToSet(held[c]) : c \in Clients}
        BY <2>2, <4>1, PrimedInFlight
      <4>3. FALSE
        <5>1. PICK c \in Clients, id \in Ids : m.about = <<c, id>>
          BY <2>1 DEF Requests
        <5>2. m \in Calls(<<c, id>>)
          BY <2>1, <5>1, BuiltUp, CallFacts
        <5>3. InUpstream(c, id) = 0 /\ InHeld(c, id) = 0
          BY <2>1, <5>1, ServedOnly
        <5>4. m \notin ToSet(upstream)
          BY <1>0, <5>2, <5>3, CountNone DEF InUpstream
        <5>5. ASSUME NEW d \in Clients, m \in ToSet(held[d]) PROVE FALSE
          <6>1. m.about[1] = d
            BY <2>1, <5>5 DEF Tracked
          <6>2. d = c
            BY <5>1, <6>1
          <6>3. held[c] \in Seq(UpMsgs)
            BY DEF UpstreamTypes
          <6> QED BY <5>2, <5>3, <5>5, <6>2, <6>3, CountNone DEF InHeld
        <5> QED BY <4>1, <4>2, <5>4, <5>5
      <4> QED BY <4>3
    <3> QED BY <3>2, <3>3
  <2>5. ASSUME NEW n \in InFlight', n \in Shutdowns
        PROVE  n.id < nextRequest' /\ retired' # "no" /\ \A q \in pending' : q.id # n.id
    BY <2>1, <2>2, <2>3, <2>5 DEF Tracked
  <2>6. /\ \A q, r \in pending' : q.id = r.id => q = r
        /\ \A q \in pending' : q.id < nextRequest'
    BY <2>1, <2>2 DEF Tracked
  <2>7. \A d \in Clients : ToSet(held[d])' = ToSet(held[d])
    BY <2>2 DEF ToSet
  <2> QED BY <2>4, <2>5, <2>6, <2>7 DEF Tracked, PendingFor
<1>9. ASSUME NEW m \in working, TakeStrayReply(m) PROVE Tracked'
  <2>1. working' = working \ {m} /\ UNCHANGED <<requests, upstream, held, retired>>
    BY <1>9 DEF TakeStrayReply, session
  <2> QED BY <2>1, NothingAsked, PrimedInFlight DEF InFlight
<1>10. CASE ServerReads
  <2>1. /\ upstream # <<>> /\ upstream' = Tail(upstream)
        /\ working' \subseteq working \cup {Head(upstream)}
        /\ UNCHANGED <<requests, held, retired>>
    BY <1>10 DEF ServerReads, session, broker
  <2>2. ToSet(upstream) = ToSet(Tail(upstream)) \cup {Head(upstream)}
    BY <1>0, <2>1, MembersTail
  <2>3. InFlight' \subseteq InFlight
    BY <2>1, <2>2, PrimedInFlight DEF InFlight
  <2> QED BY <2>1, <2>3, NothingAsked
<1>11. CASE RetireShutdown
  <2> DEFINE s == Request("shutdown", nextRequest, <<nextRequest>>)
  <2>1. /\ upstream' = Append(upstream, s) /\ nextRequest' = nextRequest + 1
        /\ retired' # "no" /\ UNCHANGED <<pending, held, working>>
    BY <1>11 DEF RetireShutdown, session, server
  <2>2. s \in Shutdowns /\ s \in UpMsgs /\ s.id = nextRequest /\ s \notin Requests
    BY <1>0, Built, BuiltUp DEF Request, Requests
  <2> HIDE DEF s
  <2>3. ToSet(upstream') = ToSet(upstream) \cup {s}
    BY <1>0, <2>1, <2>2, MembersAppend
  <2>4. InFlight' = InFlight \cup {s}
    BY <2>1, <2>3, PrimedInFlight DEF InFlight
  <2>5. \A p \in pending : p.id \in Nat /\ p.id < nextRequest
    BY DEF RequestTypes, Pendings, Tracked
  <2>6. ASSUME NEW n \in InFlight'
        PROVE  /\ n \in Requests => \E p \in pending' : PendingFor(p, n)
               /\ n \in Shutdowns => /\ n.id < nextRequest' /\ retired' # "no"
                                     /\ \A p \in pending' : p.id # n.id
    <3>1. CASE n = s
      BY <1>0, <2>1, <2>2, <2>5, <3>1
    <3>2. CASE n \in InFlight
      <4>1. n \in Shutdowns => n.id \in Nat /\ n.id < nextRequest /\ \A p \in pending : p.id # n.id
        BY <3>2 DEF Tracked, Shutdowns
      <4>2. n \in Requests => \E p \in pending' : PendingFor(p, n)
        BY <2>1, <3>2 DEF Tracked
      <4> QED BY <1>0, <2>1, <4>1, <4>2
    <3> QED BY <2>4, <2>6, <3>1, <3>2
  <2>7. \A p \in pending' : p.id < nextRequest'
    BY <1>0, <2>1, <2>5
  <2>8. \A d \in Clients : ToSet(held[d])' = ToSet(held[d])
    BY <2>1 DEF ToSet
  <2>9. /\ \A p, q \in pending' : p.id = q.id => p = q
        /\ \A c \in Clients : \A n \in ToSet(held[c]) : n \in Requests => n.about[1] = c
    BY <2>1 DEF Tracked
  <2> QED BY <2>6, <2>7, <2>8, <2>9 DEF Tracked, PendingFor
<1>12. CASE GreetServer \/ RetireExit
  <2>1. PICK m \in {Plain("initialized"), Plain("exit")} : upstream' = Append(upstream, m)
    BY <1>12 DEF GreetServer, RetireExit
  <2>2. m \in UpMsgs \ (Requests \cup Shutdowns)
    BY Built, BuiltUp DEF Plain, Requests, Shutdowns
  <2>3. UNCHANGED <<requests, working, held>> /\ (retired' = retired \/ retired' # "no")
    BY <1>12 DEF GreetServer, RetireExit, session, server
  <2>4. ToSet(upstream') = ToSet(upstream) \cup {m}
    BY <1>0, <2>1, <2>2, MembersAppend
  <2> QED BY <2>2, <2>3, <2>4, NothingAsked, PrimedInFlight DEF InFlight
<1>13. CASE BrokerExits
  <2>1. /\ held' = [c \in Clients |-> <<>>]
        /\ UNCHANGED <<requests, working, upstream, retired>>
    BY <1>13 DEF BrokerExits, server
  <2>2. \A c \in Clients : ToSet(held'[c]) = {}
    BY <2>1, MembersEmpty
  <2> QED BY <2>1, <2>2, NothingAsked, PrimedInFlight DEF InFlight
<1>14. UNCHANGED <<held, upstream, working, requests, retired>> => Tracked'
  BY NothingAsked, PrimedInFlight DEF InFlight
<1>15. ASSUME NEW c \in Clients,
              Enrol(c) \/ CheckCache(c) \/ LoseInitialize(c) \/ Wake(c)
              \/ ReplyLocally(c) \/ EndSession(c)
              \/ Register(c) \/ ReadShutdown(c) \/ ReadInitialize(c)
              \/ Leave(c) \/ Receive(c)
       PROVE UNCHANGED <<held, upstream, working, requests, retired>>
  BY <1>15 DEF Enrol, CheckCache, LoseInitialize, Wake, ReplyLocally,
       EndSession, Register, ReadShutdown, ReadInitialize, Leave, Receive, server,
       session, broker
<1>16. ASSUME \/ \E kind \in {"ask", "tell"} : TakePush(kind)
              \/ KeepResult \/ ReleaseInitialize \/ NotifyWaiters \/ LookUp
              \/ SendDown \/ ServerEnds \/ AllOver \/ UNCHANGED vars
       PROVE UNCHANGED <<held, upstream, working, requests, retired>>
  BY <1>16 DEF TakePush, KeepResult, ReleaseInitialize, NotifyWaiters,
       LookUp, SendDown, ServerEnds, AllOver, vars, server, session, broker
<1> QED
  BY <1>1, <1>2, <1>3, <1>4, <1>5, <1>6, <1>7, <1>8, <1>9, <1>10, <1>11, <1>12, <1>13,
     <1>14, <1>15, <1>16
     DEF Next, TaskStep, PeerStep, ReaderStep, TakeMessage, EndStep

-----------------------------------------------------------------------------
(* Requests are conserved *)

LEMMA InitConserved == Init => Conserved
<1> SUFFICES ASSUME Init, NEW c \in Clients, NEW id \in Ids PROVE Conserves(c, id)
  BY DEF Conserved
<1>1. InUpstream(c, id) = 0 /\ InHeld(c, id) = 0 /\ InQueue(c, id) = 0
  BY CountEmpty DEF Init, InUpstream, InHeld, InQueue
<1>2. InServer(c, id) = 0
  <2>1. working \cap Calls(<<c, id>>) = {}
    BY DEF Init
  <2> QED BY <2>1, FS_EmptySet DEF InServer
<1>3. InReader(c, id) = 0 /\ InHand(c, id) = 0
  BY ReaderEmpty, HandIs DEF Init, Answering
<1>4. Places(c, id) = 0
  BY <1>1, <1>2, <1>3 DEF Places
<1> QED BY <1>4 DEF Conserves, Wanted, N, Init

\* What a session forwards that is no request.
LEMMA NoCall ==
  ASSUME NEW m \in UpMsgs, m \notin Requests
  PROVE  \A c \in Clients, id \in Ids : m \notin Calls(<<c, id>>)
  BY CallFacts

LEMMA ForwardConserves ==
  ASSUME Typed, Sessions, NEW d \in Clients, NEW m \in UpMsgs, m \notin Requests,
         At(d, "reading"), Forward(d, m) \/ UNCHANGED <<held, task, upstream>>,
         UNCHANGED <<asking, working, reader, queue>>,
         NEW c \in Clients, NEW id \in Ids
  PROVE  Places(c, id)' = Places(c, id)
<1> USE DEF Typed
<1>1. m \notin Calls(<<c, id>>)
  BY NoCall
<1>2. held[d] = <<>> /\ task[d] = "reading"
  BY DEF Sessions, Orderly, At
<1>3. /\ InServer(c, id)' = InServer(c, id) /\ InReader(c, id)' = InReader(c, id)
      /\ InQueue(c, id)' = InQueue(c, id)
  BY Unmoved
<1>4. InUpstream(c, id)' = InUpstream(c, id)
  BY <1>1, Unmoved, UpstreamGains DEF Forward
<1>5. InHeld(c, id)' = InHeld(c, id)
  <2>1. CASE Hold(d, <<m>>)
    <3>1. held'[d] = <<m>> /\ \A e \in Clients \ {d} : held'[e] = held[e]
      BY <2>1, HoldsOne
    <3> QED BY <1>1, <1>2, <3>1, HeldFills, Unmoved
  <2> QED BY <2>1, Unmoved DEF Forward
<1>6. InHand(c, id)' = InHand(c, id)
  <2>1. CASE Go(d, "sending")
    <3>1. task'[d] = "sending" /\ \A e \in Clients \ {d} : task'[e] = task[e]
      BY <2>1, GoMoves
    <3> QED BY <1>2, <3>1, Unmoved DEF Answering
  <2> QED BY <2>1, Unmoved DEF Forward
<1> QED BY <1>3, <1>4, <1>5, <1>6 DEF Places

\* A request that is asked: it is nowhere before, and is put in one place.
LEMMA AskConserves ==
  ASSUME Typed, Typed', NEW d \in Clients, Ask(d), UNCHANGED clients,
         NEW c \in Clients, NEW id \in Ids, Conserves(c, id),
         Places(c, id)' = Places(c, id) + IF c = d /\ id = asked'[d] THEN 1 ELSE 0
  PROVE  Conserves(c, id)'
<1> USE DEF Typed
<1>1. Places(c, id) \in Nat /\ asked[c] \in Nat /\ id \in Nat
  BY PlacesType DEF Places, SessionTypes, Ids
<1>2. CASE c # d
  <2>1. asked'[c] = asked[c] /\ waiting'[c] = waiting[c]
    BY <1>2, AskMoves
  <2>2. Places(c, id)' = Places(c, id)
    BY <1>1, <1>2
  <2> QED BY <1>1, <2>1, <2>2, StaysConserved
<1>3. CASE c = d
  <2>1. asked'[c] = asked[c] + 1 /\ waiting'[c] = waiting[c] \cup {asked[c] + 1}
    BY <1>3, AskMoves
  <2>2. CASE id = asked[c] + 1
    <3>1. Places(c, id) = 0
      BY <1>1, <2>2 DEF Conserves
    <3>2. Places(c, id)' = 1
      BY <1>1, <1>3, <2>1, <2>2, <3>1
    <3>3. Wanted(c, id)' = 1
      BY <2>1, <2>2 DEF Wanted, N
    <3> QED BY <1>1, <2>1, <2>2, <3>2, <3>3 DEF Conserves
  <2>3. CASE id # asked[c] + 1
    <3>1. Places(c, id)' = Places(c, id)
      BY <1>1, <2>1, <2>3
    <3>2. Wanted(c, id)' = Wanted(c, id)
      BY <2>1, <2>3 DEF Wanted, N
    <3>3. id > asked'[c] => id > asked[c]
      BY <1>1, <2>1
    <3> QED BY <3>1, <3>2, <3>3 DEF Conserves
  <2> QED BY <2>2, <2>3
<1> QED BY <1>2, <1>3

LEMMA TaskConserves ==
  ASSUME Typed, Typed', Sessions, Tracked, NEW d \in Clients, TaskStep(d) \/ PeerStep(d),
         NEW c \in Clients, NEW id \in Ids, Conserves(c, id)
  PROVE  Conserves(c, id)'
<1> USE DEF Typed
<1>0. /\ InUpstream(c, id) \in Nat /\ InServer(c, id) \in Nat
      /\ InHeld(c, id) \in Nat /\ InReader(c, id) \in Nat
      /\ InQueue(c, id) \in Nat /\ InHand(c, id) \in Nat
      /\ Places(c, id) \in Nat
  BY PlacesType DEF Places
<1>1. UNCHANGED <<working, reader>>
  <2>1. CASE TaskStep(d)
    BY <2>1 DEF TaskStep, Enrol, CheckCache, WinInitialize, LoseInitialize, Wake,
       ReplyLocally, Send, DropLeases, EndSession, broker, server
  <2>2. CASE PeerStep(d)
    BY <2>2 DEF PeerStep, Register, ReadRequest, ReadShutdown, ReadInitialize,
       ReadSettings, ReadAnswer, ReadOpen, ReadClose, Leave, broker, server
  <2> QED BY <2>1, <2>2
<1>2. InServer(c, id)' = InServer(c, id) /\ InReader(c, id)' = InReader(c, id)
  BY <1>1, Unmoved
<1>3. Orderly(d) /\ Orderly(c)
  BY DEF Sessions
<1>4. (asked'[c] = asked[c] /\ waiting'[c] = waiting[c] /\ UNCHANGED clients
         /\ Places(c, id)' = Places(c, id)) => Conserves(c, id)'
  BY <1>0, StaysConserved
<1>5. CASE Register(d)
  <2>1. /\ task[d] = "absent" /\ Go(d, "reading") /\ clients' = clients \cup {d}
        /\ UNCHANGED <<asking, held, peer, upstream, queue>>
    BY <1>5 DEF Register, At
  <2>2. task'[d] = "reading" /\ \A e \in Clients \ {d} : task'[e] = task[e]
    BY <2>1, GoMoves
  <2>3. Places(c, id)' = Places(c, id)
    BY <1>2, <2>1, <2>2, Unmoved DEF Places, Answering
  <2>4. CASE c # d
    BY <1>0, <2>1, <2>3, <2>4, StaysConserved DEF peer
  <2>5. CASE c = d
    <3>1. asked[c] = 0 /\ waiting[c] \subseteq 1..0 /\ id > 0
      BY <1>3, <2>1, <2>5 DEF Orderly, Ids
    <3>2. Places(c, id)' = 0
      BY <2>3, <3>1 DEF Conserves
    <3>3. Wanted(c, id)' = 0
      BY <2>1, <3>1 DEF Wanted, N, peer
    <3> QED BY <3>2, <3>3 DEF Conserves
  <2> QED BY <2>4, <2>5
<1>6. CASE ReadRequest(d)
  <2>1. Ask(d) /\ Proxy(d, "plain", asked'[d]) /\ UNCHANGED <<clients, upstream, queue>>
    BY <1>6 DEF ReadRequest, broker
  <2>2. task[d] = "reading" /\ asked'[d] \in Ids
        /\ \A e \in Clients \ {d} : asking'[e] = asking[e]
    BY <2>1, AskMoves
  <2> DEFINE m == Request("plain", nextRequest, <<d, asked'[d]>>)
  <2>3. /\ task'[d] = "sending" /\ held'[d] = <<m>> /\ m \in Requests
        /\ \A e \in Clients \ {d} : task'[e] = task[e] /\ held'[e] = held[e]
    BY <2>1, <2>2, ProxyMoves
  <2>4. m \in Calls(<<c, id>>) <=> (c = d /\ id = asked'[d])
    <3>1. m.about = <<d, asked'[d]>>
      BY DEF Request
    <3>2. m \in UpMsgs
      BY <2>3, BuiltUp
    <3>3. <<d, asked'[d]>> = <<c, id>> <=> (c = d /\ id = asked'[d])
      OBVIOUS
    <3> HIDE DEF m
    <3> QED BY <2>3, <3>1, <3>2, <3>3, CallFacts
  <2> HIDE DEF m
  <2>5. held[d] = <<>>
    BY <1>3, <2>2 DEF Orderly
  <2>6. InUpstream(c, id)' = InUpstream(c, id) /\ InQueue(c, id)' = InQueue(c, id)
    BY <2>1, Unmoved
  <2>7. InHand(c, id)' = InHand(c, id)
    <3>1. CASE c = d
      BY <2>2, <2>3, <3>1, HandIs DEF Answering
    <3>2. CASE c # d
      BY <2>2, <2>3, <3>2, Unmoved
    <3> QED BY <3>1, <3>2
  <2>8. InHeld(c, id)' = InHeld(c, id) + IF c = d /\ id = asked'[d] THEN 1 ELSE 0
    <3>1. CASE c = d
      BY <2>3, <2>4, <2>5, <3>1, HeldFills
    <3>2. CASE c # d
      BY <1>0, <2>3, <3>2, Unmoved
    <3> QED BY <3>1, <3>2
  <2>9. Places(c, id)' = Places(c, id) + IF c = d /\ id = asked'[d] THEN 1 ELSE 0
    BY <1>0, <1>2, <2>6, <2>7, <2>8 DEF Places
  <2> QED BY <2>1, <2>9, AskConserves
<1>7. CASE ReadShutdown(d) \/ ReadInitialize(d)
  <2>1. /\ Ask(d) /\ UNCHANGED <<clients, held, upstream, queue>>
        /\ Go(d, "replying") \/ Go(d, "enrol")
    BY <1>7 DEF ReadShutdown, ReadInitialize, broker
  <2>2. /\ task[d] = "reading" /\ asking'[d] = asked'[d]
        /\ \A e \in Clients \ {d} : asking'[e] = asking[e]
    BY <2>1, AskMoves
  <2>3. task'[d] \in Answering /\ \A e \in Clients \ {d} : task'[e] = task[e]
    BY <2>1, GoMoves DEF Answering
  <2>4. InHand(c, id)' = InHand(c, id) + IF c = d /\ id = asked'[d] THEN 1 ELSE 0
    <3>1. CASE c = d
      BY <2>2, <2>3, <3>1, HandIs DEF Answering
    <3>2. CASE c # d
      BY <1>0, <2>2, <2>3, <3>2, Unmoved
    <3> QED BY <3>1, <3>2
  <2>5. /\ InUpstream(c, id)' = InUpstream(c, id) /\ InQueue(c, id)' = InQueue(c, id)
        /\ InHeld(c, id)' = InHeld(c, id)
    BY <2>1, Unmoved
  <2>6. Places(c, id)' = Places(c, id) + IF c = d /\ id = asked'[d] THEN 1 ELSE 0
    BY <1>0, <1>2, <2>4, <2>5 DEF Places
  <2> QED BY <2>1, <2>6, AskConserves
<1>8. CASE Enrol(d) \/ CheckCache(d) \/ LoseInitialize(d) \/ Wake(d)
  <2>1. /\ UNCHANGED <<clients, asking, held, peer, upstream, queue>>
        /\ task[d] \in Answering /\ \E s \in Answering : Go(d, s)
    BY <1>8 DEF Enrol, CheckCache, LoseInitialize, Wake, broker, At, Answering
  <2>2. task'[d] \in Answering /\ \A e \in Clients \ {d} : task'[e] = task[e]
    BY <2>1, GoMoves
  <2>3. Places(c, id)' = Places(c, id)
    BY <1>2, <2>1, <2>2, Unmoved DEF Places
  <2> QED BY <1>4, <2>1, <2>3 DEF peer
<1>9. CASE WinInitialize(d)
  <2>1. /\ task[d] = "elect" /\ UNCHANGED <<clients, asking, peer, upstream, queue>>
        /\ Proxy(d, "initialize", asking[d])
    BY <1>9 DEF WinInitialize, At, broker
  <2>2. asking[d] \in Ids /\ held[d] = <<>>
    BY <1>3, <2>1 DEF Orderly, Answering
  <2> DEFINE m == Request("initialize", nextRequest, <<d, asking[d]>>)
  <2>3. /\ task'[d] = "sending" /\ held'[d] = <<m>> /\ m \in Requests
        /\ \A e \in Clients \ {d} : task'[e] = task[e] /\ held'[e] = held[e]
    BY <2>1, <2>2, ProxyMoves
  <2>4. m \in Calls(<<c, id>>) <=> (c = d /\ id = asking[d])
    <3>1. m.about = <<d, asking[d]>>
      BY DEF Request
    <3>2. m \in UpMsgs
      BY <2>3, BuiltUp
    <3>3. <<d, asking[d]>> = <<c, id>> <=> (c = d /\ id = asking[d])
      OBVIOUS
    <3> HIDE DEF m
    <3> QED BY <2>3, <3>1, <3>2, <3>3, CallFacts
  <2> HIDE DEF m
  <2>5. InHeld(c, id)' + InHand(c, id)' = InHeld(c, id) + InHand(c, id)
    <3>1. CASE c = d /\ id = asking[d]
      <4>1. InHand(c, id) = 1 /\ InHand(c, id)' = 0
        BY <2>1, <2>3, <3>1, HandIs DEF Answering
      <4>2. InHeld(c, id) = 0 /\ InHeld(c, id)' = 1
        BY <2>2, <2>3, <2>4, <3>1, HeldFills
      <4> QED BY <4>1, <4>2
    <3>2. CASE c = d /\ id # asking[d]
      <4>1. InHand(c, id) = 0 /\ InHand(c, id)' = 0
        BY <2>1, <2>3, <3>2, HandIs DEF Answering
      <4>2. InHeld(c, id) = 0 /\ InHeld(c, id)' = 0
        BY <2>2, <2>3, <2>4, <3>2, HeldFills
      <4> QED BY <4>1, <4>2
    <3>3. CASE c # d
      BY <1>0, <2>1, <2>3, <3>3, Unmoved
    <3> QED BY <3>1, <3>2, <3>3
  <2>6. InUpstream(c, id)' = InUpstream(c, id) /\ InQueue(c, id)' = InQueue(c, id)
    BY <2>1, Unmoved
  <2>7. InHeld(c, id)' \in Nat /\ InHand(c, id)' \in Nat
    BY PlacesTypeNext DEF PlacesInNat
  <2>8. Places(c, id)' = Places(c, id)
    BY <1>0, <1>2, <2>5, <2>6, <2>7 DEF Places
  <2> QED BY <1>4, <2>1, <2>8 DEF peer
<1>10. CASE ReplyLocally(d)
  <2> DEFINE m == Reply(asking[d], TRUE, <<d, asking[d]>>)
  <2>1. /\ task[d] = "replying" /\ Go(d, "reading")
        /\ queue' = [queue EXCEPT ![d] = Append(queue[d], m)]
        /\ UNCHANGED <<clients, asking, held, peer, upstream>>
    BY <1>10 DEF ReplyLocally, At, broker
  <2>2. task'[d] = "reading" /\ \A e \in Clients \ {d} : task'[e] = task[e]
    BY <2>1, GoMoves
  <2>3. asking[d] \in Ids
    BY <1>3, <2>1 DEF Orderly, Answering
  <2>4. m \in RepliesTo(d) /\ m \in DownMsgs(d) /\ m.id = asking[d]
    BY <2>3, ReplyFits DEF DownMsgs, Reply
  <2> HIDE DEF m
  <2>5. m \in RepliesAbout(<<c, id>>) <=> (c = d /\ id = asking[d])
    BY <2>4, ReplyFacts
  <2>6. queue'[d] = Append(queue[d], m) /\ \A e \in Clients \ {d} : queue'[e] = queue[e]
    BY <2>1 DEF QueueTypes
  <2>7. InQueue(c, id)' + InHand(c, id)' = InQueue(c, id) + InHand(c, id)
    <3>1. CASE c = d /\ id = asking[d]
      <4>1. InHand(c, id) = 1 /\ InHand(c, id)' = 0
        BY <2>1, <2>2, <3>1, HandIs DEF Answering
      <4>2. InQueue(c, id)' = InQueue(c, id) + 1
        BY <2>4, <2>5, <2>6, <3>1, QueueGains
      <4> QED BY <1>0, <4>1, <4>2
    <3>2. CASE c = d /\ id # asking[d]
      <4>1. InHand(c, id) = 0 /\ InHand(c, id)' = 0
        BY <2>1, <2>2, <3>2, HandIs DEF Answering
      <4>2. InQueue(c, id)' = InQueue(c, id)
        BY <2>4, <2>5, <2>6, <3>2, QueueGains
      <4> QED BY <4>1, <4>2
    <3>3. CASE c # d
      BY <1>0, <2>1, <2>2, <2>6, <3>3, Unmoved
    <3> QED BY <3>1, <3>2, <3>3
  <2>8. InUpstream(c, id)' = InUpstream(c, id) /\ InHeld(c, id)' = InHeld(c, id)
    BY <2>1, Unmoved
  <2>9. InQueue(c, id)' \in Nat /\ InHand(c, id)' \in Nat
    BY PlacesTypeNext DEF PlacesInNat
  <2>10. Places(c, id)' = Places(c, id)
    BY <1>0, <1>2, <2>7, <2>8, <2>9 DEF Places
  <2> QED BY <1>4, <2>1, <2>10 DEF peer
<1>11. CASE ReadSettings(d) \/ (\E n \in obliged[d] : ReadAnswer(d, n))
            \/ (\E e \in Docs : ReadOpen(d, e) \/ ReadClose(d, e))
  <2>1. PICK m \in UpMsgs \ Requests : Forward(d, m) \/ UNCHANGED <<held, task, upstream>>
    <3>1. CASE ReadSettings(d)
      <4>1. Plain("settings") \in UpMsgs \ Requests
        BY Built, BuiltUp DEF Plain, Requests
      <4> QED BY <3>1, <4>1 DEF ReadSettings
    <3>2. ASSUME NEW n \in obliged[d], ReadAnswer(d, n)
          PROVE \E m \in UpMsgs \ Requests : Forward(d, m) \/ UNCHANGED <<held, task, upstream>>
      <4>1. Answered(n) \in UpMsgs \ Requests
        <5>1. n \in 1..MaxPushes
          BY DEF SessionTypes
        <5> QED BY <5>1, Built, BuiltUp DEF Answered, Requests
      <4> QED BY <3>2, <4>1 DEF ReadAnswer
    <3>3. ASSUME NEW e \in Docs, ReadOpen(d, e) \/ ReadClose(d, e)
          PROVE \E m \in UpMsgs \ Requests : Forward(d, m) \/ UNCHANGED <<held, task, upstream>>
      <4>1. Note("open", e) \in UpMsgs \ Requests /\ Note("close", e) \in UpMsgs \ Requests
        BY Built, BuiltUp DEF Note, Requests
      <4> QED BY <3>3, <4>1 DEF ReadOpen, ReadClose
    <3> QED BY <1>11, <3>1, <3>2, <3>3
  <2>2. At(d, "reading") /\ UNCHANGED <<clients, asking, asked, waiting, queue>>
    BY <1>11 DEF ReadSettings, ReadAnswer, ReadOpen, ReadClose, broker, peer
  <2>3. Places(c, id)' = Places(c, id)
    BY <1>1, <2>1, <2>2, ForwardConserves
  <2> QED BY <1>4, <2>2, <2>3
<1>12. CASE Send(d)
  <2> DEFINE m == Head(held[d])
  <2>1. /\ held[d] # <<>> /\ held[d] \in Seq(UpMsgs) /\ task[d] \in {"sending", "closing"}
        /\ upstream' = Append(upstream, m) /\ Hold(d, Tail(held[d]))
        /\ UNCHANGED <<clients, asking, peer, queue>>
    BY <1>12 DEF Send, broker, UpstreamTypes
  <2>2. m \in UpMsgs /\ Tail(held[d]) \in Seq(UpMsgs)
    BY <2>1, TakenTyped
  <2>3. held'[d] = Tail(held[d]) /\ \A e \in Clients : e # d => held'[e] = held[e]
    BY <2>1, <2>2, HoldTypes
  <2>4. m \in ToSet(held[d])
    BY <2>1, MembersTail
  <2>5. m \in Calls(<<c, id>>) => c = d
    <3> HIDE DEF m
    <3>1. m \in Requests => m.about[1] = d
      BY <2>4 DEF Tracked
    <3> QED BY <2>2, <3>1, CallFacts
  <2>6. /\ m \in Calls(<<c, id>>) => InHeld(c, id) = InHeld(c, id)' + 1
        /\ m \notin Calls(<<c, id>>) => InHeld(c, id)' = InHeld(c, id)
    <3>1. CASE c # d
      BY <2>3, <2>5, <3>1, Unmoved
    <3>2. CASE c = d
      <4> DEFINE S == Calls(<<c, id>>)
      <4>1. InHeld(c, id) = CountIn(S, held[d]) /\ InHeld(c, id)' = CountIn(S, Tail(held[d]))
        BY <2>3, <3>2, PrimedPlaces DEF InHeld
      <4> HIDE DEF S, m
      <4>2. CountIn(S, held[d]) = CountIn(S, Tail(held[d])) + N(m \in S)
        BY <2>1, CountTail DEF m
      <4>3. CountIn(S, Tail(held[d])) \in Nat
        BY <2>2, CountType
      <4>4. /\ m \in S => InHeld(c, id) = InHeld(c, id)' + 1
            /\ m \notin S => InHeld(c, id)' = InHeld(c, id)
        BY <4>1, <4>2, <4>3 DEF N
      <4> QED BY <4>4 DEF S
    <3> QED BY <3>1, <3>2
  <2>7. /\ m \in Calls(<<c, id>>) => InUpstream(c, id)' = InUpstream(c, id) + 1
        /\ m \notin Calls(<<c, id>>) => InUpstream(c, id)' = InUpstream(c, id)
    BY <2>1, <2>2, UpstreamGains
  <2>8. InHand(c, id)' = InHand(c, id)
    <3>1. \/ task[d] = "sending" /\ task'[d] = "reading"
             /\ \A e \in Clients \ {d} : task'[e] = task[e]
          \/ UNCHANGED task
      BY <1>12, GoMoves DEF Send, At
    <3> QED BY <2>1, <3>1, Unmoved DEF Answering
  <2>9. InQueue(c, id)' = InQueue(c, id)
    BY <2>1, Unmoved
  <2>10. InHeld(c, id)' \in Nat /\ InUpstream(c, id)' \in Nat
    BY PlacesTypeNext DEF PlacesInNat
  <2>11. Places(c, id)' = Places(c, id)
    BY <1>0, <1>2, <2>6, <2>7, <2>8, <2>9, <2>10 DEF Places
  <2> QED BY <1>4, <2>1, <2>11 DEF peer
<1>13. CASE Leave(d)
  <2>1. /\ task[d] = "reading" /\ clients' = clients \ {d} /\ Go(d, "gone")
        /\ UNCHANGED <<asking, held, peer, upstream, queue>>
    BY <1>13 DEF Leave, At
  <2>2. task'[d] = "gone" /\ \A e \in Clients \ {d} : task'[e] = task[e]
    BY <2>1, GoMoves
  <2>3. Places(c, id)' = Places(c, id)
    BY <1>2, <2>1, <2>2, Unmoved DEF Places, Answering
  <2> QED BY <1>0, <2>1, <2>3, StaysConserved DEF peer
<1>14. CASE DropLeases(d)
  <2>1. task[d] = "gone" /\ Go(d, "closing") /\ UNCHANGED <<clients, asking, peer, queue>>
    BY <1>14 DEF DropLeases, At, broker
  <2>2. task'[d] = "closing" /\ \A e \in Clients \ {d} : task'[e] = task[e]
    BY <2>1, GoMoves
  <2>3. held[d] = <<>>
    BY <1>3, <2>1 DEF Orderly
  <2>4. PICK closes \in Seq(Notes) :
            /\ closes \in Seq(UpMsgs)
            /\ \/ Hold(d, closes) /\ UNCHANGED upstream
               \/ upstream' = upstream \o closes /\ UNCHANGED held
    BY <1>14, DropTypes
  <2>5. ToSet(closes) \cap Calls(<<c, id>>) = {}
    <3>1. ToSet(closes) \subseteq Notes
      BY MembersTyped
    <3> QED BY <3>1 DEF Notes, Calls
  <2>6. CountIn(Calls(<<c, id>>), closes) = 0
    BY <2>4, <2>5, CountNone
  <2>7. InHeld(c, id)' = InHeld(c, id)
    <3>1. CASE Hold(d, closes)
      <4>1. held'[d] = closes /\ \A e \in Clients : e # d => held'[e] = held[e]
        BY <2>4, <3>1, HoldTypes
      <4>2. CASE c = d
        BY <2>3, <2>6, <4>1, <4>2, HeldEmpty, PrimedPlaces
      <4> QED BY <4>1, <4>2, Unmoved
    <3> QED BY <2>4, <3>1, Unmoved
  <2>8. InUpstream(c, id)' = InUpstream(c, id)
    <3>1. CASE upstream' = upstream \o closes
      <4>1. upstream \in Seq(UpMsgs)
        BY DEF UpstreamTypes
      <4>2. CountIn(Calls(<<c, id>>), upstream \o closes) = CountIn(Calls(<<c, id>>), upstream)
        BY <2>4, <2>5, <4>1, CountConcat
      <4> QED BY <3>1, <4>2, PrimedPlaces DEF InUpstream
    <3> QED BY <2>4, <3>1, Unmoved
  <2>9. InQueue(c, id)' = InQueue(c, id) /\ InHand(c, id)' = InHand(c, id)
    BY <2>1, <2>2, Unmoved DEF Answering
  <2>10. Places(c, id)' = Places(c, id)
    BY <1>2, <2>7, <2>8, <2>9 DEF Places
  <2> QED BY <1>4, <2>1, <2>10 DEF peer
<1>15. CASE EndSession(d)
  <2>1. /\ task[d] = "closing" /\ Go(d, "ended") /\ queue' = [queue EXCEPT ![d] = <<>>]
        /\ UNCHANGED <<clients, asking, held, peer, upstream>>
    BY <1>15 DEF EndSession, At, broker
  <2>2. task'[d] = "ended" /\ \A e \in Clients \ {d} : task'[e] = task[e]
    BY <2>1, GoMoves
  <2>3. queue'[d] = <<>> /\ \A e \in Clients \ {d} : queue'[e] = queue[e]
    BY <2>1 DEF QueueTypes
  <2>4. /\ InHand(c, id)' = InHand(c, id) /\ InHeld(c, id)' = InHeld(c, id)
        /\ InUpstream(c, id)' = InUpstream(c, id)
    BY <2>1, <2>2, Unmoved DEF Answering
  <2>5. CASE c # d
    <3>1. InQueue(c, id)' = InQueue(c, id)
      BY <2>3, <2>5, Unmoved
    <3>2. Places(c, id)' = Places(c, id)
      BY <1>2, <2>4, <3>1 DEF Places
    <3> QED BY <1>4, <2>1, <3>2 DEF peer
  <2>6. CASE c = d
    <3>1. InQueue(c, id)' = 0
      BY <2>3, <2>6, CountEmpty, PrimedPlaces
    <3>2. Places(c, id)' <= Places(c, id)
      BY <1>0, <1>2, <2>4, <3>1 DEF Places
    <3>3. c \notin clients'
      BY <2>1, <2>6 DEF Sessions, Live
    <3> QED BY <2>1, <3>2, <3>3, StaysConserved DEF peer
  <2> QED BY <2>5, <2>6
<1> QED
  BY <1>5, <1>6, <1>7, <1>8, <1>9, <1>10, <1>11, <1>12, <1>13, <1>14, <1>15
     DEF TaskStep, PeerStep

LEMMA ReceiveConserves ==
  ASSUME Typed, Typed', NEW d \in Clients, Receive(d),
         NEW c \in Clients, NEW id \in Ids, Conserves(c, id)
  PROVE  Conserves(c, id)'
<1> USE DEF Typed
<1> DEFINE m == Head(queue[d])
<1>0. /\ InUpstream(c, id) \in Nat /\ InServer(c, id) \in Nat
      /\ InHeld(c, id) \in Nat /\ InReader(c, id) \in Nat
      /\ InQueue(c, id) \in Nat /\ InHand(c, id) \in Nat
      /\ Places(c, id) \in Nat
  BY PlacesType DEF Places
<1>1. InQueue(c, id)' \in Nat
  BY PlacesTypeNext DEF PlacesInNat
<1>2. queue[d] # <<>> /\ queue' = [queue EXCEPT ![d] = Tail(queue[d])]
      /\ UNCHANGED <<clients, held, task, asking, asked, upstream, working, reader>>
  BY DEF Receive, broker, session, server
<1>3. queue'[d] = Tail(queue[d]) /\ \A e \in Clients \ {d} : queue'[e] = queue[e]
  BY <1>2 DEF QueueTypes
<1>4. m \in DownMsgs(d)
  BY <1>2, TakenTyped DEF QueueTypes
<1>5. /\ waiting'[d] = IF m.kind = "reply" THEN waiting[d] \ {m.id} ELSE waiting[d]
      /\ \A e \in Clients \ {d} : waiting'[e] = waiting[e]
  BY DEF Receive, SessionTypes
<1>6. /\ m \in RepliesAbout(<<c, id>>) => InQueue(d, id) = InQueue(d, id)' + 1
      /\ m \notin RepliesAbout(<<c, id>>) /\ c = d => InQueue(c, id)' = InQueue(c, id)
      /\ m \in RepliesAbout(<<c, id>>) <=> m \in RepliesTo(d) /\ d = c /\ m.id = id
  BY <1>2, <1>3, <1>4, QueueLoses, ReplyFacts
<1> HIDE DEF m
<1>7. /\ InUpstream(c, id)' = InUpstream(c, id) /\ InServer(c, id)' = InServer(c, id)
      /\ InHeld(c, id)' = InHeld(c, id) /\ InReader(c, id)' = InReader(c, id)
      /\ InHand(c, id)' = InHand(c, id)
  BY <1>2, Unmoved
<1>8. CASE c # d
  <2>1. InQueue(c, id)' = InQueue(c, id) /\ waiting'[c] = waiting[c]
    BY <1>3, <1>5, <1>8, Unmoved
  <2>2. Places(c, id)' = Places(c, id)
    BY <1>7, <2>1 DEF Places
  <2> QED BY <1>0, <1>2, <2>1, <2>2, StaysConserved
<1>9. CASE c = d /\ m \in RepliesAbout(<<c, id>>)
  <2>1. Places(c, id) = Places(c, id)' + 1 /\ Places(c, id)' \in Nat
    BY <1>0, <1>1, <1>6, <1>7, <1>9 DEF Places
  <2>2. Places(c, id)' = 0
    BY <1>0, <2>1 DEF Conserves
  <2>3. m.kind = "reply" /\ m.id = id
    BY <1>6, <1>9 DEF RepliesAbout
  <2>4. Wanted(c, id)' = 0
    BY <1>5, <1>9, <2>3 DEF Wanted, N
  <2> QED BY <2>2, <2>4 DEF Conserves
<1>10. CASE c = d /\ m \notin RepliesAbout(<<c, id>>)
  <2>1. Places(c, id)' = Places(c, id)
    BY <1>6, <1>7, <1>10 DEF Places
  <2>2. ~LateClients => (id \in waiting'[c] <=> id \in waiting[c])
    <3>1. ~LateClients /\ m.kind = "reply" => m \in RepliesTo(d) /\ m.id # id
      BY <1>4, <1>6, <1>10, DownKinds DEF LateStrays
    <3> QED BY <1>5, <1>10, <3>1
  <2>3. ~LateClients => Wanted(c, id)' = Wanted(c, id)
    BY <2>2 DEF Wanted, N
  <2> QED BY <1>2, <2>1, <2>3 DEF Conserves
<1> QED BY <1>8, <1>9, <1>10

LEMMA ServerLoses ==
  ASSUME Typed, NEW c \in Clients, NEW id \in Ids, NEW m \in working,
         working' = working \ {m}
  PROVE  /\ m \in Calls(<<c, id>>) => InServer(c, id) = InServer(c, id)' + 1
         /\ m \notin Calls(<<c, id>>) => InServer(c, id)' = InServer(c, id)
<1>1. IsFiniteSet(working)
  BY DEF Typed, RequestTypes
<1> DEFINE S == Calls(<<c, id>>)
<1>2. InServer(c, id) = Cardinality(working \cap S)
      /\ InServer(c, id)' = Cardinality((working \ {m}) \cap S)
  BY PrimedPlaces DEF InServer
<1> HIDE DEF S
<1>3. /\ Cardinality(working \cap S) = Cardinality((working \ {m}) \cap S) + N(m \in S)
      /\ Cardinality((working \ {m}) \cap S) \in Nat
  BY <1>1, RemovedFromServer
<1>4. /\ m \in S => InServer(c, id) = InServer(c, id)' + 1
      /\ m \notin S => InServer(c, id)' = InServer(c, id)
  BY <1>2, <1>3 DEF N
<1> QED BY <1>4 DEF S

LEMMA UpstreamLoses ==
  ASSUME Typed, NEW c \in Clients, NEW id \in Ids, upstream # <<>>,
         upstream' = Tail(upstream)
  PROVE  /\ Head(upstream) \in Calls(<<c, id>>) =>
               InUpstream(c, id) = InUpstream(c, id)' + 1
         /\ Head(upstream) \notin Calls(<<c, id>>) =>
               InUpstream(c, id)' = InUpstream(c, id)
         /\ InUpstream(c, id)' \in Nat
<1>1. upstream \in Seq(UpMsgs)
  BY DEF Typed, UpstreamTypes
<1> DEFINE S == Calls(<<c, id>>)
           m == Head(upstream)
<1>2. InUpstream(c, id)' = CountIn(S, upstream') /\ InUpstream(c, id) = CountIn(S, upstream)
  BY PrimedPlaces DEF InUpstream
<1> HIDE DEF S, m
<1>3. CountIn(S, upstream) = CountIn(S, upstream') + N(m \in S)
  BY <1>1, CountTail DEF m
<1>4. CountIn(S, upstream') \in Nat
  BY <1>1, TakenTyped, CountType
<1>5. /\ m \in S => InUpstream(c, id) = InUpstream(c, id)' + 1
      /\ m \notin S => InUpstream(c, id)' = InUpstream(c, id)
  BY <1>2, <1>3, <1>4 DEF N
<1> QED BY <1>2, <1>4, <1>5 DEF S, m

LEMMA ReaderConserves ==
  ASSUME Typed, Typed', Sessions, Tracked, ReaderStep,
         NEW c \in Clients, NEW id \in Ids, Conserves(c, id)
  PROVE  Conserves(c, id)'
<1> USE DEF Typed
<1> DEFINE R == RepliesAbout(<<c, id>>)
<1>0. /\ InUpstream(c, id) \in Nat /\ InServer(c, id) \in Nat
      /\ InHeld(c, id) \in Nat /\ InReader(c, id) \in Nat
      /\ InQueue(c, id) \in Nat /\ InHand(c, id) \in Nat
      /\ Places(c, id) \in Nat
  BY PlacesType DEF Places
<1>1. /\ InUpstream(c, id)' \in Nat /\ InServer(c, id)' \in Nat /\ InQueue(c, id)' \in Nat
  BY PlacesTypeNext DEF PlacesInNat
<1>2. UNCHANGED <<clients, held, task, asking, asked, waiting>>
  BY DEF ReaderStep, TakeMessage, TakeReply, TakeStrayReply, TakePush, KeepResult,
     GreetServer, ReleaseInitialize, NotifyWaiters, LookUp, SendDown, session, peer
<1>3. InHeld(c, id)' = InHeld(c, id) /\ InHand(c, id)' = InHand(c, id)
  BY <1>2, Unmoved
<1>4. Places(c, id)' = Places(c, id) => Conserves(c, id)'
  BY <1>0, <1>2, StaysConserved
<1>5. Places(c, id)' <= Places(c, id) /\ c \notin clients => Conserves(c, id)'
  BY <1>2, StaysConserved
<1>6. ASSUME NEW m \in working, NEW ok \in BOOLEAN, TakeReply(m, ok)
      PROVE Conserves(c, id)'
  <2>1. PICK p \in pending :
            /\ m \in Requests /\ p \in Pendings /\ m.about = <<p.client, p.original>>
            /\ reader' = [at |-> IF p.tag = "initialize" THEN "hook" ELSE "lookup",
                          client |-> p.client, msg |-> Reply(p.original, ok, m.about)]
            /\ reader' \in Carrying(p.client)
    BY <1>6, TakeReplyReader DEF Typed
  <2>2. reader = Idle /\ working' = working \ {m} /\ UNCHANGED <<upstream, queue>>
    BY <1>6 DEF TakeReply
  <2>3. p.client \in Clients /\ p.original \in Ids /\ reader'.msg.id = p.original
    BY <2>1 DEF Pendings, Reply
  <2>4. m \in Calls(<<c, id>>) <=> p.client = c /\ p.original = id
    BY <2>1, BuiltUp, CallFacts
  <2>5. reader'.msg \in R <=> p.client = c /\ p.original = id
    <3>1. reader'.msg \in RepliesTo(p.client) /\ reader'.msg \in DownMsgs(p.client)
      BY <2>1 DEF Carrying, DownMsgs
    <3> QED BY <2>3, <3>1, ReplyFacts
  <2>6. reader' \notin {Idle, Ended}
    BY <2>1 DEF Idle, Ended
  <2>7. /\ reader'.msg \in R => InReader(c, id)' = 1
        /\ reader'.msg \notin R => InReader(c, id)' = 0
        /\ InReader(c, id) = 0
    BY <2>2, <2>6, ReaderBusy, ReaderEmpty
  <2>8. /\ m \in Calls(<<c, id>>) => InServer(c, id) = InServer(c, id)' + 1
        /\ m \notin Calls(<<c, id>>) => InServer(c, id)' = InServer(c, id)
    BY <2>2, ServerLoses DEF Typed
  <2>9. InUpstream(c, id)' = InUpstream(c, id) /\ InQueue(c, id)' = InQueue(c, id)
    BY <2>2, Unmoved
  <2> HIDE DEF R
  <2>10. Places(c, id)' = Places(c, id)
    BY <1>0, <1>1, <1>3, <2>4, <2>5, <2>7, <2>8, <2>9 DEF Places
  <2> QED BY <1>4, <2>10
<1>7. ASSUME NEW m \in working, TakeStrayReply(m) PROVE Conserves(c, id)'
  <2>1. /\ reader' \in {Idle} \cup [at : {"send"}, to : Seq(Clients) \ {<<>>}, msg : LateStrays]
        /\ m \in Shutdowns
    BY <1>7, TakeStrayReader DEF Typed
  <2>2. reader = Idle /\ working' = working \ {m} /\ UNCHANGED <<upstream, queue>>
    BY <1>7 DEF TakeStrayReply
  <2>3. m \notin Calls(<<c, id>>)
    BY <2>1 DEF Shutdowns, Calls
  <2>4. InReader(c, id)' = 0
    <3>1. CASE reader' = Idle
      BY <3>1, ReaderEmpty
    <3>2. CASE reader' # Idle
      <4>1. reader'.msg \in LateStrays /\ reader' \notin {Idle, Ended}
        BY <2>1, <3>2 DEF Ended
      <4>2. reader'.msg \notin R
        BY <4>1, StrayFacts, PairIsNoSingle DEF RepliesAbout
      <4> QED BY <4>1, <4>2, ReaderBusy
    <3> QED BY <3>1, <3>2
  <2>5. InReader(c, id) = 0
    BY <2>2, ReaderEmpty
  <2>6. InServer(c, id)' = InServer(c, id)
    BY <2>2, <2>3, ServerLoses DEF Typed
  <2>7. InUpstream(c, id)' = InUpstream(c, id) /\ InQueue(c, id)' = InQueue(c, id)
    BY <2>2, Unmoved
  <2>8. Places(c, id)' = Places(c, id)
    BY <1>3, <2>4, <2>5, <2>6, <2>7 DEF Places
  <2> QED BY <1>4, <2>8
<1>8. ASSUME NEW kind \in {"ask", "tell"}, TakePush(kind) PROVE Conserves(c, id)'
  <2>1. reader = Idle /\ UNCHANGED <<working, upstream, queue>>
    BY <1>8 DEF TakePush
  <2>2. \/ reader' = Idle
        \/ reader' \notin {Idle, Ended} /\ reader'.msg.kind \in {"ask", "tell"}
    BY <1>8, TakePushReader DEF Typed, Idle, Ended, Push
  <2>3. InReader(c, id)' = 0 /\ InReader(c, id) = 0
    <3>1. reader' \in {Idle, Ended} \/ reader'.msg \notin R
      BY <2>2 DEF RepliesAbout
    <3> QED BY <2>1, <2>2, <3>1, ReaderEmpty, ReaderBusy
  <2>4. /\ InUpstream(c, id)' = InUpstream(c, id) /\ InQueue(c, id)' = InQueue(c, id)
        /\ InServer(c, id)' = InServer(c, id)
    BY <2>1, Unmoved
  <2>5. Places(c, id)' = Places(c, id)
    BY <1>3, <2>3, <2>4 DEF Places
  <2> QED BY <1>4, <2>5
<1>9. CASE KeepResult \/ GreetServer \/ ReleaseInitialize \/ NotifyWaiters
  <2>1. PICK s \in {"hook", "greet", "notify", "lookup"} :
            /\ reader.at \in {"hook", "greet", "notify"} /\ reader' = [reader EXCEPT !.at = s]
            /\ UNCHANGED <<working, queue>>
            /\ UNCHANGED upstream \/ upstream' = Append(upstream, Plain("initialized"))
    BY <1>9 DEF KeepResult, GreetServer, ReleaseInitialize, NotifyWaiters, server
  <2>2. PICK e \in Clients : reader \in Carrying(e)
    BY <2>1, ReaderKinds
  <2>3. reader'.at = s /\ reader'.msg = reader.msg
    BY <2>1, <2>2, MovesOn
  <2>4. reader \notin {Idle, Ended} /\ reader' \notin {Idle, Ended}
    BY <2>1, <2>3 DEF Idle, Ended
  <2>5. InReader(c, id)' = InReader(c, id)
    BY <2>3, <2>4, ReaderBusy
  <2>6. InUpstream(c, id)' = InUpstream(c, id)
    <3>1. Plain("initialized") \in UpMsgs /\ Plain("initialized") \notin Requests
      BY Built, BuiltUp DEF Plain, Requests
    <3> QED BY <2>1, <3>1, NoCall, UpstreamGains, Unmoved DEF Typed
  <2>7. InServer(c, id)' = InServer(c, id) /\ InQueue(c, id)' = InQueue(c, id)
    BY <2>1, Unmoved
  <2>8. Places(c, id)' = Places(c, id)
    BY <1>3, <2>5, <2>6, <2>7 DEF Places
  <2> QED BY <1>4, <2>8
<1>10. CASE LookUp
  <2>1. PICK e \in Clients : reader \in Carrying(e)
    BY <1>10, ReaderKinds DEF LookUp
  <2>2. /\ reader.client = e /\ reader.msg \in RepliesTo(e) /\ reader.msg \in DownMsgs(e)
        /\ reader \notin {Idle, Ended}
    BY <1>10, <2>1 DEF Carrying, DownMsgs, LookUp, Idle, Ended
  <2>3. /\ InServer(c, id)' = InServer(c, id) /\ InQueue(c, id)' = InQueue(c, id)
        /\ InUpstream(c, id)' = InUpstream(c, id)
    BY <1>10, Unmoved DEF LookUp, server
  <2>4. CASE e \in clients
    <3>1. reader' = [at |-> "send", to |-> <<e>>, msg |-> reader.msg]
      BY <1>10, <2>2, <2>4 DEF LookUp, Dispatch
    <3>2. reader' \notin {Idle, Ended} /\ reader'.msg = reader.msg
      BY <3>1 DEF Idle, Ended
    <3>3. InReader(c, id)' = InReader(c, id)
      BY <2>2, <3>2, ReaderBusy
    <3>4. Places(c, id)' = Places(c, id)
      BY <1>3, <2>3, <3>3 DEF Places
    <3> QED BY <1>4, <3>4
  <2>5. CASE e \notin clients
    <3>1. reader' = Idle
      BY <1>10, <2>2, <2>5 DEF LookUp, Dispatch
    <3>2. InReader(c, id)' = 0
      BY <3>1, ReaderEmpty
    <3>3. CASE c = e
      <4>1. Places(c, id)' <= Places(c, id)
        BY <1>0, <1>3, <2>3, <3>2 DEF Places
      <4> QED BY <1>5, <2>5, <3>3, <4>1
    <3>4. CASE c # e
      <4>1. reader.msg \notin R
        BY <2>2, <3>4, ReplyFacts
      <4>2. InReader(c, id) = 0
        BY <2>2, <4>1, ReaderBusy
      <4>3. Places(c, id)' = Places(c, id)
        BY <1>3, <2>3, <3>2, <4>2 DEF Places
      <4> QED BY <1>4, <4>3
    <3> QED BY <3>3, <3>4
  <2> QED BY <2>4, <2>5
<1>11. CASE SendDown
  <2> DEFINE e == Head(reader.to)
  <2>1. /\ reader.at = "send" /\ e \in Clients /\ reader.msg \in DownMsgs(e)
        /\ reader \notin {Idle, Ended}
    BY <1>11, SentFits DEF SendDown, Idle, Ended
  <2>2. /\ \/ task[e] = "ended" /\ UNCHANGED queue
           \/ queue' = [queue EXCEPT ![e] = Append(queue[e], reader.msg)]
        /\ reader' = IF Tail(reader.to) = <<>> THEN Idle
                     ELSE [at |-> "send", to |-> Tail(reader.to), msg |-> reader.msg]
        /\ UNCHANGED <<upstream, working>>
    BY <1>11 DEF SendDown, At, Dispatch, server
  <2> HIDE DEF e
  <2>3. InServer(c, id)' = InServer(c, id) /\ InUpstream(c, id)' = InUpstream(c, id)
    BY <2>2, Unmoved
  <2>4. \/ task[e] = "ended" /\ UNCHANGED queue
        \/ /\ queue'[e] = Append(queue[e], reader.msg)
           /\ \A f \in Clients \ {e} : queue'[f] = queue[f]
    <3>1. queue = [f \in Clients |-> queue[f]]
      BY DEF Typed, QueueTypes
    <3> QED BY <2>1, <2>2, <3>1
  <2>5. reader.msg \notin R \/ c # e => InQueue(c, id)' = InQueue(c, id)
    BY <2>1, <2>4, QueueGains, Unmoved DEF Typed
  <2>6. reader.msg \in R => reader' = Idle /\ c = e
    <3> SUFFICES ASSUME reader.msg \in R PROVE reader' = Idle /\ c = e
      OBVIOUS
    <3>1. reader.msg \in RepliesTo(e) /\ c = e
      BY <2>1, ReplyFacts
    <3>2. reader.msg.kind = "reply" /\ reader.msg.about \notin [1..1 -> Nat]
      BY PairIsNoSingle DEF RepliesAbout
    <3>3. reader \notin Widely
      BY <3>2, StrayFacts DEF Widely, Tells
    <3>4. PICK f \in Clients : reader \in Singly(f)
      BY <2>1, <3>3, ReaderKinds
    <3>5. Tail(reader.to) = <<>>
      BY <3>4, OneTyped DEF Singly
    <3> QED BY <2>2, <3>1, <3>5
  <2>7. CASE reader.msg \in R
    <3>1. InReader(c, id) = 1 /\ InReader(c, id)' = 0 /\ c = e
      BY <2>1, <2>6, <2>7, ReaderBusy, ReaderEmpty
    <3>2. CASE queue'[e] = Append(queue[e], reader.msg)
      <4>1. InQueue(c, id)' = InQueue(c, id) + 1
        BY <2>1, <2>7, <3>1, <3>2, QueueGains DEF Typed
      <4>2. Places(c, id)' = Places(c, id)
        BY <1>0, <1>3, <2>3, <3>1, <4>1 DEF Places
      <4> QED BY <1>4, <4>2
    <3>3. CASE task[e] = "ended" /\ UNCHANGED queue
      <4>1. InQueue(c, id)' = InQueue(c, id)
        BY <3>3, Unmoved
      <4>2. Places(c, id)' <= Places(c, id)
        BY <1>0, <1>3, <2>3, <3>1, <4>1 DEF Places
      <4>3. c \notin clients
        BY <3>1, <3>3 DEF Sessions, Live
      <4> QED BY <1>5, <4>2, <4>3
    <3> QED BY <2>4, <3>2, <3>3
  <2>8. CASE reader.msg \notin R
    <3>1. InReader(c, id) = 0
      BY <2>1, <2>8, ReaderBusy
    <3>2. InReader(c, id)' = 0
      <4>1. CASE reader' = Idle
        BY <4>1, ReaderEmpty
      <4>2. CASE reader' # Idle
        <5>1. reader' \notin {Idle, Ended} /\ reader'.msg = reader.msg
          BY <2>2, <4>2 DEF Idle, Ended
        <5> QED BY <2>8, <5>1, ReaderBusy
      <4> QED BY <4>1, <4>2
    <3>3. Places(c, id)' = Places(c, id)
      BY <1>3, <2>3, <2>5, <2>8, <3>1, <3>2 DEF Places
    <3> QED BY <1>4, <3>3
  <2> QED BY <2>7, <2>8
<1> QED
  BY <1>6, <1>7, <1>8, <1>9, <1>10, <1>11 DEF ReaderStep, TakeMessage

LEMMA ServerConserves ==
  ASSUME Typed, Typed', Sessions, ServerReads \/ ServerEnds \/ EndStep \/ UNCHANGED vars,
         NEW c \in Clients, NEW id \in Ids, Conserves(c, id)
  PROVE  Conserves(c, id)'
<1> USE DEF Typed
<1>0. /\ InUpstream(c, id) \in Nat /\ InServer(c, id) \in Nat
      /\ InHeld(c, id) \in Nat /\ InReader(c, id) \in Nat
      /\ InQueue(c, id) \in Nat /\ InHand(c, id) \in Nat
      /\ Places(c, id) \in Nat
  BY PlacesType DEF Places
<1>1. UNCHANGED <<clients, asked, waiting>> /\ Places(c, id)' = Places(c, id)
         => Conserves(c, id)'
  BY <1>0, StaysConserved
<1>2. CASE ServerReads
  <2> DEFINE m == Head(upstream)
             S == Calls(<<c, id>>)
  <2>1. /\ upstream # <<>> /\ upstream' = Tail(upstream)
        /\ working' = IF IsRequest(m) THEN working \cup {m} ELSE working
        /\ UNCHANGED <<clients, reader, held, task, asking, asked, waiting, queue>>
    BY <1>2 DEF ServerReads, broker, session, peer
  <2>2. m \in UpMsgs
    BY <2>1, TakenTyped DEF UpstreamTypes
  <2>3. /\ m \in S => InUpstream(c, id) = InUpstream(c, id)' + 1
        /\ m \notin S => InUpstream(c, id)' = InUpstream(c, id)
        /\ InUpstream(c, id)' \in Nat
    BY <2>1, UpstreamLoses DEF Typed
  <2>4. InServer(c, id) = Cardinality(working \cap S)
        /\ InServer(c, id)' = Cardinality(working' \cap S)
    BY PrimedPlaces DEF InServer
  <2>5. m \in S => IsRequest(m)
    BY DEF Calls, IsRequest
  <2>6. IsFiniteSet(working)
    BY DEF RequestTypes
  <2> HIDE DEF m, S
  <2>7. m \in S => m \notin working
    <3> SUFFICES ASSUME m \in S, m \in working PROVE FALSE
      OBVIOUS
    <3>1. /\ Cardinality(working \cap S) = Cardinality((working \ {m}) \cap S) + N(m \in S)
          /\ Cardinality((working \ {m}) \cap S) \in Nat
      BY <2>6, RemovedFromServer
    <3>2. InServer(c, id) >= 1
      BY <2>4, <3>1 DEF N
    <3>3. InUpstream(c, id) >= 1
      BY <2>3
    <3>4. Places(c, id) <= 1
      BY DEF Conserves
    <3> QED BY <1>0, <3>2, <3>3, <3>4 DEF Places
  <2>8. /\ m \in S => InServer(c, id)' = InServer(c, id) + 1
        /\ m \notin S => InServer(c, id)' = InServer(c, id)
    <3>1. Cardinality((working \cup {m}) \cap S) = Cardinality(working \cap S) + N(m \in S)
      BY <2>6, <2>7, AddedToServer
    <3>2. CASE m \in S
      BY <2>1, <2>4, <2>5, <3>1, <3>2 DEF N
    <3>3. CASE m \notin S
      <4>1. working' \cap S = working \cap S
        BY <2>1, <3>3
      <4> QED BY <2>4, <3>3, <4>1
    <3> QED BY <3>2, <3>3
  <2>9. /\ InHeld(c, id)' = InHeld(c, id) /\ InReader(c, id)' = InReader(c, id)
        /\ InQueue(c, id)' = InQueue(c, id) /\ InHand(c, id)' = InHand(c, id)
    BY <2>1, Unmoved
  <2>10. Places(c, id)' = Places(c, id)
    BY <1>0, <2>3, <2>8, <2>9 DEF Places
  <2> QED BY <1>1, <2>1, <2>10
<1>3. CASE ServerEnds
  <2>1. /\ reader = Idle /\ reader' = Ended
        /\ UNCHANGED <<clients, upstream, working, held, task, asking, asked, waiting, queue>>
    BY <1>3 DEF ServerEnds, session, peer, server
  <2>2. InReader(c, id)' = InReader(c, id)
    BY <2>1, ReaderEmpty
  <2>3. Places(c, id)' = Places(c, id)
    BY <2>1, <2>2, Unmoved DEF Places
  <2> QED BY <1>1, <2>1, <2>3
<1>4. CASE RetireShutdown \/ RetireExit
  <2>1. PICK m \in UpMsgs : upstream' = Append(upstream, m) /\ m \notin Requests
    <3>1. nextRequest \in Nat
      BY DEF RequestTypes
    <3>2. CASE RetireShutdown
      <4> DEFINE m == Request("shutdown", nextRequest, <<nextRequest>>)
      <4>1. m \in UpMsgs /\ m.kind = "shutdown" /\ upstream' = Append(upstream, m)
        BY <3>1, <3>2, Built, BuiltUp DEF Request, RetireShutdown
      <4> QED BY <4>1 DEF Requests
    <3>3. CASE RetireExit
      <4> DEFINE m == Plain("exit")
      <4>1. m \in UpMsgs /\ m.kind = "exit" /\ upstream' = Append(upstream, m)
        BY <3>3, Built, BuiltUp DEF Plain, RetireExit
      <4> QED BY <4>1 DEF Requests
    <3> QED BY <1>4, <3>2, <3>3
  <2>2. UNCHANGED <<clients, reader, working, held, task, asking, asked, waiting, queue>>
    BY <1>4 DEF RetireShutdown, RetireExit, session, peer, server
  <2>3. InUpstream(c, id)' = InUpstream(c, id)
    BY <2>1, NoCall, UpstreamGains DEF Typed
  <2>4. Places(c, id)' = Places(c, id)
    BY <2>2, <2>3, Unmoved DEF Places
  <2> QED BY <1>1, <2>2, <2>4
<1>5. CASE BrokerExits
  <2>1. /\ clients' = {} /\ task'[c] = "ended" /\ held'[c] = <<>> /\ queue'[c] = <<>>
        /\ reader' = Ended /\ UNCHANGED <<upstream, working, asked, waiting>>
    BY <1>5 DEF BrokerExits, peer, server
  <2>2. /\ InHeld(c, id)' = 0 /\ InReader(c, id)' = 0 /\ InQueue(c, id)' = 0
        /\ InHand(c, id)' = 0
    BY <2>1, HeldEmpty, ReaderEmpty, HandIs, CountEmpty, PrimedPlaces DEF Answering
  <2>3. InUpstream(c, id)' = InUpstream(c, id) /\ InServer(c, id)' = InServer(c, id)
    BY <2>1, Unmoved
  <2>4. Places(c, id)' <= Places(c, id)
    BY <1>0, <2>2, <2>3 DEF Places
  <2> QED BY <2>1, <2>4, StaysConserved
<1>6. CASE UNCHANGED vars
  <2>1. UNCHANGED <<clients, reader, upstream, working, held, task, asking, asked, waiting,
                    queue>>
    BY <1>6 DEF vars, broker, session, peer, server
  <2>2. Places(c, id)' = Places(c, id)
    BY <2>1, Unmoved DEF Places
  <2> QED BY <1>1, <2>1, <2>2
<1> QED BY <1>2, <1>3, <1>4, <1>5, <1>6 DEF EndStep

LEMMA StepConserved ==
  ASSUME Typed, Typed', Sessions, Tracked, Conserved, [Next]_vars
  PROVE  Conserved'
<1> SUFFICES ASSUME NEW c \in Clients, NEW id \in Ids PROVE Conserves(c, id)'
  BY DEF Conserved
<1>1. Conserves(c, id)
  BY DEF Conserved
<1>2. ASSUME NEW d \in Clients, TaskStep(d) \/ PeerStep(d) PROVE Conserves(c, id)'
  BY <1>1, <1>2, TaskConserves
<1>3. ASSUME NEW d \in Clients, Receive(d) PROVE Conserves(c, id)'
  BY <1>1, <1>3, ReceiveConserves
<1>4. CASE ReaderStep
  BY <1>1, <1>4, ReaderConserves
<1>5. CASE ServerReads \/ ServerEnds \/ EndStep \/ AllOver \/ UNCHANGED vars
  BY <1>1, <1>5, ServerConserves DEF AllOver
<1> QED BY <1>2, <1>3, <1>4, <1>5 DEF Next

LEMMA StepTyped ==
  ASSUME Typed, Sessions, Tracked, [Next]_vars
  PROVE  Typed'
<1>1. SessionTypes' /\ BrokerTypes' /\ ServerTypes'
  BY StepSessionTypes, StepBrokerTypes, StepServerTypes DEF Typed
<1>2. UpstreamTypes' /\ RequestTypes' /\ QueueTypes' /\ ReaderTypes'
  BY StepUpstreamTypes, StepRequestTypes, StepQueueTypes, StepReaderTypes
<1> QED BY <1>1, <1>2 DEF Typed

-----------------------------------------------------------------------------
(* One handshake *)

Greeting == Plain("initialized")
Greetings == CountIn({Greeting}, upstream)
Initializing == {p \in pending : p.tag = "initialize"}
NobodyGreets == \A c \in Clients : Greeting \notin ToSet(held[c])

\* One election is won at a time, none once there is a result, and the greeting
\* is sent for the result that was kept.
Handshake ==
    /\ \A p, q \in Initializing : p = q
    /\ Initializing # {} \/ reader.at = "hook" => started /\ ~cached
    /\ reader.at = "hook" => Initializing = {}
    /\ cached => started
    /\ reader.at = "greet" => cached
    /\ greeted + Greetings + N(reader.at = "greet") <= N(cached)
    /\ NobodyGreets

LEMMA InitHandshake == Init => Handshake
<1> SUFFICES ASSUME Init PROVE Handshake
  OBVIOUS
<1>1. Greetings = 0
  BY CountEmpty DEF Init, Greetings
<1>2. NobodyGreets
  BY MembersEmpty DEF Init, NobodyGreets
<1> QED BY <1>1, <1>2 DEF Init, Handshake, Initializing, Idle, N

LEMMA GreetingsType == Typed => Greetings \in Nat /\ greeted \in Nat
<1> SUFFICES ASSUME Typed PROVE Greetings \in Nat /\ greeted \in Nat
  OBVIOUS
<1>1. upstream \in Seq(UpMsgs) /\ greeted \in Nat
  BY DEF Typed, UpstreamTypes, ServerTypes
<1> QED BY <1>1, CountType DEF Greetings

LEMMA GreetingsNext ==
  /\ Greetings' = CountIn({Greeting}, upstream')
  /\ \A c : ToSet(held[c])' = ToSet(held'[c])
  /\ NobodyGreets' <=> \A c \in Clients : Greeting \notin ToSet(held'[c])
<1>1. Greetings' = CountIn({Greeting}, upstream')
  BY DEF Greetings, CountIn, Greeting, Plain
<1>2. \A c : ToSet(held[c])' = ToSet(held'[c])
  BY DEF ToSet
<1>3. Greeting' = Greeting
  BY DEF Greeting, Plain
<1> QED BY <1>1, <1>2, <1>3 DEF NobodyGreets

LEMMA GreetingsGain ==
  ASSUME Typed, NEW m \in UpMsgs, upstream' = Append(upstream, m)
  PROVE  /\ m = Greeting => Greetings' = Greetings + 1
         /\ m # Greeting => Greetings' = Greetings
<1>1. upstream \in Seq(UpMsgs)
  BY DEF Typed, UpstreamTypes
<1>2. Greetings' = Greetings + N(m \in {Greeting})
  BY <1>1, CountAppend, GreetingsNext DEF Greetings
<1>3. Greetings \in Nat
  BY GreetingsType
<1> QED BY <1>2, <1>3 DEF N

LEMMA ForwardGreets ==
  ASSUME Typed, NobodyGreets, NEW d \in Clients, NEW m \in UpMsgs, m # Greeting,
         Forward(d, m) \/ UNCHANGED <<held, task, upstream>>
  PROVE  Greetings' = Greetings /\ NobodyGreets'
<1>1. CASE Hold(d, <<m>>) /\ UNCHANGED upstream
  <2>1. held'[d] = <<m>> /\ \A e \in Clients : e # d => held'[e] = held[e]
    <3>1. <<m>> \in Seq(UpMsgs)
      BY OneTyped
    <3> QED BY <1>1, <3>1, HoldTypes DEF Typed
  <2>2. Greeting \notin ToSet(held'[d])
    BY <2>1, MembersOne
  <2>3. NobodyGreets'
    BY <2>1, <2>2, GreetingsNext DEF NobodyGreets
  <2>4. Greetings' = Greetings
    BY <1>1, GreetingsNext DEF Greetings
  <2> QED BY <2>3, <2>4
<1>2. CASE upstream' = Append(upstream, m) /\ UNCHANGED held
  BY <1>2, GreetingsGain, GreetingsNext DEF NobodyGreets
<1>3. CASE UNCHANGED <<held, upstream>>
  BY <1>3, GreetingsNext DEF NobodyGreets, Greetings
<1> QED BY <1>1, <1>2, <1>3 DEF Forward

\* A step that makes no election and routes no reply of one.
LEMMA SameHandshake ==
  ASSUME Typed, Handshake, UNCHANGED <<started, cached, greeted>>,
         Initializing' = Initializing,
         reader' = reader \/ reader'.at \notin {"hook", "greet"},
         Greetings' = Greetings, NobodyGreets'
  PROVE  Handshake'
<1>1. Greetings \in Nat /\ greeted \in Nat
  BY GreetingsType
<1>2. (reader'.at = "hook" => reader.at = "hook") /\ (reader'.at = "greet" => reader.at = "greet")
  OBVIOUS
<1>3. greeted + Greetings + N(reader.at = "greet") <= N(cached)
  BY DEF Handshake
<1>4. greeted' + Greetings' + N(reader'.at = "greet") <= N(cached')
  BY <1>1, <1>2, <1>3 DEF N
<1>5. (\A p, q \in Initializing' : p = q)
      /\ (Initializing' # {} \/ reader'.at = "hook" => started' /\ ~cached')
      /\ (reader'.at = "hook" => Initializing' = {})
      /\ (cached' => started') /\ (reader'.at = "greet" => cached')
  BY <1>2 DEF Handshake
<1> QED BY <1>4, <1>5 DEF Handshake, N

LEMMA StepHandshake ==
  ASSUME Typed, Sessions, Tracked, Handshake, [Next]_vars
  PROVE  Handshake'
<1> USE DEF Typed
<1>0. Greetings \in Nat /\ greeted \in Nat
  BY GreetingsType
<1>1. UNCHANGED pending => Initializing' = Initializing
  BY DEF Initializing
<1>2. UNCHANGED <<held, upstream>> => Greetings' = Greetings /\ NobodyGreets'
  BY GreetingsNext DEF Greetings, Handshake, NobodyGreets
<1>3. ASSUME NEW c \in Clients, ReadRequest(c) \/ WinInitialize(c) PROVE Handshake'
  <2>1. PICK tag \in {"plain", "initialize"}, id \in Ids :
            /\ Proxy(c, tag, id) /\ UNCHANGED <<cached, greeted, reader, upstream>>
            /\ \/ tag = "plain" /\ UNCHANGED started
               \/ tag = "initialize" /\ ~started /\ started'
    <3>1. CASE ReadRequest(c)
      <4>1. asked'[c] \in Ids
        BY <3>1, AskTypes DEF ReadRequest
      <4> QED BY <3>1, <4>1 DEF ReadRequest, handshake, server, broker
    <3>2. CASE WinInitialize(c)
      <4>1. asking[c] \in Ids
        BY <3>2 DEF WinInitialize, At, Sessions, Orderly, Answering
      <4> QED BY <3>2, <4>1 DEF WinInitialize, server, broker
    <3> QED BY <1>3, <3>1, <3>2
  <2> DEFINE p == [id |-> nextRequest, client |-> c, original |-> id, tag |-> tag]
             m == Request(tag, nextRequest, <<c, id>>)
  <2>2. pending' = pending \cup {p} /\ p.tag = tag
    BY <2>1 DEF Proxy
  <2>3. Hold(c, <<m>>) /\ m \in UpMsgs /\ m # Greeting
    BY <2>1, Built, BuiltUp DEF Proxy, RequestTypes, Request, Greeting, Plain
  <2> HIDE DEF p, m
  <2>4. Greetings' = Greetings /\ NobodyGreets'
    <3>1. held'[c] = <<m>> /\ \A e \in Clients : e # c => held'[e] = held[e]
      BY <2>3, OneTyped, HoldTypes
    <3>2. Greeting \notin ToSet(held'[c])
      BY <2>3, <3>1, MembersOne
    <3>3. NobodyGreets'
      BY <3>1, <3>2, GreetingsNext DEF Handshake, NobodyGreets
    <3> QED BY <2>1, <3>3, GreetingsNext DEF Greetings
  <2>5. CASE tag = "plain"
    <3>1. Initializing' = Initializing
      BY <2>2, <2>5 DEF Initializing
    <3> QED BY <2>1, <2>4, <2>5, <3>1, SameHandshake
  <2>6. CASE tag = "initialize"
    <3>1. ~started /\ started' /\ Initializing = {} /\ reader.at # "hook" /\ ~cached
      BY <2>1, <2>6 DEF Handshake
    <3>2. Initializing' = {p}
      BY <2>2, <2>6, <3>1 DEF Initializing
    <3>3. UNCHANGED <<cached, greeted, reader, Greetings>>
      BY <2>1, <2>4
    <3>4. greeted' + Greetings' + N(reader'.at = "greet") <= N(cached')
      BY <3>3 DEF Handshake, N
    <3> QED BY <2>4, <3>1, <3>2, <3>3, <3>4 DEF Handshake, N
  <2> QED BY <2>5, <2>6
<1>4. ASSUME NEW c \in Clients,
             ReadSettings(c) \/ (\E n \in obliged[c] : ReadAnswer(c, n))
             \/ (\E d \in Docs : ReadOpen(c, d) \/ ReadClose(c, d))
      PROVE Handshake'
  <2>1. PICK m \in UpMsgs :
            /\ Forward(c, m) \/ UNCHANGED <<held, task, upstream>>
            /\ m # Greeting
    <3>1. CASE ReadSettings(c)
      <4>1. Plain("settings") \in UpMsgs /\ Plain("settings") # Greeting
        BY Built, BuiltUp DEF Plain, Greeting
      <4> QED BY <3>1, <4>1 DEF ReadSettings
    <3>2. ASSUME NEW n \in obliged[c], ReadAnswer(c, n)
          PROVE Answered(n) \in UpMsgs /\ Forward(c, Answered(n)) /\ Answered(n) # Greeting
      <4>1. n \in 1..MaxPushes
        BY DEF SessionTypes
      <4> QED BY <3>2, <4>1, Built, BuiltUp DEF ReadAnswer, Answered, Greeting, Plain
    <3>3. ASSUME NEW d \in Docs, ReadOpen(c, d) \/ ReadClose(c, d)
          PROVE \E m \in UpMsgs :
                    /\ Forward(c, m) \/ UNCHANGED <<held, task, upstream>>
                    /\ m # Greeting
      <4>1. /\ Note("open", d) \in UpMsgs /\ Note("open", d) # Greeting
            /\ Note("close", d) \in UpMsgs /\ Note("close", d) # Greeting
        BY Built, BuiltUp DEF Note, Greeting, Plain
      <4> QED BY <3>3, <4>1 DEF ReadOpen, ReadClose
    <3> QED BY <1>4, <3>1, <3>2, <3>3
  <2>2. Greetings' = Greetings /\ NobodyGreets'
    BY <2>1, ForwardGreets DEF Handshake
  <2>3. UNCHANGED <<started, cached, greeted, pending, reader>>
    BY <1>4 DEF ReadSettings, ReadAnswer, ReadOpen, ReadClose, handshake, server, requests,
       broker
  <2> QED BY <1>1, <2>2, <2>3, SameHandshake
<1>5. ASSUME NEW c \in Clients, Send(c) PROVE Handshake'
  <2> DEFINE m == Head(held[c])
  <2>1. /\ held[c] # <<>> /\ held[c] \in Seq(UpMsgs)
        /\ upstream' = Append(upstream, m) /\ Hold(c, Tail(held[c]))
        /\ UNCHANGED <<started, cached, greeted, pending, reader>>
    BY <1>5 DEF Send, UpstreamTypes, handshake, server, requests, broker
  <2>2. m \in UpMsgs /\ Tail(held[c]) \in Seq(UpMsgs)
    BY <2>1, TakenTyped
  <2>3. ToSet(held[c]) = ToSet(Tail(held[c])) \cup {m}
    BY <2>1, MembersTail
  <2> HIDE DEF m
  <2>4. held'[c] = Tail(held[c]) /\ \A e \in Clients : e # c => held'[e] = held[e]
    BY <2>1, <2>2, HoldTypes
  <2>5. Greeting \notin ToSet(held'[c]) /\ m # Greeting
    BY <2>3, <2>4 DEF Handshake, NobodyGreets
  <2>6. NobodyGreets'
    BY <2>4, <2>5, GreetingsNext DEF Handshake, NobodyGreets
  <2>7. Greetings' = Greetings
    BY <2>1, <2>2, <2>5, GreetingsGain
  <2> QED BY <1>1, <2>1, <2>6, <2>7, SameHandshake
<1>6. ASSUME NEW c \in Clients, DropLeases(c) PROVE Handshake'
  <2>1. PICK closes \in Seq(Notes) :
            /\ closes \in Seq(UpMsgs)
            /\ \/ Hold(c, closes) /\ UNCHANGED upstream
               \/ upstream' = upstream \o closes /\ UNCHANGED held
    BY <1>6, DropTypes
  <2>2. Greeting \notin ToSet(closes)
    BY MembersTyped DEF Notes, Greeting, Plain
  <2>3. Greetings' = Greetings /\ NobodyGreets'
    <3>1. CASE Hold(c, closes) /\ UNCHANGED upstream
      <4>1. held'[c] = closes /\ \A e \in Clients : e # c => held'[e] = held[e]
        BY <2>1, <3>1, HoldTypes
      <4> QED BY <2>2, <3>1, <4>1, GreetingsNext DEF Handshake, NobodyGreets, Greetings
    <3>2. CASE upstream' = upstream \o closes /\ UNCHANGED held
      <4>1. upstream \in Seq(UpMsgs) /\ ToSet(closes) \cap {Greeting} = {}
        BY <2>2 DEF UpstreamTypes
      <4>2. CountIn({Greeting}, upstream \o closes) = CountIn({Greeting}, upstream)
        BY <2>1, <4>1, CountConcat
      <4> QED BY <3>2, <4>2, GreetingsNext DEF Handshake, NobodyGreets, Greetings
    <3> QED BY <2>1, <3>1, <3>2
  <2>4. UNCHANGED <<started, cached, greeted, pending, reader>>
    BY <1>6 DEF DropLeases, handshake, server, requests, broker
  <2> QED BY <1>1, <2>3, <2>4, SameHandshake
<1>7. ASSUME NEW c \in Clients,
             Enrol(c) \/ CheckCache(c) \/ LoseInitialize(c) \/ Wake(c)
             \/ ReplyLocally(c) \/ EndSession(c) \/ Register(c) \/ ReadShutdown(c)
             \/ ReadInitialize(c) \/ Leave(c) \/ Receive(c)
      PROVE Handshake'
  <2>1. UNCHANGED <<held, upstream, started, cached, greeted, pending, reader>>
    BY <1>7 DEF Enrol, CheckCache, LoseInitialize, Wake, ReplyLocally, EndSession,
       Register, ReadShutdown, ReadInitialize, Leave, Receive, session, server, requests,
       handshake, broker
  <2> QED BY <1>1, <1>2, <2>1, SameHandshake
<1>8. ASSUME NEW m \in working, NEW ok \in BOOLEAN, TakeReply(m, ok) PROVE Handshake'
  <2>1. PICK p \in pending :
            /\ p \in Pendings /\ pending' = pending \ {p}
            /\ reader' = [at |-> IF p.tag = "initialize" THEN "hook" ELSE "lookup",
                          client |-> p.client, msg |-> Reply(p.original, ok, m.about)]
    BY <1>8, TakeReplyReader DEF Typed
  <2>2. UNCHANGED <<held, upstream, started, cached, greeted>>
    BY <1>8 DEF TakeReply, session, handshake
  <2>3. Greetings' = Greetings /\ NobodyGreets'
    BY <1>2, <2>2
  <2>4. CASE p.tag # "initialize"
    <3>1. Initializing' = Initializing /\ reader'.at = "lookup"
      BY <2>1, <2>4 DEF Initializing
    <3> QED BY <2>2, <2>3, <3>1, SameHandshake
  <2>5. CASE p.tag = "initialize"
    <3>1. p \in Initializing
      BY <2>5 DEF Initializing
    <3>2. Initializing' = {} /\ started /\ ~cached
      BY <2>1, <3>1 DEF Initializing, Handshake
    <3>3. reader'.at = "hook"
      BY <2>1, <2>5
    <3>4. greeted' + Greetings' + N(reader'.at = "greet") <= N(cached')
      <4>1. greeted + Greetings + N(reader.at = "greet") <= N(cached)
        BY DEF Handshake
      <4> QED BY <1>0, <2>2, <2>3, <3>3, <4>1 DEF N
    <3> QED BY <2>2, <2>3, <3>2, <3>3, <3>4 DEF Handshake, N
  <2> QED BY <2>4, <2>5
<1>9. CASE \/ \E m \in working : TakeStrayReply(m)
           \/ \E kind \in {"ask", "tell"} : TakePush(kind)
           \/ NotifyWaiters \/ LookUp \/ SendDown \/ ServerEnds
  <2>1. UNCHANGED <<held, upstream, started, cached, greeted, pending>>
    BY <1>9 DEF TakeStrayReply, TakePush, NotifyWaiters, LookUp, SendDown, ServerEnds,
       session, handshake, requests, server
  <2>2. reader'.at \notin {"hook", "greet"}
    <3>1. CASE NotifyWaiters
      <4>1. PICK e \in Clients : reader \in Carrying(e)
        BY <3>1, ReaderKinds DEF NotifyWaiters
      <4> QED BY <3>1, <4>1, MovesOn DEF NotifyWaiters
    <3>2. CASE \/ \E m \in working : TakeStrayReply(m)
               \/ \E kind \in {"ask", "tell"} : TakePush(kind)
               \/ LookUp \/ SendDown
      <4>1. \E targets, msg : Dispatch(targets, msg)
        <5>1. CASE \E m \in working : TakeStrayReply(m)
          BY <5>1 DEF TakeStrayReply
        <5>2. CASE \E kind \in {"ask", "tell"} : TakePush(kind)
          BY <5>2 DEF TakePush
        <5>3. CASE LookUp \/ SendDown
          BY <5>3 DEF LookUp, SendDown
        <5> QED BY <3>2, <5>1, <5>2, <5>3
      <4> QED BY <4>1 DEF Dispatch, Idle
    <3>3. CASE ServerEnds
      BY <3>3 DEF ServerEnds, Ended
    <3> QED BY <1>9, <3>1, <3>2, <3>3
  <2> QED BY <1>1, <1>2, <2>1, <2>2, SameHandshake
<1>10. CASE KeepResult \/ ReleaseInitialize \/ GreetServer
  <2>1. PICK e \in Clients : reader \in Carrying(e)
    BY <1>10, ReaderKinds DEF KeepResult, ReleaseInitialize, GreetServer
  <2>2. UNCHANGED <<held, pending, greeted>>
    BY <1>10 DEF KeepResult, ReleaseInitialize, GreetServer, session, requests, server
  <2>3. Initializing' = Initializing
    BY <1>1, <2>2
  <2>4. greeted + Greetings + N(reader.at = "greet") <= N(cached)
    BY DEF Handshake
  <2>5. CASE KeepResult
    <3>1. /\ reader.at = "hook" /\ cached' /\ reader'.at = "greet"
          /\ UNCHANGED <<upstream, started>>
      BY <2>1, <2>5, MovesOn DEF KeepResult
    <3>2. Greetings' = Greetings /\ NobodyGreets'
      BY <1>2, <2>2, <3>1
    <3>3. Initializing = {} /\ started /\ ~cached
      BY <3>1 DEF Handshake
    <3>4. greeted' + Greetings' + N(reader'.at = "greet") <= N(cached')
      BY <1>0, <2>2, <2>4, <3>1, <3>2, <3>3 DEF N
    <3> QED BY <2>2, <2>3, <3>1, <3>2, <3>3, <3>4 DEF Handshake, N
  <2>6. CASE ReleaseInitialize
    <3>1. /\ reader.at = "hook" /\ ~started' /\ reader'.at = "notify"
          /\ UNCHANGED <<upstream, cached>>
      BY <2>1, <2>6, MovesOn DEF ReleaseInitialize
    <3>2. Greetings' = Greetings /\ NobodyGreets'
      BY <1>2, <2>2, <3>1
    <3>3. Initializing = {} /\ ~cached
      BY <3>1 DEF Handshake
    <3>4. greeted' + Greetings' + N(reader'.at = "greet") <= N(cached')
      BY <1>0, <2>2, <2>4, <3>1, <3>2, <3>3 DEF N
    <3> QED BY <2>2, <2>3, <3>1, <3>2, <3>3, <3>4 DEF Handshake, N
  <2>7. CASE GreetServer
    <3>1. /\ reader.at = "greet" /\ reader'.at = "notify"
          /\ upstream' = Append(upstream, Greeting) /\ UNCHANGED <<started, cached>>
      BY <2>1, <2>7, MovesOn DEF GreetServer, handshake, Greeting
    <3>2. Greeting \in UpMsgs
      BY Built, BuiltUp DEF Greeting
    <3>3. Greetings' = Greetings + 1
      BY <3>1, <3>2, GreetingsGain DEF Typed
    <3>4. NobodyGreets'
      BY <2>2, GreetingsNext DEF Handshake, NobodyGreets
    <3>5. cached /\ started /\ Initializing = {}
      BY <3>1 DEF Handshake
    <3>6. greeted' + Greetings' + N(reader'.at = "greet") <= N(cached')
      BY <1>0, <2>2, <2>4, <3>1, <3>3 DEF N
    <3> QED BY <2>2, <2>3, <3>1, <3>4, <3>5, <3>6 DEF Handshake, N
  <2> QED BY <1>10, <2>5, <2>6, <2>7
<1>11. CASE ServerReads
  <2> DEFINE m == Head(upstream)
  <2>1. /\ upstream # <<>> /\ upstream' = Tail(upstream) /\ upstream \in Seq(UpMsgs)
        /\ greeted' = IF m.kind = "initialized" THEN greeted + 1 ELSE greeted
        /\ UNCHANGED <<held, started, cached, pending, reader>>
    BY <1>11 DEF ServerReads, UpstreamTypes, session, handshake, requests, broker
  <2>2. m \in UpMsgs /\ Tail(upstream) \in Seq(UpMsgs)
    BY <2>1, TakenTyped
  <2>3. CountIn({Greeting}, upstream) = CountIn({Greeting}, Tail(upstream)) + N(m \in {Greeting})
    BY <2>1, CountTail
  <2> HIDE DEF m
  <2>4. m.kind = "initialized" <=> m \in {Greeting}
    <3>1. m.kind = "initialized" => m \in Plains
      BY <2>2, UpKinds
    <3>2. m.kind = "initialized" => m = Greeting
      BY <3>1 DEF Plains, Greeting, Plain
    <3> QED BY <3>2 DEF Greeting, Plain
  <2>5. CountIn({Greeting}, Tail(upstream)) \in Nat
    BY <2>2, CountType
  <2>6. greeted' + Greetings' = greeted + Greetings
    BY <1>0, <2>1, <2>3, <2>4, <2>5, GreetingsNext DEF Greetings, N
  <2>7. NobodyGreets'
    BY <2>1, GreetingsNext DEF Handshake, NobodyGreets
  <2>8. greeted' + Greetings' + N(reader'.at = "greet") <= N(cached')
    BY <2>1, <2>6 DEF Handshake
  <2>9. Initializing' = Initializing
    BY <1>1, <2>1
  <2> QED BY <2>1, <2>7, <2>8, <2>9 DEF Handshake, N
<1>12. CASE RetireShutdown \/ RetireExit
  <2>1. PICK m \in UpMsgs : upstream' = Append(upstream, m) /\ m # Greeting
    <3>1. nextRequest \in Nat
      BY DEF RequestTypes
    <3>2. /\ Request("shutdown", nextRequest, <<nextRequest>>) \in UpMsgs
          /\ Request("shutdown", nextRequest, <<nextRequest>>) # Greeting
          /\ Plain("exit") \in UpMsgs /\ Plain("exit") # Greeting
      BY <3>1, Built, BuiltUp DEF Request, Plain, Greeting
    <3> QED BY <1>12, <3>2 DEF RetireShutdown, RetireExit
  <2>2. UNCHANGED <<held, started, cached, greeted, pending, reader>>
    BY <1>12 DEF RetireShutdown, RetireExit, session, handshake, server, requests
  <2>3. Greetings' = Greetings
    BY <2>1, GreetingsGain DEF Typed
  <2>4. NobodyGreets'
    BY <2>2, GreetingsNext DEF Handshake, NobodyGreets
  <2> QED BY <1>1, <2>2, <2>3, <2>4, SameHandshake
<1>13. CASE BrokerExits
  <2>1. /\ \A c \in Clients : held'[c] = <<>>
        /\ reader'.at = "ended" /\ UNCHANGED <<upstream, started, cached, greeted, pending>>
    BY <1>13 DEF BrokerExits, handshake, server, requests, Ended
  <2>2. NobodyGreets'
    BY <2>1, MembersEmpty, GreetingsNext
  <2>3. Greetings' = Greetings
    BY <2>1, GreetingsNext DEF Greetings
  <2> QED BY <1>1, <2>1, <2>2, <2>3, SameHandshake
<1>14. CASE AllOver \/ UNCHANGED vars
  <2>1. UNCHANGED <<held, upstream, started, cached, greeted, pending, reader>>
    BY <1>14 DEF AllOver, vars, session, handshake, server, requests, broker
  <2> QED BY <1>1, <1>2, <2>1, SameHandshake
<1> QED
  BY <1>3, <1>4, <1>5, <1>6, <1>7, <1>8, <1>9, <1>10, <1>11, <1>12, <1>13, <1>14
     DEF Next, TaskStep, PeerStep, ReaderStep, TakeMessage, EndStep

LEMMA AtMostOne ==
  ASSUME NEW S, \A a, b \in S : a = b
  PROVE  Cardinality(S) <= 1 /\ Cardinality(S) \in Nat
<1>1. CASE S = {}
  BY <1>1, FS_EmptySet
<1>2. ASSUME NEW a \in S PROVE Cardinality(S) = 1
  <2>1. S = {a}
    OBVIOUS
  <2> QED BY <2>1, FS_Singleton
<1> QED BY <1>1, <1>2

LEMMA HandshakeIsOne ==
  ASSUME Typed, Tracked, Handshake
  PROVE  OneHandshake
<1>1. ASSUME NEW m \in Handshakes
      PROVE m \in Requests /\ \E p \in Initializing : PendingFor(p, m)
  <2>1. m \in InFlight /\ m.kind = "initialize"
    BY DEF Handshakes, InFlight
  <2>2. m \in UpMsgs
    <3>1. ToSet(upstream) \subseteq UpMsgs
      BY MembersTyped DEF Typed, UpstreamTypes
    <3>2. \A c \in Clients : ToSet(held[c]) \subseteq UpMsgs
      BY MembersTyped DEF Typed, UpstreamTypes
    <3>3. working \subseteq UpMsgs
      BY BuiltUp DEF Typed, RequestTypes
    <3> QED BY <2>1, <3>1, <3>2, <3>3 DEF InFlight
  <2>3. m \in Requests
    BY <2>1, <2>2, UpKinds
  <2>4. PICK p \in pending : PendingFor(p, m)
    BY <2>1, <2>3 DEF Tracked
  <2>5. p \in Initializing
    BY <2>1, <2>4 DEF Initializing, PendingFor
  <2> QED BY <2>3, <2>4, <2>5
<1>2. \A a, b \in Handshakes : a = b
  <2> SUFFICES ASSUME NEW a \in Handshakes, NEW b \in Handshakes PROVE a = b
    OBVIOUS
  <2>1. PICK p \in Initializing : PendingFor(p, a)
    BY <1>1
  <2>2. PICK q \in Initializing : PendingFor(q, b)
    BY <1>1
  <2>3. p = q
    BY DEF Handshake
  <2>4. a.id = b.id /\ a.kind = b.kind /\ a.about = b.about
    BY <2>1, <2>2, <2>3 DEF PendingFor
  <2> QED BY <1>1, <2>4, SameRequest
<1>3. cached => Handshakes = {} /\ started
  BY <1>1 DEF Handshake
<1>4. greeted <= 1
  <2>1. Greetings \in Nat /\ greeted \in Nat
    BY GreetingsType
  <2> QED BY <2>1 DEF Handshake, N
<1> QED BY <1>2, <1>3, <1>4, AtMostOne DEF OneHandshake

-----------------------------------------------------------------------------
(* One session answers a request of the server *)

Due(c, n) == N(n \in obliged[c])
Sent(c, n) == CountIn({Push("ask", n)}, queue[c])
Back(c, n) == CountIn({Answered(n)}, held[c])
Routed(n) == N(reader \notin {Idle, Ended} /\ reader.msg = Push("ask", n))
AnsweredUp(n) == CountIn({Answered(n)}, upstream)

AskAt(c, n) == Due(c, n) + Sent(c, n) + Back(c, n)
AskShared(n) == Routed(n) + AnsweredUp(n)

\* A request of the server that nobody answered is with one session, with the
\* reader, or answered and on its way; one that is answered is nowhere.
Once(n) ==
    /\ \A c \in Clients : AskAt(c, n) + AskShared(n) <= N(n \in owed)
    /\ AskShared(n) <= N(n \in owed)
    /\ \A a, b \in Clients : a # b => AskAt(a, n) = 0 \/ AskAt(b, n) = 0

AskOnce ==
    /\ \A n \in owed : n <= pushes
    /\ \A n \in 1..MaxPushes : Once(n)

LEMMA InitAskOnce == Init => AskOnce
<1> SUFFICES ASSUME Init PROVE AskOnce
  OBVIOUS
<1>1. ASSUME NEW n \in 1..MaxPushes, NEW c \in Clients PROVE AskAt(c, n) = 0
  <2>1. Sent(c, n) = 0 /\ Back(c, n) = 0
    BY CountEmpty DEF Init, Sent, Back
  <2>2. Due(c, n) = 0
    BY DEF Init, Due, N
  <2> QED BY <2>1, <2>2 DEF AskAt
<1>2. ASSUME NEW n \in 1..MaxPushes PROVE AskShared(n) = 0
  <2>1. AnsweredUp(n) = 0
    BY CountEmpty DEF Init, AnsweredUp
  <2>2. Routed(n) = 0
    BY DEF Init, Routed, N
  <2> QED BY <2>1, <2>2 DEF AskShared
<1>3. \A n \in 1..MaxPushes : Once(n)
  BY <1>1, <1>2 DEF Once, N, Init
<1> QED BY <1>3 DEF Init, AskOnce

LEMMA AskPrimes ==
  \A c, n : /\ Due(c, n)' = N(n \in obliged'[c])
            /\ Sent(c, n)' = CountIn({Push("ask", n)}, queue'[c])
            /\ Back(c, n)' = CountIn({Answered(n)}, held'[c])
            /\ Routed(n)' = N(reader' \notin {Idle, Ended} /\ reader'.msg = Push("ask", n))
            /\ AnsweredUp(n)' = CountIn({Answered(n)}, upstream')
            /\ AskAt(c, n)' = Due(c, n)' + Sent(c, n)' + Back(c, n)'
            /\ AskShared(n)' = Routed(n)' + AnsweredUp(n)'
<1>1. \A c, n : /\ Due(c, n)' = N(n \in obliged'[c])
                /\ Sent(c, n)' = CountIn({Push("ask", n)}, queue'[c])
                /\ Back(c, n)' = CountIn({Answered(n)}, held'[c])
                /\ AnsweredUp(n)' = CountIn({Answered(n)}, upstream')
  BY DEF Due, Sent, Back, AnsweredUp, N, CountIn, Push, Answered
<1>2. \A n : Routed(n)' = N(reader' \notin {Idle, Ended} /\ reader'.msg = Push("ask", n))
  BY DEF Routed, N, Push, Idle, Ended
<1>3. \A c, n : /\ AskAt(c, n)' = Due(c, n)' + Sent(c, n)' + Back(c, n)'
                /\ AskShared(n)' = Routed(n)' + AnsweredUp(n)'
  BY DEF AskAt, AskShared
<1> QED BY <1>1, <1>2, <1>3

AskInNat(n) ==
    /\ \A c \in Clients : Due(c, n) \in 0..1 /\ Sent(c, n) \in Nat /\ Back(c, n) \in Nat
    /\ Routed(n) \in 0..1 /\ AnsweredUp(n) \in Nat

LEMMA AskTyped == Typed => \A n : AskInNat(n)
<1> SUFFICES ASSUME Typed, NEW n PROVE AskInNat(n)
  OBVIOUS
<1>1. ASSUME NEW c \in Clients
      PROVE Due(c, n) \in 0..1 /\ Sent(c, n) \in Nat /\ Back(c, n) \in Nat
  <2>1. queue[c] \in Seq(DownMsgs(c)) /\ held[c] \in Seq(UpMsgs)
    BY DEF Typed, QueueTypes, UpstreamTypes
  <2>2. Sent(c, n) \in Nat /\ Back(c, n) \in Nat
    BY <2>1, CountType DEF Sent, Back
  <2> QED BY <2>2 DEF Due, N
<1>2. AnsweredUp(n) \in Nat
  <2>1. upstream \in Seq(UpMsgs)
    BY DEF Typed, UpstreamTypes
  <2> QED BY <2>1, CountType DEF AnsweredUp
<1>3. Routed(n) \in 0..1
  BY DEF Routed, N
<1> QED BY <1>1, <1>2, <1>3 DEF AskInNat

LEMMA AskTypedNext == Typed' => \A n : AskInNat(n)'
<1>1. Typed => \A n : AskInNat(n)
  BY AskTyped
<1>2. (Typed => \A n : AskInNat(n))'
  BY <1>1, PTL
<1> QED BY <1>2

\* The three ways a step moves a request of the server.
LEMMA OnceFades ==
  ASSUME Typed, Typed', NEW n, Once(n), n \in owed => n \in owed',
         \A c \in Clients : AskAt(c, n)' <= AskAt(c, n),
         AskShared(n)' <= AskShared(n)
  PROVE  Once(n)'
<1>1. /\ \A c \in Clients : AskAt(c, n) \in Nat /\ AskAt(c, n)' \in Nat
      /\ AskShared(n) \in Nat /\ AskShared(n)' \in Nat
  BY AskTyped, AskTypedNext, AskPrimes DEF AskInNat, AskAt, AskShared
<1>2. N(n \in owed) \in Nat /\ N(n \in owed') \in Nat /\ N(n \in owed) <= N(n \in owed')
  BY DEF N
<1>3. \A c \in Clients : AskAt(c, n)' + AskShared(n)' <= N(n \in owed')
  <2> SUFFICES ASSUME NEW c \in Clients PROVE AskAt(c, n)' + AskShared(n)' <= N(n \in owed')
    OBVIOUS
  <2>1. AskAt(c, n) + AskShared(n) <= N(n \in owed)
    BY DEF Once
  <2> QED BY <1>1, <1>2, <2>1
<1>4. AskShared(n)' <= N(n \in owed')
  BY <1>1, <1>2 DEF Once
<1>5. ASSUME NEW a \in Clients, NEW b \in Clients, a # b
      PROVE AskAt(a, n)' = 0 \/ AskAt(b, n)' = 0
  <2>1. AskAt(a, n) = 0 \/ AskAt(b, n) = 0
    BY <1>5 DEF Once
  <2> QED BY <1>1, <2>1
<1> QED BY <1>3, <1>4, <1>5 DEF Once, N

LEMMA OnceRises ==
  ASSUME Typed, Typed', NEW n, Once(n), n \in owed => n \in owed', NEW d \in Clients,
         AskAt(d, n) = AskAt(d, n)' + 1, AskShared(n)' = AskShared(n) + 1,
         \A c \in Clients \ {d} : AskAt(c, n)' <= AskAt(c, n)
  PROVE  Once(n)'
<1>1. /\ \A c \in Clients : AskAt(c, n) \in Nat /\ AskAt(c, n)' \in Nat
      /\ AskShared(n) \in Nat /\ AskShared(n)' \in Nat
  BY AskTyped, AskTypedNext, AskPrimes DEF AskInNat, AskAt, AskShared
<1>2. N(n \in owed) \in 0..1 /\ N(n \in owed') \in 0..1 /\ N(n \in owed) <= N(n \in owed')
  BY DEF N
<1>3. AskAt(d, n) + AskShared(n) <= N(n \in owed)
  BY DEF Once
<1>4. AskAt(d, n)' = 0 /\ AskShared(n)' = 1 /\ N(n \in owed') = 1
  BY <1>1, <1>2, <1>3
<1>5. \A c \in Clients \ {d} : AskAt(c, n)' = 0
  <2> SUFFICES ASSUME NEW c \in Clients \ {d} PROVE AskAt(c, n)' = 0
    OBVIOUS
  <2>1. AskAt(c, n) = 0 \/ AskAt(d, n) = 0
    BY DEF Once
  <2>2. AskAt(d, n) # 0
    BY <1>1
  <2> QED BY <1>1, <2>1, <2>2
<1>6. \A c \in Clients : AskAt(c, n)' = 0
  BY <1>4, <1>5
<1> QED BY <1>4, <1>6 DEF Once, N

LEMMA OnceDescends ==
  ASSUME Typed, Typed', NEW n, Once(n), n \in owed => n \in owed', NEW d \in Clients,
         AskAt(d, n)' = AskAt(d, n) + 1, AskShared(n) = AskShared(n)' + 1,
         \A c \in Clients \ {d} : AskAt(c, n)' <= AskAt(c, n)
  PROVE  Once(n)'
<1>1. /\ \A c \in Clients : AskAt(c, n) \in Nat /\ AskAt(c, n)' \in Nat
      /\ AskShared(n) \in Nat /\ AskShared(n)' \in Nat
  BY AskTyped, AskTypedNext, AskPrimes DEF AskInNat, AskAt, AskShared
<1>2. N(n \in owed) \in 0..1 /\ N(n \in owed') \in 0..1 /\ N(n \in owed) <= N(n \in owed')
  BY DEF N
<1>3. \A c \in Clients : AskAt(c, n) = 0
  <2> SUFFICES ASSUME NEW c \in Clients PROVE AskAt(c, n) = 0
    OBVIOUS
  <2>1. AskAt(c, n) + AskShared(n) <= N(n \in owed)
    BY DEF Once
  <2> QED BY <1>1, <1>2, <2>1
<1>4. AskShared(n)' = 0 /\ N(n \in owed') = 1
  <2>1. AskShared(n) <= N(n \in owed)
    BY DEF Once
  <2> QED BY <1>1, <1>2, <2>1
<1>5. AskAt(d, n)' = 1 /\ \A c \in Clients \ {d} : AskAt(c, n)' = 0
  BY <1>1, <1>3
<1> QED BY <1>4, <1>5 DEF Once, N

\* What a step does to where a request of the server can be.
LEMMA AskUnmoved ==
  \A c, n : /\ obliged'[c] = obliged[c] => Due(c, n)' = Due(c, n)
            /\ queue'[c] = queue[c] => Sent(c, n)' = Sent(c, n)
            /\ queue'[c] = <<>> => Sent(c, n)' = 0
            /\ held'[c] = held[c] => Back(c, n)' = Back(c, n)
            /\ held'[c] = <<>> => Back(c, n)' = 0
            /\ held[c] = <<>> => Back(c, n) = 0
            /\ UNCHANGED reader => Routed(n)' = Routed(n)
            /\ UNCHANGED upstream => AnsweredUp(n)' = AnsweredUp(n)
<1>1. \A n : UNCHANGED reader => Routed(n)' = Routed(n)
  BY AskPrimes DEF Routed
<1> QED BY <1>1, AskPrimes, CountEmpty DEF Due, Sent, Back, AnsweredUp

LEMMA AnswersGain ==
  ASSUME Typed, NEW n, NEW m \in UpMsgs, upstream' = Append(upstream, m)
  PROVE  /\ m = Answered(n) => AnsweredUp(n)' = AnsweredUp(n) + 1
         /\ m # Answered(n) => AnsweredUp(n)' = AnsweredUp(n)
<1>1. upstream \in Seq(UpMsgs) /\ AnsweredUp(n) \in Nat
  BY AskTyped DEF Typed, UpstreamTypes, AskInNat
<1>2. AnsweredUp(n)' = AnsweredUp(n) + N(m \in {Answered(n)})
  BY <1>1, CountAppend, AskPrimes DEF AnsweredUp
<1> QED BY <1>1, <1>2 DEF N

LEMMA BackFills ==
  ASSUME NEW d, NEW n, NEW m, held[d] = <<>>, held'[d] = <<m>>
  PROVE  /\ Back(d, n) = 0
         /\ m = Answered(n) => Back(d, n)' = 1
         /\ m # Answered(n) => Back(d, n)' = 0
<1>1. Back(d, n)' = N(m \in {Answered(n)})
  BY AskPrimes, CountOne
<1> QED BY <1>1, AskUnmoved DEF N

LEMMA SentGains ==
  ASSUME Typed, NEW d \in Clients, NEW n, NEW m \in DownMsgs(d),
         queue'[d] = Append(queue[d], m)
  PROVE  /\ m = Push("ask", n) => Sent(d, n)' = Sent(d, n) + 1
         /\ m # Push("ask", n) => Sent(d, n)' = Sent(d, n)
<1>1. queue[d] \in Seq(DownMsgs(d)) /\ Sent(d, n) \in Nat
  BY AskTyped DEF Typed, QueueTypes, AskInNat
<1>2. Sent(d, n)' = Sent(d, n) + N(m \in {Push("ask", n)})
  BY <1>1, CountAppend, AskPrimes DEF Sent
<1> QED BY <1>1, <1>2 DEF N

\* Forwarding what is not the answer n moves nothing about n.
LEMMA ForwardAsks ==
  ASSUME Typed, Sessions, NEW d \in Clients, At(d, "reading"), NEW m \in UpMsgs,
         Forward(d, m) \/ UNCHANGED <<held, task, upstream>>, NEW n
  PROVE  /\ \A c \in Clients \ {d} : Back(c, n)' = Back(c, n)
         /\ m # Answered(n) => Back(d, n)' = Back(d, n) /\ AnsweredUp(n)' = AnsweredUp(n)
         /\ m = Answered(n) /\ Forward(d, m) =>
              \/ Back(d, n)' = Back(d, n) + 1 /\ AnsweredUp(n)' = AnsweredUp(n)
              \/ Back(d, n)' = Back(d, n) /\ AnsweredUp(n)' = AnsweredUp(n) + 1
<1>1. held[d] = <<>>
  BY DEF Sessions, Orderly, At
<1>2. CASE Hold(d, <<m>>) /\ UNCHANGED upstream
  <2>1. held'[d] = <<m>> /\ \A e \in Clients : e # d => held'[e] = held[e]
    BY <1>2, OneTyped, HoldTypes DEF Typed
  <2> QED BY <1>1, <1>2, <2>1, BackFills, AskUnmoved
<1>3. CASE upstream' = Append(upstream, m) /\ UNCHANGED held
  BY <1>3, AnswersGain, AskUnmoved
<1>4. CASE UNCHANGED <<held, task, upstream>>
  <2>1. ~Forward(d, m)
    <3>1. task[d] = "reading"
      BY DEF At
    <3>2. ~Go(d, "sending")
      BY <1>4, <3>1 DEF Go, Typed, SessionTypes
    <3>3. upstream' # Append(upstream, m)
      <4>1. upstream \in Seq(UpMsgs)
        BY DEF Typed, UpstreamTypes
      <4>2. Len(Append(upstream, m)) = Len(upstream) + 1 /\ Len(upstream) \in Nat
        BY <4>1, AppendedTyped
      <4> QED BY <1>4, <4>2
    <3> QED BY <3>2, <3>3 DEF Forward
  <2> QED BY <1>4, <2>1, AskUnmoved
<1> QED BY <1>2, <1>3, <1>4 DEF Forward

LEMMA SessionAsks ==
  ASSUME Typed, Typed', Sessions, NEW d \in Clients, TaskStep(d) \/ PeerStep(d),
         NEW n \in 1..MaxPushes, Once(n)
  PROVE  Once(n)'
<1> USE DEF Typed
<1>0. AskInNat(n) /\ AskInNat(n)'
  BY AskTyped, AskTypedNext
<1>1. UNCHANGED <<reader, owed, pushes>>
  <2>1. CASE TaskStep(d)
    BY <2>1 DEF TaskStep, Enrol, CheckCache, WinInitialize, LoseInitialize, Wake,
       ReplyLocally, Send, DropLeases, EndSession, broker, server
  <2>2. CASE PeerStep(d)
    BY <2>2 DEF PeerStep, Register, ReadRequest, ReadShutdown, ReadInitialize,
       ReadSettings, ReadAnswer, ReadOpen, ReadClose, Leave, broker, server
  <2> QED BY <2>1, <2>2
<1>2. Routed(n)' = Routed(n)
  BY <1>1, AskUnmoved
<1>3. (/\ \A c \in Clients : /\ Due(c, n)' <= Due(c, n) /\ Sent(c, n)' <= Sent(c, n)
                             /\ Back(c, n)' <= Back(c, n)
       /\ AnsweredUp(n)' <= AnsweredUp(n)) => Once(n)'
  <2> SUFFICES ASSUME \A c \in Clients : /\ Due(c, n)' <= Due(c, n)
                                         /\ Sent(c, n)' <= Sent(c, n)
                                         /\ Back(c, n)' <= Back(c, n),
                      AnsweredUp(n)' <= AnsweredUp(n)
               PROVE  Once(n)'
    OBVIOUS
  <2>1. \A c \in Clients : AskAt(c, n)' <= AskAt(c, n)
    BY <1>0, AskPrimes DEF AskAt, AskInNat
  <2>2. AskShared(n)' <= AskShared(n)
    BY <1>0, <1>2, AskPrimes DEF AskShared, AskInNat
  <2> QED BY <1>1, <2>1, <2>2, OnceFades
<1>4. CASE \/ Enrol(d) \/ CheckCache(d) \/ LoseInitialize(d) \/ Wake(d) \/ Register(d)
           \/ ReadShutdown(d) \/ ReadInitialize(d) \/ Leave(d)
  <2>1. UNCHANGED <<obliged, queue, held, upstream>>
    BY <1>4 DEF Enrol, CheckCache, LoseInitialize, Wake, Register, ReadShutdown,
       ReadInitialize, Leave, Ask, peer
  <2> QED BY <1>0, <1>3, <2>1, AskUnmoved DEF AskInNat
<1>5. CASE ReadRequest(d) \/ WinInitialize(d)
  <2>1. PICK m : Hold(d, <<m>>) /\ m.kind \in {"plain", "initialize"} /\ m \in UpMsgs
                 /\ UNCHANGED <<obliged, queue, upstream>>
    <3>1. CASE ReadRequest(d)
      <4>1. asked'[d] \in Ids
        BY <3>1, AskTypes DEF ReadRequest
      <4> DEFINE m == Request("plain", nextRequest, <<d, asked'[d]>>)
      <4>2. m.kind = "plain" /\ m \in UpMsgs
        BY <4>1, Built, BuiltUp DEF Request, RequestTypes
      <4>3. Hold(d, <<m>>) /\ UNCHANGED <<obliged, queue, upstream>>
        BY <3>1 DEF ReadRequest, Proxy, Ask
      <4> QED BY <4>2, <4>3
    <3>2. CASE WinInitialize(d)
      <4>1. asking[d] \in Ids
        BY <3>2 DEF WinInitialize, At, Sessions, Orderly, Answering
      <4> DEFINE m == Request("initialize", nextRequest, <<d, asking[d]>>)
      <4>2. m.kind = "initialize" /\ m \in UpMsgs
        BY <4>1, Built, BuiltUp DEF Request, RequestTypes
      <4>3. Hold(d, <<m>>) /\ UNCHANGED <<obliged, queue, upstream>>
        BY <3>2 DEF WinInitialize, Proxy, peer
      <4> QED BY <4>2, <4>3
    <3> QED BY <1>5, <3>1, <3>2
  <2>2. held'[d] = <<m>> /\ \A e \in Clients : e # d => held'[e] = held[e]
    BY <2>1, OneTyped, HoldTypes
  <2>3. Back(d, n)' = 0
    <3>1. m \notin {Answered(n)}
      BY <2>1 DEF Answered
    <3>2. Back(d, n)' = N(m \in {Answered(n)})
      BY <2>2, CountOne, AskPrimes
    <3> QED BY <3>1, <3>2 DEF N
  <2>4. \A c \in Clients : Back(c, n)' <= Back(c, n)
    <3>1. \A c \in Clients \ {d} : Back(c, n)' = Back(c, n)
      BY <2>2, AskUnmoved
    <3> QED BY <1>0, <2>3, <3>1 DEF AskInNat
  <2> QED BY <1>0, <1>3, <2>1, <2>4, AskUnmoved DEF AskInNat
<1>6. CASE ReplyLocally(d)
  <2> DEFINE m == Reply(asking[d], TRUE, <<d, asking[d]>>)
  <2>1. queue' = [queue EXCEPT ![d] = Append(queue[d], m)] /\ UNCHANGED <<obliged, held, upstream>>
    BY <1>6 DEF ReplyLocally, peer
  <2>2. m \in DownMsgs(d)
    <3>1. asking[d] \in Ids
      BY <1>6 DEF ReplyLocally, At, Sessions, Orderly, Answering
    <3> QED BY <3>1, ReplyFits DEF DownMsgs
  <2>3. m # Push("ask", n)
    BY DEF Reply, Push
  <2> HIDE DEF m
  <2>4. queue'[d] = Append(queue[d], m) /\ \A e \in Clients \ {d} : queue'[e] = queue[e]
    BY <2>1 DEF QueueTypes
  <2>5. \A c \in Clients : Sent(c, n)' = Sent(c, n)
    BY <2>2, <2>3, <2>4, SentGains, AskUnmoved DEF Typed
  <2> QED BY <1>0, <1>3, <2>1, <2>5, AskUnmoved DEF AskInNat
<1>7. CASE EndSession(d)
  <2>1. queue' = [queue EXCEPT ![d] = <<>>] /\ UNCHANGED <<obliged, held, upstream>>
    BY <1>7 DEF EndSession, peer
  <2>2. queue'[d] = <<>> /\ \A e \in Clients \ {d} : queue'[e] = queue[e]
    BY <2>1 DEF QueueTypes
  <2>3. \A c \in Clients : Sent(c, n)' <= Sent(c, n)
    <3>1. Sent(d, n)' = 0 /\ \A c \in Clients \ {d} : Sent(c, n)' = Sent(c, n)
      BY <2>2, AskUnmoved
    <3> QED BY <1>0, <3>1 DEF AskInNat
  <2> QED BY <1>0, <1>3, <2>1, <2>3, AskUnmoved DEF AskInNat
<1>8. CASE ReadSettings(d) \/ \E e \in Docs : ReadOpen(d, e) \/ ReadClose(d, e)
  <2>1. PICK m \in UpMsgs :
            /\ Forward(d, m) \/ UNCHANGED <<held, task, upstream>>
            /\ m # Answered(n)
    <3>1. CASE ReadSettings(d)
      <4>1. Plain("settings") \in UpMsgs /\ Plain("settings") # Answered(n)
        BY Built, BuiltUp DEF Plain, Answered
      <4> QED BY <3>1, <4>1 DEF ReadSettings
    <3>2. ASSUME NEW e \in Docs, ReadOpen(d, e) \/ ReadClose(d, e)
          PROVE \E m \in UpMsgs :
                    /\ Forward(d, m) \/ UNCHANGED <<held, task, upstream>>
                    /\ m # Answered(n)
      <4>1. /\ Note("open", e) \in UpMsgs /\ Note("open", e) # Answered(n)
            /\ Note("close", e) \in UpMsgs /\ Note("close", e) # Answered(n)
        BY Built, BuiltUp DEF Note, Answered
      <4> QED BY <3>2, <4>1 DEF ReadOpen, ReadClose
    <3> QED BY <1>8, <3>1, <3>2
  <2>2. At(d, "reading") /\ UNCHANGED <<obliged, queue>>
    BY <1>8 DEF ReadSettings, ReadOpen, ReadClose, peer
  <2>3. (\A c \in Clients : Back(c, n)' = Back(c, n)) /\ AnsweredUp(n)' = AnsweredUp(n)
    BY <2>1, <2>2, ForwardAsks DEF Typed
  <2> QED BY <1>0, <1>3, <2>2, <2>3, AskUnmoved DEF AskInNat
<1>9. ASSUME NEW k \in obliged[d], ReadAnswer(d, k) PROVE Once(n)'
  <2>1. /\ At(d, "reading") /\ Forward(d, Answered(k))
        /\ obliged' = [obliged EXCEPT ![d] = obliged[d] \ {k}] /\ UNCHANGED queue
    BY <1>9 DEF ReadAnswer
  <2>2. obliged'[d] = obliged[d] \ {k} /\ \A e \in Clients \ {d} : obliged'[e] = obliged[e]
    BY <2>1 DEF SessionTypes
  <2>3. Answered(k) \in UpMsgs /\ (Answered(k) = Answered(n) <=> k = n)
    <3>1. k \in 1..MaxPushes
      BY DEF SessionTypes
    <3> QED BY <3>1, Built, BuiltUp DEF Answered
  <2>4. \A c \in Clients \ {d} : Back(c, n)' = Back(c, n)
    BY <2>1, <2>3, ForwardAsks DEF Typed
  <2>5. CASE k # n
    <3>1. Back(d, n)' = Back(d, n) /\ AnsweredUp(n)' = AnsweredUp(n)
      BY <2>1, <2>3, <2>5, ForwardAsks DEF Typed
    <3>2. \A c \in Clients : Due(c, n)' = Due(c, n)
      BY <2>2, <2>5, AskPrimes DEF Due, N
    <3> QED BY <1>0, <1>3, <2>1, <2>4, <3>1, <3>2, AskUnmoved DEF AskInNat
  <2>6. CASE k = n
    <3>1. \/ Back(d, n)' = Back(d, n) + 1 /\ AnsweredUp(n)' = AnsweredUp(n)
          \/ Back(d, n)' = Back(d, n) /\ AnsweredUp(n)' = AnsweredUp(n) + 1
      BY <2>1, <2>3, <2>6, ForwardAsks DEF Typed
    <3>2. Due(d, n) = 1 /\ Due(d, n)' = 0 /\ \A c \in Clients \ {d} : Due(c, n)' = Due(c, n)
      BY <2>2, <2>6, AskPrimes, AskUnmoved DEF Due, N
    <3>3. \A c \in Clients : Sent(c, n)' = Sent(c, n)
      BY <2>1, AskUnmoved
    <3>4. \A c \in Clients \ {d} : AskAt(c, n)' = AskAt(c, n) /\ AskAt(c, n) \in Nat
      BY <1>0, <2>4, <3>2, <3>3, AskPrimes DEF AskAt, AskInNat
    <3>5. CASE Back(d, n)' = Back(d, n) + 1 /\ AnsweredUp(n)' = AnsweredUp(n)
      <4>1. AskAt(d, n)' = AskAt(d, n) /\ AskAt(d, n) \in Nat
        BY <1>0, <3>2, <3>3, <3>5, AskPrimes DEF AskAt, AskInNat
      <4>2. \A c \in Clients : AskAt(c, n)' <= AskAt(c, n)
        BY <3>4, <4>1
      <4>3. AskShared(n)' = AskShared(n) /\ AskShared(n) \in Nat
        BY <1>0, <1>2, <3>5, AskPrimes DEF AskShared, AskInNat
      <4> QED BY <1>1, <4>2, <4>3, OnceFades DEF Typed
    <3>6. CASE Back(d, n)' = Back(d, n) /\ AnsweredUp(n)' = AnsweredUp(n) + 1
      <4>1. AskAt(d, n) = AskAt(d, n)' + 1
        BY <1>0, <3>2, <3>3, <3>6, AskPrimes DEF AskAt, AskInNat
      <4>2. AskShared(n)' = AskShared(n) + 1
        BY <1>0, <1>2, <3>6, AskPrimes DEF AskShared, AskInNat
      <4>3. \A c \in Clients \ {d} : AskAt(c, n)' <= AskAt(c, n)
        BY <3>4
      <4> QED BY <1>1, <4>1, <4>2, <4>3, OnceRises DEF Typed
    <3> QED BY <3>1, <3>5, <3>6
  <2> QED BY <2>5, <2>6
<1>10. CASE Send(d)
  <2> DEFINE m == Head(held[d])
  <2>1. /\ held[d] # <<>> /\ held[d] \in Seq(UpMsgs)
        /\ upstream' = Append(upstream, m) /\ Hold(d, Tail(held[d]))
        /\ UNCHANGED <<obliged, queue>>
    BY <1>10 DEF Send, UpstreamTypes, peer
  <2>2. m \in UpMsgs /\ Tail(held[d]) \in Seq(UpMsgs)
    BY <2>1, TakenTyped
  <2>3. CountIn({Answered(n)}, held[d]) = CountIn({Answered(n)}, Tail(held[d]))
                                          + N(m \in {Answered(n)})
    BY <2>1, CountTail
  <2> HIDE DEF m
  <2>4. held'[d] = Tail(held[d]) /\ \A e \in Clients : e # d => held'[e] = held[e]
    BY <2>1, <2>2, HoldTypes
  <2>5. Back(d, n) = Back(d, n)' + N(m \in {Answered(n)})
        /\ \A c \in Clients \ {d} : Back(c, n)' = Back(c, n)
    BY <2>3, <2>4, AskPrimes, AskUnmoved DEF Back
  <2>6. \A c \in Clients : Due(c, n)' = Due(c, n) /\ Sent(c, n)' = Sent(c, n)
    BY <2>1, AskUnmoved
  <2>7. CASE m # Answered(n)
    <3>1. Back(d, n) = Back(d, n)'
      BY <1>0, <2>5, <2>7 DEF N, AskInNat
    <3>2. AnsweredUp(n)' = AnsweredUp(n)
      BY <2>1, <2>2, <2>7, AnswersGain DEF Typed
    <3> QED BY <1>0, <1>3, <2>5, <2>6, <3>1, <3>2 DEF AskInNat
  <2>8. CASE m = Answered(n)
    <3>1. Back(d, n) = Back(d, n)' + 1
      BY <2>5, <2>8 DEF N
    <3>2. AnsweredUp(n)' = AnsweredUp(n) + 1
      BY <2>1, <2>2, <2>8, AnswersGain DEF Typed
    <3>3. AskAt(d, n) = AskAt(d, n)' + 1
      BY <1>0, <2>6, <3>1, AskPrimes DEF AskAt, AskInNat
    <3>4. AskShared(n)' = AskShared(n) + 1
      BY <1>0, <1>2, <3>2, AskPrimes DEF AskShared, AskInNat
    <3>5. \A c \in Clients \ {d} : AskAt(c, n)' <= AskAt(c, n)
      BY <1>0, <2>5, <2>6, AskPrimes DEF AskAt, AskInNat
    <3> QED BY <1>1, <3>3, <3>4, <3>5, OnceRises DEF Typed
  <2> QED BY <2>7, <2>8
<1>11. CASE DropLeases(d)
  <2>1. PICK closes \in Seq(Notes) :
            /\ closes \in Seq(UpMsgs)
            /\ \/ Hold(d, closes) /\ UNCHANGED upstream
               \/ upstream' = upstream \o closes /\ UNCHANGED held
    BY <1>11, DropTypes
  <2>2. ToSet(closes) \cap {Answered(n)} = {}
    BY MembersTyped DEF Notes, Answered
  <2>3. \A c \in Clients : Back(c, n)' <= Back(c, n)
    <3>1. CASE Hold(d, closes)
      <4>1. held'[d] = closes /\ \A e \in Clients : e # d => held'[e] = held[e]
        BY <2>1, <3>1, HoldTypes
      <4>2. Back(d, n)' = 0
        BY <2>1, <2>2, <4>1, CountNone, AskPrimes
      <4>3. \A c \in Clients \ {d} : Back(c, n)' = Back(c, n)
        BY <4>1, AskUnmoved
      <4>4. \A c \in Clients : Back(c, n) \in Nat
        BY <1>0 DEF AskInNat
      <4> QED BY <4>2, <4>3, <4>4
    <3>2. CASE UNCHANGED held
      BY <1>0, <3>2, AskUnmoved DEF AskInNat
    <3> QED BY <2>1, <3>1, <3>2
  <2>4. AnsweredUp(n)' = AnsweredUp(n)
    <3>1. CASE upstream' = upstream \o closes
      <4>1. upstream \in Seq(UpMsgs)
        BY DEF UpstreamTypes
      <4>2. CountIn({Answered(n)}, upstream \o closes) = CountIn({Answered(n)}, upstream)
        BY <2>1, <2>2, <4>1, CountConcat
      <4> QED BY <3>1, <4>2, AskPrimes DEF AnsweredUp
    <3> QED BY <2>1, <3>1, AskUnmoved
  <2>5. UNCHANGED <<obliged, queue>>
    BY <1>11 DEF DropLeases, peer
  <2> QED BY <1>0, <1>3, <2>3, <2>4, <2>5, AskUnmoved DEF AskInNat
<1> QED
  BY <1>4, <1>5, <1>6, <1>7, <1>8, <1>9, <1>10, <1>11 DEF TaskStep, PeerStep

LEMMA ReceiveAsks ==
  ASSUME Typed, Typed', NEW d \in Clients, Receive(d), NEW n \in 1..MaxPushes, Once(n)
  PROVE  Once(n)'
<1> USE DEF Typed
<1> DEFINE m == Head(queue[d])
<1>0. AskInNat(n) /\ AskInNat(n)'
  BY AskTyped, AskTypedNext
<1>1. /\ queue[d] # <<>> /\ queue' = [queue EXCEPT ![d] = Tail(queue[d])]
      /\ UNCHANGED <<held, upstream, reader, owed>>
  BY DEF Receive, broker, session, server
<1>2. queue'[d] = Tail(queue[d]) /\ \A e \in Clients \ {d} : queue'[e] = queue[e]
  BY <1>1 DEF QueueTypes
<1>3. queue[d] \in Seq(DownMsgs(d)) /\ m \in DownMsgs(d)
  BY <1>1, TakenTyped DEF QueueTypes
<1>4. Sent(d, n) = Sent(d, n)' + N(m \in {Push("ask", n)})
  BY <1>1, <1>2, <1>3, CountTail, AskPrimes DEF Sent
<1>5. /\ obliged'[d] = IF m.kind = "ask" THEN obliged[d] \cup {m.id} ELSE obliged[d]
      /\ \A e \in Clients \ {d} : obliged'[e] = obliged[e]
  <2>1. m.kind = "ask" => obliged' = [obliged EXCEPT ![d] = obliged[d] \cup {m.id}]
    BY DEF Receive
  <2>2. m.kind # "ask" => obliged' = obliged
    BY DEF Receive
  <2> QED BY <2>1, <2>2 DEF SessionTypes
<1> HIDE DEF m
<1>6. m.kind = "ask" => m = Push("ask", m.id)
  <2>1. m.kind = "ask" => m \in Asks
    BY <1>3, DownKinds
  <2> QED BY <2>1 DEF Asks, Push
<1>7. Due(d, n)' + Sent(d, n)' <= Due(d, n) + Sent(d, n)
  <2>1. CASE m = Push("ask", n)
    <3>1. Sent(d, n) = Sent(d, n)' + 1
      BY <1>4, <2>1 DEF N
    <3> QED BY <1>0, <3>1 DEF AskInNat
  <2>2. CASE m # Push("ask", n)
    <3>1. Sent(d, n) = Sent(d, n)'
      BY <1>0, <1>4, <2>2 DEF N, AskInNat
    <3>2. n \in obliged'[d] <=> n \in obliged[d]
      BY <1>5, <1>6, <2>2
    <3>3. Due(d, n)' = Due(d, n)
      BY <3>2, AskPrimes DEF Due, N
    <3> QED BY <1>0, <3>1, <3>3 DEF AskInNat
  <2> QED BY <2>1, <2>2
<1>8. \A c \in Clients : Back(c, n)' = Back(c, n)
  BY <1>1, AskUnmoved
<1>9. \A c \in Clients \ {d} : Due(c, n)' = Due(c, n) /\ Sent(c, n)' = Sent(c, n)
  BY <1>2, <1>5, AskUnmoved
<1>10. \A c \in Clients : AskAt(c, n)' <= AskAt(c, n)
  BY <1>0, <1>7, <1>8, <1>9, AskPrimes DEF AskAt, AskInNat
<1>11. AskShared(n)' <= AskShared(n)
  BY <1>0, <1>1, AskUnmoved, AskPrimes DEF AskShared, AskInNat
<1> QED BY <1>1, <1>10, <1>11, OnceFades DEF Typed

LEMMA PushAsks ==
  ASSUME Typed, Typed', AskOnce, NEW kind \in {"ask", "tell"}, TakePush(kind)
  PROVE  AskOnce'
<1> USE DEF Typed
<1> DEFINE k == pushes + 1
<1>1. /\ k \in 1..MaxPushes /\ pushes' = k /\ pushes \in Nat /\ reader = Idle
      /\ owed' = IF kind = "ask" THEN owed \cup {k} ELSE owed
      /\ UNCHANGED <<obliged, queue, held, upstream>>
  BY TakePushReader DEF TakePush, session, peer, ServerTypes
<1>2. \/ reader' = Idle
      \/ reader' \notin {Idle, Ended} /\ reader'.msg = Push(kind, k)
  BY TakePushReader DEF Idle, Ended
<1>3. \A n \in owed' : n <= pushes'
  BY <1>1 DEF AskOnce, ServerTypes
<1>4. ASSUME NEW n \in 1..MaxPushes PROVE Once(n)'
  <2>0. AskInNat(n) /\ AskInNat(n)' /\ Once(n)
    BY AskTyped, AskTypedNext DEF AskOnce
  <2>1. \A c \in Clients : AskAt(c, n)' = AskAt(c, n) /\ AskAt(c, n) \in Nat
    BY <1>1, <2>0, AskUnmoved, AskPrimes DEF AskAt, AskInNat
  <2>2. AnsweredUp(n)' = AnsweredUp(n) /\ Routed(n) = 0
    BY <1>1, AskUnmoved DEF Routed, N
  <2>3. CASE n = k /\ kind = "ask"
    <3>1. n \notin owed
      BY <1>1, <2>3 DEF AskOnce
    <3>2. AskShared(n) = 0 /\ \A c \in Clients : AskAt(c, n) = 0
      <4>1. AskShared(n) <= 0 /\ \A c \in Clients : AskAt(c, n) + AskShared(n) <= 0
        BY <2>0, <3>1 DEF Once, N
      <4> QED BY <2>0, <2>1, <4>1 DEF AskShared, AskInNat
    <3>3. AskShared(n)' <= 1 /\ AskShared(n)' \in Nat
      BY <2>0, <2>2, <3>2, AskPrimes DEF AskShared, AskInNat
    <3>4. n \in owed'
      BY <1>1, <2>3
    <3>5. \A c \in Clients : AskAt(c, n)' = 0
      BY <2>1, <3>2
    <3> QED BY <3>3, <3>4, <3>5 DEF Once, N
  <2>4. CASE ~(n = k /\ kind = "ask")
    <3>1. reader' \in {Idle, Ended} \/ reader'.msg # Push("ask", n)
      BY <1>2, <2>4 DEF Push
    <3>2. Routed(n)' = 0
      BY <3>1, AskPrimes DEF N
    <3>3. AskShared(n)' <= AskShared(n)
      BY <2>0, <2>2, <3>2, AskPrimes DEF AskShared, AskInNat
    <3>4. n \in owed => n \in owed'
      BY <1>1
    <3>5. \A c \in Clients : AskAt(c, n)' <= AskAt(c, n)
      BY <2>1
    <3> QED BY <2>0, <3>3, <3>4, <3>5, OnceFades DEF Typed
  <2> QED BY <2>3, <2>4
<1> QED BY <1>3, <1>4 DEF AskOnce

LEMMA ReaderAsks ==
  ASSUME Typed, Typed', Sessions, Tracked, ReaderStep,
         \A kind \in {"ask", "tell"} : ~TakePush(kind),
         NEW n \in 1..MaxPushes, Once(n)
  PROVE  Once(n)'
<1> USE DEF Typed
<1>0. AskInNat(n) /\ AskInNat(n)'
  BY AskTyped, AskTypedNext
<1>1. UNCHANGED <<obliged, held, owed>>
  BY DEF ReaderStep, TakeMessage, TakeReply, TakeStrayReply, KeepResult, GreetServer,
     ReleaseInitialize, NotifyWaiters, LookUp, SendDown, session, peer, server
<1>2. \A c \in Clients : Due(c, n)' = Due(c, n) /\ Back(c, n)' = Back(c, n)
  BY <1>1, AskUnmoved
<1>3. (/\ \A c \in Clients : Sent(c, n)' <= Sent(c, n)
       /\ Routed(n)' <= Routed(n) /\ AnsweredUp(n)' <= AnsweredUp(n)) => Once(n)'
  <2> SUFFICES ASSUME \A c \in Clients : Sent(c, n)' <= Sent(c, n),
                      Routed(n)' <= Routed(n), AnsweredUp(n)' <= AnsweredUp(n)
               PROVE  Once(n)'
    OBVIOUS
  <2>1. \A c \in Clients : AskAt(c, n)' <= AskAt(c, n)
    BY <1>0, <1>2, AskPrimes DEF AskAt, AskInNat
  <2>2. AskShared(n)' <= AskShared(n)
    BY <1>0, AskPrimes DEF AskShared, AskInNat
  <2> QED BY <1>1, <2>1, <2>2, OnceFades
<1>4. reader' \in {Idle, Ended} \/ reader'.msg # Push("ask", n) => Routed(n)' = 0
  BY AskPrimes DEF N
<1>5. ASSUME NEW m \in working, TakeStrayReply(m) \/ \E ok \in BOOLEAN : TakeReply(m, ok)
      PROVE Once(n)'
  <2>1. UNCHANGED <<queue, upstream>>
    BY <1>5 DEF TakeStrayReply, TakeReply
  <2>2. reader' = Idle \/ reader'.msg.kind = "reply"
    <3>1. CASE TakeStrayReply(m)
      <4>1. \E targets : Dispatch(targets, Reply(m.id, TRUE, m.about))
        BY <3>1 DEF TakeStrayReply
      <4> QED BY <4>1 DEF Dispatch, Reply
    <3>2. ASSUME NEW ok \in BOOLEAN, TakeReply(m, ok) PROVE reader'.msg.kind = "reply"
      BY <3>2 DEF TakeReply, Reply
    <3> QED BY <1>5, <3>1, <3>2
  <2>3. Routed(n)' = 0
    BY <1>4, <2>2 DEF Push
  <2> QED BY <1>0, <1>3, <2>1, <2>3, AskUnmoved DEF AskInNat
<1>6. CASE KeepResult \/ GreetServer \/ ReleaseInitialize \/ NotifyWaiters
  <2>1. PICK s \in {"hook", "greet", "notify", "lookup"} :
            /\ reader.at \in {"hook", "greet", "notify"} /\ reader' = [reader EXCEPT !.at = s]
            /\ UNCHANGED queue
            /\ UNCHANGED upstream \/ upstream' = Append(upstream, Plain("initialized"))
    BY <1>6 DEF KeepResult, GreetServer, ReleaseInitialize, NotifyWaiters
  <2>2. PICK e \in Clients : reader \in Carrying(e)
    BY <2>1, ReaderKinds
  <2>3. reader'.msg = reader.msg /\ reader.msg \in RepliesTo(e)
    BY <2>1, <2>2, MovesOn DEF Carrying
  <2>4. Routed(n)' = 0
    BY <1>4, <2>3 DEF RepliesTo, Reply, Push
  <2>5. AnsweredUp(n)' = AnsweredUp(n)
    <3>1. Plain("initialized") \in UpMsgs /\ Plain("initialized") # Answered(n)
      BY Built, BuiltUp DEF Plain, Answered
    <3> QED BY <2>1, <3>1, AnswersGain, AskUnmoved DEF Typed
  <2> QED BY <1>0, <1>3, <2>1, <2>4, <2>5, AskUnmoved DEF AskInNat
<1>7. CASE LookUp
  <2>1. PICK e \in Clients : reader \in Carrying(e)
    BY <1>7, ReaderKinds DEF LookUp
  <2>2. reader' = Idle \/ reader'.msg = reader.msg
    BY <1>7 DEF LookUp, Dispatch
  <2>3. Routed(n)' = 0
    BY <1>4, <2>1, <2>2 DEF Carrying, RepliesTo, Reply, Push
  <2>4. UNCHANGED <<queue, upstream>>
    BY <1>7 DEF LookUp
  <2> QED BY <1>0, <1>3, <2>3, <2>4, AskUnmoved DEF AskInNat
<1>8. CASE SendDown
  <2>1. PICK e \in Clients :
            /\ e = Head(reader.to) /\ reader.at = "send" /\ reader.msg \in DownMsgs(e)
            /\ reader \notin {Idle, Ended}
    BY <1>8, SentFits DEF SendDown, Idle, Ended
  <2>2. /\ \/ UNCHANGED queue
           \/ queue' = [queue EXCEPT ![e] = Append(queue[e], reader.msg)]
        /\ reader' = IF Tail(reader.to) = <<>> THEN Idle
                     ELSE [at |-> "send", to |-> Tail(reader.to), msg |-> reader.msg]
        /\ UNCHANGED upstream
    BY <1>8, <2>1 DEF SendDown, Dispatch
  <2>3. \/ UNCHANGED queue
        \/ /\ queue'[e] = Append(queue[e], reader.msg)
           /\ \A f \in Clients \ {e} : queue'[f] = queue[f]
    <3>1. queue = [f \in Clients |-> queue[f]]
      BY DEF Typed, QueueTypes
    <3> QED BY <2>1, <2>2, <3>1
  <2>4. AnsweredUp(n)' = AnsweredUp(n)
    BY <2>2, AskUnmoved
  <2>5. CASE reader.msg # Push("ask", n)
    <3>1. reader' = Idle \/ reader'.msg = reader.msg
      BY <2>2
    <3>2. Routed(n)' = 0
      BY <1>4, <2>5, <3>1
    <3>3. \A c \in Clients : Sent(c, n)' = Sent(c, n)
      BY <2>1, <2>3, <2>5, SentGains, AskUnmoved DEF Typed
    <3> QED BY <1>0, <1>3, <2>4, <3>2, <3>3 DEF AskInNat
  <2>6. CASE reader.msg = Push("ask", n)
    <3>1. reader.msg.kind = "ask"
      BY <2>6 DEF Push
    <3>2. reader \notin Widely
      BY <3>1, StrayFacts DEF Widely, Tells
    <3>3. PICK f \in Clients : reader \in Singly(f)
      BY <2>1, <3>2, ReaderKinds
    <3>4. Tail(reader.to) = <<>>
      BY <3>3, OneTyped DEF Singly
    <3>5. reader' = Idle
      BY <2>2, <3>4
    <3>6. Routed(n)' = 0
      BY <1>4, <3>5
    <3>7. Routed(n) = 1
      BY <2>1, <2>6 DEF Routed, N
    <3>8. CASE UNCHANGED queue
      BY <1>0, <1>3, <2>4, <3>6, <3>8, AskUnmoved DEF AskInNat
    <3>9. CASE /\ queue'[e] = Append(queue[e], reader.msg)
               /\ \A c \in Clients \ {e} : queue'[c] = queue[c]
      <4>1. /\ Sent(e, n)' = Sent(e, n) + 1
            /\ \A c \in Clients \ {e} : Sent(c, n)' = Sent(c, n)
        <5>1. Sent(e, n)' = Sent(e, n) + 1
          BY <2>1, <2>6, <3>9, SentGains DEF Typed
        <5>2. \A c \in Clients \ {e} : Sent(c, n)' = Sent(c, n)
          BY <3>9, AskUnmoved
        <5> QED BY <5>1, <5>2
      <4>2. AskAt(e, n)' = AskAt(e, n) + 1
        BY <1>0, <1>2, <2>1, <4>1, AskPrimes DEF AskAt, AskInNat
      <4>3. AskShared(n) = AskShared(n)' + 1
        BY <1>0, <2>4, <3>6, <3>7, AskPrimes DEF AskShared, AskInNat
      <4>4. \A c \in Clients \ {e} : AskAt(c, n)' <= AskAt(c, n)
        BY <1>0, <1>2, <4>1, AskPrimes DEF AskAt, AskInNat
      <4> QED BY <1>1, <2>1, <4>2, <4>3, <4>4, OnceDescends DEF Typed
    <3> QED BY <2>3, <3>8, <3>9
  <2> QED BY <2>5, <2>6
<1> QED BY <1>5, <1>6, <1>7, <1>8 DEF ReaderStep, TakeMessage

LEMMA ServerAsks ==
  ASSUME Typed, Typed', ServerReads \/ ServerEnds \/ EndStep \/ UNCHANGED vars,
         NEW n \in 1..MaxPushes, Once(n)
  PROVE  Once(n)'
<1> USE DEF Typed
<1>0. AskInNat(n) /\ AskInNat(n)'
  BY AskTyped, AskTypedNext
<1>1. (/\ n \in owed => n \in owed'
       /\ \A c \in Clients : /\ Due(c, n)' <= Due(c, n) /\ Sent(c, n)' <= Sent(c, n)
                             /\ Back(c, n)' <= Back(c, n)
       /\ Routed(n)' <= Routed(n) /\ AnsweredUp(n)' <= AnsweredUp(n)) => Once(n)'
  <2> SUFFICES ASSUME n \in owed => n \in owed',
                      \A c \in Clients : /\ Due(c, n)' <= Due(c, n)
                                         /\ Sent(c, n)' <= Sent(c, n)
                                         /\ Back(c, n)' <= Back(c, n),
                      Routed(n)' <= Routed(n), AnsweredUp(n)' <= AnsweredUp(n)
               PROVE  Once(n)'
    OBVIOUS
  <2>1. \A c \in Clients : AskAt(c, n)' <= AskAt(c, n)
    BY <1>0, AskPrimes DEF AskAt, AskInNat
  <2>2. AskShared(n)' <= AskShared(n)
    BY <1>0, AskPrimes DEF AskShared, AskInNat
  <2> QED BY <2>1, <2>2, OnceFades
<1>2. CASE ServerReads
  <2> DEFINE m == Head(upstream)
  <2>1. /\ upstream # <<>> /\ upstream' = Tail(upstream) /\ upstream \in Seq(UpMsgs)
        /\ owed' = IF m.kind = "answer" THEN owed \ {m.id} ELSE owed
        /\ UNCHANGED <<obliged, queue, held, reader>>
    BY <1>2 DEF ServerReads, UpstreamTypes, broker, session, peer
  <2>2. m \in UpMsgs
    BY <2>1, TakenTyped
  <2>3. AnsweredUp(n) = AnsweredUp(n)' + N(m \in {Answered(n)})
    BY <2>1, CountTail, AskPrimes DEF AnsweredUp
  <2> HIDE DEF m
  <2>4. m.kind = "answer" => m = Answered(m.id)
    <3>1. m.kind = "answer" => m \in Answers
      BY <2>2, UpKinds
    <3> QED BY <3>1 DEF Answers, Answered
  <2>5. /\ \A c \in Clients : /\ Due(c, n)' = Due(c, n) /\ Sent(c, n)' = Sent(c, n)
                              /\ Back(c, n)' = Back(c, n)
        /\ Routed(n)' = Routed(n)
    BY <2>1, AskUnmoved
  <2>6. CASE m # Answered(n)
    <3>1. AnsweredUp(n)' = AnsweredUp(n)
      BY <1>0, <2>3, <2>6 DEF N, AskInNat
    <3>2. n \in owed => n \in owed'
      BY <2>1, <2>4, <2>6
    <3> QED BY <1>0, <1>1, <2>5, <3>1, <3>2 DEF AskInNat
  <2>7. CASE m = Answered(n)
    <3>1. AnsweredUp(n) = AnsweredUp(n)' + 1
      BY <2>3, <2>7 DEF N
    <3>2. AskShared(n) = AskShared(n)' + 1 /\ AskShared(n)' \in Nat
      BY <1>0, <2>5, <3>1, AskPrimes DEF AskShared, AskInNat
    <3>3. AskShared(n) <= N(n \in owed)
      BY DEF Once
    <3>4. AskShared(n) = 1 /\ AskShared(n)' = 0 /\ N(n \in owed) = 1
      BY <3>2, <3>3 DEF N
    <3>5. \A c \in Clients : AskAt(c, n)' = 0
      <4> SUFFICES ASSUME NEW c \in Clients PROVE AskAt(c, n)' = 0
        OBVIOUS
      <4>1. AskAt(c, n) + AskShared(n) <= N(n \in owed)
        BY DEF Once
      <4>2. AskAt(c, n)' = AskAt(c, n) /\ AskAt(c, n) \in Nat
        BY <1>0, <2>5, AskPrimes DEF AskAt, AskInNat
      <4> QED BY <3>4, <4>1, <4>2
    <3>6. N(n \in owed') \in Nat
      BY DEF N
    <3> QED BY <3>4, <3>5, <3>6 DEF Once, N
  <2> QED BY <2>6, <2>7
<1>3. CASE ServerEnds
  <2>1. UNCHANGED <<obliged, queue, held, upstream, owed>> /\ reader' = Ended
    BY <1>3 DEF ServerEnds, session, peer, server
  <2>2. Routed(n)' = 0
    BY <2>1, AskPrimes DEF N
  <2> QED BY <1>0, <1>1, <2>1, <2>2, AskUnmoved DEF AskInNat
<1>4. CASE RetireShutdown \/ RetireExit
  <2>1. PICK m \in UpMsgs : upstream' = Append(upstream, m) /\ m # Answered(n)
    <3>1. nextRequest \in Nat
      BY DEF RequestTypes
    <3>2. /\ Request("shutdown", nextRequest, <<nextRequest>>) \in UpMsgs
          /\ Request("shutdown", nextRequest, <<nextRequest>>) # Answered(n)
          /\ Plain("exit") \in UpMsgs /\ Plain("exit") # Answered(n)
      BY <3>1, Built, BuiltUp DEF Request, Plain, Answered
    <3> QED BY <1>4, <3>2 DEF RetireShutdown, RetireExit
  <2>2. UNCHANGED <<obliged, queue, held, reader, owed>>
    BY <1>4 DEF RetireShutdown, RetireExit, session, peer, server
  <2>3. AnsweredUp(n)' = AnsweredUp(n)
    BY <2>1, AnswersGain DEF Typed
  <2> QED BY <1>0, <1>1, <2>2, <2>3, AskUnmoved DEF AskInNat
<1>5. CASE BrokerExits
  <2>1. /\ \A c \in Clients : held'[c] = <<>> /\ queue'[c] = <<>>
        /\ reader' = Ended /\ UNCHANGED <<obliged, upstream, owed>>
    BY <1>5 DEF BrokerExits, peer, server
  <2>2. Routed(n)' = 0
    BY <2>1, AskPrimes DEF N
  <2>3. \A c \in Clients : Sent(c, n)' = 0 /\ Back(c, n)' = 0 /\ Due(c, n)' = Due(c, n)
    BY <2>1, AskUnmoved
  <2> QED BY <1>0, <1>1, <2>1, <2>2, <2>3, AskUnmoved DEF AskInNat
<1>6. CASE UNCHANGED vars
  <2>1. UNCHANGED <<obliged, queue, held, upstream, owed, reader>>
    BY <1>6 DEF vars, broker, session, peer, server
  <2> QED BY <1>0, <1>1, <2>1, AskUnmoved DEF AskInNat
<1> QED BY <1>2, <1>3, <1>4, <1>5, <1>6 DEF EndStep

LEMMA StepAskOnce ==
  ASSUME Typed, Typed', Sessions, Tracked, AskOnce, [Next]_vars
  PROVE  AskOnce'
<1>1. CASE \E kind \in {"ask", "tell"} : TakePush(kind)
  BY <1>1, PushAsks
<1>2. CASE \A kind \in {"ask", "tell"} : ~TakePush(kind)
  <2>1. \A n \in owed' : n <= pushes'
    <3>1. owed' \subseteq owed /\ UNCHANGED pushes
      <4>1. ASSUME NEW d \in Clients, TaskStep(d) \/ PeerStep(d) PROVE UNCHANGED server
        <5>1. CASE TaskStep(d)
          BY <5>1 DEF TaskStep, Enrol, CheckCache, WinInitialize, LoseInitialize, Wake,
             ReplyLocally, Send, DropLeases, EndSession
        <5>2. CASE PeerStep(d)
          BY <5>2 DEF PeerStep, Register, ReadRequest, ReadShutdown, ReadInitialize,
             ReadSettings, ReadAnswer, ReadOpen, ReadClose, Leave
        <5> QED BY <4>1, <5>1, <5>2
      <4>2. ASSUME NEW d \in Clients, Receive(d) PROVE UNCHANGED server
        BY <4>2 DEF Receive
      <4>3. CASE ReaderStep
        BY <1>2, <4>3 DEF ReaderStep, TakeMessage, TakeReply, TakeStrayReply, KeepResult,
           GreetServer, ReleaseInitialize, NotifyWaiters, LookUp, SendDown, server
      <4>4. CASE ServerReads
        BY <4>4 DEF ServerReads
      <4>5. CASE ServerEnds \/ EndStep \/ AllOver \/ UNCHANGED vars
        BY <4>5 DEF ServerEnds, EndStep, RetireShutdown, RetireExit, BrokerExits, AllOver,
           vars, server
      <4> QED BY <4>1, <4>2, <4>3, <4>4, <4>5 DEF Next, server
    <3> QED BY <3>1 DEF AskOnce
  <2>2. ASSUME NEW n \in 1..MaxPushes PROVE Once(n)'
    <3>1. Once(n)
      BY DEF AskOnce
    <3>2. ASSUME NEW d \in Clients, TaskStep(d) \/ PeerStep(d) PROVE Once(n)'
      BY <3>1, <3>2, SessionAsks
    <3>3. ASSUME NEW d \in Clients, Receive(d) PROVE Once(n)'
      BY <3>1, <3>3, ReceiveAsks
    <3>4. CASE ReaderStep
      BY <1>2, <3>1, <3>4, ReaderAsks
    <3>5. CASE ServerReads \/ ServerEnds \/ EndStep \/ AllOver \/ UNCHANGED vars
      BY <3>1, <3>5, ServerAsks DEF AllOver
    <3> QED BY <3>2, <3>3, <3>4, <3>5 DEF Next
  <2> QED BY <2>1, <2>2 DEF AskOnce
<1> QED BY <1>1, <1>2

-----------------------------------------------------------------------------
(* Documents of the server and leases of the sessions *)

NotesOn(d) == {Note("open", d), Note("close", d)}
LastNote(d, s, i) ==
    /\ s[i] \in NotesOn(d)
    /\ \A j \in DOMAIN s : j > i => s[j] \notin NotesOn(d)

\* What the notifications s will make of the document in a server that has
\* `open` open is what its leases `own` say.
InStep(d, s, open, own) ==
    /\ \A i \in DOMAIN s : LastNote(d, s, i) => (s[i].kind = "open" <=> own # {})
    /\ (\A i \in DOMAIN s : s[i] \notin NotesOn(d)) => (d \in open <=> own # {})

InSync == ~LeaseRaces => \A d \in Docs : InStep(d, upstream, serverOpen, owners[d])

LEMMA InSyncNext ==
  InSync' <=> (~LeaseRaces => \A d \in Docs : InStep(d, upstream', serverOpen', owners'[d]))
  BY DEF InSync, InStep, LastNote, NotesOn, Note

LEMMA NoteFacts ==
  ASSUME NEW d \in Docs
  PROVE  /\ Note("open", d) \in NotesOn(d) /\ Note("close", d) \in NotesOn(d)
         /\ Note("open", d).kind = "open" /\ Note("close", d).kind = "close"
         /\ Note("open", d) # Note("close", d)
         /\ \A m \in NotesOn(d) : m.kind \in {"open", "close"} /\ m.doc = d
         /\ \A m \in Notes : m \notin NotesOn(d) <=> m.doc # d
         /\ \A m \in UpMsgs \ Notes : m \notin NotesOn(d)
<1>1. \A m \in Notes : m \notin NotesOn(d) <=> m.doc # d
  BY DEF NotesOn, Note, Notes
<1>2. Note("open", d) # Note("close", d)
  <2>1. Note("open", d).kind = "open" /\ Note("close", d).kind = "close"
    BY DEF Note
  <2> QED BY <2>1
<1>3. \A m \in UpMsgs \ Notes : m \notin NotesOn(d)
  BY Built DEF NotesOn
<1> QED BY <1>1, <1>2, <1>3 DEF NotesOn, Note

LEMMA OtherAppended ==
  ASSUME NEW d, NEW s \in Seq(UpMsgs), NEW m \in UpMsgs, NEW open, NEW own,
         m \notin NotesOn(d), InStep(d, s, open, own)
  PROVE  InStep(d, Append(s, m), open, own)
<1> DEFINE t == Append(s, m)
<1>1. /\ Len(s) \in Nat /\ DOMAIN s = 1..Len(s) /\ DOMAIN t = 1..(Len(s) + 1)
      /\ t[Len(s) + 1] = m /\ \A i \in 1..Len(s) : t[i] = s[i]
  OBVIOUS
<1> HIDE DEF t
<1>2. ASSUME NEW i \in DOMAIN t, LastNote(d, t, i) PROVE t[i].kind = "open" <=> own # {}
  <2>1. i \in 1..Len(s)
    BY <1>1, <1>2 DEF LastNote
  <2>2. LastNote(d, s, i)
    BY <1>1, <1>2, <2>1 DEF LastNote
  <2> QED BY <1>1, <2>1, <2>2 DEF InStep
<1>3. ASSUME \A i \in DOMAIN t : t[i] \notin NotesOn(d) PROVE d \in open <=> own # {}
  <2>1. \A i \in DOMAIN s : s[i] \notin NotesOn(d)
    BY <1>1, <1>3
  <2> QED BY <2>1 DEF InStep
<1>4. InStep(d, t, open, own)
  BY <1>2, <1>3 DEF InStep
<1> QED BY <1>4 DEF t

LEMMA NoteAppended ==
  ASSUME NEW d, NEW s \in Seq(UpMsgs), NEW m \in NotesOn(d), m \in UpMsgs,
         NEW open, NEW own, m.kind = "open" <=> own # {}
  PROVE  InStep(d, Append(s, m), open, own)
<1> DEFINE t == Append(s, m)
<1>1. /\ Len(s) \in Nat /\ DOMAIN t = 1..(Len(s) + 1) /\ t[Len(s) + 1] = m
  OBVIOUS
<1> HIDE DEF t
<1>2. ASSUME NEW i \in DOMAIN t, LastNote(d, t, i) PROVE i = Len(s) + 1
  <2>1. ~(Len(s) + 1 > i)
    BY <1>1, <1>2 DEF LastNote
  <2> QED BY <1>1, <2>1
<1>3. InStep(d, t, open, own)
  BY <1>1, <1>2 DEF InStep
<1> QED BY <1>3 DEF t

LEMMA NotesConcat ==
  ASSUME NEW d \in Docs, NEW s \in Seq(UpMsgs), NEW t \in Seq(Notes), t \in Seq(UpMsgs),
         NEW open, NEW own, NEW gone, InStep(d, s, open, own), Note("open", d) \notin ToSet(t),
         IF Note("close", d) \in ToSet(t) THEN gone = {} ELSE (gone = {} <=> own = {})
  PROVE  InStep(d, s \o t, open, gone)
<1> DEFINE u == s \o t
<1>1. /\ DOMAIN s = 1..Len(s) /\ DOMAIN t = 1..Len(t) /\ Len(s) \in Nat /\ Len(t) \in Nat
      /\ DOMAIN u = 1..(Len(s) + Len(t))
      /\ \A i \in 1..Len(s) : u[i] = s[i]
      /\ \A i \in 1..Len(t) : u[Len(s) + i] = t[i]
  OBVIOUS
<1>2. \A i \in 1..Len(t) : t[i] \in ToSet(t)
  BY <1>1 DEF ToSet
<1> HIDE DEF u
<1>3. CASE Note("close", d) \in ToSet(t)
  <2>1. PICK k \in 1..Len(t) : t[k] = Note("close", d)
    BY <1>1, <1>3 DEF ToSet
  <2>2. Len(s) + k \in DOMAIN u /\ u[Len(s) + k] \in NotesOn(d)
    BY <1>1, <2>1, NoteFacts
  <2>3. ASSUME NEW i \in DOMAIN u, LastNote(d, u, i) PROVE u[i].kind # "open"
    <3>1. i >= Len(s) + k
      BY <1>1, <2>2, <2>3 DEF LastNote
    <3>2. i - Len(s) \in 1..Len(t) /\ u[i] = t[i - Len(s)]
      <4>1. i - Len(s) \in 1..Len(t) /\ Len(s) + (i - Len(s)) = i
        BY <1>1, <3>1
      <4> QED BY <1>1, <4>1
    <3>3. u[i] \in NotesOn(d) /\ u[i] # Note("open", d)
      BY <1>2, <2>3, <3>2 DEF LastNote
    <3>4. u[i] = Note("close", d)
      BY <3>3 DEF NotesOn
    <3> QED BY <3>4, NoteFacts
  <2> QED BY <1>3, <2>2, <2>3 DEF InStep, u
<1>4. CASE Note("close", d) \notin ToSet(t)
  <2>1. \A i \in 1..Len(t) : u[Len(s) + i] \notin NotesOn(d)
    BY <1>1, <1>2, <1>4 DEF NotesOn
  <2>2. \A i \in DOMAIN u : i > Len(s) => u[i] \notin NotesOn(d)
    <3> SUFFICES ASSUME NEW i \in DOMAIN u, i > Len(s) PROVE u[i] \notin NotesOn(d)
      OBVIOUS
    <3>1. i - Len(s) \in 1..Len(t) /\ Len(s) + (i - Len(s)) = i
      BY <1>1
    <3> QED BY <2>1, <3>1
  <2>3. ASSUME NEW i \in DOMAIN u, LastNote(d, u, i) PROVE u[i].kind = "open" <=> gone # {}
    <3>1. i \in 1..Len(s)
      BY <1>1, <2>2, <2>3 DEF LastNote
    <3>2. LastNote(d, s, i)
      BY <1>1, <2>3, <3>1 DEF LastNote
    <3> QED BY <1>1, <1>4, <3>1, <3>2 DEF InStep
  <2>4. ASSUME \A i \in DOMAIN u : u[i] \notin NotesOn(d) PROVE d \in open <=> gone # {}
    <3>1. \A i \in DOMAIN s : s[i] \notin NotesOn(d)
      BY <1>1, <2>4
    <3> QED BY <1>4, <3>1 DEF InStep
  <2>5. InStep(d, u, open, gone)
    BY <2>3, <2>4 DEF InStep
  <2> QED BY <2>5 DEF u
<1> QED BY <1>3, <1>4

LEMMA NoteRead ==
  ASSUME NEW d \in Docs, NEW s \in Seq(UpMsgs), s # <<>>, NEW open, NEW after, NEW own,
         InStep(d, s, open, own),
         IF Head(s) \in NotesOn(d) THEN d \in after <=> Head(s).kind = "open"
         ELSE d \in after <=> d \in open
  PROVE  InStep(d, Tail(s), after, own)
<1> DEFINE t == Tail(s)
<1>1. /\ Len(s) \in Nat \ {0} /\ DOMAIN s = 1..Len(s) /\ DOMAIN t = 1..(Len(s) - 1)
      /\ Head(s) = s[1] /\ \A i \in 1..(Len(s) - 1) : t[i] = s[i + 1]
  BY MembersTail
<1> HIDE DEF t
<1>2. ASSUME NEW i \in DOMAIN t, LastNote(d, t, i) PROVE t[i].kind = "open" <=> own # {}
  <2>1. i + 1 \in DOMAIN s /\ s[i + 1] = t[i]
    BY <1>1
  <2>2. ASSUME NEW j \in DOMAIN s, j > i + 1 PROVE s[j] \notin NotesOn(d)
    <3>1. j - 1 \in DOMAIN t /\ j - 1 > i /\ (j - 1) + 1 = j
      BY <1>1, <2>2
    <3>2. t[j - 1] = s[j]
      BY <1>1, <3>1
    <3> QED BY <1>2, <3>1, <3>2 DEF LastNote
  <2>3. LastNote(d, s, i + 1)
    BY <1>2, <2>1, <2>2 DEF LastNote
  <2> QED BY <2>1, <2>3 DEF InStep
<1>3. ASSUME \A i \in DOMAIN t : t[i] \notin NotesOn(d) PROVE d \in after <=> own # {}
  <2>1. \A j \in DOMAIN s : j > 1 => s[j] \notin NotesOn(d)
    <3> SUFFICES ASSUME NEW j \in DOMAIN s, j > 1 PROVE s[j] \notin NotesOn(d)
      OBVIOUS
    <3>1. j - 1 \in DOMAIN t /\ (j - 1) + 1 = j
      BY <1>1
    <3>2. t[j - 1] = s[j]
      BY <1>1, <3>1
    <3> QED BY <1>3, <3>1, <3>2
  <2>2. CASE s[1] \in NotesOn(d)
    <3>1. LastNote(d, s, 1) /\ 1 \in DOMAIN s
      BY <1>1, <2>1, <2>2 DEF LastNote
    <3> QED BY <1>1, <2>2, <3>1 DEF InStep
  <2>3. CASE s[1] \notin NotesOn(d)
    <3>1. \A j \in DOMAIN s : s[j] \notin NotesOn(d)
      BY <1>1, <2>1, <2>3
    <3> QED BY <1>1, <2>3, <3>1 DEF InStep
  <2> QED BY <2>2, <2>3
<1>4. InStep(d, t, after, own)
  BY <1>2, <1>3 DEF InStep
<1> QED BY <1>4 DEF t

LEMMA InitInSync == Init => InSync
<1> SUFFICES ASSUME Init, NEW d \in Docs PROVE InStep(d, upstream, serverOpen, owners[d])
  BY DEF InSync
<1>1. DOMAIN upstream = {} /\ d \notin serverOpen /\ owners[d] = {}
  BY DEF Init
<1> QED BY <1>1 DEF InStep

LEMMA StepInSync ==
  ASSUME Typed, Sessions, InSync, [Next]_vars
  PROVE  InSync'
<1> USE DEF Typed
<1> SUFFICES ASSUME ~LeaseRaces, NEW d \in Docs
             PROVE  InStep(d, upstream', serverOpen', owners'[d])
  BY InSyncNext
<1>0. InStep(d, upstream, serverOpen, owners[d]) /\ upstream \in Seq(UpMsgs)
  BY DEF InSync, UpstreamTypes
<1>1. ASSUME UNCHANGED <<upstream, owners, serverOpen>>
      PROVE InStep(d, upstream', serverOpen', owners'[d])
  BY <1>0, <1>1
<1>2. ASSUME NEW m \in UpMsgs, m \notin NotesOn(d), upstream' = Append(upstream, m),
             UNCHANGED serverOpen, owners'[d] = {} <=> owners[d] = {}
      PROVE InStep(d, upstream', serverOpen', owners'[d])
  <2>1. InStep(d, Append(upstream, m), serverOpen, owners[d])
    BY <1>0, <1>2, OtherAppended
  <2> QED BY <1>2, <2>1 DEF InStep
<1>3. ASSUME NEW c \in Clients, ReadSettings(c) \/ \E n \in obliged[c] : ReadAnswer(c, n)
      PROVE InStep(d, upstream', serverOpen', owners'[d])
  <2>1. PICK m \in UpMsgs \ Notes : Forward(c, m)
    <3>1. CASE ReadSettings(c)
      <4>1. Plain("settings") \in UpMsgs \ Notes
        BY Built, BuiltUp DEF Plain, Notes
      <4> QED BY <3>1, <4>1 DEF ReadSettings
    <3>2. ASSUME NEW n \in obliged[c], ReadAnswer(c, n)
          PROVE Answered(n) \in UpMsgs \ Notes /\ Forward(c, Answered(n))
      <4>1. n \in 1..MaxPushes
        BY DEF SessionTypes
      <4> QED BY <3>2, <4>1, Built, BuiltUp DEF ReadAnswer, Answered, Notes
    <3> QED BY <1>3, <3>1, <3>2
  <2>2. upstream' = Append(upstream, m)
    BY <2>1 DEF Forward
  <2>3. UNCHANGED <<owners, serverOpen>>
    BY <1>3 DEF ReadSettings, ReadAnswer, server
  <2>4. m \notin NotesOn(d)
    BY <2>1, NoteFacts
  <2> QED BY <1>2, <2>1, <2>2, <2>3, <2>4
<1>4. ASSUME NEW c \in Clients, NEW e \in Docs, ReadOpen(c, e)
      PROVE InStep(d, upstream', serverOpen', owners'[d])
  <2>1. /\ owners' = [owners EXCEPT ![e] = owners[e] \cup {c}] /\ UNCHANGED serverOpen
        /\ IF owners[e] = {} THEN Forward(c, Note("open", e))
           ELSE UNCHANGED <<held, task, upstream>>
    BY <1>4 DEF ReadOpen, server
  <2>2. owners'[e] = owners[e] \cup {c} /\ \A f \in Docs \ {e} : owners'[f] = owners[f]
    BY <2>1 DEF BrokerTypes
  <2>3. Note("open", e) \in Notes /\ Note("open", e) \in UpMsgs
    BY Built, BuiltUp
  <2>4. CASE owners[e] = {} /\ e = d
    <3>1. upstream' = Append(upstream, Note("open", d))
      BY <2>1, <2>4 DEF Forward
    <3>2. owners'[d] # {}
      BY <2>2, <2>4
    <3> QED BY <1>0, <2>3, <2>4, <3>1, <3>2, NoteFacts, NoteAppended
  <2>5. CASE owners[e] = {} /\ e # d
    <3>1. upstream' = Append(upstream, Note("open", e)) /\ owners'[d] = owners[d]
      BY <2>1, <2>2, <2>5 DEF Forward
    <3>2. Note("open", e) \notin NotesOn(d)
      BY <2>5 DEF NotesOn, Note
    <3> QED BY <1>2, <2>1, <2>3, <3>1, <3>2
  <2>6. CASE owners[e] # {}
    <3>1. upstream' = upstream /\ (owners'[d] = {} <=> owners[d] = {})
      BY <2>1, <2>2, <2>6
    <3> QED BY <1>0, <2>1, <3>1 DEF InStep
  <2> QED BY <2>4, <2>5, <2>6
<1>5. ASSUME NEW c \in Clients, NEW e \in Docs, ReadClose(c, e)
      PROVE InStep(d, upstream', serverOpen', owners'[d])
  <2>1. /\ owners' = [owners EXCEPT ![e] = owners[e] \ {c}] /\ UNCHANGED serverOpen
        /\ IF owners'[e] = {} THEN Forward(c, Note("close", e))
           ELSE UNCHANGED <<held, task, upstream>>
        /\ owners[e] # {}
    BY <1>5 DEF ReadClose, HasOpen, server
  <2>2. owners'[e] = owners[e] \ {c} /\ \A f \in Docs \ {e} : owners'[f] = owners[f]
    BY <2>1 DEF BrokerTypes
  <2>3. Note("close", e) \in Notes /\ Note("close", e) \in UpMsgs
    BY Built, BuiltUp
  <2>4. CASE owners'[e] = {} /\ e = d
    <3>1. upstream' = Append(upstream, Note("close", d))
      BY <2>1, <2>4 DEF Forward
    <3> QED BY <1>0, <2>3, <2>4, <3>1, NoteFacts, NoteAppended
  <2>5. CASE owners'[e] = {} /\ e # d
    <3>1. upstream' = Append(upstream, Note("close", e)) /\ owners'[d] = owners[d]
      BY <2>1, <2>2, <2>5 DEF Forward
    <3>2. Note("close", e) \notin NotesOn(d)
      BY <2>5 DEF NotesOn, Note
    <3> QED BY <1>2, <2>1, <2>3, <3>1, <3>2
  <2>6. CASE owners'[e] # {}
    <3>1. upstream' = upstream /\ (owners'[d] = {} <=> owners[d] = {})
      BY <2>1, <2>2, <2>6
    <3> QED BY <1>0, <2>1, <3>1 DEF InStep
  <2> QED BY <2>4, <2>5, <2>6
<1>6. ASSUME NEW c \in Clients, Send(c) PROVE InStep(d, upstream', serverOpen', owners'[d])
  <2>1. held[c] # <<>> /\ held[c] \in Seq(Requests) /\ upstream' = Append(upstream, Head(held[c]))
        /\ UNCHANGED <<owners, serverOpen>>
    BY <1>6 DEF Send, Sessions, Orderly, server
  <2>2. Head(held[c]) \in Requests
    BY <2>1, TakenTyped
  <2>3. Head(held[c]) \in UpMsgs \ Notes
    BY <2>2, BuiltUp DEF Requests, Notes
  <2> QED BY <1>2, <2>1, <2>3, NoteFacts
<1>7. ASSUME NEW c \in Clients, DropLeases(c)
      PROVE InStep(d, upstream', serverOpen', owners'[d])
  <2>1. PICK closes \in Seq(Notes) :
            /\ ToSet(closes) = {Note("close", e) : e \in LastOwned(c)}
            /\ closes \in Seq(UpMsgs)
            /\ upstream' = upstream \o closes
    BY <1>7, DropTypes
  <2>2. owners'[d] = owners[d] \ {c} /\ UNCHANGED serverOpen
    BY <1>7 DEF DropLeases, server
  <2>3. Note("close", d) \in ToSet(closes) <=> owners[d] = {c}
    <3>1. \A e : Note("close", d) = Note("close", e) => d = e
      <4> SUFFICES ASSUME NEW e, Note("close", d) = Note("close", e) PROVE d = e
        OBVIOUS
      <4>1. Note("close", d).doc = d /\ Note("close", e).doc = e
        BY DEF Note
      <4> QED BY <4>1
    <3> QED BY <2>1, <3>1 DEF LastOwned
  <2>4. Note("open", d) \notin ToSet(closes)
    BY <2>1 DEF Note
  <2>5. IF Note("close", d) \in ToSet(closes) THEN owners'[d] = {}
        ELSE owners'[d] = {} <=> owners[d] = {}
    BY <2>2, <2>3
  <2> QED BY <1>0, <2>1, <2>2, <2>4, <2>5, NotesConcat
<1>8. CASE GreetServer \/ RetireShutdown \/ RetireExit
  <2>1. PICK m \in UpMsgs \ Notes : upstream' = Append(upstream, m)
    <3>1. nextRequest \in Nat
      BY DEF RequestTypes
    <3>2. /\ Plain("initialized") \in UpMsgs \ Notes /\ Plain("exit") \in UpMsgs \ Notes
          /\ Request("shutdown", nextRequest, <<nextRequest>>) \in UpMsgs \ Notes
      BY <3>1, Built, BuiltUp DEF Plain, Request, Notes
    <3> QED BY <1>8, <3>2 DEF GreetServer, RetireShutdown, RetireExit
  <2>2. UNCHANGED <<owners, serverOpen>>
    BY <1>8 DEF GreetServer, RetireShutdown, RetireExit, server
  <2>3. m \notin NotesOn(d)
    BY NoteFacts
  <2> QED BY <1>2, <2>1, <2>2, <2>3
<1>9. CASE ServerReads
  <2> DEFINE m == Head(upstream)
  <2>1. /\ upstream # <<>> /\ upstream' = Tail(upstream) /\ UNCHANGED owners
        /\ serverOpen' = CASE m.kind = "open"  -> serverOpen \cup {m.doc}
                           [] m.kind = "close" -> serverOpen \ {m.doc}
                           [] OTHER            -> serverOpen
    BY <1>9 DEF ServerReads
  <2>2. m \in UpMsgs
    BY <1>0, <2>1, TakenTyped
  <2> HIDE DEF m
  <2>3. CASE m \in NotesOn(d)
    <3>1. m.kind \in {"open", "close"} /\ m.doc = d
      BY <2>3, NoteFacts
    <3>2. d \in serverOpen' <=> m.kind = "open"
      BY <2>1, <3>1
    <3> QED BY <1>0, <2>1, <2>3, <3>2, NoteRead DEF m
  <2>4. CASE m \notin NotesOn(d)
    <3>1. m.kind \in {"open", "close"} => m.doc # d
      BY <2>2, <2>4, UpKinds, NoteFacts
    <3>2. d \in serverOpen' <=> d \in serverOpen
      BY <2>1, <3>1
    <3> QED BY <1>0, <2>1, <2>4, <3>2, NoteRead DEF m
  <2> QED BY <2>3, <2>4
<1>10. ASSUME NEW c \in Clients,
              Enrol(c) \/ CheckCache(c) \/ WinInitialize(c) \/ LoseInitialize(c) \/ Wake(c)
              \/ ReplyLocally(c) \/ EndSession(c) \/ Register(c) \/ ReadRequest(c)
              \/ ReadShutdown(c) \/ ReadInitialize(c) \/ Leave(c) \/ Receive(c)
       PROVE UNCHANGED <<upstream, owners, serverOpen>>
  BY <1>10 DEF Enrol, CheckCache, WinInitialize, LoseInitialize, Wake, ReplyLocally,
     EndSession, Register, ReadRequest, ReadShutdown, ReadInitialize, Leave, Receive, server
<1>11. ASSUME TakeMessage \/ KeepResult \/ ReleaseInitialize \/ NotifyWaiters \/ LookUp
              \/ SendDown \/ ServerEnds \/ BrokerExits \/ AllOver \/ UNCHANGED vars
       PROVE UNCHANGED <<upstream, owners, serverOpen>>
  BY <1>11 DEF TakeMessage, TakeReply, TakeStrayReply, TakePush, KeepResult,
     ReleaseInitialize, NotifyWaiters, LookUp, SendDown, ServerEnds, BrokerExits, AllOver,
     vars, server
<1> QED
  BY <1>1, <1>3, <1>4, <1>5, <1>6, <1>7, <1>8, <1>9, <1>10, <1>11
     DEF Next, TaskStep, PeerStep, ReaderStep, EndStep

-----------------------------------------------------------------------------
(* The invariant, and what it says *)

Inv ==
    /\ Typed /\ Sessions /\ Tracked /\ Conserved
    /\ Handshake /\ AskOnce /\ InSync

LEMMA InitInv == Init => Inv
  BY InitTyped, InitSessions, InitTracked, InitConserved, InitHandshake, InitAskOnce,
     InitInSync DEF Inv

LEMMA StepInv == Inv /\ [Next]_vars => Inv'
<1> SUFFICES ASSUME Inv, [Next]_vars PROVE Inv'
  OBVIOUS
<1>1. Typed /\ Sessions /\ Tracked /\ Conserved /\ Handshake /\ AskOnce /\ InSync
  BY DEF Inv
<1>2. Typed' /\ Sessions'
  BY <1>1, StepTyped, StepSessions
<1>3. Tracked' /\ Conserved'
  BY <1>1, <1>2, StepTracked, StepConserved
<1>4. Handshake' /\ AskOnce' /\ InSync'
  BY <1>1, <1>2, StepHandshake, StepAskOnce, StepInSync
<1> QED BY <1>2, <1>3, <1>4 DEF Inv

\* The invariant of the broker: what every state of its tasks, queues and peers
\* has in common (serve.rs, lsp.rs, protocol.rs).
THEOREM Invariance == Spec => []Inv
<1>1. Init => Inv
  BY InitInv
<1>2. Inv /\ [Next]_vars => Inv'
  BY StepInv
<1> QED BY <1>1, <1>2, PTL DEF Spec

LEMMA InvTypes == Inv => TypeOK
  BY DEF Inv, Typed, SessionTypes, BrokerTypes, ServerTypes, UpstreamTypes, RequestTypes,
     QueueTypes, TypeOK, Stages

LEMMA InvReplies == Inv /\ ~LateClients => RepliesReachTheirAsker
<1> SUFFICES ASSUME Inv, ~LateClients, NEW c \in Clients, NEW i \in DOMAIN queue[c],
                    queue[c][i].kind = "reply"
             PROVE  queue[c][i].about = <<c, queue[c][i].id>>
  BY DEF RepliesReachTheirAsker
<1>1. queue[c] \in Seq(DownMsgs(c))
  BY DEF Inv, Typed, QueueTypes
<1>2. queue[c][i] \in DownMsgs(c)
  BY <1>1
<1>3. queue[c][i] \in RepliesTo(c)
  BY <1>2, DownKinds DEF LateStrays
<1> QED BY <1>2, <1>3, DownKinds

LEMMA InvDocuments == Inv /\ ~LeaseRaces => DocumentsInSync
<1> SUFFICES ASSUME Inv, ~LeaseRaces, NEW d \in Docs, ~InTransit(d)
             PROVE  d \in serverOpen <=> owners[d] # {}
  BY DEF DocumentsInSync
<1>1. InStep(d, upstream, serverOpen, owners[d])
  BY DEF Inv, InSync
<1>2. \A i \in DOMAIN upstream : upstream[i] \notin NotesOn(d)
  <2> SUFFICES ASSUME NEW i \in DOMAIN upstream, upstream[i] \in NotesOn(d) PROVE FALSE
    OBVIOUS
  <2>1. upstream[i].kind \in {"open", "close"} /\ upstream[i].doc = d
    BY NoteFacts
  <2>2. upstream[i] \in ToSet(upstream)
    BY DEF ToSet
  <2> QED BY <2>1, <2>2 DEF InTransit
<1> QED BY <1>1, <1>2 DEF InStep

LEMMA FewOnes ==
  ASSUME NEW S, NEW d, S \subseteq {d}
  PROVE  /\ Cardinality(S) \in Nat /\ Cardinality(S) <= 1
         /\ d \notin S => Cardinality(S) = 0
<1>1. CASE S = {}
  BY <1>1, FS_EmptySet
<1>2. CASE S = {d}
  <2>1. Cardinality(S) = 1
    BY <1>2, FS_Singleton
  <2> QED BY <1>2, <2>1
<1> QED BY <1>1, <1>2

LEMMA InvAnswers == Inv => OneClientAnswers
<1> SUFFICES ASSUME Inv, NEW n \in 1..pushes
             PROVE  Cardinality({c \in Clients : n \in obliged[c]})
                    + Cardinality({c \in Clients : Push("ask", n) \in ToSet(queue[c])})
                    + Cardinality({c \in Clients : Answered(n) \in ToSet(held[c])})
                    + Cardinality({i \in DOMAIN upstream : upstream[i] = Answered(n)})
                    + Cardinality({r \in {reader} \ {Idle, Ended} : r.msg = Push("ask", n)})
                    <= IF n \in owed THEN 1 ELSE 0
  BY DEF OneClientAnswers
<1> DEFINE A == {c \in Clients : n \in obliged[c]}
           Q == {c \in Clients : Push("ask", n) \in ToSet(queue[c])}
           H == {c \in Clients : Answered(n) \in ToSet(held[c])}
           U == {i \in DOMAIN upstream : upstream[i] = Answered(n)}
           R == {r \in {reader} \ {Idle, Ended} : r.msg = Push("ask", n)}
<1>0. Typed /\ Once(n) /\ AskInNat(n)
  <2>1. n \in 1..MaxPushes
    BY DEF Inv, Typed, ServerTypes
  <2> QED BY <2>1, AskTyped DEF Inv, AskOnce
<1>1. Cardinality(U) = AnsweredUp(n)
  <2>1. U = {i \in DOMAIN upstream : upstream[i] \in {Answered(n)}}
    OBVIOUS
  <2> QED BY <2>1 DEF AnsweredUp, CountIn
<1>2. Cardinality(R) = Routed(n)
  <2>1. CASE reader \notin {Idle, Ended} /\ reader.msg = Push("ask", n)
    <3>1. R = {reader}
      BY <2>1
    <3> QED BY <2>1, <3>1, FS_Singleton DEF Routed, N
  <2>2. CASE ~(reader \notin {Idle, Ended} /\ reader.msg = Push("ask", n))
    <3>1. R = {}
      BY <2>2
    <3> QED BY <2>2, <3>1, FS_EmptySet DEF Routed, N
  <2> QED BY <2>1, <2>2
<1>3. ASSUME NEW c \in Clients
      PROVE  /\ c \in A <=> Due(c, n) # 0
             /\ c \in Q <=> Sent(c, n) # 0
             /\ c \in H <=> Back(c, n) # 0
  <2>1. c \in A <=> Due(c, n) # 0
    BY DEF Due, N
  <2>2. queue[c] \in Seq(DownMsgs(c)) /\ held[c] \in Seq(UpMsgs)
    BY <1>0 DEF Typed, QueueTypes, UpstreamTypes
  <2>3. Sent(c, n) = 0 <=> ToSet(queue[c]) \cap {Push("ask", n)} = {}
    BY <2>2, CountNone DEF Sent
  <2>4. Back(c, n) = 0 <=> ToSet(held[c]) \cap {Answered(n)} = {}
    BY <2>2, CountNone DEF Back
  <2> QED BY <2>1, <2>3, <2>4
<1>4. AskShared(n) = Routed(n) + AnsweredUp(n) /\ Routed(n) \in Nat /\ AnsweredUp(n) \in Nat
  BY <1>0 DEF AskShared, AskInNat
<1> HIDE DEF A, Q, H, U, R
<1>5. Cardinality(A) + Cardinality(Q) + Cardinality(H) + Cardinality(U) + Cardinality(R)
        <= N(n \in owed)
  <2>1. CASE \A c \in Clients : c \notin A /\ c \notin Q /\ c \notin H
    <3>1. A = {} /\ Q = {} /\ H = {}
      BY <2>1 DEF A, Q, H
    <3>2. Cardinality(A) = 0 /\ Cardinality(Q) = 0 /\ Cardinality(H) = 0
      BY <3>1, FS_EmptySet
    <3>3. AskShared(n) <= N(n \in owed)
      BY <1>0 DEF Once
    <3> QED BY <1>1, <1>2, <1>4, <3>2, <3>3
  <2>2. ASSUME NEW d \in Clients, d \in A \/ d \in Q \/ d \in H
        PROVE Cardinality(A) + Cardinality(Q) + Cardinality(H) + Cardinality(U)
              + Cardinality(R) <= N(n \in owed)
    <3>1. Due(d, n) \in Nat /\ Sent(d, n) \in Nat /\ Back(d, n) \in Nat
          /\ AskAt(d, n) = Due(d, n) + Sent(d, n) + Back(d, n)
      BY <1>0 DEF AskInNat, AskAt
    <3>2. AskAt(d, n) # 0
      BY <1>3, <2>2, <3>1
    <3>3. \A c \in Clients \ {d} : c \notin A /\ c \notin Q /\ c \notin H
      <4> SUFFICES ASSUME NEW c \in Clients \ {d} PROVE c \notin A /\ c \notin Q /\ c \notin H
        OBVIOUS
      <4>1. AskAt(c, n) = 0
        BY <1>0, <3>2 DEF Once
      <4>2. Due(c, n) = 0 /\ Sent(c, n) = 0 /\ Back(c, n) = 0
        BY <1>0, <4>1 DEF AskInNat, AskAt
      <4> QED BY <1>3, <4>2
    <3>4. A \subseteq {d} /\ Q \subseteq {d} /\ H \subseteq {d}
      BY <3>3 DEF A, Q, H
    <3>5. Cardinality(A) <= Due(d, n) /\ Cardinality(A) \in Nat
      BY <1>3, <3>1, <3>4, FewOnes
    <3>6. Cardinality(Q) <= Sent(d, n) /\ Cardinality(Q) \in Nat
      BY <1>3, <3>1, <3>4, FewOnes
    <3>7. Cardinality(H) <= Back(d, n) /\ Cardinality(H) \in Nat
      BY <1>3, <3>1, <3>4, FewOnes
    <3>8. AskAt(d, n) + AskShared(n) <= N(n \in owed)
      BY <1>0 DEF Once
    <3>9. N(n \in owed) \in Nat
      BY DEF N
    <3> QED BY <1>1, <1>2, <1>4, <3>1, <3>5, <3>6, <3>7, <3>8, <3>9
  <2> QED BY <2>1, <2>2
<1> QED BY <1>5 DEF A, Q, H, U, R, N

LEMMA OneMember ==
  ASSUME NEW T, NEW s \in Seq(T), NEW S, CountIn(S, s) <= 1
  PROVE  /\ Cardinality(ToSet(s) \cap S) = CountIn(S, s)
         /\ CountIn(S, s) = 1 => \E m : ToSet(s) \cap S = {m}
<1> DEFINE I == {i \in DOMAIN s : s[i] \in S}
<1>1. IsFiniteSet(I) /\ CountIn(S, s) \in Nat /\ Cardinality(I) = CountIn(S, s)
  BY CountType DEF CountIn
<1>2. CASE CountIn(S, s) = 0
  <2>1. ToSet(s) \cap S = {}
    BY <1>2, CountNone
  <2>2. Cardinality(ToSet(s) \cap S) = 0
    BY <2>1, FS_EmptySet
  <2> QED BY <1>2, <2>2
<1>3. CASE CountIn(S, s) = 1
  <2>1. PICK i : I = {i}
    BY <1>1, <1>3, FS_Singleton
  <2>2. ToSet(s) \cap S = {s[i]}
    BY <2>1 DEF ToSet
  <2>3. Cardinality(ToSet(s) \cap S) = 1
    BY <2>2, FS_Singleton
  <2> QED BY <1>3, <2>2, <2>3
<1>4. CountIn(S, s) \in Nat
  BY <1>1
<1>5. CountIn(S, s) = 0 \/ CountIn(S, s) = 1
  <2> DEFINE n == CountIn(S, s)
  <2>1. n \in Nat /\ n <= 1
    BY <1>4
  <2> HIDE DEF n
  <2>2. n = 0 \/ n = 1
    BY <2>1
  <2> QED BY <2>2 DEF n
<1> QED BY <1>2, <1>3, <1>5

LEMMA PlacesCounted ==
  ASSUME Typed, NEW c \in Clients, NEW id \in Ids, Places(c, id) <= 1
  PROVE  Places(c, id) = Cardinality(Upstreamed(<<c, id>>)) + Cardinality(HeldBack(<<c, id>>))
                         + Cardinality(Returning(<<c, id>>)) + Cardinality(Queued(<<c, id>>))
                         + Cardinality(InTask(<<c, id>>))
<1> DEFINE w == <<c, id>>
           S == Calls(w)
           R == RepliesAbout(w)
<1>0. w[1] = c /\ w[2] = id
  OBVIOUS
<1>1. /\ InUpstream(c, id) \in Nat /\ InServer(c, id) \in Nat
      /\ InHeld(c, id) \in Nat /\ InReader(c, id) \in Nat
      /\ InQueue(c, id) \in Nat /\ InHand(c, id) \in Nat
  BY PlacesType
<1>2. /\ InUpstream(c, id) + InServer(c, id) <= 1 /\ InHeld(c, id) <= 1
      /\ InUpstream(c, id) <= 1 /\ InServer(c, id) <= 1
  BY <1>1 DEF Places
<1>3. /\ upstream \in Seq(UpMsgs) /\ held[c] \in Seq(UpMsgs) /\ queue[c] \in Seq(DownMsgs(c))
      /\ working \subseteq UpMsgs /\ IsFiniteSet(working)
  BY BuiltUp DEF Typed, UpstreamTypes, QueueTypes, RequestTypes
<1>4. \A m \in UpMsgs : IsRequest(m) /\ m.about = w <=> m \in S
  <2> SUFFICES ASSUME NEW m \in UpMsgs PROVE IsRequest(m) /\ m.about = w <=> m \in S
    OBVIOUS
  <2>1. m \in S <=> m \in Requests /\ m.about = w
    BY CallFacts
  <2>2. IsRequest(m) <=> m \in Requests \cup Shutdowns
    BY UpKinds
  <2>3. m \in Shutdowns => m.about # w
    BY PairIsNoSingle DEF Shutdowns
  <2> HIDE DEF S, w
  <2> QED BY <2>1, <2>2, <2>3
<1>5. Cardinality(Upstreamed(w)) = InUpstream(c, id) + InServer(c, id)
  <2> DEFINE A == ToSet(upstream) \cap S
             B == working \cap S
  <2>1. Upstreamed(w) = A \cup B
    <3>1. ToSet(upstream) \subseteq UpMsgs
      BY <1>3, MembersTyped
    <3> HIDE DEF S, w
    <3> QED BY <1>3, <1>4, <3>1 DEF Upstreamed
  <2>2. InUpstream(c, id) = CountIn(S, upstream) /\ InServer(c, id) = Cardinality(B)
    BY DEF InUpstream, InServer
  <2> HIDE DEF S, w
  <2>3. Cardinality(A) = InUpstream(c, id) /\ (InUpstream(c, id) = 0 => A = {})
    <3>1. Cardinality(A) = InUpstream(c, id)
      BY <1>2, <1>3, <2>2, OneMember
    <3>2. InUpstream(c, id) = 0 => A = {}
      BY <1>3, <2>2, CountNone
    <3> QED BY <3>1, <3>2
  <2>4. InServer(c, id) = 0 => B = {}
    <3>1. IsFiniteSet(B)
      BY <1>3, FS_Intersection
    <3> QED BY <2>2, <3>1, FS_EmptySet
  <2>5. CASE InUpstream(c, id) = 0
    <3>1. Upstreamed(w) = B
      BY <2>1, <2>3, <2>5
    <3> QED BY <1>1, <2>2, <2>5, <3>1
  <2>6. CASE InServer(c, id) = 0
    <3>1. Upstreamed(w) = A
      BY <2>1, <2>4, <2>6
    <3> QED BY <1>1, <2>3, <2>6, <3>1
  <2> QED BY <1>1, <1>2, <2>5, <2>6
<1>6. Cardinality(HeldBack(w)) = InHeld(c, id)
  <2>1. HeldBack(w) = ToSet(held[c]) \cap S
    <3>1. ToSet(held[c]) \subseteq UpMsgs
      BY <1>3, MembersTyped
    <3>2. HeldBack(w) = {m \in ToSet(held[c]) : IsRequest(m) /\ m.about = w}
      BY <1>0 DEF HeldBack
    <3> HIDE DEF S, w
    <3> QED BY <1>4, <3>1, <3>2
  <2>2. InHeld(c, id) = CountIn(S, held[c])
    BY DEF InHeld
  <2> HIDE DEF S, w
  <2> QED BY <1>2, <1>3, <2>1, <2>2, OneMember
<1>7. ASSUME NEW d \in Clients, NEW m \in DownMsgs(d)
      PROVE m.kind = "reply" /\ m.about = w <=> m \in R
  <2>1. m \in R => m.kind = "reply" /\ m.about = w
    BY DEF RepliesAbout
  <2>2. ASSUME m.kind = "reply", m.about = w PROVE m \in R
    <3>1. m \notin LateStrays
      BY <2>2, StrayFacts, PairIsNoSingle
    <3>2. m \in RepliesTo(d)
      BY <2>2, <3>1, DownKinds
    <3>3. m.about = <<d, m.id>>
      BY <3>2, DownKinds
    <3>4. d = c /\ m.id = id
      BY <2>2, <3>3
    <3> QED BY <3>2, <3>4, ReplyFacts
  <2> QED BY <2>1, <2>2
<1>8. Cardinality(Queued(w)) = InQueue(c, id)
  <2>1. Queued(w) = {i \in DOMAIN queue[c] : queue[c][i].kind = "reply" /\ queue[c][i].about = w}
    BY <1>0 DEF Queued
  <2>2. \A i \in DOMAIN queue[c] : queue[c][i] \in DownMsgs(c)
    BY <1>3
  <2>3. InQueue(c, id) = Cardinality({i \in DOMAIN queue[c] : queue[c][i] \in R})
    BY DEF InQueue, CountIn
  <2> HIDE DEF R, w
  <2>4. Queued(w) = {i \in DOMAIN queue[c] : queue[c][i] \in R}
    BY <1>7, <2>1, <2>2
  <2> QED BY <2>3, <2>4
<1>9. Cardinality(Returning(w)) = InReader(c, id)
  <2>1. ASSUME reader \notin {Idle, Ended}
        PROVE reader.msg.kind = "reply" /\ reader.msg.about = w <=> reader.msg \in R
    <3>1. CASE reader \in Widely
      <4>1. reader.msg \in Tells \cup LateStrays
        BY <3>1 DEF Widely
      <4>2. reader.msg \in DownMsgs(c)
        BY <4>1 DEF DownMsgs
      <4> HIDE DEF R, w
      <4> QED BY <1>7, <4>2
    <3>2. ASSUME NEW d \in Clients, reader \in Carrying(d) \cup Singly(d)
          PROVE reader.msg \in DownMsgs(d)
      BY <3>2 DEF Carrying, Singly, DownMsgs
    <3> HIDE DEF R, w
    <3> QED BY <1>7, <2>1, <3>1, <3>2 DEF Typed, ReaderTypes
  <2>2. InReader(c, id) = N(reader \notin {Idle, Ended} /\ reader.msg \in R)
    BY DEF InReader, Returns
  <2> HIDE DEF R, w
  <2>3. CASE reader \notin {Idle, Ended} /\ reader.msg \in R
    <3>1. Returning(w) = {reader}
      BY <2>1, <2>3 DEF Returning
    <3>2. Cardinality(Returning(w)) = 1
      BY <3>1, FS_Singleton
    <3> QED BY <2>2, <2>3, <3>2 DEF N
  <2>4. CASE ~(reader \notin {Idle, Ended} /\ reader.msg \in R)
    <3>1. Returning(w) = {}
      BY <2>1, <2>4 DEF Returning
    <3>2. Cardinality(Returning(w)) = 0
      BY <3>1, FS_EmptySet
    <3> QED BY <2>2, <2>4, <3>2 DEF N
  <2> QED BY <2>3, <2>4
<1>10. Cardinality(InTask(w)) = InHand(c, id)
  <2>1. InTask(w) = {s \in Answering : task[c] = s /\ asking[c] = id}
    BY <1>0 DEF InTask, Answering
  <2> HIDE DEF w
  <2>2. CASE task[c] \in Answering /\ asking[c] = id
    <3>1. InTask(w) = {task[c]}
      BY <2>1, <2>2
    <3>2. Cardinality(InTask(w)) = 1
      BY <3>1, FS_Singleton
    <3> QED BY <2>2, <3>2, HandIs
  <2>3. CASE ~(task[c] \in Answering /\ asking[c] = id)
    <3>1. InTask(w) = {}
      BY <2>1, <2>3
    <3>2. Cardinality(InTask(w)) = 0
      BY <3>1, FS_EmptySet
    <3> QED BY <2>3, <3>2, HandIs
  <2> QED BY <2>2, <2>3
<1> QED BY <1>1, <1>5, <1>6, <1>8, <1>9, <1>10 DEF Places

LEMMA InvRequests == Inv /\ ~LateClients => RequestsConserved
<1> DEFINE Sum(w) == Cardinality(Upstreamed(w)) + Cardinality(HeldBack(w))
                     + Cardinality(Returning(w)) + Cardinality(Queued(w))
                     + Cardinality(InTask(w))
<1>1. ASSUME Inv, ~LateClients, NEW c \in clients, NEW id \in Ids
      PROVE  Sum(<<c, id>>) = IF id \in waiting[c] THEN 1 ELSE 0
  <2>1. Typed /\ c \in Clients
    BY <1>1 DEF Inv, Typed, SessionTypes
  <2>2. Places(c, id) <= 1 /\ Places(c, id) = Wanted(c, id)
    BY <1>1, <2>1 DEF Inv, Conserved, Conserves
  <2>3. Wanted(c, id) = IF id \in waiting[c] THEN 1 ELSE 0
    BY DEF Wanted, N
  <2>4. Sum(<<c, id>>) = Places(c, id)
    BY <1>1, <2>1, <2>2, PlacesCounted
  <2> HIDE DEF Sum
  <2> QED BY <2>2, <2>3, <2>4
<1>2. RequestsConserved
        <=> \A c \in clients : \A id \in Ids :
              Sum(<<c, id>>) = IF id \in waiting[c] THEN 1 ELSE 0
  BY Zenon DEF RequestsConserved
<1> HIDE DEF Sum
<1> QED BY <1>1, <1>2

\* Every variable has its type, and no queue outgrows its capacity (the bounded
\* channels of serve.rs).
THEOREM TypeCorrect == Spec => []TypeOK
  BY Invariance, InvTypes, PTL

\* Whatever the ids the clients chose, no client is given the answer to a request
\* of another (protocol.rs, pending requests under broker ids), as long as nobody
\* registers while the broker retires.
THEOREM RepliesAreTheirs == ~LateClients => (Spec => []RepliesReachTheirAsker)
<1> SUFFICES ASSUME ~LateClients PROVE Spec => []RepliesReachTheirAsker
  OBVIOUS
<1>1. Inv => RepliesReachTheirAsker
  BY InvReplies
<1> QED BY <1>1, Invariance, PTL

\* A request of a registered session is in exactly one place until the session
\* has its answer: nothing is lost, or answered twice, on the way through
\* proxy_request, upstream_reader and route_server_message.
THEOREM RequestsAreConserved == ~LateClients => (Spec => []RequestsConserved)
<1> SUFFICES ASSUME ~LateClients PROVE Spec => []RequestsConserved
  OBVIOUS
<1>1. Inv => RequestsConserved
  BY InvRequests
<1> QED BY <1>1, Invariance, PTL

\* However many clients start at once and however often the server refuses, one
\* `initialize` at a time reaches it, none after it accepted one, and it is told
\* `initialized` at most once (lsp.rs, handle_initialize and on_response).
THEOREM HandshakeHappensOnce == Spec => []OneHandshake
<1>1. Inv => OneHandshake
  BY HandshakeIsOne DEF Inv
<1> QED BY <1>1, Invariance, PTL

\* A request of the server has at most one client working on it, or one answer on
\* its way, and none of either once it is answered (route_server_message).
THEOREM ServerGetsOneAnswer == Spec => []OneClientAnswers
  BY Invariance, InvAnswers, PTL

\* With leases updated and told in one step, the server has open exactly the
\* documents somebody leases whenever no notification is on its way (lsp.rs,
\* should_forward_notification and close_client_documents).
THEOREM LeasesAreKept == ~LeaseRaces => (Spec => []DocumentsInSync)
<1> SUFFICES ASSUME ~LeaseRaces PROVE Spec => []DocumentsInSync
  OBVIOUS
<1>1. Inv => DocumentsInSync
  BY InvDocuments
<1> QED BY <1>1, Invariance, PTL
=============================================================================
