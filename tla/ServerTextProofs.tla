-------------------------- MODULE ServerTextProofs --------------------------
(***************************************************************************)
(* Proofs about the texts of one provider slot: what a task remembers of   *)
(* its documents, what its server holds of them, what its requests see and *)
(* when they are answered, for any number of documents, requests and       *)
(* incarnations, any capacity and any allowance of the environment.        *)
(***************************************************************************)
EXTENDS ServerTaskProofs, FiniteSetTheorems

-----------------------------------------------------------------------------
(* Texts and commands *)

Pairs == Nat \X Nat

Older(x, y) == x[1] < y[1] \/ (x[1] = y[1] /\ x[2] < y[2])
AtMost(x, y) == x[1] < y[1] \/ (x[1] = y[1] /\ x[2] <= y[2])

Requests == [op : {"hint", "request"}, ask : Asks, doc : Docs, text : Pairs]
Cmds == [op : {"open", "save"}, doc : Docs, text : Pairs]
        \cup [op : {"close"}, doc : Docs, text : {Nil}]
        \cup [op : {"change"}, doc : Docs, text : Pairs, delta : BOOLEAN]
        \cup Requests

LEMMA CmdFacts ==
    ASSUME NEW cmd \in Cmds
    PROVE  /\ cmd.op \in AnyOp /\ cmd.doc \in Docs
           /\ cmd.op # "close" => cmd.text \in Pairs
           /\ cmd.op = "close" => cmd.text = Nil
           /\ cmd.op = "change" => cmd.delta \in BOOLEAN
           /\ cmd.op \in {"hint", "request"} <=> cmd \in Requests
  BY DEF Cmds, Requests, AnyOp

LEMMA PairFacts ==
    ASSUME NEW x \in Pairs
    PROVE  /\ x[1] \in Nat /\ x[2] \in Nat /\ x = <<x[1], x[2]>>
           /\ x # Nil /\ x # Garbage /\ Len(x) = 2
<1>1. x[1] \in Nat /\ x[2] \in Nat /\ x = <<x[1], x[2]>>
  BY DEF Pairs
<1>2. Len(<<x[1], x[2]>>) = 2 /\ Len(Garbage) = 1 /\ Len(Nil) = 0
  BY DEF Garbage, Nil
<1>3. <<x[1], x[2]>> # Garbage
  BY DEF Garbage
<1>4. <<x[1], x[2]>> # Nil
  BY DEF Nil
<1>5. Len(x) = 2 /\ x # Nil /\ x # Garbage
  BY Zenon, <1>1, <1>2, <1>3, <1>4
<1> QED BY <1>1, <1>5

LEMMA AtMostTransitive ==
    ASSUME NEW x \in Pairs, NEW y \in Pairs, NEW z \in Pairs
    PROVE  /\ AtMost(x, y) /\ AtMost(y, z) => AtMost(x, z)
           /\ AtMost(x, y) /\ Older(y, z) => Older(x, z)
           /\ Older(x, y) => AtMost(x, y)
           /\ AtMost(x, x)
  BY PairFacts DEF AtMost, Older

-----------------------------------------------------------------------------
(* The replay set *)

Entries == [version : Nat, text : Pairs, resync : BOOLEAN]
Replays == [Docs -> {Nil} \cup Entries]

\* The replay set after remember_document.
Remember(r, cmd) ==
    LET d == cmd.doc IN
    IF cmd.op = "open" \/ (cmd.op = "change" /\ r[d] # Nil)
    THEN [r EXCEPT ![d] = Entry(cmd.text)]
    ELSE IF cmd.op = "save" /\ r[d] # Nil THEN [r EXCEPT ![d].text = cmd.text]
    ELSE IF cmd.op = "close" THEN [r EXCEPT ![d] = Nil]
    ELSE r

LEMMA EntryFacts ==
    ASSUME NEW e \in Entries
    PROVE  /\ e.version \in Nat /\ e.text \in Pairs /\ e.resync \in BOOLEAN
           /\ e # Nil
<1>1. "version" \in DOMAIN e
  BY DEF Entries
<1>2. "version" \notin DOMAIN Nil
  BY DEF Nil
<1> QED BY <1>1, <1>2 DEF Entries

LEMMA FreshEntry ==
    ASSUME NEW x \in Pairs
    PROVE  /\ Entry(x) \in Entries /\ Entry(x) # Nil
           /\ Entry(x).text = x /\ Entry(x).version = x[2] /\ Entry(x).resync = FALSE
<1>1. Entry(x) \in Entries
  BY PairFacts DEF Entry, Entries
<1> QED BY <1>1, EntryFacts DEF Entry

LEMMA RememberIs ==
    ASSUME NEW r \in Replays, NEW cmd \in Cmds
    PROVE  LET s == Remember(r, cmd) d == cmd.doc IN
           /\ s \in Replays
           /\ \A e \in Docs \ {d} : s[e] = r[e]
           /\ cmd.op = "open" => s[d] = Entry(cmd.text)
           /\ cmd.op = "change" /\ r[d] # Nil => s[d] = Entry(cmd.text)
           /\ cmd.op = "change" /\ r[d] = Nil => s[d] = Nil
           /\ cmd.op = "save" /\ r[d] = Nil => s[d] = Nil
           /\ cmd.op = "save" /\ r[d] # Nil =>
                /\ s[d] \in Entries /\ s[d] # Nil /\ s[d].text = cmd.text
                /\ s[d].version = r[d].version /\ s[d].resync = r[d].resync
           /\ cmd.op = "close" => s[d] = Nil
           /\ cmd.op \in {"hint", "request"} => s = r
<1> DEFINE s == Remember(r, cmd)
           d == cmd.doc
<1>1. d \in Docs /\ cmd.op \in AnyOp /\ (cmd.op # "close" => cmd.text \in Pairs)
  BY CmdFacts
<1>2. CASE cmd.op = "open" \/ (cmd.op = "change" /\ r[d] # Nil)
  <2>1. s = [r EXCEPT ![d] = Entry(cmd.text)]
    BY <1>2 DEF Remember
  <2>2. Entry(cmd.text) \in Entries /\ Entry(cmd.text) # Nil
    BY <1>1, <1>2, FreshEntry
  <2> HIDE DEF s
  <2>3. s \in Replays /\ s[d] = Entry(cmd.text) /\ \A e \in Docs \ {d} : s[e] = r[e]
    BY <1>1, <2>1, <2>2 DEF Replays
  <2> QED BY <1>2, <2>3 DEF s
<1>3. CASE cmd.op = "save" /\ r[d] # Nil
  <2>1. s = [r EXCEPT ![d].text = cmd.text]
    BY <1>3 DEF Remember
  <2> DEFINE n == [r[d] EXCEPT !.text = cmd.text]
  <2>2. r[d] \in Entries
    BY <1>1, <1>3 DEF Replays
  <2>3. /\ n \in Entries /\ n.text = cmd.text
        /\ n.version = r[d].version /\ n.resync = r[d].resync
    BY <1>1, <1>3, <2>2 DEF Entries
  <2>4. n # Nil
    BY <2>3, EntryFacts
  <2>5. s = [r EXCEPT ![d] = n]
    BY <2>1
  <2> HIDE DEF s, n
  <2>6. s \in Replays /\ s[d] = n /\ \A e \in Docs \ {d} : s[e] = r[e]
    BY <1>1, <2>3, <2>5 DEF Replays
  <2> QED BY <1>3, <2>3, <2>4, <2>6 DEF s
<1>4. CASE cmd.op = "close"
  <2>1. s = [r EXCEPT ![d] = Nil]
    BY <1>4 DEF Remember
  <2> HIDE DEF s
  <2>2. s \in Replays /\ s[d] = Nil /\ \A e \in Docs \ {d} : s[e] = r[e]
    BY <1>1, <2>1 DEF Replays
  <2> QED BY <1>4, <2>2 DEF s
<1>5. CASE \/ cmd.op \in {"hint", "request"}
           \/ cmd.op \in {"change", "save"} /\ r[d] = Nil
  <2>1. s = r
    BY <1>5 DEF Remember
  <2> QED BY <1>5, <2>1
<1> QED BY <1>1, <1>2, <1>3, <1>4, <1>5 DEF AnyOp

LEMMA RememberOther ==
    ASSUME NEW r \in Replays, NEW cmd \in Cmds, NEW d \in Docs, cmd.doc # d
    PROVE  Remember(r, cmd)[d] = r[d]
  BY RememberIs

LEMMA RememberText ==
    ASSUME NEW r \in Replays, NEW cmd \in Cmds,
           cmd.op = "open" \/ (cmd.op = "change" /\ r[cmd.doc] # Nil)
    PROVE  Remember(r, cmd)[cmd.doc] = Entry(cmd.text)
  BY RememberIs

LEMMA RememberSave ==
    ASSUME NEW r \in Replays, NEW cmd \in Cmds, cmd.op = "save", r[cmd.doc] # Nil
    PROVE  LET e == Remember(r, cmd)[cmd.doc] IN
           /\ e \in Entries /\ e # Nil /\ e.text = cmd.text
           /\ e.version = r[cmd.doc].version /\ e.resync = r[cmd.doc].resync
  BY RememberIs

LEMMA RememberNone ==
    ASSUME NEW r \in Replays, NEW cmd \in Cmds, cmd.op \in {"hint", "request"}
    PROVE  Remember(r, cmd) = r
  BY RememberIs

-----------------------------------------------------------------------------
(* The order of texts in a queue: what a task remembers, what it works on  *)
(* and what its queue holds are ever newer texts of a document.            *)

\* x may be known when cmd is taken.
Follows(x, cmd) ==
    /\ cmd.op = "open" => x[1] < cmd.text[1]
    /\ cmd.op = "change" => Older(x, cmd.text)
    /\ cmd.op = "save" => AtMost(x, cmd.text)

Precedes(x, d, q) == \A j \in 1..Len(q) : q[j].doc = d => Follows(x, q[j])

Mark(cmd, d) == cmd.doc = d /\ cmd.op \in {"open", "close"}

\* After the first n commands of q the task knows d under its opening o.
KnownAs(q, r, n, d, o) ==
    \/ \E m \in 1..n : /\ Mark(q[m], d) /\ q[m].op = "open" /\ q[m].text[1] = o
                       /\ \A k \in (m + 1)..n : ~Mark(q[k], d)
    \/ (\A k \in 1..n : ~Mark(q[k], d)) /\ r[d] # Nil /\ r[d].text[1] = o

\* What the server was told of d, unless that failed.
ToldOf(r, d) == <<r[d].text[1], r[d].version>>

\* After the first n commands of q the task has been given d's text x.
Given(q, r, n, d, x) ==
    \/ \E j \in 1..n : /\ q[j].doc = d /\ q[j].op \in {"open", "change"}
                       /\ AtMost(x, q[j].text)
    \/ r[d] # Nil /\ AtMost(x, ToldOf(r, d))

Ascending(q) ==
    \A i, j \in 1..Len(q) :
       i < j /\ q[i].doc = q[j].doc /\ q[i].op # "close" => Follows(q[i].text, q[j])

Remembers(q, r) ==
    \A d \in Docs : r[d] # Nil => /\ r[d].version <= r[d].text[2]
                                  /\ Precedes(r[d].text, d, q)

Descends(q, r) ==
    \A i \in 1..Len(q) :
       q[i].op \notin {"open", "close"} =>
         KnownAs(q, r, i - 1, q[i].doc, q[i].text[1])

Informed(q, r) ==
    \A i \in 1..Len(q) :
       q[i].op \in {"hint", "request"} => Given(q, r, i - 1, q[i].doc, q[i].text)

\* Requests a task works on: the server was told their texts, if it has the document.
Attended(q, r, F) ==
    \A f \in F : /\ r[f.doc] = Nil \/ AtMost(f.text, ToldOf(r, f.doc))
                 /\ Precedes(f.text, f.doc, q)

InOrder(q, r, F) ==
    Ascending(q) /\ Remembers(q, r) /\ Descends(q, r) /\ Informed(q, r) /\ Attended(q, r, F)

-----------------------------------------------------------------------------
(* Taking a command *)

LEMMA QueueFacts ==
    ASSUME NEW q \in Seq(Cmds)
    PROVE  /\ Len(q) \in Nat
           /\ \A i \in 1..Len(q) : q[i] \in Cmds
           /\ q # <<>> => /\ 1 \in 1..Len(q) /\ Head(q) = q[1] /\ Head(q) \in Cmds
                          /\ Tail(q) \in Seq(Cmds) /\ Len(Tail(q)) = Len(q) - 1
                          /\ \A i \in 1..Len(Tail(q)) :
                                i + 1 \in 1..Len(q) /\ Tail(q)[i] = q[i + 1]
<1>1. Len(q) \in Nat /\ \A i \in 1..Len(q) : q[i] \in Cmds
  OBVIOUS
<1>2. ASSUME q # <<>>
      PROVE  /\ 1 \in 1..Len(q) /\ Head(q) = q[1] /\ Head(q) \in Cmds
             /\ Tail(q) \in Seq(Cmds) /\ Len(Tail(q)) = Len(q) - 1
  BY <1>2
<1>3. ASSUME q # <<>>, NEW i \in 1..Len(Tail(q))
      PROVE  i + 1 \in 1..Len(q) /\ Tail(q)[i] = q[i + 1]
  BY <1>1, <1>2, <1>3
<1> QED BY <1>1, <1>2, <1>3

\* The first command is about an opening the task knows, unless it is an open
\* or a close.
LEMMA HeadIsKnown ==
    ASSUME NEW q \in Seq(Cmds), q # <<>>, NEW r \in Replays, Descends(q, r),
           Head(q).op \notin {"open", "close"}
    PROVE  r[Head(q).doc] \in Entries /\ r[Head(q).doc] # Nil
           /\ r[Head(q).doc].text[1] = Head(q).text[1]
<1>1. 1 \in 1..Len(q) /\ Head(q) = q[1] /\ Head(q) \in Cmds
  BY QueueFacts
<1>2. KnownAs(q, r, 1 - 1, Head(q).doc, Head(q).text[1])
  BY <1>1 DEF Descends
<1>3. 1 - 1 = 0 /\ 1..0 = {}
  OBVIOUS
<1>4. r[Head(q).doc] # Nil /\ r[Head(q).doc].text[1] = Head(q).text[1]
  BY <1>2, <1>3 DEF KnownAs
<1> QED BY <1>1, <1>4, CmdFacts DEF Replays

LEMMA KnownAsShifts ==
    ASSUME NEW q \in Seq(Cmds), q # <<>>, NEW r \in Replays, Descends(q, r),
           NEW n \in 1..Len(q), NEW d \in Docs, NEW o, KnownAs(q, r, n, d, o)
    PROVE  KnownAs(Tail(q), Remember(r, Head(q)), n - 1, d, o)
<1> DEFINE h == Head(q)
           u == Tail(q)
           s == Remember(r, h)
<1>1. /\ 1 \in 1..Len(q) /\ h = q[1] /\ h \in Cmds /\ Len(q) \in Nat
      /\ Len(u) = Len(q) - 1
      /\ \A i \in 1..Len(u) : i + 1 \in 1..Len(q) /\ u[i] = q[i + 1]
  BY QueueFacts
<1> HIDE DEF h, u
<1>2. \A k \in 1..(n - 1) : k \in 1..Len(u) /\ k + 1 \in 1..n /\ u[k] = q[k + 1]
  BY <1>1
<1>3. CASE \E m \in 1..n : /\ Mark(q[m], d) /\ q[m].op = "open" /\ q[m].text[1] = o
                           /\ \A k \in (m + 1)..n : ~Mark(q[k], d)
  <2>1. PICK m \in 1..n : /\ Mark(q[m], d) /\ q[m].op = "open" /\ q[m].text[1] = o
                          /\ \A k \in (m + 1)..n : ~Mark(q[k], d)
    BY <1>3
  <2>2. CASE m = 1
    <3>1. h.op = "open" /\ h.doc = d /\ h.text[1] = o
      BY <1>1, <2>1, <2>2 DEF Mark
    <3>2. h.text \in Pairs
      BY <1>1, <3>1, CmdFacts
    <3>3. s[d] = Entry(h.text)
      BY <1>1, <3>1, RememberIs
    <3>4. s[d] # Nil /\ s[d].text[1] = o
      BY <3>1, <3>2, <3>3, FreshEntry
    <3>5. \A k \in 1..(n - 1) : ~Mark(u[k], d)
      <4> SUFFICES ASSUME NEW k \in 1..(n - 1) PROVE ~Mark(u[k], d)
        OBVIOUS
      <4>1. k + 1 \in (m + 1)..n
        BY <2>2
      <4> QED BY <1>2, <2>1, <4>1
    <3> QED BY <3>4, <3>5 DEF KnownAs, h, u
  <2>3. CASE m # 1
    <3>1. m - 1 \in 1..(n - 1) /\ (m - 1) + 1 = m
      BY <2>3
    <3>2. u[m - 1] = q[m]
      BY <1>2, <3>1
    <3>3. \A k \in m..(n - 1) : ~Mark(u[k], d)
      <4> SUFFICES ASSUME NEW k \in m..(n - 1) PROVE ~Mark(u[k], d)
        OBVIOUS
      <4>1. k \in 1..(n - 1) /\ k + 1 \in (m + 1)..n
        OBVIOUS
      <4> QED BY <1>2, <2>1, <4>1
    <3>4. \A k \in ((m - 1) + 1)..(n - 1) : ~Mark(u[k], d)
      BY <3>1, <3>3
    <3> QED BY <2>1, <3>1, <3>2, <3>4 DEF KnownAs, h, u
  <2> QED BY <2>2, <2>3
<1>4. CASE (\A k \in 1..n : ~Mark(q[k], d)) /\ r[d] # Nil /\ r[d].text[1] = o
  <2>1. ~Mark(h, d)
    BY <1>1, <1>4
  <2>2. \A k \in 1..(n - 1) : ~Mark(u[k], d)
    BY <1>2, <1>4
  <2>3. s[d] # Nil /\ s[d].text[1] = o
    <3>1. CASE h.doc # d
      BY <1>1, <1>4, <3>1, RememberOther
    <3>2. CASE h.doc = d
      <4>1. h.op \notin {"open", "close"} /\ h.op \in AnyOp
        BY <1>1, <2>1, <3>2, CmdFacts DEF Mark
      <4>2. r[d].text[1] = h.text[1] /\ h.text \in Pairs
        BY <1>1, <3>2, <4>1, HeadIsKnown, CmdFacts DEF h
      <4>3. CASE h.op = "change"
        <5>1. s[d] = Entry(h.text)
          BY <1>1, <1>4, <3>2, <4>3, RememberText
        <5> QED BY <1>4, <4>2, <5>1, FreshEntry
      <4>4. CASE h.op = "save"
        BY <1>1, <1>4, <3>2, <4>2, <4>4, RememberSave
      <4>5. CASE h.op \in {"hint", "request"}
        BY <1>1, <1>4, <4>5, RememberNone
      <4> QED BY <4>1, <4>3, <4>4, <4>5 DEF AnyOp
    <3> QED BY <3>1, <3>2
  <2> QED BY <2>2, <2>3 DEF KnownAs, h, u
<1> QED BY <1>3, <1>4 DEF KnownAs

LEMMA ToldFacts ==
    ASSUME NEW r \in Replays, NEW d \in Docs, r[d] # Nil
    PROVE  /\ r[d] \in Entries /\ r[d].text \in Pairs /\ ToldOf(r, d) \in Pairs
           /\ ToldOf(r, d)[1] = r[d].text[1] /\ ToldOf(r, d)[2] = r[d].version
<1>1. r[d] \in Entries
  BY DEF Replays
<1>2. r[d].version \in Nat /\ r[d].text \in Pairs
  BY <1>1, EntryFacts
<1>3. r[d].text[1] \in Nat
  BY <1>2, PairFacts
<1> QED BY <1>1, <1>2, <1>3 DEF ToldOf, Pairs

\* Taking a command never takes the task's knowledge back, unless it is a close.
LEMMA ToldGrows ==
    ASSUME NEW q \in Seq(Cmds), q # <<>>, NEW r \in Replays, Descends(q, r),
           Remembers(q, r), NEW d \in Docs, r[d] # Nil,
           Remember(r, Head(q))[d] # Nil
    PROVE  AtMost(ToldOf(r, d), ToldOf(Remember(r, Head(q)), d))
<1> DEFINE h == Head(q)
           s == Remember(r, h)
<1>1. 1 \in 1..Len(q) /\ h = q[1] /\ h \in Cmds
  BY QueueFacts
<1> HIDE DEF h
<1>2. s \in Replays
  BY <1>1, RememberIs
<1>3. /\ ToldOf(r, d) \in Pairs /\ r[d].text \in Pairs
      /\ ToldOf(r, d)[1] = r[d].text[1] /\ ToldOf(r, d)[2] = r[d].version
  BY ToldFacts
<1>4. CASE h.doc # d
  <2>1. s[d] = r[d]
    BY <1>1, <1>4, RememberIs
  <2>2. ToldOf(s, d) = ToldOf(r, d)
    BY <2>1 DEF ToldOf
  <2> QED BY <1>3, <2>2, AtMostTransitive DEF h
<1>5. CASE h.doc = d
  <2>1. Follows(r[d].text, h) /\ r[d].version <= r[d].text[2]
    BY <1>1, <1>5 DEF Remembers, Precedes
  <2>2. CASE h.op \in {"open", "change"}
    <3>1. h.text \in Pairs /\ s[d] = Entry(h.text)
      BY <1>1, <1>5, <2>2, CmdFacts, RememberIs
    <3>2. ToldOf(s, d)[1] = h.text[1] /\ ToldOf(s, d)[2] = h.text[2]
      BY <3>1, FreshEntry DEF ToldOf
    <3>3. r[d].text[1] < h.text[1]
          \/ (r[d].text[1] = h.text[1] /\ r[d].text[2] < h.text[2])
      BY <2>1, <2>2 DEF Follows, Older
    <3>4. /\ r[d].text[1] \in Nat /\ r[d].text[2] \in Nat /\ r[d].version \in Nat
          /\ h.text[1] \in Nat /\ h.text[2] \in Nat
      BY <1>3, <3>1, PairFacts, ToldFacts, EntryFacts
    <3>5. r[d].version <= r[d].text[2]
      BY <2>1
    <3>6. r[d].text[1] < h.text[1]
          \/ (r[d].text[1] = h.text[1] /\ r[d].version <= h.text[2])
      BY <3>3, <3>4, <3>5
    <3>7. AtMost(ToldOf(r, d), ToldOf(s, d))
      BY <1>3, <3>2, <3>6 DEF AtMost
    <3> QED BY <3>7 DEF h
  <2>3. CASE h.op = "save"
    <3>1. s[d].text = h.text /\ s[d].version = r[d].version
      BY <1>1, <1>5, <2>3, RememberIs
    <3>2. h.text[1] = r[d].text[1]
      BY <1>5, <2>3, HeadIsKnown DEF h
    <3>3. ToldOf(s, d) = ToldOf(r, d)
      BY <3>1, <3>2 DEF ToldOf
    <3> QED BY <1>3, <3>3, AtMostTransitive DEF h
  <2>4. CASE h.op \in {"hint", "request"}
    <3>1. s = r
      BY <1>1, <2>4, RememberIs
    <3> QED BY <1>3, <3>1, AtMostTransitive DEF h
  <2>5. h.op # "close"
    BY <1>1, <1>5, RememberIs DEF h
  <2> QED BY <1>1, <2>2, <2>3, <2>4, <2>5, CmdFacts DEF AnyOp
<1> QED BY <1>4, <1>5

LEMMA GivenShifts ==
    ASSUME NEW q \in Seq(Cmds), q # <<>>, NEW r \in Replays, Descends(q, r),
           Remembers(q, r), NEW n \in 1..Len(q), NEW d \in Docs, NEW x \in Pairs,
           KnownAs(q, r, n, d, x[1]), Given(q, r, n, d, x)
    PROVE  Given(Tail(q), Remember(r, Head(q)), n - 1, d, x)
<1> DEFINE h == Head(q)
           u == Tail(q)
           s == Remember(r, h)
<1>1. /\ 1 \in 1..Len(q) /\ h = q[1] /\ h \in Cmds /\ Len(q) \in Nat
      /\ Len(u) = Len(q) - 1 /\ s \in Replays
      /\ \A i \in 1..Len(u) : i + 1 \in 1..Len(q) /\ u[i] = q[i + 1]
  BY QueueFacts, RememberIs
<1> HIDE DEF h, u, s
<1>2. \A k \in 1..(n - 1) : k \in 1..Len(u) /\ k + 1 \in 1..n /\ u[k] = q[k + 1]
  BY <1>1
<1>3. CASE \E j \in 1..n : /\ q[j].doc = d /\ q[j].op \in {"open", "change"}
                           /\ AtMost(x, q[j].text)
  <2>1. PICK j \in 1..n : /\ q[j].doc = d /\ q[j].op \in {"open", "change"}
                          /\ AtMost(x, q[j].text)
    BY <1>3
  <2>2. CASE j = 1
    <3>1. h.doc = d /\ h.op \in {"open", "change"} /\ AtMost(x, h.text) /\ h.text \in Pairs
      BY <1>1, <2>1, <2>2, CmdFacts
    <3>2. h.op = "change" => r[d] # Nil
      BY <3>1, HeadIsKnown DEF h
    <3>3. s[d] = Entry(h.text)
      BY <1>1, <3>1, <3>2, RememberIs DEF s
    <3>4. s[d] # Nil /\ ToldOf(s, d)[1] = h.text[1] /\ ToldOf(s, d)[2] = h.text[2]
      BY <3>1, <3>3, FreshEntry DEF ToldOf
    <3> QED BY <3>1, <3>4 DEF Given, AtMost, s, h
  <2>3. CASE j # 1
    <3>1. j - 1 \in 1..(n - 1) /\ (j - 1) + 1 = j
      BY <2>3
    <3>2. u[j - 1] = q[j]
      BY <1>2, <3>1
    <3> QED BY <2>1, <3>1, <3>2 DEF Given, u
  <2> QED BY <2>2, <2>3
<1>4. CASE r[d] # Nil /\ AtMost(x, ToldOf(r, d))
  <2>1. CASE s[d] # Nil
    <3>1. AtMost(ToldOf(r, d), ToldOf(s, d))
      BY <1>4, <2>1, ToldGrows DEF s, h
    <3>2. ToldOf(r, d) \in Pairs /\ ToldOf(s, d) \in Pairs
      BY <1>1, <1>4, <2>1, ToldFacts
    <3> QED BY <1>4, <2>1, <3>1, <3>2, AtMostTransitive DEF Given, s, h
  <2>2. CASE s[d] = Nil
    <3>1. h.doc = d /\ h.op = "close"
      <4>1. h.doc = d
        BY <1>1, <1>4, <2>2, RememberOther DEF s
      <4>2. h.op \in AnyOp /\ (h.op # "close" => h.text \in Pairs)
        BY <1>1, CmdFacts
      <4>3. h.op \notin {"open", "change"}
        BY <1>1, <1>4, <2>2, <4>1, <4>2, RememberText, FreshEntry DEF s
      <4>4. h.op # "save"
        BY <1>1, <1>4, <2>2, <4>1, RememberSave DEF s
      <4>5. h.op \notin {"hint", "request"}
        BY <1>1, <1>4, <2>2, RememberNone DEF s
      <4> QED BY <4>1, <4>2, <4>3, <4>4, <4>5 DEF AnyOp
    <3>2. Mark(q[1], d)
      BY <1>1, <3>1 DEF Mark
    <3>3. 1 \in 1..n
      OBVIOUS
    <3>4. PICK m \in 1..n : Mark(q[m], d) /\ q[m].op = "open" /\ q[m].text[1] = x[1]
      BY <3>2, <3>3 DEF KnownAs
    <3>5. m \in 1..Len(q) /\ q[m].doc = d
      BY <1>1, <3>4 DEF Mark
    <3>6. r[d].text[1] < x[1]
      BY <1>4, <3>4, <3>5 DEF Remembers, Precedes, Follows
    <3>7. x[1] <= r[d].text[1]
      <4>1. ToldOf(r, d)[1] = r[d].text[1] /\ r[d].text \in Pairs
        BY <1>4, ToldFacts
      <4> QED BY <1>4, <4>1, PairFacts DEF AtMost
    <3>8. r[d].text[1] \in Nat /\ x[1] \in Nat
      BY <1>4, ToldFacts, PairFacts
    <3> QED BY <3>6, <3>7, <3>8
  <2> QED BY <2>1, <2>2
<1> QED BY <1>3, <1>4 DEF Given

Asked(cmd) == IF cmd.op \in {"hint", "request"} THEN {cmd} ELSE {}

LEMMA AscendingShifts ==
    ASSUME NEW q \in Seq(Cmds), q # <<>>, Ascending(q)
    PROVE  /\ Ascending(Tail(q))
           /\ Head(q).op # "close" => Precedes(Head(q).text, Head(q).doc, Tail(q))
           /\ \A x, d : Precedes(x, d, q) => Precedes(x, d, Tail(q))
<1> DEFINE u == Tail(q)
<1>1. /\ 1 \in 1..Len(q) /\ Head(q) = q[1] /\ Len(q) \in Nat /\ Len(u) = Len(q) - 1
      /\ \A i \in 1..Len(u) : i + 1 \in 1..Len(q) /\ u[i] = q[i + 1]
  BY QueueFacts
<1> HIDE DEF u
<1>2. Ascending(u)
  <2> SUFFICES ASSUME NEW i \in 1..Len(u), NEW j \in 1..Len(u), i < j,
                      u[i].doc = u[j].doc, u[i].op # "close"
               PROVE  Follows(u[i].text, u[j])
    BY DEF Ascending
  <2>1. i + 1 < j + 1
    BY <1>1
  <2> QED BY <1>1, <2>1 DEF Ascending
<1>3. Head(q).op # "close" => Precedes(Head(q).text, Head(q).doc, u)
  <2> SUFFICES ASSUME Head(q).op # "close", NEW j \in 1..Len(u), u[j].doc = Head(q).doc
               PROVE  Follows(Head(q).text, u[j])
    BY DEF Precedes
  <2>1. 1 < j + 1
    BY <1>1
  <2> QED BY <1>1, <2>1 DEF Ascending
<1>4. ASSUME NEW x, NEW d, Precedes(x, d, q) PROVE Precedes(x, d, u)
  BY <1>1, <1>4 DEF Precedes
<1> QED BY <1>2, <1>3, <1>4 DEF u

LEMMA TakeRemembers ==
    ASSUME NEW q \in Seq(Cmds), q # <<>>, NEW r \in Replays, Ascending(q),
           Remembers(q, r), Descends(q, r)
    PROVE  Remembers(Tail(q), Remember(r, Head(q)))
<1> DEFINE h == Head(q)
           u == Tail(q)
           s == Remember(r, h)
<1>1. 1 \in 1..Len(q) /\ h = q[1] /\ h \in Cmds /\ s \in Replays
  BY QueueFacts, RememberIs
<1>2. /\ h.op # "close" => Precedes(h.text, h.doc, u)
      /\ \A x, d : Precedes(x, d, q) => Precedes(x, d, u)
  BY AscendingShifts
<1> SUFFICES ASSUME NEW d \in Docs, s[d] # Nil
             PROVE  s[d].version <= s[d].text[2] /\ Precedes(s[d].text, d, u)
  BY DEF Remembers
<1> HIDE DEF h, u, s
<1>3. r[d] # Nil => r[d].version <= r[d].text[2] /\ Precedes(r[d].text, d, u)
  BY <1>2 DEF Remembers
<1>4. CASE h.doc # d
  <2>1. s[d] = r[d]
    BY <1>1, <1>4, RememberOther DEF s
  <2> QED BY <1>3, <2>1
<1>5. CASE h.op \in {"hint", "request"}
  <2>1. s = r
    BY <1>1, <1>5, RememberNone DEF s
  <2> QED BY <1>3, <2>1
<1>6. CASE h.doc = d /\ h.op \in {"open", "change"}
  <2>1. h.op = "change" => r[d] # Nil
    BY <1>6, HeadIsKnown DEF h
  <2>2. s[d] = Entry(h.text) /\ h.text \in Pairs
    BY <1>1, <1>6, <2>1, RememberText, CmdFacts DEF s
  <2>3. s[d].version = h.text[2] /\ s[d].text = h.text /\ h.text[2] \in Nat
    BY <2>2, FreshEntry, PairFacts
  <2> QED BY <1>2, <1>6, <2>3
<1>7. CASE h.doc = d /\ h.op = "save"
  <2>1. r[d] # Nil /\ r[d].text[1] = h.text[1] /\ r[d] \in Entries
    BY <1>7, HeadIsKnown DEF h
  <2>2. s[d].text = h.text /\ s[d].version = r[d].version
    BY <1>1, <1>7, <2>1, RememberSave DEF s
  <2>3. AtMost(r[d].text, h.text)
    BY <1>1, <1>7, <2>1 DEF Remembers, Precedes, Follows
  <2>4. h.text \in Pairs /\ r[d].text \in Pairs /\ r[d].version \in Nat
    BY <1>1, <1>7, <2>1, CmdFacts, EntryFacts
  <2>5. r[d].text[2] <= h.text[2]
    BY <2>1, <2>3, <2>4, PairFacts DEF AtMost
  <2>6. r[d].version <= h.text[2]
    BY <1>3, <2>1, <2>4, <2>5, PairFacts
  <2> QED BY <1>2, <1>7, <2>2, <2>6
<1>8. CASE h.doc = d /\ h.op = "close"
  <2>1. s[d] = Nil
    BY <1>1, <1>8, RememberIs DEF s
  <2> QED BY <2>1
<1> QED BY <1>1, <1>4, <1>5, <1>6, <1>7, <1>8, CmdFacts DEF AnyOp

LEMMA TakeAttends ==
    ASSUME NEW q \in Seq(Cmds), q # <<>>, NEW r \in Replays, NEW F \in SUBSET Requests,
           InOrder(q, r, F)
    PROVE  Attended(Tail(q), Remember(r, Head(q)), F \cup Asked(Head(q)))
<1> DEFINE h == Head(q)
           u == Tail(q)
           s == Remember(r, h)
<1>1. 1 \in 1..Len(q) /\ h = q[1] /\ h \in Cmds /\ s \in Replays
  BY QueueFacts, RememberIs
<1>2. /\ h.op # "close" => Precedes(h.text, h.doc, u)
      /\ \A x, d : Precedes(x, d, q) => Precedes(x, d, u)
  BY AscendingShifts DEF InOrder
<1> HIDE DEF h, u, s
<1>3. ASSUME NEW f \in F
      PROVE  (s[f.doc] = Nil \/ AtMost(f.text, ToldOf(s, f.doc))) /\ Precedes(f.text, f.doc, u)
  <2>1. /\ r[f.doc] = Nil \/ AtMost(f.text, ToldOf(r, f.doc))
        /\ Precedes(f.text, f.doc, q)
    BY DEF InOrder, Attended
  <2>2. f.doc \in Docs /\ f.text \in Pairs
    BY DEF Requests
  <2>3. Precedes(f.text, f.doc, u)
    BY <1>2, <2>1
  <2>4. ASSUME s[f.doc] # Nil PROVE AtMost(f.text, ToldOf(s, f.doc))
    <3>1. CASE r[f.doc] # Nil
      <4>1. AtMost(ToldOf(r, f.doc), ToldOf(s, f.doc))
        BY <2>2, <2>4, <3>1, ToldGrows DEF InOrder, s, h
      <4>2. ToldOf(r, f.doc) \in Pairs /\ ToldOf(s, f.doc) \in Pairs
        BY <1>1, <2>2, <2>4, <3>1, ToldFacts
      <4> QED BY <2>1, <2>2, <3>1, <4>1, <4>2, AtMostTransitive
    <3>2. CASE r[f.doc] = Nil
      <4>1. h.doc = f.doc
        BY <1>1, <2>2, <2>4, <3>2, RememberOther DEF s
      <4>2. h.op = "open"
        <5>1. h.op \in {"open", "close"}
          BY <3>2, <4>1, HeadIsKnown DEF InOrder, h
        <5>2. h.op # "close"
          BY <1>1, <2>4, <4>1, RememberIs DEF s
        <5> QED BY <5>1, <5>2
      <4>3. f.text[1] < h.text[1]
        BY <1>1, <2>1, <4>1, <4>2 DEF Precedes, Follows
      <4>4. s[f.doc] = Entry(h.text) /\ h.text \in Pairs
        BY <1>1, <4>1, <4>2, RememberText, CmdFacts DEF s
      <4>5. ToldOf(s, f.doc)[1] = h.text[1]
        BY <4>4, FreshEntry DEF ToldOf
      <4> QED BY <4>3, <4>5 DEF AtMost
    <3> QED BY <3>1, <3>2
  <2> QED BY <2>3, <2>4
<1>4. ASSUME h.op \in {"hint", "request"}
      PROVE  (s[h.doc] = Nil \/ AtMost(h.text, ToldOf(s, h.doc))) /\ Precedes(h.text, h.doc, u)
  <2>1. Given(q, r, 1 - 1, h.doc, h.text)
    BY <1>1, <1>4 DEF InOrder, Informed
  <2>2. 1 - 1 = 0 /\ 1..0 = {}
    OBVIOUS
  <2>3. AtMost(h.text, ToldOf(r, h.doc))
    BY <2>1, <2>2 DEF Given
  <2>4. s = r
    BY <1>1, <1>4, RememberNone DEF s
  <2> QED BY <1>2, <1>4, <2>3, <2>4
<1>5. Attended(u, s, F \cup Asked(h))
  BY <1>3, <1>4 DEF Attended, Asked
<1> QED BY <1>5 DEF u, s, h

\* What a task takes from its queue keeps the order of what is left.
LEMMA TakeKeepsOrder ==
    ASSUME NEW q \in Seq(Cmds), q # <<>>, NEW r \in Replays, NEW F \in SUBSET Requests,
           InOrder(q, r, F)
    PROVE  InOrder(Tail(q), Remember(r, Head(q)), F \cup Asked(Head(q)))
<1> DEFINE u == Tail(q)
           s == Remember(r, Head(q))
<1>1. /\ Len(q) \in Nat /\ Len(u) = Len(q) - 1
      /\ \A i \in 1..Len(u) : i + 1 \in 1..Len(q) /\ u[i] = q[i + 1]
      /\ \A i \in 1..Len(q) : q[i] \in Cmds
  BY QueueFacts
<1>2. Ascending(q) /\ Remembers(q, r) /\ Descends(q, r) /\ Informed(q, r)
  BY DEF InOrder
<1>3. Ascending(u)
  BY <1>2, AscendingShifts
<1>4. Remembers(u, s)
  BY <1>2, TakeRemembers
<1>5. Descends(u, s)
  <2> SUFFICES ASSUME NEW i \in 1..Len(u), u[i].op \notin {"open", "close"}
               PROVE  KnownAs(u, s, i - 1, u[i].doc, u[i].text[1])
    BY DEF Descends
  <2>1. i + 1 \in 1..Len(q) /\ u[i] = q[i + 1] /\ (i + 1) - 1 = i /\ i \in 1..Len(q)
    BY <1>1
  <2>2. KnownAs(q, r, i, u[i].doc, u[i].text[1]) /\ u[i].doc \in Docs
    BY <1>1, <1>2, <2>1, CmdFacts DEF Descends
  <2> HIDE DEF u, s
  <2>3. KnownAs(Tail(q), Remember(r, Head(q)), i - 1, u[i].doc, u[i].text[1])
    BY <1>2, <2>1, <2>2, KnownAsShifts
  <2> QED BY <2>3 DEF u, s
<1>6. Informed(u, s)
  <2> SUFFICES ASSUME NEW i \in 1..Len(u), u[i].op \in {"hint", "request"}
               PROVE  Given(u, s, i - 1, u[i].doc, u[i].text)
    BY DEF Informed
  <2>1. i + 1 \in 1..Len(q) /\ u[i] = q[i + 1] /\ (i + 1) - 1 = i /\ i \in 1..Len(q)
    BY <1>1
  <2>2. u[i].doc \in Docs /\ u[i].text \in Pairs
    BY <1>1, <2>1, CmdFacts
  <2>3. KnownAs(q, r, i, u[i].doc, u[i].text[1])
    BY <1>2, <2>1 DEF Descends
  <2>4. Given(q, r, i, u[i].doc, u[i].text)
    BY <1>2, <2>1 DEF Informed
  <2> HIDE DEF u, s
  <2>5. Given(Tail(q), Remember(r, Head(q)), i - 1, u[i].doc, u[i].text)
    BY <1>2, <2>1, <2>2, <2>3, <2>4, GivenShifts
  <2> QED BY <2>5 DEF u, s
<1>7. Attended(u, s, F \cup Asked(Head(q)))
  BY TakeAttends
<1> QED BY <1>3, <1>4, <1>5, <1>6, <1>7 DEF InOrder

\* Two replay sets with the same texts, told or not.
SameTexts(r, s) ==
    \A d \in Docs : /\ r[d] = Nil <=> s[d] = Nil
                    /\ r[d] # Nil => s[d].text = r[d].text /\ s[d].version = r[d].version

LEMMA SameKeepsKnowledge ==
    ASSUME NEW q, NEW r, NEW s, SameTexts(r, s), NEW d \in Docs, NEW n, NEW x
    PROVE  /\ KnownAs(q, r, n, d, x) => KnownAs(q, s, n, d, x)
           /\ Given(q, r, n, d, x) => Given(q, s, n, d, x)
           /\ r[d] # Nil => ToldOf(s, d) = ToldOf(r, d)
<1>1. r[d] # Nil => s[d] # Nil /\ s[d].text = r[d].text /\ ToldOf(s, d) = ToldOf(r, d)
  BY DEF SameTexts, ToldOf
<1> QED BY <1>1 DEF KnownAs, Given

LEMMA SameKeepsOrder ==
    ASSUME NEW q \in Seq(Cmds), NEW r, NEW s, SameTexts(r, s),
           NEW F, NEW G, F \subseteq Requests, G \subseteq F, InOrder(q, r, F)
    PROVE  InOrder(q, s, G)
<1>1. \A i \in 1..Len(q) : q[i] \in Cmds /\ q[i].doc \in Docs
  BY QueueFacts, CmdFacts
<1>2. Ascending(q)
  BY DEF InOrder
<1>3. Remembers(q, s)
  BY DEF InOrder, Remembers, SameTexts
<1>4. Descends(q, s)
  BY <1>1, SameKeepsKnowledge DEF InOrder, Descends
<1>5. Informed(q, s)
  BY <1>1, SameKeepsKnowledge DEF InOrder, Informed
<1>6. Attended(q, s, G)
  <2> SUFFICES ASSUME NEW f \in G
               PROVE  (s[f.doc] = Nil \/ AtMost(f.text, ToldOf(s, f.doc)))
                      /\ Precedes(f.text, f.doc, q)
    BY DEF Attended
  <2>1. f \in F /\ f.doc \in Docs
    BY DEF Requests
  <2>2. r[f.doc] = Nil \/ AtMost(f.text, ToldOf(r, f.doc))
    BY <2>1 DEF InOrder, Attended
  <2>3. r[f.doc] = Nil <=> s[f.doc] = Nil
    BY <2>1 DEF SameTexts
  <2>4. r[f.doc] # Nil => ToldOf(s, f.doc) = ToldOf(r, f.doc)
    BY <2>1, SameKeepsKnowledge
  <2> QED BY <2>1, <2>2, <2>3, <2>4 DEF InOrder, Attended
<1> QED BY <1>2, <1>3, <1>4, <1>5, <1>6 DEF InOrder

-----------------------------------------------------------------------------
(* The record of a task, and the operators that build its next one *)

Phases == {"Starting", "Running", "Retrying", "CircuitOpen", "Unavailable", "Ended"}
Copies == {Nil, Garbage} \cup Pairs
Steps == [from : Nat \X Int, to : Pairs]
Pendings == [doc : Docs, text : Pairs, deltas : Seq(Steps)]
Servers == [copy : [Docs -> Copies], astray : SUBSET Docs]

TaskRec ==
    [phase : Phases, queue : Seq(Cmds), replay : Replays,
     pending : {Nil} \cup Pendings, server : Servers, tally : Tallies,
     worked : BOOLEAN]

FlightRec == [deferred : SUBSET Requests, running : SUBSET Requests]
InFlight(fs) == fs.deferred \cup fs.running

LEMMA PendingFacts ==
    ASSUME NEW p \in Pendings
    PROVE  /\ p # Nil /\ p.doc \in Docs /\ p.text \in Pairs /\ p.deltas \in Seq(Steps)
<1>1. "doc" \in DOMAIN p
  BY DEF Pendings
<1>2. "doc" \notin DOMAIN Nil
  BY DEF Nil
<1> QED BY <1>1, <1>2 DEF Pendings

LEMMA TaskFacts ==
    ASSUME NEW c \in TaskRec
    PROVE  /\ c.phase \in Phases /\ c.queue \in Seq(Cmds) /\ c.replay \in Replays
           /\ c.pending # Nil => c.pending \in Pendings
           /\ c.server \in Servers /\ c.server.copy \in [Docs -> Copies]
           /\ c.server.astray \subseteq Docs
           /\ c.tally \in Tallies /\ c.worked \in BOOLEAN
  BY DEF TaskRec, Servers

\* The fields of a task that taking a command, or a flush, may change.
SameBut(c, e) == e.phase = c.phase /\ e.worked = c.worked

LEMMA RememberedIs ==
    ASSUME NEW c \in TaskRec, NEW cmd \in Cmds
    PROVE  LET e == Remembered(c, cmd) IN
           /\ e \in TaskRec /\ SameBut(c, e)
           /\ e.queue = c.queue /\ e.replay = Remember(c.replay, cmd)
           /\ e.pending = c.pending /\ e.server = c.server /\ e.tally = c.tally
<1> DEFINE e == Remembered(c, cmd)
           s == Remember(c.replay, cmd)
<1>1. c.replay \in Replays /\ cmd.op \in AnyOp /\ s \in Replays
  BY TaskFacts, CmdFacts, RememberIs
<1>2. e = [c EXCEPT !.replay = s]
  <2>1. CASE cmd.op = "open" \/ (cmd.op = "change" /\ c.replay[cmd.doc] # Nil)
    <3>1. s = [c.replay EXCEPT ![cmd.doc] = Entry(cmd.text)]
      BY <2>1 DEF Remember
    <3>2. e = [c EXCEPT !.replay[cmd.doc] = Entry(cmd.text)]
      BY <2>1 DEF Remembered
    <3> QED BY <3>1, <3>2
  <2>2. CASE cmd.op = "save" /\ c.replay[cmd.doc] # Nil
    <3>1. s = [c.replay EXCEPT ![cmd.doc].text = cmd.text]
      BY <2>2 DEF Remember
    <3>2. e = [c EXCEPT !.replay[cmd.doc].text = cmd.text]
      BY <2>2 DEF Remembered
    <3> QED BY <3>1, <3>2
  <2>3. CASE cmd.op = "close"
    <3>1. s = [c.replay EXCEPT ![cmd.doc] = Nil]
      BY <2>3 DEF Remember
    <3>2. e = [c EXCEPT !.replay[cmd.doc] = Nil]
      BY <2>3 DEF Remembered
    <3> QED BY <3>1, <3>2
  <2>4. CASE \/ cmd.op \in {"hint", "request"}
             \/ cmd.op \in {"change", "save"} /\ c.replay[cmd.doc] = Nil
    <3>1. s = c.replay
      BY <2>4 DEF Remember
    <3>2. e = c
      BY <2>4 DEF Remembered
    <3> HIDE DEF e, s
    <3> QED BY <3>1, <3>2 DEF TaskRec
  <2> QED BY <1>1, <2>1, <2>2, <2>3, <2>4 DEF AnyOp
<1> HIDE DEF e, s
<1>3. e \in TaskRec
  BY <1>1, <1>2 DEF TaskRec
<1>4. /\ e.phase = c.phase /\ e.worked = c.worked /\ e.queue = c.queue /\ e.replay = s
      /\ e.pending = c.pending /\ e.server = c.server /\ e.tally = c.tally
  BY <1>2 DEF TaskRec
<1> QED BY <1>3, <1>4 DEF e, s, SameBut

LEMMA TakenIs ==
    ASSUME NEW t \in Tokens, task[t] \in TaskRec, task[t].queue # <<>>
    PROVE  LET c == task[t]
               e == Taken(t) IN
           /\ e \in TaskRec /\ SameBut(c, e)
           /\ e.queue = Tail(c.queue) /\ e.replay = Remember(c.replay, Head(c.queue))
           /\ e.pending = c.pending /\ e.server = c.server /\ e.tally = c.tally
<1> DEFINE c == task[t]
           k == [c EXCEPT !.queue = Tail(@)]
<1>1. Tail(c.queue) \in Seq(Cmds) /\ Head(c.queue) \in Cmds
  BY TaskFacts, QueueFacts
<1>2. Taken(t) = Remembered(k, Head(c.queue))
  BY DEF Taken
<1> HIDE DEF c
<1>3. c \in TaskRec
  BY DEF c
<1>4. /\ k \in TaskRec /\ SameBut(c, k) /\ k.queue = Tail(c.queue)
      /\ k.replay = c.replay /\ k.pending = c.pending /\ k.server = c.server
      /\ k.tally = c.tally
  BY <1>1, <1>3 DEF TaskRec, SameBut
<1> HIDE DEF k
<1> DEFINE h == Head(c.queue)
           e == Remembered(k, h)
<1>5. /\ e \in TaskRec /\ SameBut(k, e) /\ e.queue = k.queue
      /\ e.replay = Remember(k.replay, h) /\ e.pending = k.pending
      /\ e.server = k.server /\ e.tally = k.tally
  BY <1>1, <1>4, RememberedIs
<1> HIDE DEF e, h
<1>6. /\ e \in TaskRec /\ SameBut(c, e) /\ e.queue = Tail(c.queue)
      /\ e.replay = Remember(c.replay, h) /\ e.pending = c.pending
      /\ e.server = c.server /\ e.tally = c.tally
  BY <1>4, <1>5 DEF SameBut
<1>7. Taken(t) = e
  BY <1>2 DEF e, h
<1> QED BY <1>6, <1>7 DEF c, h

LEMMA NotedTyped ==
    ASSUME NEW y \in Tallies, NEW outcome \in {"ok", "error", "refused", "timeout"}
    PROVE  Noted(y, outcome) \in Tallies
  BY LimitsArePositive DEF Tallies, Noted

LEMMA AppliedTyped ==
    ASSUME NEW p \in Pendings, NEW copy \in Copies
    PROVE  Applied(copy, p) \in Copies
  BY PendingFacts DEF Applied, Copies

LEMMA SameTextsReflexive == \A r : SameTexts(r, r)
  BY DEF SameTexts

LEMMA FlushedIs ==
    ASSUME NEW c \in TaskRec, NEW sent \in Sends
    PROVE  LET e == Flushed(c, sent)
               p == c.pending IN
           /\ e \in TaskRec /\ SameBut(c, e) /\ e.queue = c.queue /\ e.pending = Nil
           /\ SameTexts(c.replay, e.replay)
           /\ e.server.astray = c.server.astray
           /\ p = Nil => e = c
           /\ \A d \in Docs : p = Nil \/ p.doc # d =>
                /\ e.replay[d] = c.replay[d] /\ e.server.copy[d] = c.server.copy[d]
           /\ p # Nil /\ sent = "ok" =>
                /\ e.replay = c.replay
                /\ e.server.copy[p.doc] = Applied(c.server.copy[p.doc], p)
           /\ p # Nil /\ sent # "ok" =>
                /\ e.server = c.server
                /\ c.replay[p.doc] # Nil => e.replay[p.doc].resync = TRUE
<1> DEFINE e == Flushed(c, sent)
           p == c.pending
<1>1. CASE p = Nil
  <2>1. e = c
    BY <1>1 DEF Flushed
  <2> HIDE DEF e
  <2> QED BY <1>1, <2>1, SameTextsReflexive DEF SameBut, e
<1>2. CASE p # Nil
  <2>1. p \in Pendings /\ p.doc \in Docs
    BY <1>2, TaskFacts, PendingFacts
  <2> DEFINE a == IF sent = "ok" THEN Applied(c.server.copy[p.doc], p)
                  ELSE c.server.copy[p.doc]
             n == IF sent = "ok" \/ c.replay[p.doc] = Nil THEN c.replay[p.doc]
                  ELSE [c.replay[p.doc] EXCEPT !.resync = TRUE]
             y == IF sent = "full" THEN Noted(c.tally, "error") ELSE c.tally
             copy == [c.server.copy EXCEPT ![p.doc] = a]
             srv == [c.server EXCEPT !.copy = copy]
             rep == [c.replay EXCEPT ![p.doc] = n]
  <2>2. e = [c EXCEPT !.pending = Nil, !.server = srv, !.replay = rep, !.tally = y]
    BY <1>2 DEF Flushed
  <2>3. /\ c.replay \in Replays /\ c.server \in Servers
        /\ c.server.copy \in [Docs -> Copies] /\ c.tally \in Tallies
    BY TaskFacts
  <2>4. a \in Copies
    BY <2>1, <2>3, AppliedTyped
  <2>5. y \in Tallies
    BY <2>3, NotedTyped
  <2>6. /\ n \in {Nil} \cup Entries
        /\ c.replay[p.doc] = Nil => n = Nil
        /\ c.replay[p.doc] # Nil =>
             /\ n # Nil /\ n.text = c.replay[p.doc].text
             /\ n.version = c.replay[p.doc].version /\ (sent # "ok" => n.resync = TRUE)
        /\ sent = "ok" => n = c.replay[p.doc]
    <3>1. c.replay[p.doc] \in {Nil} \cup Entries
      BY <2>1, <2>3 DEF Replays
    <3>2. CASE sent = "ok" \/ c.replay[p.doc] = Nil
      BY <3>1, <3>2
    <3>3. CASE sent # "ok" /\ c.replay[p.doc] # Nil
      <4>1. n = [c.replay[p.doc] EXCEPT !.resync = TRUE] /\ c.replay[p.doc] \in Entries
        BY <3>1, <3>3
      <4> HIDE DEF n, p
      <4>2. /\ n \in Entries /\ n.resync = TRUE /\ n.text = c.replay[p.doc].text
            /\ n.version = c.replay[p.doc].version
        BY <4>1 DEF Entries
      <4> QED BY <3>3, <4>2, EntryFacts
    <3> QED BY <3>2, <3>3
  <2> HIDE DEF a, n, y, p
  <2>7. /\ copy \in [Docs -> Copies] /\ copy[p.doc] = a
        /\ \A d \in Docs \ {p.doc} : copy[d] = c.server.copy[d]
        /\ rep \in Replays /\ rep[p.doc] = n
        /\ \A d \in Docs \ {p.doc} : rep[d] = c.replay[d]
    BY <2>1, <2>3, <2>4, <2>6 DEF Replays
  <2>8. /\ sent = "ok" => rep = c.replay
        /\ sent # "ok" => copy = c.server.copy
    BY <2>1, <2>3, <2>6 DEF Replays, a
  <2> HIDE DEF copy, rep
  <2>9. srv \in Servers /\ srv.copy = copy /\ srv.astray = c.server.astray
        /\ (copy = c.server.copy => srv = c.server)
    BY <2>3, <2>7 DEF Servers
  <2> HIDE DEF srv, e
  <2>10. /\ e \in TaskRec /\ e.phase = c.phase /\ e.worked = c.worked
         /\ e.queue = c.queue /\ e.pending = Nil /\ e.server = srv /\ e.replay = rep
    BY <2>2, <2>5, <2>7, <2>9 DEF TaskRec
  <2>11. SameTexts(c.replay, rep)
    BY <2>6, <2>7 DEF SameTexts
  <2>12. sent = "ok" => a = Applied(c.server.copy[p.doc], p)
    BY DEF a
  <2> QED BY <1>2, <2>1, <2>6, <2>7, <2>8, <2>9, <2>10, <2>11, <2>12 DEF SameBut, e, p
<1> QED BY <1>1, <1>2

LEMMA FlushKeeps ==
    ASSUME NEW c \in TaskRec, NEW sent \in Sends
    PROVE  /\ Flushed(c, sent) \in TaskRec /\ SameBut(c, Flushed(c, sent))
           /\ Flushed(c, sent).queue = c.queue /\ Flushed(c, sent).pending = Nil
           /\ SameTexts(c.replay, Flushed(c, sent).replay)
           /\ Flushed(c, sent).server.astray = c.server.astray
  BY FlushedIs

LEMMA FlushElsewhere ==
    ASSUME NEW c \in TaskRec, NEW sent \in Sends, NEW d \in Docs,
           c.pending = Nil \/ c.pending.doc # d
    PROVE  /\ Flushed(c, sent).replay[d] = c.replay[d]
           /\ Flushed(c, sent).server.copy[d] = c.server.copy[d]
  BY FlushedIs

LEMMA FlushSent ==
    ASSUME NEW c \in TaskRec, c.pending # Nil
    PROVE  /\ Flushed(c, "ok").replay = c.replay
           /\ Flushed(c, "ok").server.copy[c.pending.doc]
                = Applied(c.server.copy[c.pending.doc], c.pending)
<1>1. "ok" \in Sends
  BY DEF Sends
<1> QED BY <1>1, FlushedIs

LEMMA FlushFailed ==
    ASSUME NEW c \in TaskRec, NEW sent \in Sends, c.pending # Nil, sent # "ok"
    PROVE  /\ Flushed(c, sent).server = c.server
           /\ c.replay[c.pending.doc] # Nil =>
                Flushed(c, sent).replay[c.pending.doc].resync = TRUE
  BY FlushedIs

-----------------------------------------------------------------------------
(* What the server holds of a document *)

\* A copy is the text the task told, or one a save or a replay brought since.
Matches(copy, e, unsent) ==
    /\ copy # Garbage
    /\ copy = Nil <=> e = Nil
    /\ e # Nil /\ ~e.resync /\ ~unsent =>
         copy[1] = e.text[1] /\ e.version <= copy[2] /\ copy[2] <= e.text[2]

Pends(c, d) == c.pending # Nil /\ c.pending.doc = d

\* The pending change is the last one remembered; its ranges make its text out of
\* the one the server holds.
PendingFits(c) ==
    c.pending # Nil =>
      LET p == c.pending IN
      /\ c.replay[p.doc] = Entry(p.text)
      /\ p.deltas # Nil =>
           /\ \A i \in 2..Len(p.deltas) : p.deltas[i].from = p.deltas[i - 1].to
           /\ p.deltas[Len(p.deltas)].to = p.text
           /\ p.doc \notin c.server.astray =>
                c.server.copy[p.doc] = p.deltas[1].from

AllMatch(c) ==
    \A d \in Docs \ c.server.astray : Matches(c.server.copy[d], c.replay[d], Pends(c, d))

InSync(c) ==
    IF c.phase = "Running" THEN AllMatch(c) /\ PendingFits(c)
    ELSE c.pending = Nil /\ c.server = NoServer

LEMMA AppliedFits ==
    ASSUME NEW c \in TaskRec, c.phase = "Running", InSync(c), c.pending # Nil,
           c.pending.doc \notin c.server.astray
    PROVE  Applied(c.server.copy[c.pending.doc], c.pending) = c.pending.text
<1> DEFINE p == c.pending
           d == p.doc
<1>1. p \in Pendings /\ d \in Docs /\ p.text \in Pairs /\ p.deltas \in Seq(Steps)
  BY TaskFacts, PendingFacts
<1>2. c.replay[d] = Entry(p.text) /\ c.replay[d] # Nil
  BY <1>1, FreshEntry DEF InSync, PendingFits
<1>3. c.server.copy[d] # Nil
  BY <1>1, <1>2 DEF InSync, AllMatch, Matches
<1>4. p.deltas # Nil =>
        /\ \A i \in 2..Len(p.deltas) : p.deltas[i].from = p.deltas[i - 1].to
        /\ c.server.copy[d] = p.deltas[1].from
  BY DEF InSync, PendingFits
<1> HIDE DEF p
<1>5. Applied(c.server.copy[d], p) = p.text
  BY <1>3, <1>4 DEF Applied
<1> QED BY <1>5 DEF p

\* A later entry of the same opening.
Continues(e, n) ==
    /\ e = Nil <=> n = Nil
    /\ e # Nil => /\ n.version = e.version /\ n.resync = e.resync
                  /\ n.text[1] = e.text[1] /\ e.text[2] <= n.text[2]

LEMMA ContinuesSame == \A r \in Replays : \A d \in Docs : Continues(r[d], r[d])
<1> SUFFICES ASSUME NEW r \in Replays, NEW d \in Docs, r[d] # Nil
             PROVE  r[d].text[2] <= r[d].text[2]
  BY DEF Continues
<1>1. r[d].text \in Pairs
  BY ToldFacts
<1> QED BY <1>1, PairFacts

LEMMA TakeContinues ==
    ASSUME NEW q \in Seq(Cmds), q # <<>>, NEW r \in Replays, Descends(q, r),
           Remembers(q, r), NEW d \in Docs,
           Head(q).doc # d \/ Head(q).op \in {"save", "hint", "request"}
    PROVE  Continues(r[d], Remember(r, Head(q))[d])
<1> DEFINE h == Head(q)
           s == Remember(r, h)
<1>1. 1 \in 1..Len(q) /\ h = q[1] /\ h \in Cmds
  BY QueueFacts
<1> HIDE DEF h
<1>2. CASE h.doc # d \/ h.op \in {"hint", "request"}
  <2>1. s[d] = r[d]
    BY <1>1, <1>2, RememberOther, RememberNone
  <2> HIDE DEF s
  <2> QED BY <2>1, ContinuesSame DEF s, h
<1>3. CASE h.doc = d /\ h.op = "save"
  <2>1. r[d] # Nil /\ r[d].text[1] = h.text[1]
    BY <1>3, HeadIsKnown DEF h
  <2>2. s[d] # Nil /\ s[d].text = h.text /\ s[d].version = r[d].version
        /\ s[d].resync = r[d].resync
    BY <1>1, <1>3, <2>1, RememberSave
  <2>3. AtMost(r[d].text, h.text)
    BY <1>1, <1>3, <2>1 DEF Remembers, Precedes, Follows
  <2>4. r[d].text \in Pairs /\ h.text \in Pairs
    BY <1>1, <1>3, <2>1, ToldFacts, CmdFacts
  <2>5. r[d].text[2] <= h.text[2]
    BY <2>1, <2>3, <2>4, PairFacts DEF AtMost
  <2> HIDE DEF s
  <2> QED BY <2>1, <2>2, <2>5 DEF Continues, s, h
<1> QED BY <1>2, <1>3 DEF h

\* A flush leaves every document in step that was not lost on the way, or says
\* that it is to be sent whole.
LEMMA FlushMatches ==
    ASSUME NEW c \in TaskRec, c.phase = "Running", InSync(c),
           NEW k \in TaskRec, k.pending = c.pending, k.server = c.server,
           NEW sent \in Sends, NEW d \in Docs \ c.server.astray,
           Continues(c.replay[d], k.replay[d])
    PROVE  Matches(Flushed(k, sent).server.copy[d], Flushed(k, sent).replay[d], FALSE)
<1> DEFINE e == Flushed(k, sent)
           p == c.pending
<1>1. /\ p = Nil => e = k
      /\ \A f \in Docs : p = Nil \/ p.doc # f =>
           e.replay[f] = k.replay[f] /\ e.server.copy[f] = c.server.copy[f]
      /\ p # Nil /\ sent = "ok" =>
           e.replay = k.replay /\ e.server.copy[p.doc] = Applied(c.server.copy[p.doc], p)
      /\ p # Nil /\ sent # "ok" =>
           e.server = c.server /\ (k.replay[p.doc] # Nil => e.replay[p.doc].resync = TRUE)
      /\ SameTexts(k.replay, e.replay)
  <2>1. p = Nil => e = k
    BY DEF Flushed
  <2>2. ASSUME NEW f \in Docs, p = Nil \/ p.doc # f
        PROVE  e.replay[f] = k.replay[f] /\ e.server.copy[f] = c.server.copy[f]
    BY <2>2, FlushElsewhere
  <2>3. p # Nil /\ sent = "ok" =>
          e.replay = k.replay /\ e.server.copy[p.doc] = Applied(c.server.copy[p.doc], p)
    BY FlushSent
  <2>4. p # Nil /\ sent # "ok" =>
          e.server = c.server /\ (k.replay[p.doc] # Nil => e.replay[p.doc].resync = TRUE)
    BY FlushFailed
  <2>5. SameTexts(k.replay, e.replay)
    BY FlushKeeps
  <2> HIDE DEF e, p
  <2> QED BY <2>1, <2>2, <2>3, <2>4, <2>5
<1>2. Matches(c.server.copy[d], c.replay[d], Pends(c, d))
  BY DEF InSync, AllMatch
<1> HIDE DEF e
<1>3. CASE p = Nil \/ p.doc # d
  <2>1. e.replay[d] = k.replay[d] /\ e.server.copy[d] = c.server.copy[d]
    BY <1>1, <1>3
  <2>2. ~Pends(c, d)
    BY <1>3 DEF Pends
  <2>3. c.replay[d] # Nil => c.replay[d] \in Entries /\ c.replay[d].text \in Pairs
                             /\ k.replay[d] \in Entries /\ k.replay[d].text \in Pairs
    BY TaskFacts, ToldFacts DEF Continues
  <2>4. Matches(c.server.copy[d], k.replay[d], FALSE)
    <3>1. CASE c.replay[d] = Nil
      BY <1>2, <2>2, <3>1 DEF Matches, Continues
    <3>2. CASE c.replay[d] # Nil
      <4>1. c.server.copy[d] # Garbage /\ c.server.copy[d] # Nil
        BY <1>2, <3>2 DEF Matches
      <4>2. c.server.copy[d] \in Pairs
        BY <4>1, TaskFacts DEF Copies
      <4>3. c.server.copy[d][2] \in Nat /\ c.replay[d].text[2] \in Nat
            /\ k.replay[d].text[2] \in Nat
        BY <2>3, <3>2, <4>2, PairFacts
      <4>4. c.replay[d].text[2] <= k.replay[d].text[2]
        BY <3>2 DEF Continues
      <4>5. ~k.replay[d].resync => /\ c.server.copy[d][1] = k.replay[d].text[1]
                                   /\ k.replay[d].version <= c.server.copy[d][2]
                                   /\ c.server.copy[d][2] <= k.replay[d].text[2]
        BY <1>2, <2>2, <3>2, <4>3, <4>4 DEF Matches, Continues
      <4> QED BY <3>2, <4>1, <4>5 DEF Matches, Continues
    <3> QED BY <3>1, <3>2
  <2> QED BY <2>1, <2>4 DEF e
<1>4. CASE p # Nil /\ p.doc = d
  <2>1. p \in Pendings /\ p.text \in Pairs
    BY <1>4, TaskFacts, PendingFacts
  <2>2. c.replay[d] = Entry(p.text)
    BY <1>4 DEF InSync, PendingFits
  <2>3. /\ c.replay[d] # Nil /\ c.replay[d].version = p.text[2]
        /\ c.replay[d].text = p.text
    BY <2>1, <2>2, FreshEntry
  <2>4. /\ k.replay[d] # Nil /\ k.replay[d].version = p.text[2]
        /\ k.replay[d].text[1] = p.text[1] /\ p.text[2] <= k.replay[d].text[2]
    BY <2>3 DEF Continues
  <2>5. p.text # Nil /\ p.text # Garbage /\ p.text[2] \in Nat
    BY <2>1, PairFacts
  <2>6. CASE sent = "ok"
    <3>1. e.server.copy[d] = p.text /\ e.replay[d] = k.replay[d]
      BY <1>1, <1>4, <2>6, AppliedFits
    <3> QED BY <2>4, <2>5, <3>1 DEF Matches, e
  <2>7. CASE sent # "ok"
    <3>1. e.server.copy[d] = c.server.copy[d] /\ e.replay[d].resync = TRUE
          /\ e.replay[d] # Nil
      BY <1>1, <1>4, <2>4, <2>7 DEF SameTexts
    <3>2. c.server.copy[d] # Garbage /\ c.server.copy[d] # Nil
      BY <1>2, <2>3 DEF Matches
    <3> QED BY <3>1, <3>2 DEF Matches, e
  <2> QED BY <2>6, <2>7
<1> QED BY <1>3, <1>4

\* The record after a command that is no change, and the flush before it.
LEMMA FlushedSync ==
    ASSUME NEW c \in TaskRec, c.phase = "Running", InSync(c),
           NEW k \in TaskRec, SameBut(c, k), k.pending = c.pending, k.server = c.server,
           NEW sent \in Sends,
           \A d \in Docs : Continues(c.replay[d], k.replay[d])
    PROVE  InSync(Flushed(k, sent))
<1> DEFINE e == Flushed(k, sent)
<1>1. e.phase = "Running" /\ e.pending = Nil /\ e.server.astray = c.server.astray
  BY FlushKeeps DEF SameBut
<1>2. ASSUME NEW d \in Docs \ c.server.astray
      PROVE  Matches(e.server.copy[d], e.replay[d], FALSE)
  BY FlushMatches
<1> HIDE DEF e
<1>3. \A d \in Docs : Pends(e, d) = FALSE
  BY <1>1 DEF Pends
<1>4. AllMatch(e)
  BY <1>1, <1>2, <1>3 DEF AllMatch
<1>5. InSync(e)
  BY <1>1, <1>4 DEF InSync, PendingFits
<1> QED BY <1>5 DEF e

\* A record with another tally.
LEMMA TallyOnly ==
    ASSUME NEW c \in TaskRec, NEW y \in Tallies
    PROVE  LET e == [c EXCEPT !.tally = y] IN
           /\ e \in TaskRec /\ SameBut(c, e) /\ e.queue = c.queue /\ e.replay = c.replay
           /\ e.pending = c.pending /\ e.server = c.server
           /\ InSync(c) => InSync(e)
<1> DEFINE e == [c EXCEPT !.tally = y]
<1>1. /\ e \in TaskRec /\ e.phase = c.phase /\ e.worked = c.worked
      /\ e.queue = c.queue /\ e.replay = c.replay
      /\ e.pending = c.pending /\ e.server = c.server
  BY DEF TaskRec
<1> HIDE DEF e
<1>2. InSync(c) => InSync(e)
  BY <1>1 DEF InSync, AllMatch, PendingFits, Pends
<1> QED BY <1>1, <1>2 DEF SameBut, e

LEMMA DownIs ==
    ASSUME NEW c \in TaskRec, NEW state \in {"Retrying", "CircuitOpen"}
    PROVE  LET e == Down(c, state) IN
           /\ e \in TaskRec /\ e.queue = c.queue /\ e.replay = c.replay
           /\ e.phase = state /\ InSync(e)
<1> DEFINE e == Down(c, state)
<1>1. NoServer \in Servers /\ NewTally \in Tallies
  BY LimitsArePositive DEF NoServer, Servers, NewTally, Tallies, Copies
<1>2. /\ e \in TaskRec /\ e.queue = c.queue /\ e.replay = c.replay
      /\ e.phase = state /\ e.pending = Nil /\ e.server = NoServer
  BY <1>1 DEF Down, TaskRec, Phases
<1> HIDE DEF e
<1>3. InSync(e)
  BY <1>2 DEF InSync
<1> QED BY <1>2, <1>3 DEF e

\* The ranges of a change that keeps its delta start from the text the task knew.
LEMMA KeptStep ==
    ASSUME NEW c \in TaskRec, NEW h \in Cmds, h.op = "change", KeepsDelta(c, h),
           c.replay[h.doc] # Nil, c.replay[h.doc].text[1] = h.text[1],
           Older(c.replay[h.doc].text, h.text)
    PROVE  /\ Step(h.text) \in Steps /\ Step(h.text).to = h.text
           /\ Step(h.text).from = <<c.replay[h.doc].text[1], c.replay[h.doc].version>>
           /\ ~c.replay[h.doc].resync /\ c.replay[h.doc].text[2] <= c.replay[h.doc].version
<1> DEFINE e == c.replay[h.doc]
           x == h.text
<1>1. x \in Pairs /\ h.doc \in Docs /\ c.replay \in Replays
  BY CmdFacts, TaskFacts
<1>2. e.version \in Nat /\ e.text \in Pairs
  BY <1>1, ToldFacts, EntryFacts
<1>3. x[1] \in Nat /\ x[2] \in Nat /\ e.text[1] \in Nat /\ e.text[2] \in Nat
  BY <1>1, <1>2, PairFacts
<1>4. e.version = x[2] - 1 /\ ~e.resync
  BY DEF KeepsDelta
<1>5. e.text[1] = x[1] /\ e.text[2] < x[2]
  BY <1>3 DEF Older
<1> HIDE DEF e, x
<1>6. Step(x) = [from |-> <<x[1], x[2] - 1>>, to |-> x]
  BY DEF Step
<1>7. <<x[1], x[2] - 1>> \in Nat \X Int
  BY <1>3
<1>8. Step(x) \in Steps /\ Step(x).to = x /\ Step(x).from = <<x[1], x[2] - 1>>
  BY <1>1, <1>6, <1>7 DEF Steps
<1>9. e.text[2] <= e.version
  BY <1>2, <1>3, <1>4, <1>5
<1>10. Step(x).from = <<e.text[1], e.version>>
  BY <1>4, <1>5, <1>8
<1> QED BY <1>4, <1>8, <1>9, <1>10 DEF e, x

\* What the server holds of a document without a pending change is what a change
\* of the next version starts from.
LEMMA HeldIsStart ==
    ASSUME NEW copy \in Copies, NEW e \in Entries, Matches(copy, e, FALSE),
           ~e.resync, e.text[2] <= e.version
    PROVE  copy = <<e.text[1], e.version>>
<1>1. e # Nil /\ e.text \in Pairs /\ e.version \in Nat
  BY EntryFacts
<1>2. copy # Garbage /\ copy # Nil /\ copy[1] = e.text[1] /\ e.version <= copy[2]
      /\ copy[2] <= e.text[2]
  BY <1>1 DEF Matches
<1>3. copy \in Pairs
  BY <1>2 DEF Copies
<1>4. copy[2] \in Nat /\ e.text[2] \in Nat /\ copy = <<copy[1], copy[2]>>
  BY <1>1, <1>3, PairFacts
<1>5. copy[2] = e.version
  BY <1>1, <1>2, <1>4
<1> QED BY <1>2, <1>4, <1>5

LEMMA ChangeSync ==
    ASSUME NEW c \in TaskRec, c.phase = "Running", InSync(c), c.queue # <<>>,
           NEW F, InOrder(c.queue, c.replay, F), Head(c.queue).op = "change",
           NEW k \in TaskRec, SameBut(c, k), k.pending = c.pending, k.server = c.server,
           k.replay = Remember(c.replay, Head(c.queue)),
           NEW sent \in Sends, NEW f,
           f = IF k.pending # Nil /\ k.pending.doc # Head(c.queue).doc
               THEN Flushed(k, sent) ELSE k
    PROVE  LET h == Head(c.queue)
               e == [f EXCEPT !.pending = Coalesced(f.pending, h, KeepsDelta(c, h))] IN
           /\ e \in TaskRec /\ e.phase = "Running" /\ e.queue = k.queue
           /\ SameTexts(k.replay, e.replay) /\ InSync(e) /\ f \in TaskRec
           /\ SameTexts(k.replay, f.replay) /\ f.queue = k.queue
<1> DEFINE h == Head(c.queue)
           d == h.doc
           r == c.replay
           other == k.pending # Nil /\ k.pending.doc # d
           keeps == KeepsDelta(c, h)
           n == Coalesced(f.pending, h, keeps)
           e == [f EXCEPT !.pending = n]
<1>1. /\ c.queue \in Seq(Cmds) /\ r \in Replays /\ 1 \in 1..Len(c.queue)
      /\ h = c.queue[1] /\ h \in Cmds /\ d \in Docs /\ h.text \in Pairs
      /\ h.delta \in BOOLEAN
  BY TaskFacts, QueueFacts, CmdFacts
<1>2. r[d] \in Entries /\ r[d] # Nil /\ r[d].text[1] = h.text[1]
  BY <1>1, HeadIsKnown DEF InOrder
<1>3. Older(r[d].text, h.text)
  BY <1>1, <1>2 DEF InOrder, Remembers, Precedes, Follows
<1>4. k.replay[d] = Entry(h.text) /\ \A b \in Docs \ {d} : k.replay[b] = r[b]
  BY <1>1, <1>2, RememberText, RememberOther
<1> HIDE DEF h, n
<1>5. /\ f \in TaskRec /\ f.phase = "Running" /\ f.queue = k.queue
      /\ SameTexts(k.replay, f.replay) /\ f.server.astray = c.server.astray
      /\ f.replay[d] = Entry(h.text) /\ f.server.copy[d] = c.server.copy[d]
      /\ f.pending = IF other THEN Nil ELSE c.pending
  <2>1. CASE other
    <3>1. f = Flushed(k, sent)
      BY <2>1 DEF h
    <3>2. /\ f \in TaskRec /\ SameBut(k, f) /\ f.queue = k.queue /\ f.pending = Nil
          /\ SameTexts(k.replay, f.replay) /\ f.server.astray = k.server.astray
      BY <3>1, FlushKeeps
    <3>3. f.replay[d] = k.replay[d] /\ f.server.copy[d] = k.server.copy[d]
      BY <1>1, <2>1, <3>1, FlushElsewhere
    <3> QED BY <1>4, <2>1, <3>2, <3>3 DEF SameBut
  <2>2. CASE ~other
    <3>1. f = k
      BY <2>2 DEF h
    <3> QED BY <1>4, <2>2, <3>1, SameTextsReflexive DEF SameBut
  <2> QED BY <2>1, <2>2
<1>6. f.pending # Nil => /\ ~other /\ f.pending = c.pending /\ c.pending \in Pendings
                         /\ c.pending.doc = d
  BY <1>5, TaskFacts
<1>7. ~other /\ c.pending # Nil <=> Pends(c, d)
  BY DEF Pends
<1>8. ASSUME keeps
      PROVE  /\ Step(h.text) \in Steps /\ Step(h.text).to = h.text
             /\ Step(h.text).from = <<r[d].text[1], r[d].version>>
             /\ ~r[d].resync /\ r[d].text[2] <= r[d].version
  <2>1. h.op = "change"
    BY DEF h
  <2>2. /\ KeepsDelta(c, h) /\ h \in Cmds /\ c.replay[h.doc] # Nil
        /\ c.replay[h.doc].text[1] = h.text[1] /\ Older(c.replay[h.doc].text, h.text)
    BY <1>1, <1>2, <1>3, <1>8
  <2> HIDE DEF keeps, r, d
  <2>3. /\ Step(h.text) \in Steps /\ Step(h.text).to = h.text
        /\ Step(h.text).from = <<c.replay[h.doc].text[1], c.replay[h.doc].version>>
        /\ ~c.replay[h.doc].resync /\ c.replay[h.doc].text[2] <= c.replay[h.doc].version
    BY <2>1, <2>2, KeptStep
  <2> QED BY <2>3 DEF r, d
<1>9. n \in Pendings /\ n.doc = d /\ n.text = h.text
  <2> DEFINE whole == ~keeps \/ (f.pending # Nil /\ f.pending.deltas = Nil)
             old == IF f.pending = Nil THEN <<>> ELSE f.pending.deltas
             new == IF whole THEN Nil ELSE Append(old, Step(h.text))
  <2>1. n = [doc |-> d, text |-> h.text, deltas |-> new]
    BY DEF n, Coalesced
  <2>2. old \in Seq(Steps)
    BY <1>6, PendingFacts
  <2>3. new \in Seq(Steps)
    <3>1. CASE whole
      BY <3>1 DEF Nil
    <3>2. CASE ~whole
      BY <1>8, <2>2, <3>2
    <3> QED BY <3>1, <3>2
  <2> HIDE DEF new
  <2> QED BY <1>1, <2>1, <2>3 DEF Pendings
<1>10. n.deltas # Nil =>
         /\ keeps
         /\ n.deltas = Append(IF f.pending = Nil THEN <<>> ELSE f.pending.deltas,
                              Step(h.text))
         /\ f.pending # Nil => f.pending.deltas # Nil
  BY DEF n, Coalesced
<1>11. /\ e \in TaskRec /\ e.phase = "Running" /\ e.queue = k.queue
       /\ e.replay = f.replay /\ e.server = f.server /\ e.pending = n
  BY <1>5, <1>9 DEF TaskRec
<1>12. n # Nil
  BY <1>9, PendingFacts
<1> HIDE DEF e
<1>13. AllMatch(e)
  <2> SUFFICES ASSUME NEW b \in Docs \ c.server.astray
               PROVE  Matches(f.server.copy[b], f.replay[b], Pends(e, b))
    BY <1>5, <1>11 DEF AllMatch
  <2>1. Matches(c.server.copy[b], r[b], Pends(c, b))
    BY DEF InSync, AllMatch
  <2>2. CASE b = d
    <3>1. c.server.copy[d] # Garbage /\ c.server.copy[d] # Nil
      BY <1>2, <2>1, <2>2 DEF Matches
    <3>2. Pends(e, b) = TRUE
      BY <1>9, <1>11, <1>12, <2>2 DEF Pends
    <3>3. f.replay[b] # Nil
      BY <1>1, <1>5, <2>2, FreshEntry
    <3> QED BY <1>5, <2>2, <3>1, <3>2, <3>3 DEF Matches
  <2>3. CASE b # d
    <3>1. Pends(e, b) = FALSE
      BY <1>9, <1>11, <2>3 DEF Pends
    <3>2. Matches(f.server.copy[b], f.replay[b], FALSE)
      <4>1. CASE other
        <5>1. Continues(r[b], k.replay[b])
          BY <1>1, <1>4, <2>3, ContinuesSame
        <5>2. f = Flushed(k, sent)
          BY <4>1 DEF h
        <5> QED BY <5>1, <5>2, FlushMatches
      <4>2. CASE ~other
        <5>1. f = k
          BY <4>2 DEF h
        <5>2. Pends(c, b) = FALSE
          BY <2>3, <4>2 DEF Pends
        <5> QED BY <1>4, <2>1, <2>3, <5>1, <5>2
      <4> QED BY <4>1, <4>2
    <3> QED BY <3>1, <3>2
  <2> QED BY <2>2, <2>3
<1>14. PendingFits(e)
  <2>1. e.replay[n.doc] = Entry(n.text)
    BY <1>5, <1>9, <1>11
  <2>2. ASSUME n.deltas # Nil
        PROVE  /\ \A i \in 2..Len(n.deltas) : n.deltas[i].from = n.deltas[i - 1].to
               /\ n.deltas[Len(n.deltas)].to = n.text
               /\ d \notin c.server.astray => c.server.copy[d] = n.deltas[1].from
    <3>1. keeps
      BY <1>10, <2>2
    <3> DEFINE a == Step(h.text)
    <3>2. /\ a \in Steps /\ a.to = h.text /\ a.from = <<r[d].text[1], r[d].version>>
          /\ ~r[d].resync /\ r[d].text[2] <= r[d].version
      BY <1>8, <3>1
    <3> HIDE DEF a
    <3>3. CASE f.pending = Nil
      <4>1. n.deltas = Append(<<>>, a)
        BY <1>10, <2>2, <3>3 DEF a
      <4>2. n.deltas = <<a>> /\ Len(n.deltas) = 1 /\ n.deltas[1] = a
        BY <4>1
      <4>3. ASSUME d \notin c.server.astray PROVE c.server.copy[d] = a.from
        <5>1. Pends(c, d) = FALSE
          BY <1>5, <1>7, <3>3 DEF Pends
        <5>2. Matches(c.server.copy[d], r[d], Pends(c, d))
          BY <1>1, <4>3 DEF InSync, AllMatch
        <5>4. Matches(c.server.copy[d], r[d], FALSE)
          BY <5>1, <5>2
        <5>3. c.server.copy[d] \in Copies
          BY <1>1, TaskFacts
        <5> QED BY <1>2, <3>2, <5>3, <5>4, HeldIsStart
      <4> QED BY <1>9, <3>2, <4>2, <4>3
    <3>4. CASE f.pending # Nil
      <4> DEFINE p == c.pending
      <4>1. /\ p \in Pendings /\ p.doc = d /\ p # Nil /\ p.text \in Pairs
            /\ p.deltas \in Seq(Steps) /\ p.deltas # <<>>
            /\ n.deltas = Append(p.deltas, a)
        BY <1>6, <1>10, <2>2, <3>4, PendingFacts DEF a, Nil
      <4>2. /\ r[d] = Entry(p.text)
            /\ \A i \in 2..Len(p.deltas) : p.deltas[i].from = p.deltas[i - 1].to
            /\ p.deltas[Len(p.deltas)].to = p.text
            /\ d \notin c.server.astray => c.server.copy[d] = p.deltas[1].from
        BY <4>1 DEF InSync, PendingFits, Nil
      <4>3. r[d].text = p.text /\ r[d].version = p.text[2]
        BY <4>1, <4>2, FreshEntry
      <4>4. a.from = p.text
        BY <3>2, <4>1, <4>3, PairFacts
      <4> HIDE DEF p
      <4>5. /\ Len(p.deltas) \in Nat /\ Len(p.deltas) >= 1
            /\ Len(n.deltas) = Len(p.deltas) + 1
            /\ n.deltas[Len(p.deltas) + 1] = a
            /\ \A i \in 1..Len(p.deltas) : n.deltas[i] = p.deltas[i]
        BY <3>2, <4>1
      <4>6. ASSUME NEW i \in 2..Len(n.deltas)
            PROVE  n.deltas[i].from = n.deltas[i - 1].to
        <5>1. CASE i = Len(p.deltas) + 1
          <6>1. n.deltas[i] = a /\ n.deltas[i - 1] = p.deltas[Len(p.deltas)]
            BY <4>5, <5>1
          <6> QED BY <4>2, <4>4, <6>1
        <5>2. CASE i # Len(p.deltas) + 1
          <6>1. i \in 2..Len(p.deltas) /\ i - 1 \in 1..Len(p.deltas)
                /\ i \in 1..Len(p.deltas)
            BY <4>5, <5>2
          <6> QED BY <4>2, <4>5, <6>1
        <5> QED BY <5>1, <5>2
      <4>7. n.deltas[Len(n.deltas)].to = n.text
        BY <1>9, <3>2, <4>5
      <4>8. n.deltas[1] = p.deltas[1]
        BY <4>5
      <4> QED BY <4>2, <4>6, <4>7, <4>8
    <3> QED BY <3>3, <3>4
  <2> QED BY <1>5, <1>9, <1>11, <2>1, <2>2 DEF PendingFits
<1>15. InSync(e) /\ SameTexts(k.replay, e.replay)
  BY <1>5, <1>11, <1>13, <1>14 DEF InSync
<1> QED BY <1>5, <1>11, <1>15 DEF e, n, h

LEMMA ReceivedIs ==
    ASSUME NEW c \in TaskRec, NEW cmd \in Cmds, cmd.op \in {"open", "close"}, NEW sent
    PROVE  LET e == Received(c, cmd, sent) IN
           /\ e \in TaskRec /\ SameBut(c, e) /\ e.queue = c.queue /\ e.replay = c.replay
           /\ e.pending = c.pending
           /\ \A d \in Docs \ {cmd.doc} :
                e.server.copy[d] = c.server.copy[d]
                /\ (d \in e.server.astray <=> d \in c.server.astray)
           /\ sent = "ok" => e.server.copy[cmd.doc] = cmd.text
           /\ sent # "ok" => cmd.doc \in e.server.astray
<1> DEFINE d == cmd.doc
           e == Received(c, cmd, sent)
           copy == [c.server.copy EXCEPT ![d] = cmd.text]
           got == [c.server EXCEPT !.copy = copy, !.astray = @ \ {d}]
           lost == [c.server EXCEPT !.astray = @ \cup {d}]
           srv == IF sent = "ok" THEN got ELSE lost
<1>1. d \in Docs /\ cmd.text \in Copies
  BY CmdFacts DEF Copies
<1>2. c.server \in Servers /\ c.server.copy \in [Docs -> Copies]
  BY TaskFacts
<1>3. e = [c EXCEPT !.server = srv]
  <2>1. CASE sent = "ok"
    <3>1. e = [c EXCEPT !.server.copy[d] = cmd.text, !.server.astray = @ \ {d}]
      BY <2>1 DEF Received
    <3>2. e = [c EXCEPT !.server = got]
      BY <3>1
    <3> QED BY <2>1, <3>2
  <2>2. CASE sent # "ok"
    BY <2>2 DEF Received
  <2> QED BY <2>1, <2>2
<1>4. /\ copy \in [Docs -> Copies] /\ copy[d] = cmd.text
      /\ \A b \in Docs \ {d} : copy[b] = c.server.copy[b]
  BY <1>1, <1>2
<1> HIDE DEF copy, d
<1>5. got \in Servers /\ got.copy = copy /\ got.astray = c.server.astray \ {d}
  BY <1>2, <1>4 DEF Servers
<1>6. lost \in Servers /\ lost.copy = c.server.copy /\ lost.astray = c.server.astray \cup {d}
  BY <1>1, <1>2 DEF Servers
<1> HIDE DEF got, lost, e
<1>7. srv \in Servers
  BY <1>5, <1>6
<1> HIDE DEF srv
<1>8. /\ e \in TaskRec /\ e.phase = c.phase /\ e.worked = c.worked /\ e.queue = c.queue
      /\ e.replay = c.replay /\ e.pending = c.pending /\ e.server = srv
  BY <1>3, <1>7 DEF TaskRec
<1>9. /\ \A b \in Docs \ {d} : srv.copy[b] = c.server.copy[b]
                               /\ (b \in srv.astray <=> b \in c.server.astray)
      /\ sent = "ok" => srv.copy[d] = cmd.text
      /\ sent # "ok" => d \in srv.astray
  <2>1. CASE sent = "ok"
    BY <1>4, <1>5, <2>1 DEF srv
  <2>2. CASE sent # "ok"
    BY <1>6, <2>2 DEF srv
  <2> QED BY <2>1, <2>2
<1> QED BY <1>8, <1>9 DEF SameBut, e, d

LEMMA NoticeSync ==
    ASSUME NEW c \in TaskRec, c.phase = "Running", InSync(c), c.queue # <<>>,
           NEW F, InOrder(c.queue, c.replay, F),
           Head(c.queue).op \in {"open", "close", "save"},
           NEW k \in TaskRec, SameBut(c, k), k.pending = c.pending, k.server = c.server,
           k.replay = Remember(c.replay, Head(c.queue)),
           NEW flush \in Sends, NEW sent
    PROVE  LET e == Received(Flushed(k, flush), Head(c.queue), sent) IN
           /\ e \in TaskRec /\ e.phase = "Running" /\ e.queue = k.queue
           /\ SameTexts(k.replay, e.replay) /\ InSync(e)
<1> DEFINE h == Head(c.queue)
           d == h.doc
           r == c.replay
           f == Flushed(k, flush)
           e == Received(f, h, sent)
<1>1. /\ c.queue \in Seq(Cmds) /\ r \in Replays /\ h \in Cmds /\ d \in Docs
      /\ h.op # "close" => h.text \in Pairs
      /\ h.op = "close" => h.text = Nil
  BY TaskFacts, QueueFacts, CmdFacts
<1>2. /\ f \in TaskRec /\ f.phase = "Running" /\ f.queue = k.queue /\ f.pending = Nil
      /\ SameTexts(k.replay, f.replay) /\ f.server.astray = c.server.astray
  BY FlushKeeps DEF SameBut
<1>3. CASE h.op = "save"
  <2>1. \A b \in Docs : Continues(r[b], k.replay[b])
    BY <1>1, <1>3, TakeContinues DEF InOrder
  <2>2. InSync(f)
    BY <2>1, FlushedSync
  <2>3. e = f
    BY <1>3 DEF Received
  <2> HIDE DEF e, f
  <2> QED BY <1>2, <2>2, <2>3 DEF e, f, h
<1>4. CASE h.op \in {"open", "close"}
  <2> HIDE DEF h, f
  <2>1. /\ e \in TaskRec /\ SameBut(f, e) /\ e.queue = f.queue /\ e.replay = f.replay
        /\ e.pending = f.pending
    BY <1>1, <1>2, <1>4, ReceivedIs
  <2>2. \A b \in Docs \ {d} : e.server.copy[b] = f.server.copy[b]
                              /\ (b \in e.server.astray <=> b \in f.server.astray)
    BY <1>1, <1>2, <1>4, ReceivedIs
  <2>3. /\ sent = "ok" => e.server.copy[d] = h.text
        /\ sent # "ok" => d \in e.server.astray
    BY <1>1, <1>2, <1>4, ReceivedIs
  <2> HIDE DEF e
  <2>4. ASSUME NEW b \in Docs \ e.server.astray
        PROVE  Matches(e.server.copy[b], e.replay[b], FALSE)
    <3>1. CASE b # d
      <4>1. b \in Docs \ c.server.astray
        BY <1>2, <2>2, <3>1
      <4>2. Continues(r[b], k.replay[b])
        <5>1. k.replay[b] = r[b]
          BY <1>1, <3>1, RememberOther DEF h
        <5> QED BY <1>1, <5>1, ContinuesSame
      <4>3. Matches(f.server.copy[b], f.replay[b], FALSE)
        BY <4>1, <4>2, FlushMatches DEF f
      <4> QED BY <2>1, <2>2, <3>1, <4>3
    <3>2. CASE b = d
      <4>1. e.server.copy[d] = h.text
        BY <2>3, <3>2
      <4>2. CASE h.op = "open"
        <5>1. k.replay[d] = Entry(h.text) /\ h.text \in Pairs
          BY <1>1, <4>2, RememberText DEF h
        <5>2. k.replay[d] # Nil /\ k.replay[d].text = h.text /\ k.replay[d].version = h.text[2]
          BY <5>1, FreshEntry
        <5>3. f.replay[d] # Nil /\ f.replay[d].text = h.text /\ f.replay[d].version = h.text[2]
          BY <1>1, <1>2, <5>2 DEF SameTexts
        <5>4. h.text # Nil /\ h.text # Garbage /\ h.text[2] \in Nat
          BY <5>1, PairFacts
        <5> QED BY <2>1, <3>2, <4>1, <5>3, <5>4 DEF Matches
      <4>3. CASE h.op = "close"
        <5>1. k.replay[d] = Nil
          BY <1>1, <4>3, RememberIs DEF h
        <5>2. f.replay[d] = Nil
          BY <1>1, <1>2, <5>1 DEF SameTexts
        <5>3. Nil # Garbage
          BY DEF Nil, Garbage
        <5> QED BY <1>1, <2>1, <3>2, <4>1, <4>3, <5>2, <5>3 DEF Matches
      <4> QED BY <1>4, <4>2, <4>3
    <3> QED BY <3>1, <3>2
  <2>5. e.phase = "Running" /\ e.pending = Nil
    BY <1>2, <2>1 DEF SameBut
  <2>6. \A b \in Docs : Pends(e, b) = FALSE
    BY <2>5 DEF Pends
  <2>7. InSync(e)
    BY <2>4, <2>5, <2>6 DEF InSync, AllMatch, PendingFits
  <2> QED BY <1>2, <2>1, <2>5, <2>7 DEF e, f, h
<1> QED BY <1>3, <1>4

-----------------------------------------------------------------------------
(* A step of a task, as its record and its flights see it *)

TaskOK(c, fs) ==
    /\ c \in TaskRec /\ Len(c.queue) <= Capacity
    /\ fs \in FlightRec
    /\ InOrder(c.queue, c.replay, InFlight(fs))
    /\ InSync(c)
    /\ c.phase # "Running" => fs = NoFlights

\* The texts stay, or those of the next command are taken.
Stays(c, fs, e, gs) ==
    /\ e.queue = c.queue /\ SameTexts(c.replay, e.replay)
    /\ InFlight(gs) \subseteq InFlight(fs)

Takes(c, fs, e, gs) ==
    /\ c.queue # <<>> /\ e.queue = Tail(c.queue)
    /\ SameTexts(Remember(c.replay, Head(c.queue)), e.replay)
    /\ InFlight(gs) \subseteq InFlight(fs) \cup Asked(Head(c.queue))
    /\ Head(c.queue).op = "request" /\ e.phase = "Running" => e.pending = Nil

Finishes(c, e, gs) ==
    c.queue = <<>> /\ e = [NewTask EXCEPT !.phase = "Ended"] /\ gs = NoFlights

Moves(c, fs, e, gs) == Stays(c, fs, e, gs) \/ Takes(c, fs, e, gs)

Sound(e, gs) ==
    /\ e \in TaskRec /\ gs \in FlightRec /\ InSync(e)
    /\ e.phase # "Running" => gs = NoFlights

Moved(t, e, gs) ==
    /\ task' = [task EXCEPT ![t] = e]
    /\ flights' = [flights EXCEPT ![t] = gs]
    /\ Sound(e, gs)
    /\ \/ Moves(task[t], flights[t], e, gs)
       \/ ~Holds(t) /\ Finishes(task[t], e, gs)
    /\ \A f \in gs.running \ flights[t].running : ~Unsent(e, f)

LEMMA NoFlightsTyped == NoFlights \in FlightRec /\ InFlight(NoFlights) = {}
  BY DEF NoFlights, FlightRec, InFlight

LEMMA LaunchedIs ==
    ASSUME NEW c, NEW fs \in FlightRec
    PROVE  /\ Launched(c, fs) \in FlightRec
           /\ InFlight(Launched(c, fs)) = InFlight(fs)
           /\ Launched(c, fs).running = fs.running \cup Ready(c, fs)
<1>1. Ready(c, fs) \subseteq fs.deferred
  BY DEF Ready
<1>2. /\ Launched(c, fs).deferred = fs.deferred \ Ready(c, fs)
      /\ Launched(c, fs).running = fs.running \cup Ready(c, fs)
  BY DEF Launched
<1>3. InFlight(Launched(c, fs)) = InFlight(fs)
  BY <1>1, <1>2 DEF InFlight
<1>4. Launched(c, fs) \in FlightRec
  BY <1>1 DEF Launched, FlightRec
<1> QED BY <1>2, <1>3, <1>4

LEMMA LoseMoves ==
    ASSUME NEW t \in Tokens, NEW f \in TaskRec, NEW hung, NEW about, Lose(t, f, hung, about),
           Moves(task[t], flights[t], f, NoFlights)
    PROVE  /\ \E e : Moved(t, e, NoFlights) /\ e.phase # "Running"
           /\ flights' = [flights EXCEPT ![t] = NoFlights]
<1>1. PICK state \in {"Retrying", "CircuitOpen"} :
          /\ task' = [task EXCEPT ![t] = Down(f, state)]
          /\ flights' = [flights EXCEPT ![t] = NoFlights]
  <2>1. PICK stable \in BOOLEAN : \E charge \in Charged(budget[t], hung, stable) :
          /\ task' = [task EXCEPT ![t] = Down(f, charge.state)]
          /\ flights' = [flights EXCEPT ![t] = NoFlights]
    BY DEF Lose
  <2>2. PICK charge \in Charged(budget[t], hung, stable) :
          /\ task' = [task EXCEPT ![t] = Down(f, charge.state)]
          /\ flights' = [flights EXCEPT ![t] = NoFlights]
    BY <2>1
  <2>3. charge.state \in {"Retrying", "CircuitOpen"}
    BY DEF Charged, Verdict
  <2> QED BY <2>2, <2>3
<1> DEFINE e == Down(f, state)
<1>2. /\ e \in TaskRec /\ e.queue = f.queue /\ e.replay = f.replay /\ e.phase = state
      /\ InSync(e)
  BY DownIs
<1> HIDE DEF e
<1>3. Moves(task[t], flights[t], e, NoFlights)
  BY <1>2 DEF Moves, Stays, Takes
<1>4. Sound(e, NoFlights)
  BY <1>2, NoFlightsTyped DEF Sound
<1>5. NoFlights.running = {}
  BY DEF NoFlights
<1>6. Moved(t, e, NoFlights)
  BY <1>1, <1>3, <1>4, <1>5 DEF Moved, e
<1> QED BY <1>1, <1>2, <1>6

LEMMA GoMoves ==
    ASSUME NEW t \in Tokens, NEW e \in TaskRec, NEW gs \in FlightRec, Go(t, e, gs),
           e.phase = "Running", InSync(e), Moves(task[t], flights[t], e, gs),
           gs.running \subseteq flights[t].running
    PROVE  Moved(t, e, Launched(e, gs))
<1> DEFINE l == Launched(e, gs)
<1>1. /\ task' = [task EXCEPT ![t] = e]
      /\ flights' = [flights EXCEPT ![t] = l]
  BY DEF Go
<1>2. /\ l \in FlightRec /\ InFlight(l) = InFlight(gs)
      /\ \A f \in l.running \ flights[t].running : ~Unsent(e, f)
  BY LaunchedIs DEF Ready
<1> HIDE DEF l
<1>3. Moves(task[t], flights[t], e, l)
  BY <1>2 DEF Moves, Stays, Takes
<1>4. Sound(e, l)
  BY <1>2 DEF Sound
<1>5. Moved(t, e, l)
  BY <1>1, <1>2, <1>3, <1>4 DEF Moved
<1> QED BY <1>5 DEF l

-----------------------------------------------------------------------------
(* Every step of a task is such a step *)

LEMMA TakenSync ==
    ASSUME NEW t \in Tokens, TaskOK(task[t], flights[t]), task[t].queue # <<>>
    PROVE  LET c == task[t]
               k == Taken(t)
               h == Head(c.queue) IN
           /\ c \in TaskRec /\ k \in TaskRec /\ h \in Cmds /\ SameBut(c, k)
           /\ k.queue = Tail(c.queue) /\ k.replay = Remember(c.replay, h)
           /\ k.pending = c.pending /\ k.server = c.server
           /\ c.queue \in Seq(Cmds) /\ c.replay \in Replays
           /\ InOrder(c.queue, c.replay, InFlight(flights[t])) /\ InSync(c)
           /\ flights[t] \in FlightRec
<1>1. /\ task[t] \in TaskRec /\ InSync(task[t]) /\ flights[t] \in FlightRec
      /\ InOrder(task[t].queue, task[t].replay, InFlight(flights[t]))
  BY DEF TaskOK
<1>2. task[t].queue \in Seq(Cmds) /\ task[t].replay \in Replays
  BY <1>1, TaskFacts
<1>3. Head(task[t].queue) \in Cmds
  BY <1>2, QueueFacts
<1> QED BY <1>1, <1>2, <1>3, TakenIs

LEMMA ChangeMoves ==
    ASSUME NEW t \in Tokens, TaskOK(task[t], flights[t]), TakeChange(t)
    PROVE  \E e, gs : Moved(t, e, gs)
<1> DEFINE c == task[t]
           k == Taken(t)
           h == Head(c.queue)
           other == k.pending # Nil /\ k.pending.doc # h.doc
<1>1. c.phase = "Running" /\ c.queue # <<>> /\ h.op = "change"
  BY DEF TakeChange, Taking
<1>2. /\ c \in TaskRec /\ k \in TaskRec /\ h \in Cmds /\ SameBut(c, k)
      /\ k.queue = Tail(c.queue) /\ k.replay = Remember(c.replay, h)
      /\ k.pending = c.pending /\ k.server = c.server
      /\ InOrder(c.queue, c.replay, InFlight(flights[t])) /\ InSync(c)
      /\ flights[t] \in FlightRec
  BY <1>1, TakenSync
<1>3. PICK flush \in Sends :
        LET f == IF other THEN Flushed(k, flush) ELSE k IN
        \/ Lose(t, f, FALSE, {})
        \/ Go(t, [f EXCEPT !.pending = Coalesced(f.pending, h, KeepsDelta(c, h))], flights[t])
  <2>1. PICK flush \in IF other THEN Sends ELSE {"ok"} :
          LET f == IF other THEN Flushed(k, flush) ELSE k IN
          \/ Lose(t, f, FALSE, {})
          \/ Go(t, [f EXCEPT !.pending = Coalesced(f.pending, h, KeepsDelta(c, h))], flights[t])
    BY DEF TakeChange
  <2>2. flush \in Sends
    BY <2>1 DEF Sends
  <2> QED BY <2>1, <2>2
<1> DEFINE f == IF other THEN Flushed(k, flush) ELSE k
           e == [f EXCEPT !.pending = Coalesced(f.pending, h, KeepsDelta(c, h))]
<1>4. Lose(t, f, FALSE, {}) \/ Go(t, e, flights[t])
  BY <1>3
<1>5. /\ e \in TaskRec /\ e.phase = "Running" /\ e.queue = k.queue
      /\ SameTexts(k.replay, e.replay) /\ InSync(e) /\ f \in TaskRec
      /\ SameTexts(k.replay, f.replay) /\ f.queue = k.queue
  <2>1. f = IF k.pending # Nil /\ k.pending.doc # Head(c.queue).doc
            THEN Flushed(k, flush) ELSE k
    OBVIOUS
  <2>2. k.replay = Remember(c.replay, Head(c.queue)) /\ Head(c.queue).op = "change"
    BY <1>1, <1>2
  <2> HIDE DEF f, c, k
  <2> QED BY <1>1, <1>2, <2>1, <2>2, ChangeSync
<1> HIDE DEF e, f
<1>6. Moves(c, flights[t], e, flights[t]) /\ Moves(c, flights[t], f, NoFlights)
  BY <1>1, <1>2, <1>5, NoFlightsTyped DEF Moves, Takes
<1>7. CASE Lose(t, f, FALSE, {})
  BY <1>5, <1>6, <1>7, LoseMoves
<1>8. CASE Go(t, e, flights[t])
  BY <1>2, <1>5, <1>6, <1>8, GoMoves
<1> QED BY <1>4, <1>7, <1>8

LEMMA NoticeMoves ==
    ASSUME NEW t \in Tokens, TaskOK(task[t], flights[t]), TakeNotice(t)
    PROVE  \E e, gs : Moved(t, e, gs)
<1> DEFINE c == task[t]
           k == Taken(t)
           h == Head(c.queue)
<1>1. c.phase = "Running" /\ c.queue # <<>> /\ h.op \in {"open", "close", "save"}
  BY DEF TakeNotice, Taking
<1>2. /\ c \in TaskRec /\ k \in TaskRec /\ h \in Cmds /\ SameBut(c, k)
      /\ k.queue = Tail(c.queue) /\ k.replay = Remember(c.replay, h)
      /\ k.pending = c.pending /\ k.server = c.server
      /\ InOrder(c.queue, c.replay, InFlight(flights[t])) /\ InSync(c)
      /\ flights[t] \in FlightRec
  BY <1>1, TakenSync
<1>3. PICK flush \in Sends, sent \in Sends :
        \/ Lose(t, Flushed(k, flush), FALSE, {})
        \/ Go(t, [Received(Flushed(k, flush), h, sent) EXCEPT
                    !.tally = IF sent = "full" THEN Noted(@, "error") ELSE @], flights[t])
  <2>1. FlushOutcomes(k) \subseteq Sends
    BY DEF FlushOutcomes, Sends
  <2> QED BY <2>1 DEF TakeNotice
<1> DEFINE f == Flushed(k, flush)
           g == Received(f, h, sent)
           y == IF sent = "full" THEN Noted(g.tally, "error") ELSE g.tally
           e == [g EXCEPT !.tally = y]
<1>4. Lose(t, f, FALSE, {}) \/ Go(t, e, flights[t])
  BY <1>3
<1>5. f \in TaskRec /\ SameTexts(k.replay, f.replay) /\ f.queue = k.queue
  BY <1>2, FlushKeeps
<1>6. /\ g \in TaskRec /\ g.phase = "Running" /\ g.queue = k.queue
      /\ SameTexts(k.replay, g.replay) /\ InSync(g)
  <2> HIDE DEF c, k
  <2> QED BY <1>1, <1>2, NoticeSync DEF h
<1> HIDE DEF g
<1>7. y \in Tallies
  BY <1>6, TaskFacts, NotedTyped
<1> HIDE DEF y
<1>8. /\ e \in TaskRec /\ e.phase = "Running" /\ e.queue = k.queue
      /\ SameTexts(k.replay, e.replay) /\ InSync(e)
  BY <1>6, <1>7, TallyOnly DEF SameBut
<1> HIDE DEF e, f
<1>9. Moves(c, flights[t], e, flights[t]) /\ Moves(c, flights[t], f, NoFlights)
  BY <1>1, <1>2, <1>5, <1>8, NoFlightsTyped DEF Moves, Takes
<1>10. CASE Lose(t, f, FALSE, {})
  BY <1>5, <1>9, <1>10, LoseMoves
<1>11. CASE Go(t, e, flights[t])
  BY <1>2, <1>8, <1>9, <1>11, GoMoves
<1> QED BY <1>4, <1>10, <1>11

\* Taking a request changes no text: the record is the one before, but the queue.
LEMMA AskedSync ==
    ASSUME NEW t \in Tokens, TaskOK(task[t], flights[t]), task[t].queue # <<>>,
           Head(task[t].queue).op \in {"hint", "request"}
    PROVE  /\ Taken(t).replay = task[t].replay
           /\ InSync(Taken(t))
<1> DEFINE c == task[t]
           k == Taken(t)
<1>1. /\ c \in TaskRec /\ k \in TaskRec /\ SameBut(c, k)
      /\ k.replay = Remember(c.replay, Head(c.queue)) /\ Head(c.queue) \in Cmds
      /\ k.pending = c.pending /\ k.server = c.server /\ InSync(c) /\ c.replay \in Replays
  BY TakenSync
<1>2. k.replay = c.replay
  BY <1>1, RememberNone
<1> HIDE DEF c, k
<1>3. InSync(k)
  BY <1>1, <1>2 DEF InSync, AllMatch, PendingFits, Pends, SameBut
<1> QED BY <1>2, <1>3 DEF c, k

LEMMA HintMoves ==
    ASSUME NEW t \in Tokens, TaskOK(task[t], flights[t]), TakeHint(t)
    PROVE  \E e, gs : Moved(t, e, gs)
<1> DEFINE c == task[t]
           k == Taken(t)
           h == Head(c.queue)
           gs == Deferring(flights[t], h)
<1>1. c.phase = "Running" /\ c.queue # <<>> /\ h.op = "hint"
  BY DEF TakeHint, Taking
<1>2. /\ c \in TaskRec /\ k \in TaskRec /\ h \in Cmds /\ SameBut(c, k)
      /\ k.queue = Tail(c.queue) /\ k.replay = Remember(c.replay, h)
      /\ flights[t] \in FlightRec
  BY <1>1, TakenSync
<1>3. InSync(k) /\ k.phase = "Running"
  BY <1>1, <1>2, AskedSync DEF SameBut
<1>4. h \in Requests
  BY <1>1, <1>2, CmdFacts
<1>5. /\ gs \in FlightRec /\ gs.running = flights[t].running
      /\ InFlight(gs) \subseteq InFlight(flights[t]) \cup {h}
  <2>1. /\ gs.deferred = (flights[t].deferred \ Superseded(flights[t], h)) \cup {h}
        /\ gs.running = flights[t].running
    BY DEF Deferring
  <2>2. gs \in FlightRec
    BY <1>2, <1>4 DEF Deferring, FlightRec
  <2> QED BY <2>1, <2>2 DEF InFlight
<1>6. Go(t, k, gs)
  BY DEF TakeHint
<1> HIDE DEF gs
<1>7. Moves(c, flights[t], k, gs)
  BY <1>1, <1>2, <1>5, SameTextsReflexive DEF Moves, Takes, Asked
<1> HIDE DEF k
<1> QED BY <1>2, <1>3, <1>5, <1>6, <1>7, GoMoves

LEMMA RequestMoves ==
    ASSUME NEW t \in Tokens, TaskOK(task[t], flights[t]), TakeRequest(t)
    PROVE  \E e, gs : Moved(t, e, gs)
<1> DEFINE c == task[t]
           k == Taken(t)
           h == Head(c.queue)
<1>1. c.phase = "Running" /\ c.queue # <<>> /\ h.op = "request"
  BY DEF TakeRequest, Taking
<1>2. /\ c \in TaskRec /\ k \in TaskRec /\ h \in Cmds /\ SameBut(c, k)
      /\ k.queue = Tail(c.queue) /\ k.replay = Remember(c.replay, h)
      /\ k.pending = c.pending /\ k.server = c.server
      /\ InSync(c) /\ c.replay \in Replays /\ flights[t] \in FlightRec
  BY <1>1, TakenSync
<1>3. PICK flush \in Sends, outcome \in {"ok", "refused", "error", "timeout", "closed"} :
        \/ Lose(t, Flushed(k, flush), Condemned(Flushed(k, flush).tally, outcome), {h})
        \/ outcome # "closed" /\ Go(t, [Flushed(k, flush) EXCEPT
                                          !.tally = Noted(@, outcome)], flights[t])
  <2>1. FlushOutcomes(k) \subseteq Sends
    BY DEF FlushOutcomes, Sends
  <2> QED BY <2>1 DEF TakeRequest
<1> DEFINE f == Flushed(k, flush)
           y == Noted(f.tally, outcome)
           e == [f EXCEPT !.tally = y]
<1>4. \/ Lose(t, f, Condemned(f.tally, outcome), {h})
      \/ outcome # "closed" /\ Go(t, e, flights[t])
  BY <1>3
<1>5. /\ f \in TaskRec /\ SameTexts(k.replay, f.replay) /\ f.queue = k.queue
      /\ f.pending = Nil /\ SameBut(k, f)
  BY <1>2, FlushKeeps
<1>6. InSync(f)
  <2>1. k.replay = c.replay
    BY <1>1, AskedSync
  <2>2. \A d \in Docs : Continues(c.replay[d], k.replay[d])
    BY <1>2, <2>1, ContinuesSame
  <2> HIDE DEF c, k
  <2> QED BY <1>1, <1>2, <2>2, FlushedSync
<1> HIDE DEF f
<1>7. Moves(c, flights[t], f, NoFlights)
  BY <1>1, <1>2, <1>5, NoFlightsTyped DEF Moves, Takes
<1>8. CASE Lose(t, f, Condemned(f.tally, outcome), {h})
  BY <1>5, <1>7, <1>8, LoseMoves
<1>9. CASE outcome # "closed" /\ Go(t, e, flights[t])
  <2>1. y \in Tallies
    BY <1>5, <1>9, TaskFacts, NotedTyped
  <2> HIDE DEF y
  <2>2. /\ e \in TaskRec /\ SameBut(f, e) /\ e.queue = f.queue /\ e.replay = f.replay
        /\ e.pending = f.pending /\ InSync(e)
    BY <1>5, <1>6, <2>1, TallyOnly
  <2> HIDE DEF e
  <2>3. e.phase = "Running"
    BY <1>1, <1>2, <1>5, <2>2 DEF SameBut
  <2>4. Moves(c, flights[t], e, flights[t])
    BY <1>1, <1>2, <1>5, <2>2 DEF Moves, Takes
  <2> QED BY <1>2, <1>9, <2>2, <2>3, <2>4, GoMoves
<1> QED BY <1>4, <1>8, <1>9

LEMMA OfflineMoves ==
    ASSUME NEW t \in Tokens, TaskOK(task[t], flights[t]), TakeOffline(t),
           flights = [u \in Tokens |-> flights[u]]
    PROVE  \E e, gs : Moved(t, e, gs)
<1> DEFINE c == task[t]
           k == Taken(t)
           h == Head(c.queue)
<1>1. c.phase # "Running" /\ c.queue # <<>>
  BY DEF TakeOffline, Taking
<1>2. /\ c \in TaskRec /\ k \in TaskRec /\ h \in Cmds /\ SameBut(c, k)
      /\ k.queue = Tail(c.queue) /\ k.replay = Remember(c.replay, h)
      /\ k.pending = c.pending /\ k.server = c.server
      /\ InSync(c) /\ flights[t] \in FlightRec
  BY <1>1, TakenSync
<1>3. task' = [task EXCEPT ![t] = k] /\ flights' = [flights EXCEPT ![t] = flights[t]]
  BY DEF TakeOffline
<1>4. k.phase # "Running" /\ k.pending = Nil /\ flights[t] = NoFlights
  BY <1>1, <1>2 DEF SameBut, InSync, TaskOK
<1> HIDE DEF k, c
<1>5. InSync(k)
  BY <1>1, <1>2, <1>4 DEF InSync, SameBut
<1>6. Sound(k, flights[t])
  BY <1>2, <1>4, <1>5 DEF Sound
<1>7. Moves(c, flights[t], k, flights[t])
  BY <1>1, <1>2, <1>4, SameTextsReflexive DEF Moves, Takes
<1>8. Moved(t, k, flights[t])
  BY <1>3, <1>6, <1>7 DEF Moved, c
<1> QED BY <1>8

LEMMA QuietMoves ==
    ASSUME NEW t \in Tokens, TaskOK(task[t], flights[t]), Quiet(t)
    PROVE  \E e, gs : Moved(t, e, gs)
<1> DEFINE c == task[t]
<1>1. c.phase = "Running" /\ c \in TaskRec /\ InSync(c) /\ flights[t] \in FlightRec
      /\ c.replay \in Replays
  BY TaskFacts DEF Quiet, TaskOK
<1>2. PICK flush \in Sends : \/ Lose(t, Flushed(c, flush), FALSE, {})
                             \/ Go(t, Flushed(c, flush), flights[t])
  BY DEF Quiet
<1> DEFINE f == Flushed(c, flush)
<1>3. /\ f \in TaskRec /\ SameTexts(c.replay, f.replay) /\ f.queue = c.queue
      /\ SameBut(c, f)
  BY <1>1, FlushKeeps
<1>4. InSync(f)
  <2>1. \A d \in Docs : Continues(c.replay[d], c.replay[d])
    BY <1>1, ContinuesSame
  <2>2. SameBut(c, c)
    BY DEF SameBut
  <2> HIDE DEF c
  <2> QED BY <1>1, <2>1, <2>2, FlushedSync
<1> HIDE DEF f
<1>5. f.phase = "Running"
  BY <1>1, <1>3 DEF SameBut
<1>6. Moves(c, flights[t], f, flights[t]) /\ Moves(c, flights[t], f, NoFlights)
  BY <1>3, NoFlightsTyped DEF Moves, Stays
<1> HIDE DEF c
<1>7. CASE Lose(t, f, FALSE, {})
  BY <1>3, <1>6, <1>7, LoseMoves DEF c
<1>8. CASE Go(t, f, flights[t])
  BY <1>1, <1>3, <1>4, <1>5, <1>6, <1>8, GoMoves DEF c
<1> QED BY <1>2, <1>7, <1>8 DEF f

LEMMA FinishMoves ==
    ASSUME NEW t \in Tokens, TaskOK(task[t], flights[t]), FinishHints(t) \/ Lost(t)
    PROVE  \E e, gs : Moved(t, e, gs)
<1> DEFINE c == task[t]
<1>1. c \in TaskRec /\ InSync(c) /\ flights[t] \in FlightRec
  BY DEF TaskOK
<1>2. Moves(c, flights[t], c, NoFlights)
  BY SameTextsReflexive, NoFlightsTyped DEF Moves, Stays
<1>3. CASE Lost(t)
  BY <1>1, <1>2, <1>3, LoseMoves DEF Lost
<1>4. ASSUME NEW f \in flights[t].running, FinishHint(t, f)
      PROVE  \E e, gs : Moved(t, e, gs)
  <2>1. c.phase = "Running"
    BY <1>4 DEF FinishHint
  <2> DEFINE gs == [flights[t] EXCEPT !.running = @ \ {f}]
  <2>2. PICK outcome \in {"ok", "failed", "closed"} :
          \/ Lose(t, c, FALSE, {})
          \/ Go(t, [c EXCEPT !.tally.answered = @ \/ outcome = "ok"], gs)
    BY <1>4 DEF FinishHint
  <2> DEFINE y == [c.tally EXCEPT !.answered = @ \/ outcome = "ok"]
             e == [c EXCEPT !.tally = y]
  <2>3. Lose(t, c, FALSE, {}) \/ Go(t, e, gs)
    BY <2>2
  <2>4. y \in Tallies
    <3>1. c.tally \in Tallies
      BY <1>1, TaskFacts
    <3> HIDE DEF c
    <3> QED BY <3>1 DEF Tallies
  <2> HIDE DEF y
  <2>5. /\ e \in TaskRec /\ SameBut(c, e) /\ e.queue = c.queue /\ e.replay = c.replay
        /\ InSync(e)
    BY <1>1, <2>4, TallyOnly
  <2>6. /\ gs \in FlightRec /\ gs.running = flights[t].running \ {f}
        /\ InFlight(gs) \subseteq InFlight(flights[t])
    <3>1. /\ gs.running = flights[t].running \ {f} /\ gs.deferred = flights[t].deferred
          /\ gs \in FlightRec
      BY <1>1 DEF FlightRec
    <3> QED BY <3>1 DEF InFlight
  <2> HIDE DEF e, gs
  <2>7. e.phase = "Running"
    BY <2>1, <2>5 DEF SameBut
  <2>8. Moves(c, flights[t], e, gs)
    BY <2>5, <2>6, SameTextsReflexive DEF Moves, Stays
  <2>9. CASE Lose(t, c, FALSE, {})
    BY <1>1, <1>2, <2>9, LoseMoves
  <2>10. CASE Go(t, e, gs)
    BY <2>5, <2>6, <2>7, <2>8, <2>10, GoMoves
  <2> QED BY <2>3, <2>9, <2>10
<1> QED BY <1>3, <1>4 DEF FinishHints

\* A task that does not run has nothing pending and nothing in flight.
LEMMA AloneMoves ==
    ASSUME NEW t \in Tokens, TaskOK(task[t], flights[t]), flights = [u \in Tokens |-> flights[u]],
           task[t].phase # "Running", UNCHANGED flights,
           NEW e \in TaskRec, task' = [task EXCEPT ![t] = e], InSync(e),
           e.queue = task[t].queue, e.replay = task[t].replay
    PROVE  \E f, gs : Moved(t, f, gs)
<1>1. flights[t] = NoFlights /\ flights[t] \in FlightRec
  BY DEF TaskOK
<1>2. Sound(e, flights[t])
  BY <1>1 DEF Sound
<1>3. Moves(task[t], flights[t], e, flights[t])
  BY SameTextsReflexive DEF Moves, Stays
<1>4. Moved(t, e, flights[t])
  BY <1>2, <1>3 DEF Moved
<1> QED BY <1>4

LEMMA ConnectMoves ==
    ASSUME NEW t \in Tokens, TaskOK(task[t], flights[t]), flights = [u \in Tokens |-> flights[u]],
           Connect(t)
    PROVE  \E e, gs : Moved(t, e, gs)
<1> DEFINE c == task[t]
           copy == [d \in Docs |-> IF c.replay[d] = Nil THEN Nil ELSE c.replay[d].text]
           srv == [c.server EXCEPT !.copy = copy]
           e == [c EXCEPT !.phase = "Running", !.worked = TRUE, !.server = srv]
<1>1. /\ c \in TaskRec /\ c.phase # "Running" /\ c.pending = Nil /\ c.server = NoServer
      /\ c.replay \in Replays /\ Remembers(c.queue, c.replay)
  BY TaskFacts DEF TaskOK, InSync, Connect, Launching, InOrder
<1>2. task' = [task EXCEPT ![t] = e] /\ UNCHANGED flights
  BY DEF Connect, Launching
<1> HIDE DEF c
<1>3. \A d \in Docs : c.replay[d] # Nil => c.replay[d] \in Entries /\ c.replay[d].text \in Pairs
  BY <1>1, ToldFacts
<1>4. copy \in [Docs -> Copies]
  BY <1>3 DEF Copies
<1>5. \A d \in Docs : copy[d] = IF c.replay[d] = Nil THEN Nil ELSE c.replay[d].text
  OBVIOUS
<1> HIDE DEF copy
<1>6. srv \in Servers /\ srv.copy = copy /\ srv.astray = {}
  BY <1>1, <1>4 DEF NoServer, Servers
<1> HIDE DEF srv
<1>7. /\ e \in TaskRec /\ e.phase = "Running" /\ e.queue = c.queue /\ e.replay = c.replay
      /\ e.pending = Nil /\ e.server = srv
  BY <1>1, <1>6 DEF TaskRec, Phases
<1> HIDE DEF e
<1>8. ASSUME NEW d \in Docs PROVE Matches(copy[d], c.replay[d], FALSE)
  <2>1. CASE c.replay[d] = Nil
    <3>1. Nil # Garbage
      BY DEF Nil, Garbage
    <3> QED BY <1>5, <2>1, <3>1 DEF Matches
  <2>2. CASE c.replay[d] # Nil
    <3>1. copy[d] = c.replay[d].text /\ c.replay[d].text \in Pairs
      BY <1>3, <1>5, <2>2
    <3>2. copy[d] # Nil /\ copy[d] # Garbage /\ copy[d][2] \in Nat
      BY <3>1, PairFacts
    <3>3. c.replay[d].version <= c.replay[d].text[2]
      BY <1>1, <2>2 DEF Remembers
    <3> QED BY <2>2, <3>1, <3>2, <3>3 DEF Matches
  <2> QED BY <2>1, <2>2
<1>9. \A d \in Docs : Pends(e, d) = FALSE
  BY <1>7 DEF Pends
<1>10. InSync(e)
  BY <1>6, <1>7, <1>8, <1>9 DEF InSync, AllMatch, PendingFits
<1> QED BY <1>1, <1>2, <1>7, <1>10, AloneMoves DEF c

LEMMA LaunchMoves ==
    ASSUME NEW t \in Tokens, TaskOK(task[t], flights[t]), flights = [u \in Tokens |-> flights[u]],
           Launch(t)
    PROVE  \E e, gs : Moved(t, e, gs)
<1> DEFINE c == task[t]
<1>1. c \in TaskRec /\ InSync(c)
  BY DEF TaskOK
<1>2. CASE Connect(t)
  BY <1>2, ConnectMoves
<1>3. CASE ReplayFails(t) \/ LaunchFails(t)
  <2>1. PICK state \in {"Retrying", "CircuitOpen"} : task' = [task EXCEPT ![t] = Down(c, state)]
    BY <1>3 DEF ReplayFails, LaunchFails, Verdict
  <2>2. UNCHANGED flights /\ c.phase # "Running"
    BY <1>3 DEF ReplayFails, LaunchFails, Launching
  <2>3. /\ Down(c, state) \in TaskRec /\ Down(c, state).queue = c.queue
        /\ Down(c, state).replay = c.replay /\ InSync(Down(c, state))
    BY <1>1, DownIs
  <2> QED BY <2>1, <2>2, <2>3, AloneMoves
<1>4. CASE Unavailable(t)
  <2> DEFINE e == [c EXCEPT !.phase = "Unavailable"]
  <2>1. task' = [task EXCEPT ![t] = e] /\ UNCHANGED flights /\ c.phase # "Running"
    BY <1>4 DEF Unavailable, Launching
  <2>2. c.pending = Nil /\ c.server = NoServer
    BY <1>1, <2>1 DEF InSync
  <2>3. e \in TaskRec /\ e.queue = c.queue /\ e.replay = c.replay /\ e.phase = "Unavailable"
        /\ e.pending = c.pending /\ e.server = c.server
    <3> HIDE DEF c
    <3> QED BY <1>1 DEF TaskRec, Phases
  <2> HIDE DEF e
  <2>4. InSync(e)
    BY <2>2, <2>3 DEF InSync
  <2> QED BY <2>1, <2>3, <2>4, AloneMoves
<1> QED BY <1>2, <1>3, <1>4 DEF Launch

LEMMA NewTaskTyped ==
    ASSUME NEW phase \in Phases, phase # "Running"
    PROVE  LET e == [NewTask EXCEPT !.phase = phase] IN
           /\ e \in TaskRec /\ e.phase = phase /\ e.queue = <<>>
           /\ e.replay = [d \in Docs |-> Nil] /\ InSync(e)
<1> DEFINE e == [NewTask EXCEPT !.phase = phase]
<1>1. NoServer \in Servers /\ NewTally \in Tallies
  BY LimitsArePositive DEF NoServer, Servers, NewTally, Tallies, Copies
<1>2. [d \in Docs |-> Nil] \in Replays /\ "Starting" \in Phases
  BY DEF Replays, Phases
<1>3. /\ NewTask \in TaskRec /\ NewTask.queue = <<>> /\ NewTask.replay = [d \in Docs |-> Nil]
      /\ NewTask.pending = Nil /\ NewTask.server = NoServer
  BY <1>1, <1>2 DEF NewTask, TaskRec
<1>4. /\ e \in TaskRec /\ e.phase = phase /\ e.queue = <<>>
      /\ e.replay = [d \in Docs |-> Nil] /\ e.pending = Nil /\ e.server = NoServer
  BY <1>3 DEF TaskRec
<1> HIDE DEF e
<1>5. InSync(e)
  BY <1>4 DEF InSync
<1> QED BY <1>4, <1>5 DEF e

LEMMA EndMoves ==
    ASSUME NEW t \in Tokens, TaskOK(task[t], flights[t]), End(t)
    PROVE  \E e, gs : Moved(t, e, gs)
<1> DEFINE e == [NewTask EXCEPT !.phase = "Ended"]
<1>1. /\ task' = [task EXCEPT ![t] = e] /\ flights' = [flights EXCEPT ![t] = NoFlights]
      /\ ~Holds(t) /\ task[t].queue = <<>>
  BY DEF End
<1>2. e \in TaskRec /\ e.phase = "Ended" /\ InSync(e)
  <2>1. "Ended" \in Phases /\ "Ended" # "Running"
    BY DEF Phases
  <2> QED BY <2>1, NewTaskTyped
<1>3. Finishes(task[t], e, NoFlights)
  BY <1>1 DEF Finishes
<1> HIDE DEF e
<1>4. Sound(e, NoFlights) /\ NoFlights.running = {}
  BY <1>2, NoFlightsTyped DEF Sound, NoFlights
<1>5. Moved(t, e, NoFlights)
  BY <1>1, <1>3, <1>4 DEF Moved
<1> QED BY <1>5

LEMMA StepMoves ==
    ASSUME NEW t \in Tokens, TaskOK(task[t], flights[t]), flights = [u \in Tokens |-> flights[u]],
           RunTask(t) \/ Lost(t)
    PROVE  \E e, gs : Moved(t, e, gs)
  BY ChangeMoves, NoticeMoves, HintMoves, RequestMoves, OfflineMoves, QuietMoves,
     FinishMoves, LaunchMoves, EndMoves DEF RunTask, Serve

-----------------------------------------------------------------------------
(* What the session knows of the task that holds its slot: the texts it is *)
(* given are never ahead of the buffers, and every attached document is    *)
(* known under its present opening and was given its last text.            *)

Opened(os, ops) ==
    /\ os \in [Docs -> {Nil} \cup Pairs] /\ ops \in [Docs -> Nat]
    /\ \A d \in Docs : os[d] # Nil => os[d][1] = ops[d]

\* x is a text the buffer of d has or had.
Within(x, d, os, ops) ==
    /\ x[1] <= ops[d]
    /\ x[1] = ops[d] /\ os[d] # Nil => x[2] <= os[d][2]

Bounds(q, r, F, os, ops) ==
    /\ \A i \in 1..Len(q) : q[i].op # "close" => Within(q[i].text, q[i].doc, os, ops)
    /\ \A d \in Docs : r[d] # Nil => Within(r[d].text, d, os, ops)
    /\ \A f \in F : Within(f.text, f.doc, os, ops)

Serves(q, r, os, ops, ts, d) ==
    /\ os[d] # Nil /\ ts[d] \in Pairs /\ ts[d][1] = ops[d] /\ ts[d][2] <= os[d][2]
    /\ KnownAs(q, r, Len(q), d, ops[d])
    /\ Given(q, r, Len(q), d, ts[d])

Kept(q, r, F, os, ops, ts, docs) ==
    Bounds(q, r, F, os, ops) /\ \A d \in docs : Serves(q, r, os, ops, ts, d)

LEMMA TakeKeepsBounds ==
    ASSUME NEW q \in Seq(Cmds), q # <<>>, NEW r \in Replays, NEW F \in SUBSET Requests,
           NEW os, NEW ops, Bounds(q, r, F, os, ops)
    PROVE  Bounds(Tail(q), Remember(r, Head(q)), F \cup Asked(Head(q)), os, ops)
<1> DEFINE h == Head(q)
           u == Tail(q)
           s == Remember(r, h)
<1>1. /\ 1 \in 1..Len(q) /\ h = q[1] /\ h \in Cmds
      /\ \A i \in 1..Len(u) : i + 1 \in 1..Len(q) /\ u[i] = q[i + 1]
  BY QueueFacts
<1> HIDE DEF h, u
<1>2. h.op # "close" => Within(h.text, h.doc, os, ops)
  BY <1>1 DEF Bounds
<1>3. ASSUME NEW d \in Docs, s[d] # Nil PROVE Within(s[d].text, d, os, ops)
  <2>1. CASE s[d] = r[d]
    BY <1>3, <2>1 DEF Bounds
  <2>2. CASE s[d] # r[d]
    <3>1. h.doc = d
      BY <1>1, <2>2, RememberOther
    <3>2. /\ h.op \in AnyOp /\ h.op \notin {"close", "hint", "request"}
          /\ (h.op \in {"save", "change"} => r[d] # Nil) /\ h.text \in Pairs
      BY <1>1, <1>3, <2>2, <3>1, RememberIs, CmdFacts
    <3>3. CASE h.op = "save"
      BY <1>1, <1>2, <3>1, <3>2, <3>3, RememberSave
    <3>4. CASE h.op # "save"
      <4>1. s[d] = Entry(h.text)
        BY <1>1, <3>1, <3>2, <3>4, RememberText DEF AnyOp
      <4> HIDE DEF s
      <4> QED BY <1>2, <3>1, <3>2, <4>1, FreshEntry
    <3> QED BY <3>3, <3>4
  <2> QED BY <2>1, <2>2
<1> HIDE DEF s
<1>4. \A i \in 1..Len(u) : u[i].op # "close" => Within(u[i].text, u[i].doc, os, ops)
  BY <1>1 DEF Bounds
<1>5. \A f \in F \cup Asked(h) : Within(f.text, f.doc, os, ops)
  BY <1>2 DEF Bounds, Asked
<1>6. Bounds(u, s, F \cup Asked(h), os, ops)
  BY <1>3, <1>4, <1>5 DEF Bounds
<1> QED BY <1>6 DEF u, s, h

LEMMA TakeServes ==
    ASSUME NEW q \in Seq(Cmds), q # <<>>, NEW r \in Replays, Descends(q, r),
           Remembers(q, r), NEW os, NEW ops, NEW ts, NEW d \in Docs,
           Serves(q, r, os, ops, ts, d)
    PROVE  Serves(Tail(q), Remember(r, Head(q)), os, ops, ts, d)
<1>1. Len(q) \in 1..Len(q) /\ Len(Tail(q)) = Len(q) - 1
  BY QueueFacts
<1>2. KnownAs(Tail(q), Remember(r, Head(q)), Len(q) - 1, d, ops[d])
  BY <1>1, KnownAsShifts DEF Serves
<1>3. KnownAs(q, r, Len(q), d, ts[d][1]) /\ ts[d] \in Pairs /\ Given(q, r, Len(q), d, ts[d])
  BY DEF Serves
<1>4. Given(Tail(q), Remember(r, Head(q)), Len(q) - 1, d, ts[d])
  BY <1>1, <1>3, GivenShifts
<1> QED BY <1>1, <1>2, <1>4 DEF Serves

LEMMA SameKeeps ==
    ASSUME NEW q, NEW r, NEW s, SameTexts(r, s), NEW F, NEW G, G \subseteq F,
           NEW os, NEW ops, NEW ts, NEW docs, docs \subseteq Docs,
           Kept(q, r, F, os, ops, ts, docs)
    PROVE  Kept(q, s, G, os, ops, ts, docs)
<1>1. Bounds(q, s, G, os, ops)
  BY DEF Kept, Bounds, SameTexts
<1>2. \A d \in docs : Serves(q, s, os, ops, ts, d)
  BY SameKeepsKnowledge DEF Kept, Serves
<1> QED BY <1>1, <1>2 DEF Kept

LEMMA SameTypes ==
    ASSUME NEW q \in Seq(Cmds), q # <<>>
    PROVE  /\ Asked(Head(q)) \subseteq Requests
           /\ Tail(q) \in Seq(Cmds) /\ Len(Tail(q)) <= Len(q)
<1>1. Head(q) \in Cmds /\ Tail(q) \in Seq(Cmds) /\ Len(Tail(q)) = Len(q) - 1
  BY QueueFacts
<1>2. Len(q) \in Nat
  OBVIOUS
<1>3. Asked(Head(q)) \subseteq Requests
  <2> DEFINE h == Head(q)
  <2>1. h.op \in {"hint", "request"} => h \in Requests
    BY <1>1, CmdFacts
  <2> HIDE DEF h
  <2>2. Asked(h) \subseteq Requests
    BY <2>1 DEF Asked
  <2> QED BY <2>2 DEF h
<1> QED BY <1>1, <1>2, <1>3

LEMMA MovesKeep ==
    ASSUME NEW c, NEW fs, TaskOK(c, fs), NEW e, NEW gs, Sound(e, gs), Moves(c, fs, e, gs)
    PROVE  /\ TaskOK(e, gs)
           /\ \A os, ops, ts : \A docs \in SUBSET Docs :
                Kept(c.queue, c.replay, InFlight(fs), os, ops, ts, docs)
                  => Kept(e.queue, e.replay, InFlight(gs), os, ops, ts, docs)
<1> DEFINE q == c.queue
           r == c.replay
           F == InFlight(fs)
           G == InFlight(gs)
<1>1. /\ q \in Seq(Cmds) /\ r \in Replays /\ Len(q) <= Capacity /\ InOrder(q, r, F)
      /\ Len(q) \in Nat
  BY TaskFacts, QueueFacts DEF TaskOK
<1>2. F \subseteq Requests /\ G \subseteq Requests
  BY DEF TaskOK, Sound, FlightRec, InFlight
<1>3. e \in TaskRec /\ gs \in FlightRec /\ InSync(e) /\ (e.phase # "Running" => gs = NoFlights)
  BY DEF Sound
<1> HIDE DEF q, r, F, G
<1>4. CASE Stays(c, fs, e, gs)
  <2>1. e.queue = q /\ SameTexts(r, e.replay) /\ G \subseteq F
    BY <1>4 DEF Stays, q, r, F, G
  <2>2. InOrder(q, e.replay, G)
    BY <1>1, <1>2, <2>1, SameKeepsOrder
  <2>3. \A os, ops, ts : \A docs \in SUBSET Docs :
          Kept(q, r, F, os, ops, ts, docs) => Kept(q, e.replay, G, os, ops, ts, docs)
    BY <2>1, SameKeeps
  <2>4. TaskOK(e, gs)
    BY <1>1, <1>3, <2>1, <2>2 DEF TaskOK, G
  <2> QED BY <2>1, <2>3, <2>4 DEF q, r, F, G
<1>5. CASE Takes(c, fs, e, gs)
  <2> DEFINE u == Tail(q)
             s == Remember(r, Head(q))
             H == F \cup Asked(Head(q))
  <2>1. q # <<>> /\ e.queue = u /\ SameTexts(s, e.replay) /\ G \subseteq H
    BY <1>5 DEF Takes, q, r, F, G
  <2>2. u \in Seq(Cmds) /\ Len(u) <= Len(q) /\ H \subseteq Requests /\ Len(u) \in Nat
    BY <1>1, <1>2, <2>1, SameTypes, QueueFacts
  <2>3. InOrder(u, s, H)
    BY <1>1, <1>2, <2>1, TakeKeepsOrder
  <2>4. \A os, ops, ts : \A docs \in SUBSET Docs :
          Kept(q, r, F, os, ops, ts, docs) => Kept(u, s, H, os, ops, ts, docs)
    <3>1. Descends(q, r) /\ Remembers(q, r)
      BY <1>1 DEF InOrder
    <3>2. ASSUME NEW os, NEW ops, NEW ts, NEW docs \in SUBSET Docs,
                 Kept(q, r, F, os, ops, ts, docs)
          PROVE  Kept(u, s, H, os, ops, ts, docs)
      <4>1. Bounds(u, s, H, os, ops)
        BY <1>1, <1>2, <2>1, <3>2, TakeKeepsBounds DEF Kept
      <4>2. \A d \in docs : Serves(u, s, os, ops, ts, d)
        BY <1>1, <2>1, <3>1, <3>2, TakeServes DEF Kept
      <4> QED BY <4>1, <4>2 DEF Kept
    <3> QED BY <3>2
  <2> HIDE DEF u, s, H
  <2>5. InOrder(u, e.replay, G)
    BY <2>1, <2>2, <2>3, SameKeepsOrder
  <2>6. \A os, ops, ts : \A docs \in SUBSET Docs :
          Kept(q, r, F, os, ops, ts, docs) => Kept(u, e.replay, G, os, ops, ts, docs)
    BY <2>1, <2>4, SameKeeps
  <2>7. Len(u) <= Capacity
    BY <1>1, <2>2, CapacityHoldsACommand
  <2>8. TaskOK(e, gs)
    BY <1>3, <2>1, <2>5, <2>7 DEF TaskOK, G
  <2> QED BY <2>1, <2>6, <2>8 DEF q, r, F, G
<1> QED BY <1>4, <1>5 DEF Moves

-----------------------------------------------------------------------------
(* The inductive invariant, and the steps of a task *)

SessionOK ==
    /\ Opened(open, openings) /\ told \in [Docs -> {Nil} \cup Pairs]
    /\ nextToken \in Nat

TasksOK ==
    /\ task = [u \in Tokens |-> task[u]] /\ flights = [u \in Tokens |-> flights[u]]
    /\ \A t \in Tokens : /\ TaskOK(task[t], flights[t])
                         /\ ~Born(t) => task[t] = NewTask /\ flights[t] = NoFlights

HolderKeeps(t, docs) ==
    Kept(task[t].queue, task[t].replay, InFlight(flights[t]), open, openings, told, docs)

SlotOK ==
    slot # Nil =>
      /\ slot = [token |-> slot.token, documents |-> slot.documents,
                 runtime |-> slot.runtime]
      /\ slot.token \in Tokens /\ Born(slot.token)
      /\ slot.documents \subseteq Docs /\ slot.documents # {}
      /\ IsFiniteSet(slot.documents)
      /\ HolderKeeps(slot.token, slot.documents)

TextInv == SessionOK /\ TasksOK /\ SlotOK

LEMMA StartIsNew == [NewTask EXCEPT !.phase = "Starting"] = NewTask
<1>1. ASSUME NEW c \in TaskRec, c.phase = "Starting"
      PROVE  [c EXCEPT !.phase = "Starting"] = c
  BY <1>1 DEF TaskRec
<1>2. NoServer \in Servers /\ NewTally \in Tallies /\ [d \in Docs |-> Nil] \in Replays
      /\ "Starting" \in Phases
  BY LimitsArePositive DEF NoServer, Servers, NewTally, Tallies, Copies, Replays, Phases
<1>3. NewTask \in TaskRec /\ NewTask.phase = "Starting"
  BY <1>2 DEF NewTask, TaskRec
<1> QED BY <1>1, <1>3

LEMMA FreshQueueInOrder == InOrder(<<>>, [d \in Docs |-> Nil], {})
<1>1. Len(<<>>) = 0 /\ 1..0 = {}
  OBVIOUS
<1>2. \A d \in Docs : [b \in Docs |-> Nil][d] = Nil
  OBVIOUS
<1>3. Ascending(<<>>) /\ Descends(<<>>, [d \in Docs |-> Nil]) /\ Informed(<<>>, [d \in Docs |-> Nil])
  BY <1>1 DEF Ascending, Descends, Informed
<1>4. Remembers(<<>>, [d \in Docs |-> Nil])
  BY <1>2 DEF Remembers
<1>5. Attended(<<>>, [d \in Docs |-> Nil], {})
  BY DEF Attended
<1> QED BY <1>3, <1>4, <1>5 DEF InOrder

LEMMA FreshTaskOK ==
    ASSUME NEW phase \in Phases, phase # "Running"
    PROVE  TaskOK([NewTask EXCEPT !.phase = phase], NoFlights)
<1> DEFINE e == [NewTask EXCEPT !.phase = phase]
<1>1. /\ e \in TaskRec /\ e.phase = phase /\ e.queue = <<>>
      /\ e.replay = [d \in Docs |-> Nil] /\ InSync(e)
  BY NewTaskTyped
<1> HIDE DEF e
<1>2. Len(<<>>) = 0 /\ 0 <= Capacity
  BY CapacityHoldsACommand
<1>3. NoFlights \in FlightRec /\ InFlight(NoFlights) = {}
  BY NoFlightsTyped
<1>4. TaskOK(e, NoFlights)
  BY <1>1, <1>2, <1>3, FreshQueueInOrder DEF TaskOK
<1> QED BY <1>4 DEF e

LEMMA NewTaskOK == TaskOK(NewTask, NoFlights)
<1>1. "Starting" \in Phases /\ "Starting" # "Running"
  BY DEF Phases
<1> QED BY <1>1, FreshTaskOK, StartIsNew

LEMMA StepKeepsSession ==
    ASSUME NEW t \in Tokens, RunTask(t) \/ Lost(t) PROVE UNCHANGED session /\ Born(t)
<1>1. CASE TakeChange(t)
  BY <1>1 DEF TakeChange, Taking
<1>2. CASE TakeNotice(t)
  BY <1>2 DEF TakeNotice, Taking
<1>3. CASE TakeHint(t)
  BY <1>3 DEF TakeHint, Taking, session
<1>4. CASE TakeRequest(t)
  BY <1>4 DEF TakeRequest, Taking
<1>5. CASE TakeOffline(t)
  BY <1>5 DEF TakeOffline, Taking, session
<1>6. CASE Quiet(t) \/ Lost(t)
  BY <1>6 DEF Quiet, Lost
<1>7. CASE FinishHints(t)
  BY <1>7 DEF FinishHints, FinishHint
<1>8. CASE End(t)
  BY <1>8 DEF End, session
<1>9. CASE Launch(t)
  BY <1>9 DEF Launch, Launching, Connect, ReplayFails, Unavailable, LaunchFails, session
<1> QED
  BY <1>1, <1>2, <1>3, <1>4, <1>5, <1>6, <1>7, <1>8, <1>9 DEF RunTask, Serve

\* A step of one task keeps everything that is known of it, and of the slot.
LEMMA StepKeepsTexts ==
    ASSUME TextInv, NEW t \in Tokens, RunTask(t) \/ Lost(t)
    PROVE  TextInv'
<1>1. UNCHANGED session /\ Born(t)
  BY StepKeepsSession
<1>2. /\ open' = open /\ openings' = openings /\ slot' = slot /\ nextToken' = nextToken
      /\ told' = told
  BY <1>1 DEF session
<1>3. /\ task = [u \in Tokens |-> task[u]] /\ flights = [u \in Tokens |-> flights[u]]
      /\ \A u \in Tokens : /\ TaskOK(task[u], flights[u])
                           /\ ~Born(u) => task[u] = NewTask /\ flights[u] = NoFlights
  BY DEF TextInv, TasksOK
<1>4. PICK e, gs : Moved(t, e, gs)
  BY <1>3, StepMoves
<1>5. /\ task' = [task EXCEPT ![t] = e] /\ flights' = [flights EXCEPT ![t] = gs]
      /\ Sound(e, gs)
      /\ Moves(task[t], flights[t], e, gs) \/ (~Holds(t) /\ Finishes(task[t], e, gs))
  BY <1>4 DEF Moved
<1>6. /\ task' = [u \in Tokens |-> task'[u]] /\ flights' = [u \in Tokens |-> flights'[u]]
      /\ task'[t] = e /\ flights'[t] = gs
      /\ \A u \in Tokens \ {t} : task'[u] = task[u] /\ flights'[u] = flights[u]
  BY <1>3, <1>5
<1>7. TaskOK(e, gs)
  <2>1. CASE Moves(task[t], flights[t], e, gs)
    BY <1>3, <1>5, <2>1, MovesKeep
  <2>2. CASE Finishes(task[t], e, gs)
    <3>1. "Ended" \in Phases /\ "Ended" # "Running"
      BY DEF Phases
    <3> QED BY <2>2, <3>1, FreshTaskOK DEF Finishes
  <2> QED BY <1>5, <2>1, <2>2
<1>8. TasksOK'
  <2>1. \A u \in Tokens : TaskOK(task'[u], flights'[u])
    BY <1>3, <1>6, <1>7
  <2>2. \A u \in Tokens : (~Born(u))' => task'[u] = NewTask /\ flights'[u] = NoFlights
    BY <1>1, <1>2, <1>3, <1>6 DEF Born
  <2>3. (\A u \in Tokens : /\ TaskOK(task[u], flights[u])
                           /\ ~Born(u) => task[u] = NewTask /\ flights[u] = NoFlights)'
    BY <2>1, <2>2
  <2> QED BY <1>6, <2>3 DEF TasksOK
<1>9. SessionOK'
  BY <1>2 DEF TextInv, SessionOK
<1>10. SlotOK'
  <2> SUFFICES ASSUME slot # Nil
               PROVE  Kept(task'[slot.token].queue, task'[slot.token].replay,
                           InFlight(flights'[slot.token]), open, openings, told, slot.documents)
    BY <1>2 DEF TextInv, SlotOK, HolderKeeps, Born
  <2>1. /\ slot.token \in Tokens /\ slot.documents \in SUBSET Docs
        /\ Kept(task[slot.token].queue, task[slot.token].replay,
                InFlight(flights[slot.token]), open, openings, told, slot.documents)
    BY DEF TextInv, SlotOK, HolderKeeps
  <2>2. CASE slot.token # t
    BY <1>6, <2>1, <2>2
  <2>3. CASE slot.token = t
    <3>1. Moves(task[t], flights[t], e, gs)
      BY <1>5, <2>3 DEF Holds
    <3>2. Kept(e.queue, e.replay, InFlight(gs), open, openings, told, slot.documents)
      BY <1>3, <1>5, <2>1, <2>3, <3>1, MovesKeep
    <3> QED BY <1>6, <2>3, <3>2
  <2> QED BY <2>2, <2>3
<1> QED BY <1>8, <1>9, <1>10 DEF TextInv

-----------------------------------------------------------------------------
(* What the session appends to a queue *)

LEMMA AppendFacts ==
    ASSUME NEW q \in Seq(Cmds), NEW cmd \in Cmds
    PROVE  LET u == Append(q, cmd) IN
           /\ u \in Seq(Cmds) /\ Len(u) = Len(q) + 1 /\ Len(q) \in Nat
           /\ u[Len(u)] = cmd
           /\ \A i \in 1..Len(q) : u[i] = q[i] /\ i \in 1..Len(u)
           /\ \A i \in 1..Len(u) : i # Len(u) => i \in 1..Len(q)
  OBVIOUS

\* What the first commands say does not change with what is appended.
LEMMA PrefixKnows ==
    ASSUME NEW q \in Seq(Cmds), NEW cmd \in Cmds, NEW r, NEW n \in 0..Len(q), NEW d, NEW x
    PROVE  /\ KnownAs(q, r, n, d, x) => KnownAs(Append(q, cmd), r, n, d, x)
           /\ Given(q, r, n, d, x) => Given(Append(q, cmd), r, n, d, x)
<1> DEFINE u == Append(q, cmd)
<1>1. \A i \in 1..n : u[i] = q[i]
  BY AppendFacts
<1>2. \A m \in 1..n : \A k \in (m + 1)..n : k \in 1..n
  OBVIOUS
<1> HIDE DEF u
<1>3. KnownAs(q, r, n, d, x) => KnownAs(u, r, n, d, x)
  BY <1>1, <1>2 DEF KnownAs
<1>4. Given(q, r, n, d, x) => Given(u, r, n, d, x)
  BY <1>1 DEF Given
<1> QED BY <1>3, <1>4 DEF u

LEMMA AppendKnows ==
    ASSUME NEW q \in Seq(Cmds), NEW cmd \in Cmds, NEW r, NEW d, NEW o
    PROVE  LET u == Append(q, cmd) IN
           /\ cmd.op = "open" /\ cmd.doc = d /\ cmd.text[1] = o => KnownAs(u, r, Len(u), d, o)
           /\ ~Mark(cmd, d) /\ KnownAs(q, r, Len(q), d, o) => KnownAs(u, r, Len(u), d, o)
<1> DEFINE u == Append(q, cmd)
           n == Len(u)
<1>1. /\ n = Len(q) + 1 /\ Len(q) \in Nat /\ u[n] = cmd /\ n \in 1..n
      /\ \A i \in 1..Len(q) : u[i] = q[i] /\ i \in 1..n
      /\ \A i \in 1..n : i # n => i \in 1..Len(q)
  BY AppendFacts
<1> HIDE DEF u, n
<1>2. CASE cmd.op = "open" /\ cmd.doc = d /\ cmd.text[1] = o
  <2>1. Mark(u[n], d) /\ u[n].op = "open" /\ u[n].text[1] = o
    BY <1>1, <1>2 DEF Mark
  <2>2. (n + 1)..n = {}
    BY <1>1
  <2>3. KnownAs(u, r, n, d, o)
    BY <1>1, <2>1, <2>2 DEF KnownAs
  <2>4. ~(~Mark(cmd, d))
    BY <1>2 DEF Mark
  <2> QED BY <2>3, <2>4 DEF u, n
<1>3. CASE ~Mark(cmd, d) /\ KnownAs(q, r, Len(q), d, o)
  <2>1. CASE \E m \in 1..Len(q) : /\ Mark(q[m], d) /\ q[m].op = "open" /\ q[m].text[1] = o
                                  /\ \A k \in (m + 1)..Len(q) : ~Mark(q[k], d)
    <3>1. PICK m \in 1..Len(q) : /\ Mark(q[m], d) /\ q[m].op = "open" /\ q[m].text[1] = o
                                 /\ \A k \in (m + 1)..Len(q) : ~Mark(q[k], d)
      BY <2>1
    <3>2. m \in 1..n /\ u[m] = q[m]
      BY <1>1
    <3>3. ASSUME NEW k \in (m + 1)..n PROVE ~Mark(u[k], d)
      <4>1. CASE k = n
        BY <1>1, <1>3, <4>1
      <4>2. CASE k # n
        <5>1. k \in (m + 1)..Len(q) /\ k \in 1..Len(q)
          BY <1>1, <4>2
        <5> QED BY <1>1, <3>1, <5>1
      <4> QED BY <4>1, <4>2
    <3> QED BY <1>3, <3>1, <3>2, <3>3 DEF KnownAs, u, n, Mark
  <2>2. CASE (\A k \in 1..Len(q) : ~Mark(q[k], d)) /\ r[d] # Nil /\ r[d].text[1] = o
    <3>1. \A k \in 1..n : ~Mark(u[k], d)
      BY <1>1, <1>3, <2>2
    <3>2. KnownAs(u, r, n, d, o)
      BY <2>2, <3>1 DEF KnownAs
    <3> QED BY <1>3, <3>2 DEF u, n, Mark
  <2> QED BY <1>3, <2>1, <2>2 DEF KnownAs
<1> QED BY <1>2, <1>3 DEF u, n

LEMMA AppendGives ==
    ASSUME NEW q \in Seq(Cmds), NEW cmd \in Cmds, NEW r, NEW d, NEW x
    PROVE  LET u == Append(q, cmd) IN
           /\ Given(q, r, Len(q), d, x) => Given(u, r, Len(u), d, x)
           /\ cmd.doc = d /\ cmd.op \in {"open", "change"} /\ AtMost(x, cmd.text)
                => Given(u, r, Len(u), d, x)
<1> DEFINE u == Append(q, cmd)
           n == Len(u)
<1>1. /\ n = Len(q) + 1 /\ Len(q) \in Nat /\ u[n] = cmd /\ n \in 1..n
      /\ \A i \in 1..Len(q) : u[i] = q[i] /\ i \in 1..n
  BY AppendFacts
<1> HIDE DEF u, n
<1>2. Given(q, r, Len(q), d, x) => Given(u, r, n, d, x)
  BY <1>1 DEF Given
<1>3. cmd.doc = d /\ cmd.op \in {"open", "change"} /\ AtMost(x, cmd.text)
         => Given(u, r, n, d, x)
  BY <1>1 DEF Given
<1> QED BY <1>2, <1>3 DEF u, n

\* A command of the session: it follows every text its task has seen.
Timely(q, r, F, os, ops, cmd) ==
    /\ \A x \in Pairs : Within(x, cmd.doc, os, ops) => Follows(x, cmd)
    /\ cmd.op \notin {"open", "close"} => KnownAs(q, r, Len(q), cmd.doc, cmd.text[1])
    /\ cmd.op \in {"hint", "request"} => Given(q, r, Len(q), cmd.doc, cmd.text)

LEMMA AppendKeepsOrder ==
    ASSUME NEW q \in Seq(Cmds), NEW r \in Replays, NEW F \in SUBSET Requests,
           NEW os, NEW ops, Bounds(q, r, F, os, ops), InOrder(q, r, F),
           NEW cmd \in Cmds, Timely(q, r, F, os, ops, cmd)
    PROVE  InOrder(Append(q, cmd), r, F)
<1> DEFINE u == Append(q, cmd)
           n == Len(u)
<1>1. /\ u \in Seq(Cmds) /\ n = Len(q) + 1 /\ Len(q) \in Nat /\ u[n] = cmd
      /\ \A i \in 1..Len(q) : u[i] = q[i] /\ i \in 1..n
      /\ \A i \in 1..n : i # n => i \in 1..Len(q)
  BY AppendFacts
<1>2. \A i \in 1..Len(q) : q[i] \in Cmds
  BY QueueFacts
<1>3. ASSUME NEW i \in 0..Len(q), NEW d, NEW x
      PROVE  /\ KnownAs(q, r, i, d, x) => KnownAs(u, r, i, d, x)
             /\ Given(q, r, i, d, x) => Given(u, r, i, d, x)
  BY PrefixKnows
<1> HIDE DEF u, n
<1>4. Ascending(u)
  <2> SUFFICES ASSUME NEW i \in 1..n, NEW j \in 1..n, i < j, u[i].doc = u[j].doc,
                      u[i].op # "close"
               PROVE  Follows(u[i].text, u[j])
    BY DEF Ascending, n
  <2>1. i \in 1..Len(q) /\ u[i] = q[i]
    BY <1>1
  <2>2. CASE j # n
    <3>1. j \in 1..Len(q) /\ u[j] = q[j]
      BY <1>1, <2>2
    <3> QED BY <2>1, <3>1 DEF InOrder, Ascending
  <2>3. CASE j = n
    <3>1. u[j] = cmd /\ q[i].doc = cmd.doc /\ q[i].op # "close"
      BY <1>1, <2>1, <2>3
    <3>2. Within(q[i].text, cmd.doc, os, ops) /\ q[i].text \in Pairs
      BY <1>2, <2>1, <3>1, CmdFacts DEF Bounds
    <3> QED BY <2>1, <3>1, <3>2 DEF Timely
  <2> QED BY <2>2, <2>3
<1>5. ASSUME NEW x \in Pairs, NEW d, Precedes(x, d, q), Within(x, d, os, ops)
      PROVE  Precedes(x, d, u)
  BY <1>1, <1>5 DEF Precedes, Timely, n
<1>6. Remembers(u, r)
  BY <1>5, ToldFacts DEF InOrder, Remembers, Bounds
<1>7. Attended(u, r, F)
  <2>1. \A f \in F : f.text \in Pairs
    BY DEF Requests
  <2> QED BY <1>5, <2>1 DEF InOrder, Attended, Bounds
<1>8. Descends(u, r)
  <2> SUFFICES ASSUME NEW i \in 1..n, u[i].op \notin {"open", "close"}
               PROVE  KnownAs(u, r, i - 1, u[i].doc, u[i].text[1])
    BY DEF Descends, n
  <2>1. i - 1 \in 0..Len(q)
    BY <1>1
  <2>2. KnownAs(q, r, i - 1, u[i].doc, u[i].text[1])
    <3>1. CASE i # n
      BY <1>1, <3>1 DEF InOrder, Descends
    <3>2. CASE i = n
      <4>1. i - 1 = Len(q) /\ u[i] = cmd
        BY <1>1, <3>2
      <4> QED BY <4>1 DEF Timely
    <3> QED BY <3>1, <3>2
  <2> QED BY <1>3, <2>1, <2>2
<1>9. Informed(u, r)
  <2> SUFFICES ASSUME NEW i \in 1..n, u[i].op \in {"hint", "request"}
               PROVE  Given(u, r, i - 1, u[i].doc, u[i].text)
    BY DEF Informed, n
  <2>1. i - 1 \in 0..Len(q)
    BY <1>1
  <2>2. Given(q, r, i - 1, u[i].doc, u[i].text)
    <3>1. CASE i # n
      BY <1>1, <3>1 DEF InOrder, Informed
    <3>2. CASE i = n
      <4>1. i - 1 = Len(q) /\ u[i] = cmd
        BY <1>1, <3>2
      <4> QED BY <4>1 DEF Timely
    <3> QED BY <3>1, <3>2
  <2> QED BY <1>3, <2>1, <2>2
<1> QED BY <1>4, <1>6, <1>7, <1>8, <1>9 DEF InOrder, u

-----------------------------------------------------------------------------
(* The buffers move on, and a queue with them *)

Widens(os, ops, os2, ops2) ==
    \A d \in Docs, x \in Pairs : Within(x, d, os, ops) => Within(x, d, os2, ops2)

LEMMA WidensSame == \A os, ops : Widens(os, ops, os, ops)
  BY DEF Widens

Reopen(os, ops, d) == [os EXCEPT ![d] = <<ops[d] + 1, 0>>]
Recount(ops, d) == [ops EXCEPT ![d] = @ + 1]
Edited(os, d) == [os EXCEPT ![d] = <<@[1], @[2] + 1>>]
Shut(os, d) == [os EXCEPT ![d] = Nil]

LEMMA OpeningWidens ==
    ASSUME NEW os, NEW ops, Opened(os, ops), NEW d \in Docs, NEW os2, NEW ops2,
           os2 = Reopen(os, ops, d), ops2 = Recount(ops, d)
    PROVE  /\ Opened(os2, ops2) /\ Widens(os, ops, os2, ops2)
           /\ os2[d] \in Pairs /\ os2[d][1] = ops2[d] /\ os2[d][2] = 0
           /\ \A x \in Pairs : Within(x, d, os, ops) => x[1] < os2[d][1]
           /\ \A b \in Docs \ {d} : os2[b] = os[b] /\ ops2[b] = ops[b]
<1>1. ops[d] \in Nat /\ ops[d] + 1 \in Nat
  BY DEF Opened
<1> DEFINE x == <<ops[d] + 1, 0>>
<1>2. x \in Pairs /\ x[1] = ops[d] + 1 /\ x[2] = 0
  BY <1>1 DEF Pairs
<1> HIDE DEF x
<1>3. /\ os2 \in [Docs -> {Nil} \cup Pairs] /\ ops2 \in [Docs -> Nat]
      /\ os2[d] = x /\ ops2[d] = ops[d] + 1
      /\ \A b \in Docs \ {d} : os2[b] = os[b] /\ ops2[b] = ops[b]
  BY <1>1, <1>2 DEF Opened, x, Reopen, Recount
<1>4. Opened(os2, ops2)
  BY <1>2, <1>3 DEF Opened
<1>5. \A y \in Pairs : Within(y, d, os, ops) => y[1] < os2[d][1]
  BY <1>1, <1>2, <1>3, PairFacts DEF Within
<1>6. ASSUME NEW b \in Docs, NEW y \in Pairs, Within(y, b, os, ops)
      PROVE  Within(y, b, os2, ops2)
  <2>1. CASE b # d
    BY <1>3, <1>6, <2>1 DEF Within
  <2>2. CASE b = d
    <3>1. y[1] < ops2[d] /\ y[1] \in Nat
      BY <1>2, <1>3, <1>5, <1>6, <2>2, PairFacts
    <3> QED BY <1>1, <1>3, <2>2, <3>1 DEF Within
  <2> QED BY <2>1, <2>2
<1> QED BY <1>2, <1>3, <1>4, <1>5, <1>6 DEF Widens

LEMMA EditWidens ==
    ASSUME NEW os, NEW ops, Opened(os, ops), NEW d \in Docs, os[d] # Nil, NEW os2,
           os2 = Edited(os, d)
    PROVE  /\ Opened(os2, ops) /\ Widens(os, ops, os2, ops)
           /\ os2[d] \in Pairs /\ os2[d][1] = ops[d] /\ os2[d][2] = os[d][2] + 1
           /\ os[d] \in Pairs
           /\ \A x \in Pairs : Within(x, d, os, ops) => Older(x, os2[d])
           /\ \A b \in Docs \ {d} : os2[b] = os[b]
<1>1. os[d] \in Pairs /\ os[d][1] = ops[d] /\ ops[d] \in Nat
  BY DEF Opened
<1>2. os[d][1] \in Nat /\ os[d][2] \in Nat
  BY <1>1, PairFacts
<1> DEFINE x == <<os[d][1], os[d][2] + 1>>
<1>3. x \in Pairs /\ x[1] = ops[d] /\ x[2] = os[d][2] + 1
  BY <1>1, <1>2 DEF Pairs
<1>4. os2[d] = x /\ (\A b \in Docs \ {d} : os2[b] = os[b])
      /\ os2 = [os EXCEPT ![d] = x]
  BY DEF Opened, Edited
<1> HIDE DEF x
<1>5. os2 \in [Docs -> {Nil} \cup Pairs]
  BY <1>3, <1>4 DEF Opened
<1>6. Opened(os2, ops)
  BY <1>3, <1>4, <1>5 DEF Opened
<1>7. \A y \in Pairs : Within(y, d, os, ops) => Older(y, os2[d])
  BY <1>1, <1>2, <1>3, <1>4, PairFacts DEF Within, Older
<1>8. ASSUME NEW b \in Docs, NEW y \in Pairs, Within(y, b, os, ops)
      PROVE  Within(y, b, os2, ops)
  <2>1. CASE b # d
    BY <1>4, <1>8, <2>1 DEF Within
  <2>2. CASE b = d
    BY <1>1, <1>2, <1>3, <1>4, <1>8, <2>2, PairFacts DEF Within
  <2> QED BY <2>1, <2>2
<1> QED BY <1>1, <1>3, <1>4, <1>6, <1>7, <1>8 DEF Widens

LEMMA ClosingWidens ==
    ASSUME NEW os, NEW ops, Opened(os, ops), NEW d \in Docs, NEW os2,
           os2 = Shut(os, d)
    PROVE  /\ Opened(os2, ops) /\ Widens(os, ops, os2, ops)
           /\ \A b \in Docs \ {d} : os2[b] = os[b]
<1>1. /\ os2 \in [Docs -> {Nil} \cup Pairs] /\ os2[d] = Nil
      /\ \A b \in Docs \ {d} : os2[b] = os[b]
  BY DEF Opened, Shut
<1>2. Opened(os2, ops)
  BY <1>1 DEF Opened
<1>3. Widens(os, ops, os2, ops)
  BY <1>1 DEF Widens, Within
<1> QED BY <1>1, <1>2, <1>3

LEMMA WidensBounds ==
    ASSUME NEW q \in Seq(Cmds), NEW r \in Replays, NEW F \in SUBSET Requests,
           NEW os, NEW ops, NEW os2, NEW ops2, Widens(os, ops, os2, ops2),
           Bounds(q, r, F, os, ops)
    PROVE  Bounds(q, r, F, os2, ops2)
<1>1. \A i \in 1..Len(q) : q[i].doc \in Docs /\ (q[i].op # "close" => q[i].text \in Pairs)
  BY QueueFacts, CmdFacts
<1>2. \A d \in Docs : r[d] # Nil => r[d].text \in Pairs
  BY ToldFacts
<1>3. \A f \in F : f.doc \in Docs /\ f.text \in Pairs
  BY DEF Requests
<1> QED BY <1>1, <1>2, <1>3 DEF Bounds, Widens

LEMMA AppendKeepsBounds ==
    ASSUME NEW q \in Seq(Cmds), NEW r, NEW F, NEW os, NEW ops, Bounds(q, r, F, os, ops),
           NEW cmd \in Cmds, cmd.op # "close" => Within(cmd.text, cmd.doc, os, ops)
    PROVE  Bounds(Append(q, cmd), r, F, os, ops)
<1> DEFINE u == Append(q, cmd)
<1>1. /\ u[Len(u)] = cmd
      /\ \A i \in 1..Len(u) : i # Len(u) => i \in 1..Len(q) /\ u[i] = q[i]
  BY AppendFacts
<1> HIDE DEF u
<1>2. \A i \in 1..Len(u) : u[i].op # "close" => Within(u[i].text, u[i].doc, os, ops)
  BY <1>1 DEF Bounds
<1>3. Bounds(u, r, F, os, ops)
  BY <1>2 DEF Bounds
<1> QED BY <1>3 DEF u

\* Documents the command is not about, and those it opens, changes or reads.
LEMMA AppendServes ==
    ASSUME NEW q \in Seq(Cmds), NEW cmd \in Cmds, NEW r, NEW os, NEW ops, NEW ts,
           NEW d \in Docs, ~Mark(cmd, d), Serves(q, r, os, ops, ts, d)
    PROVE  Serves(Append(q, cmd), r, os, ops, ts, d)
<1>1. KnownAs(Append(q, cmd), r, Len(Append(q, cmd)), d, ops[d])
  BY AppendKnows DEF Serves
<1>2. Given(Append(q, cmd), r, Len(Append(q, cmd)), d, ts[d])
  BY AppendGives DEF Serves
<1> QED BY <1>1, <1>2 DEF Serves

LEMMA OpenServes ==
    ASSUME NEW q \in Seq(Cmds), NEW cmd \in Cmds, NEW r, NEW os, NEW ops, NEW ts,
           NEW d \in Docs, cmd.op = "open", cmd.doc = d, cmd.text = os[d],
           ts[d] = os[d], os[d] \in Pairs, os[d][1] = ops[d]
    PROVE  Serves(Append(q, cmd), r, os, ops, ts, d)
<1>1. AtMost(ts[d], cmd.text) /\ os[d] # Nil /\ os[d][2] <= os[d][2]
  BY AtMostTransitive, PairFacts
<1>2. KnownAs(Append(q, cmd), r, Len(Append(q, cmd)), d, ops[d])
  BY AppendKnows
<1>3. Given(Append(q, cmd), r, Len(Append(q, cmd)), d, ts[d])
  BY <1>1, AppendGives
<1> QED BY <1>1, <1>2, <1>3 DEF Serves

LEMMA ChangeServes ==
    ASSUME NEW q \in Seq(Cmds), NEW cmd \in Cmds, NEW r, NEW os, NEW ops, NEW ts,
           NEW d \in Docs, cmd.op = "change", cmd.doc = d, cmd.text = os[d],
           ts[d] = os[d], os[d] \in Pairs, os[d][1] = ops[d],
           KnownAs(q, r, Len(q), d, ops[d])
    PROVE  Serves(Append(q, cmd), r, os, ops, ts, d)
<1>1. AtMost(ts[d], cmd.text) /\ os[d] # Nil /\ os[d][2] <= os[d][2]
  BY AtMostTransitive, PairFacts
<1>2. KnownAs(Append(q, cmd), r, Len(Append(q, cmd)), d, ops[d])
  BY AppendKnows DEF Mark
<1>3. Given(Append(q, cmd), r, Len(Append(q, cmd)), d, ts[d])
  BY <1>1, AppendGives
<1> QED BY <1>1, <1>2, <1>3 DEF Serves

\* A document nothing happened to.
LEMMA ServesSame ==
    ASSUME NEW q, NEW r, NEW os, NEW ops, NEW ts, NEW os2, NEW ops2, NEW ts2, NEW d \in Docs,
           os2[d] = os[d], ops2[d] = ops[d], ts2[d] = ts[d], Serves(q, r, os, ops, ts, d)
    PROVE  Serves(q, r, os2, ops2, ts2, d)
  BY DEF Serves

-----------------------------------------------------------------------------
(* The steps of the session *)

LEMMA QueuedTask ==
    ASSUME NEW c, NEW fs, TaskOK(c, fs), NEW cmd \in Cmds, Len(c.queue) < Capacity,
           InOrder(Append(c.queue, cmd), c.replay, InFlight(fs)),
           NEW e, e = [c EXCEPT !.queue = Append(@, cmd)]
    PROVE  TaskOK(e, fs) /\ e.queue = Append(c.queue, cmd) /\ e.replay = c.replay
<1>1. c \in TaskRec /\ c.queue \in Seq(Cmds)
  BY TaskFacts DEF TaskOK
<1> DEFINE u == Append(c.queue, cmd)
<1>2. u \in Seq(Cmds) /\ Len(u) = Len(c.queue) + 1 /\ Len(c.queue) \in Nat
  BY <1>1, AppendFacts
<1>3. Len(u) <= Capacity
  BY <1>2, CapacityHoldsACommand
<1>4. e = [c EXCEPT !.queue = u]
  OBVIOUS
<1> HIDE DEF u
<1>5. e \in TaskRec /\ e.queue = u /\ e.replay = c.replay /\ e.phase = c.phase
      /\ e.pending = c.pending /\ e.server = c.server
  BY <1>1, <1>2, <1>4 DEF TaskRec
<1>6. InSync(e)
  <2>1. InSync(c)
    BY DEF TaskOK
  <2>2. \A d \in Docs : Pends(e, d) = Pends(c, d)
    BY <1>5 DEF Pends
  <2>3. AllMatch(e) = AllMatch(c)
    BY <1>5, <2>2 DEF AllMatch
  <2>4. PendingFits(e) = PendingFits(c)
    BY <1>5 DEF PendingFits
  <2> QED BY <1>5, <2>1, <2>3, <2>4 DEF InSync
<1>7. InOrder(u, c.replay, InFlight(fs)) /\ fs \in FlightRec
      /\ (c.phase # "Running" => fs = NoFlights)
  BY DEF u, TaskOK
<1>8. TaskOK(e, fs)
  BY <1>3, <1>5, <1>6, <1>7 DEF TaskOK
<1> QED BY <1>5, <1>8 DEF u

LEMMA SameKeepsTasks ==
    ASSUME TasksOK, UNCHANGED <<task, flights>>, nextToken \in Nat, nextToken' \in Nat,
           nextToken <= nextToken'
    PROVE  TasksOK'
<1>1. \A t \in Tokens : (~Born(t))' => ~Born(t)
  BY DEF Born, Tokens
<1> QED BY <1>1 DEF TasksOK

LEMMA QueueKeepsTasks ==
    ASSUME TasksOK, NEW t \in Tokens, NEW cmd \in Cmds, HasRoom(t), Queue(t, cmd),
           UNCHANGED flights,
           InOrder(Append(task[t].queue, cmd), task[t].replay, InFlight(flights[t])),
           nextToken \in Nat, nextToken' \in Nat, nextToken <= nextToken', t < nextToken'
    PROVE  /\ TasksOK'
           /\ task'[t].queue = Append(task[t].queue, cmd) /\ task'[t].replay = task[t].replay
           /\ flights'[t] = flights[t]
<1> DEFINE e == [task[t] EXCEPT !.queue = Append(@, cmd)]
<1>1. TaskOK(task[t], flights[t]) /\ Len(task[t].queue) < Capacity
  BY DEF TasksOK, HasRoom
<1>2. /\ TaskOK(e, flights[t]) /\ e.queue = Append(task[t].queue, cmd)
      /\ e.replay = task[t].replay
  BY <1>1, QueuedTask
<1>3. task' = [task EXCEPT ![t] = e] /\ task = [u \in Tokens |-> task[u]]
  BY DEF Queue, TasksOK
<1> HIDE DEF e
<1>4. /\ task' = [u \in Tokens |-> task'[u]] /\ task'[t] = e
      /\ \A u \in Tokens \ {t} : task'[u] = task[u]
  BY <1>3
<1>5. \A u \in Tokens : (~Born(u))' => ~Born(u) /\ u # t
  BY DEF Born, Tokens
<1>6. (\A u \in Tokens : /\ TaskOK(task[u], flights[u])
                         /\ ~Born(u) => task[u] = NewTask /\ flights[u] = NoFlights)'
  BY <1>2, <1>4, <1>5 DEF TasksOK
<1>7. TasksOK'
  BY <1>4, <1>6 DEF TasksOK
<1> QED BY <1>2, <1>4, <1>7

\* The task an attached document's command goes to.
LEMMA HolderFacts ==
    ASSUME TextInv, slot # Nil, NEW d \in slot.documents
    PROVE  LET t == slot.token
               q == task[t].queue
               r == task[t].replay
               F == InFlight(flights[t]) IN
           /\ t \in Tokens /\ t < nextToken /\ nextToken \in Nat /\ d \in Docs
           /\ TaskOK(task[t], flights[t])
           /\ q \in Seq(Cmds) /\ r \in Replays /\ F \subseteq Requests /\ InOrder(q, r, F)
           /\ Bounds(q, r, F, open, openings)
           /\ Serves(q, r, open, openings, told, d)
           /\ open[d] \in Pairs /\ open[d][1] = openings[d] /\ told[d] \in Pairs
<1> DEFINE t == slot.token
<1>1. t \in Tokens /\ t < nextToken /\ nextToken \in Nat /\ d \in Docs
      /\ HolderKeeps(t, slot.documents)
  BY DEF TextInv, SlotOK, SessionOK, Born
<1>2. TaskOK(task[t], flights[t])
  BY <1>1 DEF TextInv, TasksOK
<1> HIDE DEF t
<1>3. /\ task[t].queue \in Seq(Cmds) /\ task[t].replay \in Replays
      /\ InFlight(flights[t]) \subseteq Requests
      /\ InOrder(task[t].queue, task[t].replay, InFlight(flights[t]))
  BY <1>2, TaskFacts DEF TaskOK, FlightRec, InFlight
<1>4. /\ Bounds(task[t].queue, task[t].replay, InFlight(flights[t]), open, openings)
      /\ Serves(task[t].queue, task[t].replay, open, openings, told, d)
  BY <1>1 DEF HolderKeeps, Kept
<1>5. open[d] \in Pairs /\ open[d][1] = openings[d] /\ told[d] \in Pairs
  BY <1>1, <1>4 DEF Serves, TextInv, SessionOK, Opened
<1> QED BY <1>1, <1>2, <1>3, <1>4, <1>5 DEF t

\* A save or a request leaves the buffers and the slot as they are.
LEMMA NoteKeepsTexts ==
    ASSUME TextInv, slot # Nil, NEW d \in slot.documents, NEW cmd \in Cmds,
           cmd.doc = d, cmd.op \in {"save", "hint", "request"},
           cmd.op = "save" => cmd.text = open[d],
           cmd.op # "save" => cmd.text = told[d],
           HasRoom(slot.token), Queue(slot.token, cmd), UNCHANGED <<session, flights>>
    PROVE  TextInv'
<1> DEFINE t == slot.token
           q == task[t].queue
           r == task[t].replay
           F == InFlight(flights[t])
<1>1. /\ t \in Tokens /\ t < nextToken /\ nextToken \in Nat /\ d \in Docs
      /\ q \in Seq(Cmds) /\ r \in Replays /\ F \subseteq Requests /\ InOrder(q, r, F)
      /\ Bounds(q, r, F, open, openings) /\ Serves(q, r, open, openings, told, d)
      /\ open[d] \in Pairs /\ open[d][1] = openings[d] /\ told[d] \in Pairs
  BY HolderFacts
<1>2. /\ open' = open /\ openings' = openings /\ slot' = slot /\ nextToken' = nextToken
      /\ told' = told /\ flights' = flights
  BY DEF session
<1>3. TasksOK /\ HasRoom(t) /\ Queue(t, cmd)
  BY DEF TextInv
<1>4. /\ slot.documents \subseteq Docs /\ Kept(q, r, F, open, openings, told, slot.documents)
  BY DEF TextInv, SlotOK, HolderKeeps
<1> HIDE DEF t, q, r, F
<1>5. Within(cmd.text, d, open, openings) /\ cmd.text[1] = openings[d]
  <2>1. CASE cmd.op = "save"
    BY <1>1, <2>1, PairFacts DEF Within
  <2>2. CASE cmd.op # "save"
    BY <1>1, <2>2, PairFacts DEF Within, Serves
  <2> QED BY <2>1, <2>2
<1>6. Timely(q, r, F, open, openings, cmd)
  <2>1. \A x \in Pairs : Within(x, d, open, openings) => AtMost(x, open[d])
    BY <1>1, PairFacts DEF Within, AtMost
  <2>2. \A x \in Pairs : Within(x, d, open, openings) => Follows(x, cmd)
    BY <2>1 DEF Follows
  <2>3. KnownAs(q, r, Len(q), d, cmd.text[1])
    BY <1>1, <1>5 DEF Serves
  <2>4. cmd.op \in {"hint", "request"} => Given(q, r, Len(q), d, cmd.text)
    BY <1>1 DEF Serves
  <2> QED BY <2>2, <2>3, <2>4 DEF Timely
<1>7. InOrder(Append(q, cmd), r, F)
  BY <1>1, <1>6, AppendKeepsOrder
<1>8. /\ TasksOK' /\ task'[t].queue = Append(q, cmd) /\ task'[t].replay = r
      /\ InFlight(flights'[t]) = F
  BY <1>1, <1>2, <1>3, <1>7, QueueKeepsTasks DEF q, r, F
<1>9. Kept(Append(q, cmd), r, F, open, openings, told, slot.documents)
  <2>1. Bounds(Append(q, cmd), r, F, open, openings)
    BY <1>1, <1>5, AppendKeepsBounds
  <2>2. \A b \in slot.documents : Serves(Append(q, cmd), r, open, openings, told, b)
    BY <1>1, <1>4, AppendServes DEF Kept, Mark
  <2> QED BY <2>1, <2>2 DEF Kept
<1>10. SlotOK'
  BY <1>2, <1>8, <1>9 DEF TextInv, SlotOK, HolderKeeps, Born, t
<1>11. SessionOK'
  BY <1>2 DEF TextInv, SessionOK
<1> QED BY <1>8, <1>10, <1>11 DEF TextInv

LEMMA SaveKeepsTexts ==
    ASSUME TextInv, NEW d \in Docs, SaveDocument(d) PROVE TextInv'
<1> DEFINE cmd == Cmd("save", d, open[d])
<1>1. /\ slot # Nil /\ d \in slot.documents /\ HasRoom(slot.token)
      /\ Queue(slot.token, cmd) /\ UNCHANGED <<session, flights>>
  BY DEF SaveDocument, Attached
<1>2. open[d] \in Pairs
  BY <1>1, HolderFacts
<1>3. cmd \in Cmds /\ cmd.doc = d /\ cmd.op = "save" /\ cmd.text = open[d]
  BY <1>2 DEF Cmd, Cmds
<1> HIDE DEF cmd
<1> QED BY <1>1, <1>3, NoteKeepsTexts

LEMMA AskKeepsTexts ==
    ASSUME TextInv, NEW d \in Docs, NEW op \in {"hint", "request"}, AskServer(d, op)
    PROVE  TextInv'
<1> DEFINE fresh == CHOOSE a \in Asks : owed[a] = 0
           cmd == [op |-> op, ask |-> fresh, doc |-> d, text |-> told[d]]
<1>1. /\ slot # Nil /\ d \in slot.documents /\ HasRoom(slot.token)
      /\ Queue(slot.token, cmd) /\ UNCHANGED <<session, flights>>
      /\ \E a \in Asks : owed[a] = 0
  BY DEF AskServer, Attached
<1>2. told[d] \in Pairs /\ fresh \in Asks
  BY <1>1, HolderFacts
<1> HIDE DEF fresh
<1>3. cmd \in Cmds /\ cmd.doc = d /\ cmd.op = op /\ cmd.text = told[d]
  BY <1>2 DEF Cmds, Requests
<1> HIDE DEF cmd
<1> QED BY <1>1, <1>3, NoteKeepsTexts

LEMMA AdoptKeepsTexts ==
    ASSUME TextInv, AdoptReport PROVE TextInv'
<1>1. /\ open' = open /\ openings' = openings /\ nextToken' = nextToken
      /\ told' = told /\ task' = task /\ flights' = flights
      /\ slot' = slot \/ \E s : slot # Nil /\ slot' = [slot EXCEPT !.runtime = s]
  BY DEF AdoptReport, Holds
<1>2. TasksOK' /\ SessionOK'
  BY <1>1 DEF TextInv, TasksOK, SessionOK, Born
<1>3. SlotOK'
  <2>1. CASE slot' = slot
    BY <1>1, <2>1 DEF TextInv, SlotOK, HolderKeeps, Born
  <2>2. CASE slot # Nil /\ \E s : slot' = [slot EXCEPT !.runtime = s]
    <3>1. PICK s : slot' = [slot EXCEPT !.runtime = s]
      BY <2>2
    <3>2. slot = [token |-> slot.token, documents |-> slot.documents,
                  runtime |-> slot.runtime]
      BY <2>2 DEF TextInv, SlotOK
    <3>3. /\ slot' = [token |-> slot'.token, documents |-> slot'.documents,
                      runtime |-> slot'.runtime]
          /\ slot'.token = slot.token /\ slot'.documents = slot.documents
      BY <3>1, <3>2
    <3> QED BY <1>1, <2>2, <3>3 DEF TextInv, SlotOK, HolderKeeps, Born
  <2> QED BY <1>1, <2>1, <2>2
<1> QED BY <1>2, <1>3 DEF TextInv

LEMMA EditKeepsTexts ==
    ASSUME TextInv, NEW d \in Docs, EditDocument(d) PROVE TextInv'
<1>1. /\ open[d] # Nil /\ open' = [open EXCEPT ![d] = <<@[1], @[2] + 1>>]
      /\ openings' = openings /\ slot' = slot /\ nextToken' = nextToken
      /\ flights' = flights
  BY DEF EditDocument
<1>2. /\ Opened(open', openings) /\ Widens(open, openings, open', openings)
      /\ open'[d] \in Pairs /\ open'[d][1] = openings[d]
      /\ open'[d][2] = open[d][2] + 1 /\ open[d] \in Pairs
      /\ \A x \in Pairs : Within(x, d, open, openings) => Older(x, open'[d])
      /\ \A b \in Docs \ {d} : open'[b] = open[b]
  <2>1. Opened(open, openings)
    BY DEF TextInv, SessionOK
  <2>2. open' = Edited(open, d)
    BY <1>1 DEF Edited
  <2> DEFINE os2 == Edited(open, d)
  <2>3. /\ Opened(os2, openings) /\ Widens(open, openings, os2, openings)
        /\ os2[d] \in Pairs /\ os2[d][1] = openings[d]
        /\ os2[d][2] = open[d][2] + 1 /\ open[d] \in Pairs
        /\ \A x \in Pairs : Within(x, d, open, openings) => Older(x, os2[d])
        /\ \A b \in Docs \ {d} : os2[b] = open[b]
    BY <1>1, <2>1, EditWidens
  <2> QED BY <2>2, <2>3
<1>3. TasksOK /\ nextToken \in Nat /\ told \in [Docs -> {Nil} \cup Pairs]
  BY DEF TextInv, SessionOK
<1>4. open[d][2] \in Nat
  BY <1>2, PairFacts
<1>5. CASE UNCHANGED <<told, task>>
  <2>1. TasksOK' /\ SessionOK'
    BY <1>1, <1>2, <1>3, <1>5, SameKeepsTasks DEF SessionOK
  <2>2. SlotOK'
    <3> SUFFICES ASSUME slot # Nil
                 PROVE  Kept(task[slot.token].queue, task[slot.token].replay,
                             InFlight(flights[slot.token]), open', openings, told,
                             slot.documents)
      BY <1>1, <1>5 DEF TextInv, SlotOK, HolderKeeps, Born
    <3> DEFINE q == task[slot.token].queue
               r == task[slot.token].replay
               F == InFlight(flights[slot.token])
    <3>1. \E b \in slot.documents : TRUE
      BY DEF TextInv, SlotOK
    <3>2. q \in Seq(Cmds) /\ r \in Replays /\ F \subseteq Requests
          /\ Bounds(q, r, F, open, openings)
      BY <3>1, HolderFacts
    <3>3. Bounds(q, r, F, open', openings)
      BY <1>2, <3>2, WidensBounds
    <3>4. ASSUME NEW b \in slot.documents PROVE Serves(q, r, open', openings, told, b)
      <4>1. Serves(q, r, open, openings, told, b) /\ b \in Docs /\ told[b] \in Pairs
        BY HolderFacts
      <4>2. told[b][2] \in Nat
        BY <4>1, PairFacts
      <4> HIDE DEF q, r
      <4>3. CASE b # d
        BY <1>2, <4>1, <4>3, ServesSame
      <4>4. CASE b = d
        <5>1. open'[d] # Nil /\ told[d][2] <= open'[d][2]
          BY <1>2, <1>4, <4>1, <4>2, <4>4, PairFacts DEF Serves
        <5> QED BY <4>1, <4>4, <5>1 DEF Serves
      <4> QED BY <4>3, <4>4
    <3> QED BY <3>3, <3>4 DEF Kept
  <2> QED BY <2>1, <2>2 DEF TextInv
<1>6. CASE ~UNCHANGED <<told, task>>
  <2>1. PICK delta \in BOOLEAN :
          /\ Attached(d) /\ HasRoom(slot.token)
          /\ Queue(slot.token, [op |-> "change", doc |-> d, text |-> open'[d],
                                delta |-> delta])
          /\ told' = [told EXCEPT ![d] = open'[d]]
    BY <1>6 DEF EditDocument
  <2> DEFINE cmd == [op |-> "change", doc |-> d, text |-> open'[d], delta |-> delta]
             t == slot.token
             q == task[t].queue
             r == task[t].replay
             F == InFlight(flights[t])
  <2>2. cmd \in Cmds /\ cmd.op = "change" /\ cmd.doc = d /\ cmd.text = open'[d]
    BY <1>2 DEF Cmds
  <2>3. slot # Nil /\ d \in slot.documents /\ HasRoom(t) /\ Queue(t, cmd)
    BY <2>1 DEF Attached
  <2>4. /\ t \in Tokens /\ t < nextToken /\ q \in Seq(Cmds) /\ r \in Replays
        /\ F \subseteq Requests /\ InOrder(q, r, F) /\ Bounds(q, r, F, open, openings)
        /\ Serves(q, r, open, openings, told, d)
    BY <2>3, HolderFacts
  <2>5. slot.documents \subseteq Docs /\ Kept(q, r, F, open, openings, told, slot.documents)
    BY <2>3 DEF TextInv, SlotOK, HolderKeeps
  <2> HIDE DEF cmd, t, q, r, F
  <2>6. Timely(q, r, F, open, openings, cmd)
    BY <1>2, <2>2, <2>4 DEF Timely, Follows, Serves
  <2>7. InOrder(Append(q, cmd), r, F)
    BY <2>2, <2>4, <2>6, AppendKeepsOrder
  <2>8. /\ TasksOK' /\ task'[t].queue = Append(q, cmd) /\ task'[t].replay = r
        /\ InFlight(flights'[t]) = F
    BY <1>1, <1>3, <2>2, <2>3, <2>4, <2>7, QueueKeepsTasks DEF q, r, F
  <2>9. /\ told' \in [Docs -> {Nil} \cup Pairs] /\ told'[d] = open'[d]
        /\ \A b \in Docs \ {d} : told'[b] = told[b]
    BY <1>2, <1>3, <2>1
  <2>10. Bounds(Append(q, cmd), r, F, open', openings)
    <3>1. Bounds(q, r, F, open', openings)
      BY <1>2, <2>4, WidensBounds
    <3>2. openings[d] \in Nat /\ open'[d][1] \in Nat /\ open'[d][2] \in Nat
      BY <1>2, PairFacts
    <3>3. Within(cmd.text, cmd.doc, open', openings)
      BY <1>2, <2>2, <3>2 DEF Within
    <3> QED BY <2>2, <2>4, <3>1, <3>3, AppendKeepsBounds
  <2>11. ASSUME NEW b \in slot.documents
         PROVE  Serves(Append(q, cmd), r, open', openings, told', b)
    <3>1. CASE b # d
      <4>1. Serves(q, r, open, openings, told, b) /\ ~Mark(cmd, b) /\ b \in Docs
        BY <2>2, <2>5, <3>1 DEF Kept, Mark
      <4>2. Serves(Append(q, cmd), r, open, openings, told, b)
        BY <2>2, <2>4, <4>1, AppendServes
      <4> QED BY <1>2, <2>9, <3>1, <4>1, <4>2, ServesSame
    <3>2. CASE b = d
      <4>1. KnownAs(q, r, Len(q), d, openings[d])
        BY <2>4 DEF Serves
      <4> QED BY <1>2, <2>2, <2>4, <2>9, <3>2, <4>1, ChangeServes
    <3> QED BY <3>1, <3>2
  <2>12. SlotOK'
    BY <1>1, <2>8, <2>10, <2>11 DEF TextInv, SlotOK, HolderKeeps, Born, Kept, t
  <2>13. SessionOK'
    BY <1>1, <1>2, <1>3, <2>9 DEF SessionOK
  <2> QED BY <2>8, <2>12, <2>13 DEF TextInv
<1> QED BY <1>5, <1>6

\* What holds of a slot's task holds for fewer documents, and for later buffers.
LEMMA FewerServed ==
    ASSUME NEW q \in Seq(Cmds), NEW r \in Replays, NEW F \in SUBSET Requests,
           NEW os, NEW ops, NEW ts, NEW docs, docs \subseteq Docs,
           Kept(q, r, F, os, ops, ts, docs),
           NEW os2, NEW ops2, NEW ts2, NEW d, Widens(os, ops, os2, ops2),
           \A b \in Docs \ {d} : os2[b] = os[b] /\ ops2[b] = ops[b] /\ ts2[b] = ts[b]
    PROVE  Kept(q, r, F, os2, ops2, ts2, docs \ {d})
<1>1. Bounds(q, r, F, os2, ops2)
  BY WidensBounds DEF Kept
<1>2. \A b \in docs \ {d} : Serves(q, r, os2, ops2, ts2, b)
  BY ServesSame DEF Kept
<1> QED BY <1>1, <1>2 DEF Kept

LEMMA CloseKeepsTexts ==
    ASSUME TextInv, NEW d \in Docs, CloseDocument(d) PROVE TextInv'
<1>1. /\ open[d] # Nil /\ open' = Shut(open, d) /\ openings' = openings
      /\ nextToken' = nextToken /\ flights' = flights
  BY DEF CloseDocument, Shut
<1>2. /\ Opened(open', openings) /\ Widens(open, openings, open', openings)
      /\ \A b \in Docs \ {d} : open'[b] = open[b]
  <2>1. Opened(open, openings)
    BY DEF TextInv, SessionOK
  <2> DEFINE os2 == Shut(open, d)
  <2>2. /\ Opened(os2, openings) /\ Widens(open, openings, os2, openings)
        /\ \A b \in Docs \ {d} : os2[b] = open[b]
    BY <2>1, ClosingWidens
  <2> QED BY <1>1, <2>2
<1>3. TasksOK /\ nextToken \in Nat /\ told \in [Docs -> {Nil} \cup Pairs]
  BY DEF TextInv, SessionOK
<1>4. CASE ~Attached(d)
  <2>1. told' = told /\ slot' = slot /\ task' = task
    BY <1>4 DEF CloseDocument
  <2>2. TasksOK' /\ SessionOK'
    BY <1>1, <1>2, <1>3, <2>1, SameKeepsTasks DEF SessionOK
  <2>3. SlotOK'
    <3> SUFFICES ASSUME slot # Nil
                 PROVE  Kept(task[slot.token].queue, task[slot.token].replay,
                             InFlight(flights[slot.token]), open', openings, told,
                             slot.documents)
      BY <1>1, <2>1 DEF TextInv, SlotOK, HolderKeeps, Born
    <3> DEFINE q == task[slot.token].queue
               r == task[slot.token].replay
               F == InFlight(flights[slot.token])
               docs == slot.documents
    <3>1. docs \subseteq Docs /\ Kept(q, r, F, open, openings, told, docs)
          /\ \E b \in docs : TRUE
      BY DEF TextInv, SlotOK, HolderKeeps
    <3>2. q \in Seq(Cmds) /\ r \in Replays /\ F \subseteq Requests
      BY <3>1, HolderFacts
    <3>3. docs \ {d} = docs
      BY <1>4 DEF Attached
    <3> HIDE DEF q, r, F, docs
    <3>4. Kept(q, r, F, open', openings, told, docs \ {d})
      BY <1>2, <3>1, <3>2, FewerServed
    <3> QED BY <3>3, <3>4 DEF q, r, F, docs
  <2> QED BY <2>2, <2>3 DEF TextInv
<1>5. CASE Attached(d)
  <2> DEFINE cmd == Cmd("close", d, Nil)
             t == slot.token
             q == task[t].queue
             r == task[t].replay
             F == InFlight(flights[t])
             docs == slot.documents
  <2>1. /\ told' = [told EXCEPT ![d] = Nil]
        /\ slot' = IF docs = {d} THEN Nil ELSE [slot EXCEPT !.documents = @ \ {d}]
        /\ IF HasRoom(t) THEN Queue(t, cmd) ELSE UNCHANGED task
    BY <1>5 DEF CloseDocument
  <2>2. cmd \in Cmds /\ cmd.op = "close" /\ cmd.doc = d
    BY DEF Cmd, Cmds
  <2>3. slot # Nil /\ d \in docs
    BY <1>5 DEF Attached
  <2>4. /\ t \in Tokens /\ t < nextToken /\ q \in Seq(Cmds) /\ r \in Replays
        /\ F \subseteq Requests /\ InOrder(q, r, F) /\ Bounds(q, r, F, open, openings)
    BY <2>3, HolderFacts
  <2>5. /\ slot = [token |-> slot.token, documents |-> slot.documents,
                   runtime |-> slot.runtime]
        /\ docs \subseteq Docs /\ IsFiniteSet(docs)
        /\ Kept(q, r, F, open, openings, told, docs)
    BY <2>3 DEF TextInv, SlotOK, HolderKeeps
  <2>6. /\ told' \in [Docs -> {Nil} \cup Pairs]
        /\ \A b \in Docs \ {d} : told'[b] = told[b]
    BY <1>3, <2>1
  <2>7. docs = {d} \/ /\ slot' # Nil /\ slot'.token = t /\ slot'.documents = docs \ {d}
                      /\ slot' = [token |-> slot'.token, documents |-> slot'.documents,
                                  runtime |-> slot'.runtime]
    <3>1. ASSUME docs # {d}
          PROVE  slot' = [token |-> t, documents |-> docs \ {d}, runtime |-> slot.runtime]
      BY <2>1, <2>5, <3>1
    <3>2. ASSUME NEW s, s = [token |-> t, documents |-> docs \ {d}, runtime |-> slot.runtime]
          PROVE  s # Nil
      <4>1. "token" \in DOMAIN s
        BY <3>2
      <4>2. "token" \notin DOMAIN Nil
        BY DEF Nil
      <4> QED BY <4>1, <4>2
    <3> QED BY <3>1, <3>2
  <2>8. IsFiniteSet(docs \ {d})
    BY <2>5, FS_Subset
  <2> HIDE DEF cmd, t, q, r, F, docs
  <2>9. Kept(q, r, F, open', openings, told', docs \ {d})
    BY <1>2, <2>4, <2>5, <2>6, FewerServed
  <2>10. SessionOK'
    BY <1>1, <1>2, <1>3, <2>6 DEF SessionOK
  <2>11. /\ TasksOK'
         /\ Kept(task'[t].queue, task'[t].replay, InFlight(flights'[t]), open', openings',
                 told', docs \ {d})
    <3>1. CASE HasRoom(t)
      <4>1. Queue(t, cmd)
        BY <2>1, <3>1
      <4>2. Timely(q, r, F, open, openings, cmd)
        BY <2>2 DEF Timely, Follows
      <4>3. InOrder(Append(q, cmd), r, F)
        BY <2>2, <2>4, <4>2, AppendKeepsOrder
      <4>4. /\ TasksOK' /\ task'[t].queue = Append(q, cmd) /\ task'[t].replay = r
            /\ InFlight(flights'[t]) = F
        BY <1>1, <1>3, <2>2, <2>4, <3>1, <4>1, <4>3, QueueKeepsTasks DEF q, r, F
      <4>5. Bounds(Append(q, cmd), r, F, open', openings)
        BY <2>2, <2>4, <2>9, AppendKeepsBounds DEF Kept
      <4>6. ASSUME NEW b \in docs \ {d}
            PROVE  Serves(Append(q, cmd), r, open', openings, told', b)
        BY <2>2, <2>4, <2>5, <2>9, AppendServes DEF Kept, Mark
      <4>7. Kept(Append(q, cmd), r, F, open', openings, told', docs \ {d})
        BY <4>5, <4>6 DEF Kept
      <4>8. Kept(task'[t].queue, task'[t].replay, InFlight(flights'[t]), open', openings',
                 told', docs \ {d})
        BY <1>1, <4>4, <4>7
      <4> QED BY <4>4, <4>8
    <3>2. CASE ~HasRoom(t)
      <4>1. task' = task
        BY <2>1, <3>2
      <4>2. TasksOK'
        BY <1>1, <1>3, <4>1, SameKeepsTasks
      <4>3. Kept(task'[t].queue, task'[t].replay, InFlight(flights'[t]), open', openings',
                 told', docs \ {d})
        BY <1>1, <2>9, <4>1 DEF q, r, F
      <4> QED BY <4>2, <4>3
    <3> QED BY <3>1, <3>2
  <2>12. SlotOK'
    <3>1. CASE docs = {d}
      BY <2>1, <3>1 DEF SlotOK
    <3>2. CASE docs # {d}
      <4>1. /\ slot' # Nil /\ slot'.token = t /\ slot'.documents = docs \ {d}
            /\ slot' = [token |-> slot'.token, documents |-> slot'.documents,
                        runtime |-> slot'.runtime]
        BY <2>7, <3>2
      <4>2. docs \ {d} # {} /\ docs \ {d} \subseteq Docs
        BY <2>3, <2>5, <3>2
      <4>3. /\ slot'.token \in Tokens /\ slot'.token < nextToken'
            /\ slot'.documents \subseteq Docs /\ slot'.documents # {}
            /\ IsFiniteSet(slot'.documents)
        BY <1>1, <2>4, <2>8, <4>1, <4>2
      <4>4. Kept(task'[slot'.token].queue, task'[slot'.token].replay,
                 InFlight(flights'[slot'.token]), open', openings', told', slot'.documents)
        BY <2>11, <4>1
      <4> QED BY <4>1, <4>3, <4>4 DEF SlotOK, HolderKeeps, Born
    <3> QED BY <3>1, <3>2
  <2> QED BY <2>10, <2>11, <2>12 DEF TextInv
<1> QED BY <1>4, <1>5

LEMMA SlotIsNotNil ==
    ASSUME NEW tok, NEW docs, NEW run
    PROVE  [token |-> tok, documents |-> docs, runtime |-> run] # Nil
<1> DEFINE s == [token |-> tok, documents |-> docs, runtime |-> run]
<1>1. "token" \in DOMAIN s
  OBVIOUS
<1>2. "token" \notin DOMAIN Nil
  BY DEF Nil
<1> HIDE DEF s
<1>3. s # Nil
  BY <1>1, <1>2
<1> QED BY <1>3 DEF s

\* A fresh task serves no document yet.
LEMMA FreshKeeps ==
    ASSUME NEW os, NEW ops, NEW ts
    PROVE  Kept(NewTask.queue, NewTask.replay, InFlight(NoFlights), os, ops, ts, {})
<1>1. NewTask.queue = <<>> /\ NewTask.replay = [d \in Docs |-> Nil]
  BY DEF NewTask
<1>2. InFlight(NoFlights) = {} /\ Len(<<>>) = 0 /\ 1..0 = {}
  BY NoFlightsTyped
<1>3. \A d \in Docs : [b \in Docs |-> Nil][d] = Nil
  OBVIOUS
<1>4. Bounds(<<>>, [d \in Docs |-> Nil], {}, os, ops)
  BY <1>2, <1>3 DEF Bounds
<1> QED BY <1>1, <1>2, <1>4 DEF Kept

\* The task a newly opened document goes to, and what it serves so far.
LEMMA TargetFacts ==
    ASSUME TextInv, NEW t \in Tokens, NEW docs,
           slot = Nil => t = nextToken /\ docs = {},
           slot # Nil => t = slot.token /\ docs = slot.documents
    PROVE  LET q == task[t].queue
               r == task[t].replay
               F == InFlight(flights[t]) IN
           /\ q \in Seq(Cmds) /\ r \in Replays /\ F \subseteq Requests /\ InOrder(q, r, F)
           /\ docs \subseteq Docs /\ IsFiniteSet(docs)
           /\ Kept(q, r, F, open, openings, told, docs)
           /\ slot = Nil => q = <<>>
<1>1. TaskOK(task[t], flights[t])
  BY DEF TextInv, TasksOK
<1>2. /\ task[t].queue \in Seq(Cmds) /\ task[t].replay \in Replays
      /\ InFlight(flights[t]) \subseteq Requests
      /\ InOrder(task[t].queue, task[t].replay, InFlight(flights[t]))
  BY <1>1, TaskFacts DEF TaskOK, FlightRec, InFlight
<1>3. CASE slot = Nil
  <2>1. ~Born(t)
    BY <1>3 DEF Born, TextInv, SessionOK, Tokens
  <2>2. task[t] = NewTask /\ flights[t] = NoFlights
    BY <2>1 DEF TextInv, TasksOK
  <2>3. Kept(task[t].queue, task[t].replay, InFlight(flights[t]), open, openings, told, {})
    BY <2>2, FreshKeeps
  <2>4. task[t].queue = <<>>
    BY <2>2 DEF NewTask
  <2> QED BY <1>2, <1>3, <2>3, <2>4, FS_EmptySet
<1>4. CASE slot # Nil
  BY <1>2, <1>4 DEF TextInv, SlotOK, HolderKeeps
<1> QED BY <1>3, <1>4

LEMMA OpenKeepsTexts ==
    ASSUME TextInv, NEW d \in Docs, OpenDocument(d) PROVE TextInv'
<1> DEFINE t == IF slot = Nil THEN nextToken ELSE slot.token
           docs == IF slot = Nil THEN {} ELSE slot.documents
           cmd == Cmd("open", d, open'[d])
           q == task[t].queue
           r == task[t].replay
           F == InFlight(flights[t])
<1>1. /\ open[d] = Nil /\ open' = Reopen(open, openings, d)
      /\ openings' = Recount(openings, d) /\ flights' = flights /\ t \in Tokens
      /\ nextToken' = IF slot = Nil THEN nextToken + 1 ELSE nextToken
      /\ IF HasRoom(t)
         THEN /\ slot' = IF slot = Nil THEN NewSlot({d})
                         ELSE [slot EXCEPT !.documents = @ \cup {d}]
              /\ told' = [told EXCEPT ![d] = open'[d]]
              /\ Queue(t, cmd)
         ELSE UNCHANGED <<slot, told, task>>
  BY DEF OpenDocument, Reopen, Recount
<1>2. /\ Opened(open', openings') /\ Widens(open, openings, open', openings')
      /\ open'[d] \in Pairs /\ open'[d][1] = openings'[d] /\ open'[d][2] = 0
      /\ \A x \in Pairs : Within(x, d, open, openings) => x[1] < open'[d][1]
      /\ \A b \in Docs \ {d} : open'[b] = open[b] /\ openings'[b] = openings[b]
  <2>1. Opened(open, openings)
    BY DEF TextInv, SessionOK
  <2> DEFINE os2 == Reopen(open, openings, d)
             ops2 == Recount(openings, d)
  <2>2. /\ Opened(os2, ops2) /\ Widens(open, openings, os2, ops2)
        /\ os2[d] \in Pairs /\ os2[d][1] = ops2[d] /\ os2[d][2] = 0
        /\ \A x \in Pairs : Within(x, d, open, openings) => x[1] < os2[d][1]
        /\ \A b \in Docs \ {d} : os2[b] = open[b] /\ ops2[b] = openings[b]
    BY <2>1, OpeningWidens
  <2> HIDE DEF os2, ops2
  <2> QED BY <1>1, <2>2 DEF os2, ops2
<1>3. TasksOK /\ nextToken \in Nat /\ told \in [Docs -> {Nil} \cup Pairs]
  BY DEF TextInv, SessionOK
<1>4. /\ q \in Seq(Cmds) /\ r \in Replays /\ F \subseteq Requests /\ InOrder(q, r, F)
      /\ docs \subseteq Docs /\ IsFiniteSet(docs)
      /\ Kept(q, r, F, open, openings, told, docs)
      /\ slot = Nil => q = <<>>
  BY <1>1, TargetFacts
<1>5. t < nextToken' /\ nextToken <= nextToken' /\ nextToken' \in Nat
  BY <1>1, <1>3 DEF TextInv, SlotOK, Born
<1>6. d \notin docs
  BY <1>1, <1>4 DEF Kept, Serves
<1>7. slot # Nil => /\ slot = [token |-> t, documents |-> docs, runtime |-> slot.runtime]
                    /\ docs # {}
  BY DEF TextInv, SlotOK
<1>8. cmd \in Cmds /\ cmd.op = "open" /\ cmd.doc = d /\ cmd.text = open'[d]
  BY <1>2 DEF Cmd, Cmds
<1>9. CASE ~HasRoom(t)
  <2>1. slot' = slot /\ told' = told /\ task' = task
    BY <1>1, <1>9
  <2>2. slot # Nil
    <3>1. Len(<<>>) = 0 /\ 0 < Capacity
      BY CapacityHoldsACommand
    <3> QED BY <1>4, <1>9, <3>1 DEF HasRoom
  <2>3. slot.token = t /\ slot.documents = docs
    BY <2>2
  <2> HIDE DEF t, docs, cmd, q, r, F
  <2>4. TasksOK' /\ SessionOK'
    BY <1>1, <1>2, <1>3, <1>5, <2>1, SameKeepsTasks DEF SessionOK
  <2>5. Kept(q, r, F, open', openings', told, docs \ {d})
    BY <1>2, <1>4, FewerServed
  <2>6. docs \ {d} = docs
    BY <1>6
  <2>7. Kept(task'[t].queue, task'[t].replay, InFlight(flights'[t]), open', openings',
             told', docs)
    BY <1>1, <2>1, <2>5, <2>6 DEF q, r, F
  <2>8. SlotOK'
    BY <1>1, <1>4, <1>5, <1>7, <2>1, <2>2, <2>3, <2>7 DEF SlotOK, HolderKeeps, Born
  <2> QED BY <2>4, <2>8 DEF TextInv
<1>10. CASE HasRoom(t)
  <2>1. /\ slot' = [token |-> t, documents |-> docs \cup {d},
                    runtime |-> IF slot = Nil THEN "Starting" ELSE slot.runtime]
        /\ told' = [told EXCEPT ![d] = open'[d]]
        /\ Queue(t, cmd)
    <3>1. CASE slot = Nil
      BY <1>1, <1>10, <3>1 DEF NewSlot
    <3>2. CASE slot # Nil
      <4>1. slot' = [slot EXCEPT !.documents = @ \cup {d}]
        BY <1>1, <1>10, <3>2
      <4>2. slot = [token |-> t, documents |-> docs, runtime |-> slot.runtime]
        BY <1>7, <3>2
      <4>3. slot' = [token |-> t, documents |-> docs \cup {d}, runtime |-> slot.runtime]
        BY <4>1, <4>2
      <4> QED BY <1>1, <1>10, <3>2, <4>3
    <3> QED BY <3>1, <3>2
  <2> HIDE DEF t, docs, cmd, q, r, F
  <2>2. /\ slot' # Nil /\ slot'.token = t /\ slot'.documents = docs \cup {d}
        /\ slot' = [token |-> slot'.token, documents |-> slot'.documents,
                    runtime |-> slot'.runtime]
    BY <2>1, SlotIsNotNil
  <2>3. IsFiniteSet(docs \cup {d}) /\ docs \cup {d} \subseteq Docs /\ docs \cup {d} # {}
    BY <1>4, FS_AddElement
  <2>4. /\ told' \in [Docs -> {Nil} \cup Pairs] /\ told'[d] = open'[d]
        /\ \A b \in Docs \ {d} : told'[b] = told[b]
    BY <1>2, <1>3, <2>1
  <2>5. Timely(q, r, F, open, openings, cmd)
    BY <1>2, <1>8 DEF Timely, Follows
  <2>6. Bounds(q, r, F, open, openings)
    BY <1>4 DEF Kept
  <2>7. InOrder(Append(q, cmd), r, F)
    BY <1>4, <1>8, <2>5, <2>6, AppendKeepsOrder
  <2>8. /\ TasksOK' /\ task'[t].queue = Append(q, cmd) /\ task'[t].replay = r
        /\ InFlight(flights'[t]) = F
    BY <1>1, <1>3, <1>5, <1>8, <1>10, <2>1, <2>7, QueueKeepsTasks DEF q, r, F
  <2>9. Kept(q, r, F, open', openings', told', docs \ {d})
    BY <1>2, <1>4, <2>4, FewerServed
  <2>10. Bounds(Append(q, cmd), r, F, open', openings')
    <3>1. open'[d][1] \in Nat /\ openings'[d] \in Nat
      BY <1>2, PairFacts
    <3>2. Within(cmd.text, cmd.doc, open', openings')
      BY <1>2, <1>8, <3>1 DEF Within
    <3> QED BY <1>4, <1>8, <2>9, <3>2, AppendKeepsBounds DEF Kept
  <2>11. ASSUME NEW b \in docs \cup {d}
         PROVE  Serves(Append(q, cmd), r, open', openings', told', b)
    <3>1. CASE b = d
      BY <1>2, <1>4, <1>8, <2>4, <3>1, OpenServes
    <3>2. CASE b # d
      <4>1. Serves(q, r, open', openings', told', b) /\ b \in Docs /\ ~Mark(cmd, b)
        BY <1>4, <1>8, <2>9, <3>2 DEF Kept, Mark
      <4> QED BY <1>4, <1>8, <4>1, AppendServes
    <3> QED BY <3>1, <3>2
  <2>12. Kept(task'[t].queue, task'[t].replay, InFlight(flights'[t]), open', openings',
              told', docs \cup {d})
    BY <2>8, <2>10, <2>11 DEF Kept
  <2>13. SlotOK'
    <3>1. /\ slot'.token \in Tokens /\ slot'.token < nextToken'
          /\ slot'.documents \subseteq Docs /\ slot'.documents # {}
          /\ IsFiniteSet(slot'.documents)
      BY <1>1, <1>5, <2>2, <2>3
    <3>2. Kept(task'[slot'.token].queue, task'[slot'.token].replay,
               InFlight(flights'[slot'.token]), open', openings', told', slot'.documents)
      BY <2>2, <2>12
    <3> QED BY <2>2, <3>1, <3>2 DEF SlotOK, HolderKeeps, Born
  <2>14. SessionOK'
    BY <1>2, <1>5, <2>4 DEF SessionOK
  <2> QED BY <2>8, <2>13, <2>14 DEF TextInv
<1> QED BY <1>9, <1>10

\* The documents a restart reaches, each once.
LEMMA ReachedOnce ==
    ASSUME NEW n \in Nat, NEW R, NEW order \in [1..n -> R],
           \A d \in R : \E i \in 1..n : order[i] = d, Cardinality(R) = n
    PROVE  /\ \A i, j \in 1..n : order[i] = order[j] => i = j
           /\ IsFiniteSet(R)
<1>1. order \in Surjection(1..n, R)
  BY DEF Surjection
<1>2. IsFiniteSet(1..n) /\ Cardinality(1..n) = n
  BY FS_Interval
<1>3. /\ IsFiniteSet(R)
      /\ Cardinality(R) = Cardinality(1..n) <=> order \in Injection(1..n, R)
  BY <1>1, <1>2, FS_Surjection
<1>4. order \in Injection(1..n, R)
  BY <1>2, <1>3
<1> QED BY <1>3, <1>4 DEF Injection, IsInjective

Opens(n, order, os) == [i \in 1..n |-> Cmd("open", order[i], os[order[i]])]

\* R is reached in that order, each document once.
Reaches(n, order, os, ops, ts, R) ==
    /\ n \in Nat /\ order \in [1..n -> Docs] /\ Opened(os, ops)
    /\ \A i, j \in 1..n : order[i] = order[j] => i = j
    /\ \A d \in R : \E i \in 1..n : order[i] = d
    /\ \A i \in 1..n : os[order[i]] # Nil /\ ts[order[i]] = os[order[i]]

LEMMA OpensAreKept ==
    ASSUME NEW n, NEW order, NEW os, NEW ops, NEW ts, NEW R, Reaches(n, order, os, ops, ts, R)
    PROVE  LET r == [d \in Docs |-> Nil]
               q == Opens(n, order, os) IN
           /\ q \in Seq(Cmds) /\ Len(q) = n /\ InOrder(q, r, {})
           /\ Kept(q, r, {}, os, ops, ts, R)
<1> DEFINE q == Opens(n, order, os)
<1> USE DEF Reaches
<1> DEFINE r == [d \in Docs |-> Nil]
<1>1. \A d \in Docs : r[d] = Nil
  OBVIOUS
<1> HIDE DEF r
<1>2. \A i \in 1..n : /\ order[i] \in Docs /\ os[order[i]] \in Pairs
                      /\ os[order[i]][1] = ops[order[i]]
  BY DEF Opened
<1>3. ASSUME NEW i \in 1..n
      PROVE  /\ q[i] \in Cmds /\ q[i].op = "open" /\ q[i].doc = order[i]
             /\ q[i].text = os[order[i]]
  <2>1. q[i] = [op |-> "open", doc |-> order[i], text |-> os[order[i]]]
    BY DEF Cmd, Opens
  <2> QED BY <1>2, <2>1 DEF Cmds
<1>4. q \in Seq(Cmds) /\ Len(q) = n
  <2>1. q \in [1..n -> Cmds]
    BY <1>3 DEF Opens
  <2> HIDE DEF q
  <2> QED BY <2>1
<1> HIDE DEF q
<1>5. InOrder(q, r, {})
  <2>1. Ascending(q)
    BY <1>3, <1>4 DEF Ascending
  <2>2. Descends(q, r) /\ Informed(q, r)
    BY <1>3, <1>4 DEF Descends, Informed
  <2>3. Remembers(q, r) /\ Attended(q, r, {})
    BY <1>1 DEF Remembers, Attended
  <2> QED BY <2>1, <2>2, <2>3 DEF InOrder
<1>6. Bounds(q, r, {}, os, ops)
  <2>1. \A i \in 1..n : Within(os[order[i]], order[i], os, ops)
    BY <1>2, PairFacts DEF Within, Opened
  <2> QED BY <1>1, <1>3, <1>4, <2>1 DEF Bounds
<1>7. ASSUME NEW m \in 1..n PROVE Serves(q, r, os, ops, ts, order[m])
  <2> DEFINE d == order[m]
  <2>1. /\ os[d] \in Pairs /\ os[d][1] = ops[d] /\ os[d] # Nil /\ ts[d] = os[d]
        /\ os[d][2] <= os[d][2] /\ AtMost(os[d], os[d])
    BY <1>2, PairFacts, AtMostTransitive
  <2>2. q[m].op = "open" /\ q[m].doc = d /\ q[m].text = os[d]
    BY <1>3
  <2>3. \A k \in (m + 1)..n : k \in 1..n /\ q[k].doc # d
    BY <1>3
  <2> HIDE DEF d
  <2>4. KnownAs(q, r, n, d, ops[d])
    <3>1. Mark(q[m], d) /\ q[m].op = "open" /\ q[m].text[1] = ops[d]
      BY <2>1, <2>2 DEF Mark
    <3>2. \A k \in (m + 1)..n : ~Mark(q[k], d)
      BY <2>3 DEF Mark
    <3> QED BY <3>1, <3>2 DEF KnownAs
  <2>5. Given(q, r, n, d, ts[d])
    BY <2>1, <2>2 DEF Given
  <2> QED BY <1>4, <2>1, <2>4, <2>5 DEF Serves, d
<1>8. Kept(q, r, {}, os, ops, ts, R)
  BY <1>6, <1>7 DEF Kept
<1> QED BY <1>4, <1>5, <1>8 DEF r, q

\* A task that starts with a queue of its own.
LEMMA QueuedFresh ==
    ASSUME NEW q \in Seq(Cmds), Len(q) <= Capacity, InOrder(q, [d \in Docs |-> Nil], {})
    PROVE  LET e == [NewTask EXCEPT !.queue = q] IN
           /\ TaskOK(e, NoFlights) /\ e.queue = q /\ e.replay = [d \in Docs |-> Nil]
<1> DEFINE e == [NewTask EXCEPT !.queue = q]
<1>1. /\ NewTask \in TaskRec /\ InSync(NewTask) /\ NewTask.phase # "Running"
      /\ NoFlights \in FlightRec /\ InFlight(NoFlights) = {}
  BY NewTaskOK, NoFlightsTyped DEF TaskOK, NewTask
<1>2. NewTask.replay = [d \in Docs |-> Nil] /\ NewTask.pending = Nil
      /\ NewTask.server = NoServer
  BY DEF NewTask
<1>3. e \in TaskRec /\ e.queue = q /\ e.replay = NewTask.replay /\ e.phase = NewTask.phase
      /\ e.pending = NewTask.pending /\ e.server = NewTask.server
  BY <1>1 DEF TaskRec
<1> HIDE DEF e
<1>4. InSync(e)
  BY <1>1, <1>2, <1>3 DEF InSync
<1>5. TaskOK(e, NoFlights)
  BY <1>1, <1>2, <1>3, <1>4 DEF TaskOK
<1> QED BY <1>2, <1>3, <1>5 DEF e

LEMMA RestartKeepsTexts ==
    ASSUME TextInv, RestartServer PROVE TextInv'
<1> DEFINE docs == slot.documents
           t == nextToken
           n == IF Cardinality(docs) < Capacity THEN Cardinality(docs) ELSE Capacity
           r == [d \in Docs |-> Nil]
<1>1. /\ slot # Nil /\ t \in Tokens /\ t \in Nat /\ nextToken' = t + 1
      /\ open' = open /\ openings' = openings /\ flights' = flights
  BY DEF RestartServer, TextInv, SessionOK
<1>2. /\ docs \subseteq Docs /\ docs # {} /\ IsFiniteSet(docs)
      /\ \A d \in docs : open[d] # Nil /\ open[d] \in Pairs
  BY <1>1, HolderFacts, PairFacts DEF TextInv, SlotOK
<1>3. n \in Nat /\ n >= 1 /\ n <= Capacity
  <2>1. Cardinality(docs) \in Nat /\ Cardinality(docs) # 0
    BY <1>2, FS_CardinalityType, FS_EmptySet
  <2> HIDE DEF docs
  <2> QED BY <2>1, CapacityHoldsACommand
<1>4. PICK order \in [1..n -> docs] :
        LET reached == {order[i] : i \in 1..n} IN
          /\ Cardinality(reached) = n
          /\ slot' = NewSlot(reached)
          /\ told' = [d \in Docs |-> IF d \in reached THEN open[d] ELSE Nil]
          /\ task' = [task EXCEPT ![nextToken].queue =
                        [i \in 1..n |-> Cmd("open", order[i], open[order[i]])]]
  BY DEF RestartServer
<1> DEFINE reached == {order[i] : i \in 1..n}
           q == [i \in 1..n |-> Cmd("open", order[i], open[order[i]])]
           e == [NewTask EXCEPT !.queue = q]
<1>5. /\ Cardinality(reached) = n
      /\ slot' = NewSlot(reached)
      /\ told' = [d \in Docs |-> IF d \in reached THEN open[d] ELSE Nil]
      /\ task' = [task EXCEPT ![t].queue = q]
  BY <1>4
<1>6. TasksOK /\ task[t] = NewTask /\ flights[t] = NoFlights /\ t < nextToken'
      /\ Opened(open, openings)
  BY <1>1 DEF TextInv, TasksOK, SessionOK, Born
<1>7. /\ \A i, j \in 1..n : order[i] = order[j] => i = j
      /\ IsFiniteSet(reached)
  <2>1. order \in [1..n -> reached] /\ \A d \in reached : \E i \in 1..n : order[i] = d
    OBVIOUS
  <2> HIDE DEF n, docs, reached
  <2> QED BY <1>3, <1>5, <2>1, ReachedOnce
<1>8. /\ order \in [1..n -> Docs] /\ reached \subseteq docs /\ reached # {}
      /\ \A i \in 1..n : open[order[i]] # Nil /\ order[i] \in reached
  <2> HIDE DEF n, docs
  <2>1. 1 \in 1..n /\ \A i \in 1..n : order[i] \in docs
    BY <1>3
  <2> QED BY <1>2, <2>1
<1>9. /\ told' \in [Docs -> {Nil} \cup Pairs]
      /\ \A i \in 1..n : told'[order[i]] = open[order[i]]
  <2> HIDE DEF n, docs, reached
  <2>1. \A d \in Docs : d \in reached => open[d] \in Pairs
    BY <1>2, <1>8
  <2>2. \A i \in 1..n : order[i] \in Docs /\ order[i] \in reached
    BY <1>8
  <2> QED BY <1>5, <2>1, <2>2
<1> HIDE DEF n, docs, t
<1>10. /\ q \in Seq(Cmds) /\ Len(q) = n /\ InOrder(q, r, {})
       /\ Kept(q, r, {}, open, openings, told', reached)
  <2>1. PICK ts : ts = told'
    OBVIOUS
  <2>2. \A d \in reached : \E i \in 1..n : order[i] = d
    OBVIOUS
  <2>3. q = Opens(n, order, open)
    BY DEF Opens
  <2> HIDE DEF q, reached
  <2>4. Reaches(n, order, open, openings, ts, reached)
    BY <1>3, <1>6, <1>7, <1>8, <1>9, <2>1, <2>2 DEF Reaches
  <2>5. /\ q \in Seq(Cmds) /\ Len(q) = n /\ InOrder(q, r, {})
        /\ Kept(q, r, {}, open, openings, ts, reached)
    BY <2>3, <2>4, OpensAreKept
  <2> QED BY <2>1, <2>5
<1> HIDE DEF q, reached
<1>11. /\ TaskOK(e, NoFlights) /\ e.queue = q /\ e.replay = r
  BY <1>3, <1>10, QueuedFresh
<1>12. /\ task' = [u \in Tokens |-> task'[u]] /\ task'[t] = e
       /\ \A u \in Tokens \ {t} : task'[u] = task[u]
  <2>1. task = [u \in Tokens |-> task[u]]
    BY <1>6 DEF TasksOK
  <2>2. task' = [task EXCEPT ![t] = e]
    BY <1>5, <1>6
  <2> HIDE DEF e
  <2> QED BY <1>1, <2>1, <2>2 DEF t
<1> HIDE DEF e, r
<1>13. TasksOK'
  <2>1. \A u \in Tokens : TaskOK(task'[u], flights'[u])
    BY <1>1, <1>6, <1>11, <1>12 DEF TasksOK
  <2>2. \A u \in Tokens : (~Born(u))' => ~Born(u) /\ u # t
    BY <1>1, <1>6 DEF Born, Tokens, t
  <2>3. (\A u \in Tokens : /\ TaskOK(task[u], flights[u])
                           /\ ~Born(u) => task[u] = NewTask /\ flights[u] = NoFlights)'
    BY <1>1, <1>6, <1>12, <2>1, <2>2 DEF TasksOK
  <2>4. flights' = [u \in Tokens |-> flights'[u]]
    BY <1>1, <1>6 DEF TasksOK
  <2> QED BY <1>12, <2>3, <2>4 DEF TasksOK
<1>14. SessionOK'
  BY <1>1, <1>6, <1>9 DEF SessionOK
<1>15. SlotOK'
  <2>1. /\ slot' = [token |-> slot'.token, documents |-> slot'.documents,
                    runtime |-> slot'.runtime]
        /\ slot'.token = t /\ slot'.documents = reached
    BY <1>5 DEF NewSlot, t
  <2>2. InFlight(flights'[t]) = {}
    BY <1>1, <1>6, NoFlightsTyped
  <2>3. Kept(task'[t].queue, task'[t].replay, InFlight(flights'[t]), open', openings',
             told', reached)
    BY <1>1, <1>10, <1>11, <1>12, <2>2 DEF r
  <2>4. /\ slot'.token \in Tokens /\ slot'.token < nextToken'
        /\ slot'.documents \subseteq Docs /\ slot'.documents # {}
        /\ IsFiniteSet(slot'.documents)
    BY <1>1, <1>2, <1>6, <1>7, <1>8, <2>1
  <2>5. Kept(task'[slot'.token].queue, task'[slot'.token].replay,
             InFlight(flights'[slot'.token]), open', openings', told', slot'.documents)
    BY <2>1, <2>3
  <2> QED BY <2>1, <2>4, <2>5 DEF SlotOK, HolderKeeps, Born
<1> QED BY <1>13, <1>14, <1>15 DEF TextInv

-----------------------------------------------------------------------------
(* The theorems *)

LEMMA InitHoldsTexts == Init => TextInv
<1> SUFFICES ASSUME Init PROVE TextInv
  OBVIOUS
<1>1. SessionOK
  <2>1. \A d \in Docs : [b \in Docs |-> Nil][d] = Nil
    OBVIOUS
  <2> QED BY <2>1 DEF Init, SessionOK, Opened
<1>2. TasksOK
  <2>1. \A t \in Tokens : task[t] = NewTask /\ flights[t] = NoFlights
    BY DEF Init
  <2>2. task = [u \in Tokens |-> task[u]] /\ flights = [u \in Tokens |-> flights[u]]
    BY DEF Init
  <2> QED BY <2>1, <2>2, NewTaskOK DEF TasksOK
<1>3. SlotOK
  BY DEF Init, SlotOK
<1> QED BY <1>1, <1>2, <1>3 DEF TextInv

LEMMA SessionKeepsTexts ==
    ASSUME TextInv, SessionStep PROVE TextInv'
<1>1. ASSUME NEW d \in Docs,
             OpenDocument(d) \/ EditDocument(d) \/ SaveDocument(d) \/ CloseDocument(d)
      PROVE  TextInv'
  BY <1>1, OpenKeepsTexts, EditKeepsTexts, SaveKeepsTexts, CloseKeepsTexts
<1> QED
  BY <1>1, AskKeepsTexts, RestartKeepsTexts, AdoptKeepsTexts DEF SessionStep

\* The order of the texts in every queue, what every server holds, and what
\* the session knows of its slot, hold in every state.
LEMMA TextsHold == Spec => []TextInv
<1>1. TextInv /\ [Next]_vars => TextInv'
  <2> SUFFICES ASSUME TextInv, [Next]_vars PROVE TextInv'
    OBVIOUS
  <2>1. CASE Next
    BY <2>1, SessionKeepsTexts, StepKeepsTexts DEF Next
  <2>2. CASE UNCHANGED vars
    BY <2>2 DEF vars, session, TextInv, SessionOK, TasksOK, SlotOK, HolderKeeps, Born
  <2> QED BY <2>1, <2>2
<1> QED BY <1>1, InitHoldsTexts, PTL DEF Spec

\* Every variable has its type, no queue outgrows SERVER_COMMAND_CAPACITY, and
\* nothing stays pending or in flight without a connection (lsp.rs, runtime.rs).
THEOREM ServerTypeOK == Spec => []TypeOK
<1>1. TextInv /\ StormInv => TypeOK
  <2> SUFFICES ASSUME TextInv, StormInv PROVE TypeOK
    OBVIOUS
  <2>1. open \in [Docs -> Texts] /\ told \in [Docs -> Texts]
    BY DEF TextInv, SessionOK, Opened, Texts, Pairs
  <2>2. slot = Nil \/ /\ slot.token \in Tokens /\ slot.documents \subseteq Docs
                      /\ slot.documents # {}
    BY DEF TextInv, SlotOK
  <2>3. ASSUME NEW t \in Tokens
        PROVE  /\ task[t].phase \in {"Starting", "Running", "Retrying", "CircuitOpen",
                                    "Unavailable", "Ended"}
               /\ Len(task[t].queue) <= Capacity
               /\ task[t].tally \in Tallies /\ budget[t] \in Budgets
               /\ task[t].phase # "Running" =>
                    task[t].pending = Nil /\ flights[t] = NoFlights
    <3>1. TaskOK(task[t], flights[t])
      BY DEF TextInv, TasksOK
    <3>2. task[t].phase \in Phases /\ task[t].tally \in Tallies
      BY <3>1, TaskFacts DEF TaskOK
    <3>3. budget[t] \in Budgets
      BY DEF StormInv
    <3> QED BY <3>1, <3>2, <3>3 DEF TaskOK, InSync, Phases
  <2> QED BY <2>1, <2>2, <2>3 DEF TypeOK
<1> QED BY <1>1, TextsHold, RowsAreLogged, PTL

\* A server never gets ranges for a text it does not hold: delta.rs and
\* flush_pending send a whole text whenever the base is in doubt.
THEOREM ChangesFit == Spec => []NoMisappliedChange
<1>1. TextInv => NoMisappliedChange
  <2> SUFFICES ASSUME TextInv, NEW t \in Tokens, NEW d \in Docs,
                      d \notin task[t].server.astray
               PROVE  task[t].server.copy[d] # Garbage
    BY DEF NoMisappliedChange
  <2>1. InSync(task[t])
    BY DEF TextInv, TasksOK, TaskOK
  <2>2. CASE task[t].phase = "Running"
    BY <2>1, <2>2 DEF InSync, AllMatch, Matches
  <2>3. CASE task[t].phase # "Running"
    <3>1. task[t].server.copy[d] = Nil
      BY <2>1, <2>3 DEF InSync, NoServer
    <3> QED BY <3>1 DEF Nil, Garbage
  <2> QED BY <2>2, <2>3
<1> QED BY <1>1, TextsHold, PTL

\* Every attached document is in the replay set once the queue is served, so that
\* a reconnect reopens it (LspManager::document_opened, remember_document).
THEOREM AttachedAreReplayed == Spec => []AttachedIsReplayed
<1>1. TextInv => AttachedIsReplayed
  <2> SUFFICES ASSUME TextInv, slot # Nil, NEW d \in slot.documents
               PROVE  LET q == task[slot.token].queue
                          marks == {i \in 1..Len(q) :
                                      q[i].doc = d /\ q[i].op \in {"open", "close"}} IN
                      IF marks = {} THEN task[slot.token].replay[d] # Nil
                      ELSE \E i \in marks : q[i].op = "open" /\ \A j \in marks : j <= i
    BY DEF AttachedIsReplayed
  <2> DEFINE q == task[slot.token].queue
             r == task[slot.token].replay
             marks == {i \in 1..Len(q) : q[i].doc = d /\ q[i].op \in {"open", "close"}}
  <2>1. KnownAs(q, r, Len(q), d, openings[d]) /\ q \in Seq(Cmds) /\ Len(q) \in Nat
    BY HolderFacts, QueueFacts DEF Serves
  <2> HIDE DEF q, r
  <2>2. CASE \E m \in 1..Len(q) : /\ Mark(q[m], d) /\ q[m].op = "open"
                                  /\ q[m].text[1] = openings[d]
                                  /\ \A k \in (m + 1)..Len(q) : ~Mark(q[k], d)
    <3>1. PICK m \in 1..Len(q) : /\ Mark(q[m], d) /\ q[m].op = "open"
                                 /\ \A k \in (m + 1)..Len(q) : ~Mark(q[k], d)
      BY <2>2
    <3>2. m \in marks
      BY <3>1 DEF Mark
    <3>3. ASSUME NEW j \in marks PROVE j <= m
      <4>1. Mark(q[j], d) /\ j \in 1..Len(q)
        BY DEF Mark
      <4>2. j \notin (m + 1)..Len(q)
        BY <3>1, <4>1
      <4> QED BY <2>1, <4>1, <4>2
    <3> QED BY <3>1, <3>2, <3>3 DEF q, r
  <2>3. CASE (\A k \in 1..Len(q) : ~Mark(q[k], d)) /\ r[d] # Nil
    <3>1. marks = {}
      BY <2>3 DEF Mark
    <3> QED BY <2>3, <3>1 DEF q, r
  <2> QED BY <2>1, <2>2, <2>3 DEF KnownAs
<1> QED BY <1>1, TextsHold, PTL

\* Texts of one opening, told at least the one asked about.
LEMMA NotOlderBy ==
    ASSUME NEW x \in Pairs, NEW y \in Pairs, NEW v \in Nat,
           AtMost(x, <<y[1], v>>), v <= y[2]
    PROVE  NotOlder(y, x)
<1>1. /\ x[1] \in Nat /\ x[2] \in Nat /\ y[1] \in Nat /\ y[2] \in Nat
      /\ Len(x) = 2 /\ Len(y) = 2
  BY PairFacts
<1>2. x[1] < y[1] \/ (x[1] = y[1] /\ x[2] <= v)
  BY DEF AtMost
<1> QED BY <1>1, <1>2 DEF NotOlder

\* What a server in step holds of a document it was told a text of.
LEMMA CopyIsTold ==
    ASSUME NEW c \in TaskRec, c.phase = "Running", InSync(c), NEW d \in Docs,
           ~Pends(c, d), d \notin c.server.astray, c.replay[d] # Nil, ~c.replay[d].resync,
           NEW x \in Pairs, AtMost(x, ToldOf(c.replay, d))
    PROVE  /\ c.server.copy[d] \in Pairs /\ NotOlder(c.server.copy[d], x)
           /\ c.server.copy[d][1] = c.replay[d].text[1]
           /\ c.server.copy[d][2] <= c.replay[d].text[2]
<1> DEFINE y == c.server.copy[d]
           e == c.replay[d]
<1>1. Pends(c, d) = FALSE
  BY DEF Pends
<1>2. Matches(y, e, FALSE)
  BY <1>1 DEF InSync, AllMatch
<1>3. e \in Entries /\ e.text \in Pairs /\ e.version \in Nat
  BY TaskFacts, ToldFacts, EntryFacts
<1>4. y \in Pairs
  <2>1. y \in Copies
    BY TaskFacts
  <2> QED BY <1>2, <2>1 DEF Matches, Copies
<1>5. ToldOf(c.replay, d) = <<e.text[1], e.version>>
  BY DEF ToldOf
<1>6. e # Nil /\ ~e.resync
  OBVIOUS
<1> HIDE DEF y, e
<1>7. y[1] = e.text[1] /\ e.version <= y[2] /\ y[2] <= e.text[2]
  BY <1>2, <1>6 DEF Matches
<1>8. NotOlder(y, x)
  BY <1>3, <1>4, <1>5, <1>7, NotOlderBy
<1> QED BY <1>4, <1>7, <1>8 DEF y, e

\* Once nothing about an attached document is on its way, its server holds the
\* text the queue last took, or a newer one a save brought, and never one the
\* buffer has not had (runtime.rs: debounce, loss, replay; lsp.rs: full queue).
THEOREM QuietIsSynced == Spec => []SyncedWhenQuiet
<1>1. TextInv => SyncedWhenQuiet
  <2> DEFINE c == task[slot.token]
  <2> SUFFICES ASSUME TextInv, slot # Nil, NEW d \in slot.documents,
                      c.phase = "Running",
                      ~\E cmd \in Commands(slot.token) : cmd.doc = d,
                      ~(c.pending # Nil /\ c.pending.doc = d),
                      d \notin c.server.astray,
                      ~(c.replay[d] # Nil /\ c.replay[d].resync)
               PROVE  NotOlder(c.server.copy[d], told[d])
                      /\ NotOlder(open[d], c.server.copy[d])
    BY DEF SyncedWhenQuiet
  <2> DEFINE q == c.queue
             r == c.replay
  <2>1. /\ TaskOK(c, flights[slot.token]) /\ d \in Docs
        /\ q \in Seq(Cmds) /\ r \in Replays
        /\ Bounds(q, r, InFlight(flights[slot.token]), open, openings)
        /\ Serves(q, r, open, openings, told, d)
        /\ open[d] \in Pairs /\ open[d][1] = openings[d] /\ told[d] \in Pairs
    BY HolderFacts
  <2>2. \A i \in 1..Len(q) : q[i].doc # d
    BY DEF Commands
  <2>3. c \in TaskRec /\ InSync(c) /\ ~Pends(c, d)
    BY <2>1 DEF TaskOK, Pends
  <2> HIDE DEF c
  <2>4. r[d] # Nil /\ r[d].text[1] = openings[d]
    BY <2>1, <2>2 DEF Serves, KnownAs, Mark
  <2>5. AtMost(told[d], ToldOf(r, d))
    BY <2>1, <2>2 DEF Serves, Given
  <2>6. /\ c.server.copy[d] \in Pairs /\ NotOlder(c.server.copy[d], told[d])
        /\ c.server.copy[d][1] = r[d].text[1] /\ c.server.copy[d][2] <= r[d].text[2]
    BY <2>1, <2>3, <2>4, <2>5, CopyIsTold
  <2>7. r[d].text[2] <= open[d][2] /\ open[d] # Nil
    BY <2>1, <2>4, PairFacts DEF Bounds, Within
  <2>8. r[d].text \in Pairs
    BY <2>1, <2>4, ToldFacts
  <2> DEFINE y == c.server.copy[d]
             z == open[d]
             w == r[d].text
  <2>9. /\ y[1] = z[1] /\ y[2] <= w[2] /\ w[2] <= z[2]
        /\ y \in Pairs /\ z \in Pairs /\ w \in Pairs
    BY <2>1, <2>4, <2>6, <2>7, <2>8
  <2> HIDE DEF y, z, w
  <2>10. NotOlder(z, y)
    <3>1. /\ y[1] \in Nat /\ y[2] \in Nat /\ z[1] \in Nat /\ z[2] \in Nat /\ w[2] \in Nat
          /\ Len(y) = 2 /\ Len(z) = 2
      BY <2>9, PairFacts
    <3> QED BY <2>9, <3>1 DEF NotOlder
  <2> QED BY <2>6, <2>10 DEF y, z, c
<1> QED BY <1>1, TextsHold, PTL

-----------------------------------------------------------------------------
(* Requests and the edits they were asked about *)

\* A request nothing is pending for finds its text, or is known not to.
LEMMA RequestFits ==
    ASSUME NEW e \in TaskRec, e.phase = "Running", InSync(e), NEW f \in Requests,
           ~Pends(e, f.doc),
           e.replay[f.doc] = Nil \/ AtMost(f.text, ToldOf(e.replay, f.doc))
    PROVE  \/ e.replay[f.doc] = Nil \/ e.replay[f.doc].resync \/ f.doc \in e.server.astray
           \/ NotOlder(e.server.copy[f.doc], f.text)
<1>1. f.doc \in Docs /\ f.text \in Pairs
  BY DEF Requests
<1> QED BY <1>1, CopyIsTold

LEMMA MovedSeesText ==
    ASSUME NEW c, NEW fs, TaskOK(c, fs), NEW e, NEW gs, Sound(e, gs), Moves(c, fs, e, gs)
    PROVE  /\ \A f \in gs.running : ~Unsent(e, f) =>
                \/ e.replay[f.doc] = Nil \/ e.replay[f.doc].resync
                \/ f.doc \in e.server.astray \/ NotOlder(e.server.copy[f.doc], f.text)
           /\ c.queue # <<>> /\ Head(c.queue).op = "request" /\ e.phase = "Running"
              /\ e.queue = Tail(c.queue) =>
                LET h == Head(c.queue) IN
                \/ e.replay[h.doc] = Nil \/ e.replay[h.doc].resync
                \/ h.doc \in e.server.astray \/ NotOlder(e.server.copy[h.doc], h.text)
<1>1. e \in TaskRec /\ InSync(e) /\ gs \in FlightRec /\ (e.phase # "Running" => gs = NoFlights)
  BY DEF Sound
<1>2. ASSUME NEW f \in gs.running, ~Unsent(e, f)
      PROVE  \/ e.replay[f.doc] = Nil \/ e.replay[f.doc].resync
             \/ f.doc \in e.server.astray \/ NotOlder(e.server.copy[f.doc], f.text)
  <2>1. e.phase = "Running"
    BY <1>1, <1>2 DEF NoFlights
  <2>2. f \in Requests /\ f \in InFlight(gs)
    BY <1>1, <1>2 DEF FlightRec, InFlight
  <2>3. TaskOK(e, gs)
    BY MovesKeep
  <2>4. e.replay[f.doc] = Nil \/ AtMost(f.text, ToldOf(e.replay, f.doc))
    BY <2>2, <2>3 DEF TaskOK, InOrder, Attended
  <2>5. ~Pends(e, f.doc)
    BY <1>2 DEF Pends, Unsent
  <2> QED BY <1>1, <2>1, <2>2, <2>4, <2>5, RequestFits
<1>3. ASSUME c.queue # <<>>, Head(c.queue).op = "request", e.phase = "Running",
             e.queue = Tail(c.queue)
      PROVE  LET h == Head(c.queue) IN
             \/ e.replay[h.doc] = Nil \/ e.replay[h.doc].resync
             \/ h.doc \in e.server.astray \/ NotOlder(e.server.copy[h.doc], h.text)
  <2> DEFINE q == c.queue
             r == c.replay
             F == InFlight(fs)
             h == Head(q)
             s == Remember(r, h)
  <2>1. /\ q \in Seq(Cmds) /\ r \in Replays /\ F \in SUBSET Requests /\ InOrder(q, r, F)
    BY TaskFacts DEF TaskOK, FlightRec, InFlight
  <2>2. h \in Requests
    BY <1>3, <2>1, QueueFacts, CmdFacts
  <2>3. e.queue # q
    <3>1. Len(Tail(q)) = Len(q) - 1 /\ Len(q) \in Nat
      BY <1>3, <2>1, QueueFacts
    <3> HIDE DEF q
    <3>2. Tail(q) # q
      BY <3>1
    <3> QED BY <1>3, <3>2 DEF q
  <2>4. Takes(c, fs, e, gs)
    BY <2>3 DEF Moves, Stays
  <2>5. SameTexts(s, e.replay) /\ e.pending = Nil
    BY <1>3, <2>4 DEF Takes
  <2>6. Attended(Tail(q), s, F \cup Asked(h))
    BY <1>3, <2>1, TakeAttends
  <2>7. h \in Asked(h)
    BY <1>3 DEF Asked
  <2> HIDE DEF q, r, F, h, s
  <2>8. s[h.doc] = Nil \/ AtMost(h.text, ToldOf(s, h.doc))
    BY <2>6, <2>7 DEF Attended
  <2>9. h.doc \in Docs
    BY <2>2 DEF Requests
  <2>10. e.replay[h.doc] = Nil \/ AtMost(h.text, ToldOf(e.replay, h.doc))
    BY <2>5, <2>8, <2>9 DEF SameTexts, ToldOf
  <2>11. ~Pends(e, h.doc)
    BY <2>5 DEF Pends
  <2>12. \/ e.replay[h.doc] = Nil \/ e.replay[h.doc].resync
         \/ h.doc \in e.server.astray \/ NotOlder(e.server.copy[h.doc], h.text)
    BY <1>1, <1>3, <2>2, <2>10, <2>11, RequestFits
  <2> QED BY <2>12 DEF h, q
<1> QED BY <1>2, <1>3

\* A step of the session is not one of the task that takes a request.
LEMMA SessionTakesNothing ==
    ASSUME TextInv, SessionStep, NEW t \in Tokens, task[t].phase = "Running",
           task[t].queue # <<>>
    PROVE  flights' = flights /\ task'[t].queue # Tail(task[t].queue)
<1> DEFINE q == task[t].queue
<1>1. /\ q \in Seq(Cmds) /\ Len(q) \in Nat /\ Len(Tail(q)) = Len(q) - 1
      /\ task = [u \in Tokens |-> task[u]]
  <2>1. TaskOK(task[t], flights[t]) /\ task = [u \in Tokens |-> task[u]]
    BY DEF TextInv, TasksOK
  <2> QED BY <2>1, TaskFacts, QueueFacts DEF TaskOK
<1>2. flights' = flights
  BY SessionKeepsFlights
<1>3. q # Tail(q) /\ \A cmd : Append(q, cmd) # Tail(q)
  <2> HIDE DEF q
  <2>1. q # Tail(q)
    BY <1>1
  <2>2. ASSUME NEW cmd PROVE Append(q, cmd) # Tail(q)
    <3> DEFINE S == Cmds \cup {cmd}
    <3>1. q \in Seq(S) /\ cmd \in S
      BY <1>1
    <3> HIDE DEF S
    <3>2. Len(Append(q, cmd)) = Len(q) + 1
      BY <3>1
    <3>3. Len(Append(q, cmd)) # Len(Tail(q))
      BY <1>1, <3>2
    <3> QED BY <3>3
  <2> QED BY <2>1, <2>2
<1>4. task'[t] = task[t] \/ \E cmd : task'[t].queue = Append(q, cmd)
  <2>1. CASE task' = task
    BY <2>1
  <2>2. ASSUME NEW u, NEW cmd, Queue(u, cmd)
        PROVE  task'[t] = task[t] \/ task'[t].queue = Append(q, cmd)
    <3>1. task' = [task EXCEPT ![u].queue = Append(@, cmd)]
      BY <2>2 DEF Queue
    <3>2. CASE u # t
      BY <1>1, <3>1, <3>2
    <3>3. CASE u = t
      <4>1. task'[t] = [task[t] EXCEPT !.queue = Append(@, cmd)]
        BY <1>1, <3>1, <3>3
      <4>2. task[t] \in TaskRec
        BY DEF TextInv, TasksOK, TaskOK
      <4> QED BY <4>1, <4>2 DEF TaskRec
    <3> QED BY <3>2, <3>3
  <2>3. CASE RestartServer
    <3>1. t # nextToken
      <4>1. ~(nextToken < nextToken)
        BY DEF TextInv, SessionOK
      <4> QED BY <4>1 DEF TextInv, TasksOK, Born, NewTask
    <3>2. task'[t] = task[t]
      BY <1>1, <2>3, <3>1 DEF RestartServer
    <3> QED BY <3>2
  <2>4. ASSUME NEW d \in Docs,
               OpenDocument(d) \/ EditDocument(d) \/ SaveDocument(d) \/ CloseDocument(d)
        PROVE  task' = task \/ \E u, cmd : Queue(u, cmd)
    BY <2>4 DEF OpenDocument, EditDocument, SaveDocument, CloseDocument
  <2>5. ASSUME NEW d \in Docs, NEW op \in {"hint", "request"}, AskServer(d, op)
        PROVE  \E u, cmd : Queue(u, cmd)
    BY <2>5 DEF AskServer
  <2>6. AdoptReport => task' = task
    BY DEF AdoptReport
  <2> QED BY <2>1, <2>2, <2>3, <2>4, <2>5, <2>6 DEF SessionStep
<1> QED BY <1>2, <1>3, <1>4

TextsSeen ==
    \A t \in Tokens :
         /\ \A f \in flights'[t].running \ flights[t].running :
               SeesItsText(t, f)
         /\ Taking(t, {"request"}, {"Running"}) /\ task'[t].phase = "Running"
            /\ task'[t].queue = Tail(task[t].queue)
              => SeesItsText(t, Head(task[t].queue))

LEMMA StepSeesText ==
    ASSUME TextInv, NEW u \in Tokens, RunTask(u) \/ Lost(u)
    PROVE  TextsSeen
<1>1. /\ task = [t \in Tokens |-> task[t]] /\ flights = [t \in Tokens |-> flights[t]]
      /\ \A t \in Tokens : TaskOK(task[t], flights[t])
  BY DEF TextInv, TasksOK
<1>2. PICK e, gs : Moved(u, e, gs)
  BY <1>1, StepMoves
<1>3. /\ task'[u] = e /\ flights'[u] = gs /\ Sound(e, gs)
      /\ Moves(task[u], flights[u], e, gs) \/ Finishes(task[u], e, gs)
      /\ \A f \in gs.running \ flights[u].running : ~Unsent(e, f)
      /\ \A t \in Tokens \ {u} : task'[t] = task[t] /\ flights'[t] = flights[t]
  BY <1>1, <1>2 DEF Moved
<1> SUFFICES ASSUME NEW t \in Tokens
             PROVE  /\ \A f \in flights'[t].running \ flights[t].running :
                          SeesItsText(t, f)
                    /\ Taking(t, {"request"}, {"Running"}) /\ task'[t].phase = "Running"
                       /\ task'[t].queue = Tail(task[t].queue)
                         => SeesItsText(t, Head(task[t].queue))
  BY DEF TextsSeen
<1>4. CASE t # u
  <2>1. task'[t] = task[t] /\ flights'[t] = flights[t]
    BY <1>3, <1>4
  <2>2. ASSUME task[t].queue # <<>> PROVE Tail(task[t].queue) # task[t].queue
    <3> DEFINE q == task[t].queue
    <3>1. Len(Tail(q)) = Len(q) - 1 /\ Len(q) \in Nat
      BY <1>1, <2>2, TaskFacts, QueueFacts DEF TaskOK
    <3> HIDE DEF q
    <3>2. Tail(q) # q
      BY <3>1
    <3> QED BY <3>2 DEF q
  <2> QED BY <2>1, <2>2 DEF Taking
<1>5. CASE t = u /\ Moves(task[u], flights[u], e, gs)
  <2>1. \A f \in gs.running : ~Unsent(e, f) =>
          \/ e.replay[f.doc] = Nil \/ e.replay[f.doc].resync
          \/ f.doc \in e.server.astray \/ NotOlder(e.server.copy[f.doc], f.text)
    BY <1>1, <1>3, <1>5, MovedSeesText
  <2>2. task[u].queue # <<>> /\ Head(task[u].queue).op = "request" /\ e.phase = "Running"
        /\ e.queue = Tail(task[u].queue) =>
          LET h == Head(task[u].queue) IN
          \/ e.replay[h.doc] = Nil \/ e.replay[h.doc].resync
          \/ h.doc \in e.server.astray \/ NotOlder(e.server.copy[h.doc], h.text)
    BY <1>1, <1>3, <1>5, MovedSeesText
  <2>3. \A f \in gs.running \ flights[u].running : SeesItsText(u, f)
    BY <1>3, <2>1 DEF SeesItsText
  <2>4. Taking(u, {"request"}, {"Running"}) /\ task'[u].phase = "Running"
        /\ task'[u].queue = Tail(task[u].queue) => SeesItsText(u, Head(task[u].queue))
    BY <1>3, <2>2 DEF SeesItsText, Taking
  <2> QED BY <1>3, <1>5, <2>3, <2>4
<1>6. CASE t = u /\ Finishes(task[u], e, gs)
  BY <1>3, <1>6 DEF Finishes, NoFlights, Taking
<1> QED BY <1>3, <1>4, <1>5, <1>6

\* A request goes to the server behind the edits it was asked about, whether it
\* forces the pending one out or waits for the debounce (runtime.rs).
THEOREM RequestsFindTheirText == Spec => RequestsSeeTheirText
<1>1. TextInv /\ [Next]_vars => [TextsSeen]_vars
  <2> SUFFICES ASSUME TextInv, Next PROVE TextsSeen
    OBVIOUS
  <2>1. CASE SessionStep
    <3>1. flights' = flights
      BY <2>1, SessionKeepsFlights
    <3>2. ASSUME NEW t \in Tokens, Taking(t, {"request"}, {"Running"})
          PROVE  task'[t].queue # Tail(task[t].queue)
      BY <2>1, <3>2, SessionTakesNothing DEF Taking
    <3> QED BY <3>1, <3>2 DEF TextsSeen
  <2>2. CASE \E t \in Tokens : RunTask(t) \/ Lost(t)
    BY <2>2, StepSeesText
  <2> QED BY <2>1, <2>2 DEF Next
<1>2. [TextsSeen]_vars => [\A t \in Tokens :
         /\ \A f \in flights'[t].running \ flights[t].running :
               SeesItsText(t, f)
         /\ Taking(t, {"request"}, {"Running"}) /\ task'[t].phase = "Running"
            /\ task'[t].queue = Tail(task[t].queue)
              => SeesItsText(t, Head(task[t].queue))]_vars
  BY DEF TextsSeen
<1> QED BY <1>1, <1>2, TextsHold, PTL DEF Spec, RequestsSeeTheirText

-----------------------------------------------------------------------------
(* A request is in one place, until it is answered *)

About(S, a) == {f \in S : f.ask = a}
Places(q, a) == {i \in 1..Len(q) : q[i].op \in {"hint", "request"} /\ q[i].ask = a}

Nothing(A, B, C) == A = {} /\ B = {} /\ C = {}
Alone(A, B, C) ==
    \/ (\E x : A = {x}) /\ B = {} /\ C = {}
    \/ A = {} /\ (\E x : B = {x}) /\ C = {}
    \/ A = {} /\ B = {} /\ (\E x : C = {x})

\* What a task took and what it had in flight is answered or still in flight.
Empty(fs, T, a) == Nothing(About(T, a), About(fs.deferred, a), About(fs.running, a))
Once(fs, T, a) == Alone(About(T, a), About(fs.deferred, a), About(fs.running, a))

Flows(fs, T, gs, R) ==
    \A a : (Empty(fs, T, a) => Empty(gs, R, a)) /\ (Once(fs, T, a) => Once(gs, R, a))

LEMMA AboutFacts ==
    /\ \A a : About({}, a) = {}
    /\ \A A, B, a : About(A \cup B, a) = About(A, a) \cup About(B, a)
    /\ \A A, B, a : About(A \ B, a) = About(A, a) \ About(B, a)
    /\ \A f, a : (f.ask = a => About({f}, a) = {f}) /\ (f.ask # a => About({f}, a) = {})
<1>1. \A a : About({}, a) = {}
  BY DEF About
<1>2. \A A, B, a : About(A \cup B, a) = About(A, a) \cup About(B, a)
  BY DEF About
<1>3. \A A, B, a : About(A \ B, a) = About(A, a) \ About(B, a)
  BY DEF About
<1>4. \A f, a : (f.ask = a => About({f}, a) = {f}) /\ (f.ask # a => About({f}, a) = {})
  BY DEF About
<1> QED BY <1>1, <1>2, <1>3, <1>4

LEMMA StayFlows == \A fs, T : Flows(fs, T, fs, T)
  BY DEF Flows

\* All of it is answered.
LEMMA LoseFlows ==
    ASSUME NEW fs, NEW T
    PROVE  Flows(fs, T, NoFlights, fs.deferred \cup fs.running \cup T)
<1> SUFFICES ASSUME NEW a
             PROVE  LET R == fs.deferred \cup fs.running \cup T IN
                    /\ Empty(fs, T, a) => Empty(NoFlights, R, a)
                    /\ Once(fs, T, a) => Once(NoFlights, R, a)
  BY DEF Flows
<1> DEFINE A == About(T, a)
           D == About(fs.deferred, a)
           U == About(fs.running, a)
           R == fs.deferred \cup fs.running \cup T
<1>1. About(R, a) = D \cup U \cup A
  BY DEF About
<1>2. About(NoFlights.deferred, a) = {} /\ About(NoFlights.running, a) = {}
  BY AboutFacts DEF NoFlights
<1> HIDE DEF A, D, U, R
<1>3. Nothing(A, D, U) => Nothing(D \cup U \cup A, {}, {})
  BY DEF Nothing
<1>4. Alone(A, D, U) => Alone(D \cup U \cup A, {}, {})
  <2> SUFFICES ASSUME Alone(A, D, U) PROVE \E x : D \cup U \cup A = {x}
    BY DEF Alone
  <2>1. PICK x : \/ A = {x} /\ D = {} /\ U = {}
                 \/ A = {} /\ D = {x} /\ U = {}
                 \/ A = {} /\ D = {} /\ U = {x}
    BY DEF Alone
  <2>2. D \cup U \cup A = {x}
    BY <2>1
  <2> QED BY <2>2
<1> QED BY <1>1, <1>2, <1>3, <1>4 DEF Empty, Once, A, D, U, R

\* launch_ready moves a request from one set to the other.
LEMMA LaunchFlows ==
    ASSUME NEW fs, NEW T, NEW gs \in FlightRec, NEW R, Flows(fs, T, gs, R), NEW c
    PROVE  Flows(fs, T, Launched(c, gs), R)
<1> DEFINE X == Ready(c, gs)
           l == Launched(c, gs)
<1>1. X \subseteq gs.deferred
  BY DEF Ready
<1>2. l.deferred = gs.deferred \ X /\ l.running = gs.running \cup X
  BY DEF Launched
<1> HIDE DEF X, l
<1> SUFFICES ASSUME NEW a
             PROVE  /\ Empty(fs, T, a) => Empty(l, R, a)
                    /\ Once(fs, T, a) => Once(l, R, a)
  BY DEF Flows, l
<1> DEFINE A == About(R, a)
           D == About(gs.deferred, a)
           U == About(gs.running, a)
           Y == About(X, a)
<1>3. About(l.deferred, a) = D \ Y /\ About(l.running, a) = U \cup Y /\ Y \subseteq D
  <2>1. Y \subseteq D
    BY <1>1 DEF About
  <2> QED BY <1>2, <2>1, AboutFacts
<1>4. /\ Empty(fs, T, a) => Nothing(A, D, U)
      /\ Once(fs, T, a) => Alone(A, D, U)
  BY DEF Flows, Empty, Once
<1> HIDE DEF A, D, U, Y
<1>5. Nothing(A, D, U) => Nothing(A, D \ Y, U \cup Y)
  BY <1>3 DEF Nothing
<1>6. ASSUME Alone(A, D, U) PROVE Alone(A, D \ Y, U \cup Y)
  <2>1. CASE D = {}
    <3>1. Y = {} /\ D \ Y = D /\ U \cup Y = U
      BY <1>3, <2>1
    <3> QED BY <1>6, <3>1
  <2>2. CASE D # {}
    <3>1. PICK x : D = {x} /\ A = {} /\ U = {}
      BY <1>6, <2>2 DEF Alone
    <3>2. CASE Y = {}
      <4>1. D \ Y = D /\ U \cup Y = U
        BY <3>2
      <4> QED BY <1>6, <4>1
    <3>3. CASE Y # {}
      <4>1. Y = {x} /\ D \ Y = {} /\ U \cup Y = {x}
        BY <1>3, <3>1, <3>3
      <4> QED BY <3>1, <4>1 DEF Alone
    <3> QED BY <3>2, <3>3
  <2> QED BY <2>1, <2>2
<1> QED BY <1>3, <1>4, <1>5, <1>6 DEF Empty, Once, A

\* The one a new background request replaces is answered.
LEMMA DeferFlows ==
    ASSUME NEW fs \in FlightRec, NEW h
    PROVE  Flows(fs, {h}, Deferring(fs, h), Superseded(fs, h))
<1> DEFINE X == Superseded(fs, h)
           gs == Deferring(fs, h)
<1>1. X \subseteq fs.deferred
  BY DEF Superseded
<1>2. gs.deferred = (fs.deferred \ X) \cup {h} /\ gs.running = fs.running
  BY DEF Deferring
<1> HIDE DEF X, gs
<1> SUFFICES ASSUME NEW a
             PROVE  /\ Empty(fs, {h}, a) => Empty(gs, X, a)
                    /\ Once(fs, {h}, a) => Once(gs, X, a)
  BY DEF Flows, X, gs
<1> DEFINE A == About({h}, a)
           D == About(fs.deferred, a)
           U == About(fs.running, a)
           Y == About(X, a)
<1>3. /\ About(gs.deferred, a) = (D \ Y) \cup A /\ About(gs.running, a) = U
      /\ Y \subseteq D
  <2>1. Y \subseteq D
    BY <1>1 DEF About
  <2>2. About((fs.deferred \ X) \cup {h}, a) = (D \ Y) \cup A
    BY DEF About
  <2> QED BY <1>2, <2>1, <2>2
<1> HIDE DEF A, D, U, Y
<1>4. Nothing(A, D, U) => Nothing(Y, (D \ Y) \cup A, U)
  BY <1>3 DEF Nothing
<1>5. ASSUME Alone(A, D, U) PROVE Alone(Y, (D \ Y) \cup A, U)
  <2>1. CASE D = {}
    <3>1. Y = {} /\ (D \ Y) \cup A = A
      BY <1>3, <2>1
    <3> QED BY <1>5, <2>1, <3>1 DEF Alone
  <2>2. CASE D # {}
    <3>1. PICK x : D = {x} /\ A = {} /\ U = {}
      BY <1>5, <2>2 DEF Alone
    <3>2. CASE Y = {}
      <4>1. (D \ Y) \cup A = {x}
        BY <3>1, <3>2
      <4> QED BY <3>1, <3>2, <4>1 DEF Alone
    <3>3. CASE Y # {}
      <4>1. Y = {x} /\ (D \ Y) \cup A = {}
        BY <1>3, <3>1, <3>3
      <4> QED BY <3>1, <4>1 DEF Alone
    <3> QED BY <3>2, <3>3
  <2> QED BY <2>1, <2>2
<1> QED BY <1>3, <1>4, <1>5 DEF Empty, Once, A, D, U, Y

\* A background request that returns is answered.
LEMMA FinishFlows ==
    ASSUME NEW fs \in FlightRec, NEW f \in fs.running, NEW gs,
           gs = [fs EXCEPT !.running = @ \ {f}]
    PROVE  Flows(fs, {}, gs, {f})
<1>1. gs.deferred = fs.deferred /\ gs.running = fs.running \ {f}
  BY DEF FlightRec
<1> SUFFICES ASSUME NEW a
             PROVE  /\ Empty(fs, {}, a) => Empty(gs, {f}, a)
                    /\ Once(fs, {}, a) => Once(gs, {f}, a)
  BY DEF Flows
<1> DEFINE A == About({f}, a)
           D == About(fs.deferred, a)
           U == About(fs.running, a)
<1>2. About(gs.deferred, a) = D /\ About(gs.running, a) = U \ A /\ A \subseteq U
      /\ About({}, a) = {}
  <2>1. A \subseteq U
    BY DEF About
  <2> QED BY <1>1, <2>1, AboutFacts
<1>3. A = {} \/ A = {f}
  BY AboutFacts
<1> HIDE DEF A, D, U
<1>4. Nothing({}, D, U) => Nothing(A, D, U \ A)
  BY <1>2 DEF Nothing
<1>5. ASSUME Alone({}, D, U) PROVE Alone(A, D, U \ A)
  <2>1. CASE A = {}
    <3>1. U \ A = U
      BY <2>1
    <3> QED BY <1>5, <2>1, <3>1
  <2>2. CASE A = {f}
    <3>1. U # {}
      BY <1>2, <2>2
    <3>2. D = {} /\ \E x : U = {x}
      BY <1>5, <3>1 DEF Alone
    <3>3. U \ A = {}
      BY <1>2, <2>2, <3>2
    <3> QED BY <2>2, <3>2, <3>3 DEF Alone
  <2> QED BY <1>3, <2>1, <2>2
<1> QED BY <1>2, <1>4, <1>5 DEF Empty, Once, A, D, U

None(c, fs, a) ==
    Nothing(Places(c.queue, a), About(fs.deferred, a), About(fs.running, a))
Single(c, fs, a) ==
    Alone(Places(c.queue, a), About(fs.deferred, a), About(fs.running, a))

\* Of the requests a task has, R are answered and the others stay.
Settles(c, fs, e, gs, R) ==
    \A a : /\ None(c, fs, a) => About(R, a) = {} /\ None(e, gs, a)
           /\ Single(c, fs, a) => \/ About(R, a) = {} /\ Single(e, gs, a)
                                  \/ (\E x : About(R, a) = {x}) /\ None(e, gs, a)

\* The command a step took, if it took one, is in T.
Passes(q, u, T) ==
    \/ u = q /\ T = {}
    \/ q # <<>> /\ u = Tail(q) /\ T = Asked(Head(q))

LEMMA TailPlaces ==
    ASSUME NEW q \in Seq(Cmds), q # <<>>, NEW a
    PROVE  /\ Places(q, a) = {} => Places(Tail(q), a) = {} /\ About(Asked(Head(q)), a) = {}
           /\ \A i : Places(q, a) = {i} =>
                \/ Places(Tail(q), a) = {} /\ \E x : About(Asked(Head(q)), a) = {x}
                \/ (\E x : Places(Tail(q), a) = {x}) /\ About(Asked(Head(q)), a) = {}
<1> DEFINE h == Head(q)
           u == Tail(q)
           A == About(Asked(h), a)
<1>1. /\ h = q[1] /\ 1 \in 1..Len(q) /\ Len(q) \in Nat
      /\ \A j \in 1..Len(u) : j + 1 \in 1..Len(q) /\ u[j] = q[j + 1]
      /\ \A i \in 1..Len(q) : i # 1 => i - 1 \in 1..Len(u)
  OBVIOUS
<1>2. \/ A = {h} /\ 1 \in Places(q, a)
      \/ A = {} /\ 1 \notin Places(q, a)
  <2>1. CASE h.op \in {"hint", "request"} /\ h.ask = a
    <3>1. A = {h}
      BY <2>1 DEF About, Asked
    <3> QED BY <1>1, <2>1, <3>1 DEF Places
  <2>2. CASE ~(h.op \in {"hint", "request"} /\ h.ask = a)
    <3>1. A = {}
      BY <2>2 DEF About, Asked
    <3> QED BY <1>1, <2>2, <3>1 DEF Places
  <2> QED BY <2>1, <2>2
<1> HIDE DEF A, h, u
<1>3. \A j \in Nat : j \in Places(u, a) => j + 1 \in Places(q, a) /\ j + 1 # 1
  BY <1>1 DEF Places
<1>4. \A i \in Places(q, a) : i # 1 => i - 1 \in Places(u, a) /\ i \in Nat
  BY <1>1 DEF Places
<1>5. Places(u, a) \subseteq Nat
  BY DEF Places
<1>6. ASSUME Places(q, a) = {} PROVE Places(u, a) = {} /\ A = {}
  BY <1>2, <1>3, <1>5, <1>6
<1>7. ASSUME NEW i, Places(q, a) = {i}
      PROVE  \/ Places(u, a) = {} /\ \E x : A = {x}
             \/ (\E x : Places(u, a) = {x}) /\ A = {}
  <2>1. CASE i = 1
    <3>1. Places(u, a) = {}
      BY <1>3, <1>5, <1>7, <2>1
    <3>2. A = {h}
      BY <1>2, <1>7, <2>1
    <3> QED BY <3>1, <3>2
  <2>2. CASE i # 1
    <3>1. A = {}
      BY <1>2, <1>7, <2>2
    <3>2. i - 1 \in Places(u, a) /\ i \in Nat
      BY <1>4, <1>7, <2>2
    <3>3. \A j \in Places(u, a) : j = i - 1
      <4> SUFFICES ASSUME NEW j \in Places(u, a) PROVE j = i - 1
        OBVIOUS
      <4>1. j \in Nat /\ j + 1 = i
        BY <1>3, <1>5, <1>7
      <4> QED BY <3>2, <4>1
    <3>4. Places(u, a) = {i - 1}
      BY <3>2, <3>3
    <3> QED BY <3>1, <3>4
  <2> QED BY <2>1, <2>2
<1> QED BY <1>6, <1>7 DEF A, h, u

LEMMA PassesSettles ==
    ASSUME NEW c, c.queue \in Seq(Cmds), NEW fs, NEW e, NEW gs, NEW T, NEW R,
           Passes(c.queue, e.queue, T), Flows(fs, T, gs, R)
    PROVE  Settles(c, fs, e, gs, R)
<1> SUFFICES ASSUME NEW a
             PROVE  /\ None(c, fs, a) => About(R, a) = {} /\ None(e, gs, a)
                    /\ Single(c, fs, a) =>
                         \/ About(R, a) = {} /\ Single(e, gs, a)
                         \/ (\E x : About(R, a) = {x}) /\ None(e, gs, a)
  BY DEF Settles
<1> DEFINE P == Places(c.queue, a)
           Q == Places(e.queue, a)
           A == About(T, a)
<1>1. /\ P = {} => Q = {} /\ A = {}
      /\ \A i : P = {i} => \/ Q = {} /\ \E x : A = {x}
                           \/ (\E x : Q = {x}) /\ A = {}
  <2>1. CASE e.queue = c.queue /\ T = {}
    <3>1. Q = P /\ A = {}
      BY <2>1, AboutFacts
    <3> QED BY <3>1
  <2>2. CASE c.queue # <<>> /\ e.queue = Tail(c.queue) /\ T = Asked(Head(c.queue))
    <3>1. /\ Places(c.queue, a) = {} =>
               Places(Tail(c.queue), a) = {} /\ About(Asked(Head(c.queue)), a) = {}
          /\ \A i : Places(c.queue, a) = {i} =>
               \/ Places(Tail(c.queue), a) = {} /\ \E x : About(Asked(Head(c.queue)), a) = {x}
               \/ (\E x : Places(Tail(c.queue), a) = {x})
                  /\ About(Asked(Head(c.queue)), a) = {}
      BY <2>2, TailPlaces
    <3> QED BY <2>2, <3>1
  <2> QED BY <2>1, <2>2 DEF Passes
<1>2. /\ Empty(fs, T, a) => Empty(gs, R, a)
      /\ Once(fs, T, a) => Once(gs, R, a)
  BY DEF Flows
<1> DEFINE D == About(fs.deferred, a)
           U == About(fs.running, a)
           B == About(R, a)
           E == About(gs.deferred, a)
           V == About(gs.running, a)
<1>3. /\ None(c, fs, a) = Nothing(P, D, U) /\ Single(c, fs, a) = Alone(P, D, U)
      /\ None(e, gs, a) = Nothing(Q, E, V) /\ Single(e, gs, a) = Alone(Q, E, V)
      /\ Nothing(A, D, U) => Nothing(B, E, V)
      /\ Alone(A, D, U) => Alone(B, E, V)
  BY <1>2 DEF None, Single, Empty, Once
<1> HIDE DEF P, Q, A, D, U, B, E, V
<1>4. ASSUME Nothing(P, D, U) PROVE B = {} /\ Nothing(Q, E, V)
  BY <1>1, <1>3, <1>4 DEF Nothing
<1>5. ASSUME Alone(P, D, U)
      PROVE  \/ B = {} /\ Alone(Q, E, V)
             \/ (\E x : B = {x}) /\ Nothing(Q, E, V)
  <2>1. ASSUME Q = {}, Alone(B, E, V)
        PROVE  \/ B = {} /\ Alone(Q, E, V)
               \/ (\E x : B = {x}) /\ Nothing(Q, E, V)
    BY <2>1 DEF Alone, Nothing
  <2>2. CASE P = {}
    BY <1>1, <1>3, <1>5, <2>1, <2>2 DEF Alone
  <2>3. CASE P # {}
    <3>1. PICK i : P = {i} /\ D = {} /\ U = {}
      BY <1>5, <2>3 DEF Alone
    <3>2. CASE Q = {} /\ \E x : A = {x}
      BY <1>3, <2>1, <3>1, <3>2 DEF Alone
    <3>3. CASE (\E x : Q = {x}) /\ A = {}
      BY <1>3, <3>1, <3>3 DEF Alone, Nothing
    <3> QED BY <1>1, <3>1, <3>2, <3>3
  <2> QED BY <2>2, <2>3
<1> QED BY <1>3, <1>4, <1>5 DEF B

Settled(t, e, gs, R) ==
    /\ task' = [task EXCEPT ![t] = e]
    /\ flights' = [flights EXCEPT ![t] = gs]
    /\ Answer(R)
    /\ Settles(task[t], flights[t], e, gs, R)

LEMMA NobodyAnswered ==
    ASSUME owed \in [Asks -> {0, 1}], owed' = owed PROVE Answer({})
<1>1. \A a : Cardinality(About({}, a)) = 0
  BY AboutFacts, FS_EmptySet
<1>2. \A a \in Asks : owed[a] - Cardinality(About({}, a)) = owed[a]
  BY <1>1
<1>3. owed = [a \in Asks |-> owed[a] - Cardinality(About({}, a))]
  BY <1>2
<1> QED BY <1>3 DEF Answer, About

LEMMA LoseSettles ==
    ASSUME NEW t \in Tokens, task[t] \in TaskRec, NEW f \in TaskRec, NEW hung, NEW T,
           Lose(t, f, hung, T), Passes(task[t].queue, f.queue, T)
    PROVE  \E e, gs, R : Settled(t, e, gs, R)
<1>1. PICK state :
          /\ task' = [task EXCEPT ![t] = Down(f, state)]
          /\ flights' = [flights EXCEPT ![t] = NoFlights]
          /\ Answer(flights[t].deferred \cup flights[t].running \cup T)
  BY DEF Lose
<1> DEFINE e == Down(f, state)
           R == flights[t].deferred \cup flights[t].running \cup T
<1>2. e.queue = f.queue
  BY DEF Down, TaskRec
<1>3. task[t].queue \in Seq(Cmds)
  BY TaskFacts
<1>4. Flows(flights[t], T, NoFlights, R)
  BY LoseFlows
<1> HIDE DEF e, R
<1>5. Settles(task[t], flights[t], e, NoFlights, R)
  BY <1>2, <1>3, <1>4, PassesSettles
<1>6. Settled(t, e, NoFlights, R)
  BY <1>1, <1>5 DEF Settled, e, R
<1> QED BY <1>6

LEMMA GoSettles ==
    ASSUME NEW t \in Tokens, task[t] \in TaskRec, NEW e, NEW gs \in FlightRec, NEW T, NEW R,
           Go(t, e, gs), Answer(R), Passes(task[t].queue, e.queue, T),
           Flows(flights[t], T, gs, R)
    PROVE  \E f, hs, S : Settled(t, f, hs, S)
<1> DEFINE l == Launched(e, gs)
<1>1. task' = [task EXCEPT ![t] = e] /\ flights' = [flights EXCEPT ![t] = l]
  BY DEF Go
<1>2. Flows(flights[t], T, l, R)
  BY LaunchFlows
<1>3. task[t].queue \in Seq(Cmds)
  BY TaskFacts
<1> HIDE DEF l
<1>4. Settles(task[t], flights[t], e, l, R)
  BY <1>2, <1>3, PassesSettles
<1>5. Settled(t, e, l, R)
  BY <1>1, <1>4 DEF Settled
<1> QED BY <1>5

-----------------------------------------------------------------------------
(* Every step of a task settles what it takes *)

LEMMA ChangeSettles ==
    ASSUME NEW t \in Tokens, TaskOK(task[t], flights[t]), owed \in [Asks -> {0, 1}],
           TakeChange(t)
    PROVE  \E e, gs, R : Settled(t, e, gs, R)
<1> DEFINE c == task[t]
           k == Taken(t)
           h == Head(c.queue)
           other == k.pending # Nil /\ k.pending.doc # h.doc
<1>1. c.queue # <<>> /\ h.op = "change"
  BY DEF TakeChange, Taking
<1>2. /\ c \in TaskRec /\ k \in TaskRec /\ k.queue = Tail(c.queue)
      /\ flights[t] \in FlightRec
  BY <1>1, TakenSync
<1>3. Asked(h) = {}
  BY <1>1 DEF Asked
<1>4. PICK flush \in Sends :
        LET f == IF other THEN Flushed(k, flush) ELSE k IN
        \/ Lose(t, f, FALSE, {})
        \/ /\ Go(t, [f EXCEPT !.pending = Coalesced(f.pending, h, KeepsDelta(c, h))], flights[t])
           /\ UNCHANGED owed
  <2>1. PICK flush \in IF other THEN Sends ELSE {"ok"} :
          LET f == IF other THEN Flushed(k, flush) ELSE k IN
          \/ Lose(t, f, FALSE, {})
          \/ /\ Go(t, [f EXCEPT !.pending = Coalesced(f.pending, h, KeepsDelta(c, h))], flights[t])
             /\ UNCHANGED owed
    BY DEF TakeChange
  <2>2. flush \in Sends
    BY <2>1 DEF Sends
  <2> QED BY <2>1, <2>2
<1> DEFINE f == IF other THEN Flushed(k, flush) ELSE k
           e == [f EXCEPT !.pending = Coalesced(f.pending, h, KeepsDelta(c, h))]
<1>5. Lose(t, f, FALSE, {}) \/ (Go(t, e, flights[t]) /\ UNCHANGED owed)
  BY <1>4
<1>6. f \in TaskRec /\ f.queue = Tail(c.queue)
  BY <1>2, FlushKeeps
<1> HIDE DEF f
<1>7. e.queue = Tail(c.queue)
  BY <1>6 DEF TaskRec
<1> HIDE DEF e
<1>8. Passes(c.queue, f.queue, {}) /\ Passes(c.queue, e.queue, {})
  BY <1>1, <1>3, <1>6, <1>7 DEF Passes
<1>9. CASE Lose(t, f, FALSE, {})
  BY <1>2, <1>6, <1>8, <1>9, LoseSettles
<1>10. CASE Go(t, e, flights[t]) /\ UNCHANGED owed
  BY <1>2, <1>8, <1>10, NobodyAnswered, StayFlows, GoSettles
<1> QED BY <1>5, <1>9, <1>10

LEMMA NoticeSettles ==
    ASSUME NEW t \in Tokens, TaskOK(task[t], flights[t]), owed \in [Asks -> {0, 1}],
           TakeNotice(t)
    PROVE  \E e, gs, R : Settled(t, e, gs, R)
<1> DEFINE c == task[t]
           k == Taken(t)
           h == Head(c.queue)
<1>1. c.queue # <<>> /\ h.op \in {"open", "close", "save"}
  BY DEF TakeNotice, Taking
<1>2. /\ c \in TaskRec /\ k \in TaskRec /\ k.queue = Tail(c.queue) /\ h \in Cmds
      /\ flights[t] \in FlightRec
  BY <1>1, TakenSync
<1>3. Asked(h) = {}
  BY <1>1 DEF Asked
<1>4. PICK flush \in Sends, sent \in Sends :
        \/ Lose(t, Flushed(k, flush), FALSE, {})
        \/ /\ Go(t, [Received(Flushed(k, flush), h, sent) EXCEPT
                       !.tally = IF sent = "full" THEN Noted(@, "error") ELSE @], flights[t])
           /\ UNCHANGED owed
  <2>1. FlushOutcomes(k) \subseteq Sends
    BY DEF FlushOutcomes, Sends
  <2> QED BY <2>1 DEF TakeNotice
<1> DEFINE f == Flushed(k, flush)
           g == Received(f, h, sent)
           e == [g EXCEPT !.tally = IF sent = "full" THEN Noted(@, "error") ELSE @]
<1>5. Lose(t, f, FALSE, {}) \/ (Go(t, e, flights[t]) /\ UNCHANGED owed)
  BY <1>4
<1>6. f \in TaskRec /\ f.queue = Tail(c.queue)
  BY <1>2, FlushKeeps
<1> HIDE DEF f
<1>7. g \in TaskRec /\ g.queue = Tail(c.queue)
  <2>1. CASE h.op = "save"
    BY <1>6, <2>1 DEF Received
  <2>2. CASE h.op \in {"open", "close"}
    BY <1>2, <1>6, <2>2, ReceivedIs
  <2> QED BY <1>1, <2>1, <2>2
<1> HIDE DEF g
<1>8. e.queue = Tail(c.queue)
  BY <1>7 DEF TaskRec
<1> HIDE DEF e
<1>9. Passes(c.queue, f.queue, {}) /\ Passes(c.queue, e.queue, {})
  BY <1>1, <1>3, <1>6, <1>8 DEF Passes
<1>10. CASE Lose(t, f, FALSE, {})
  BY <1>2, <1>6, <1>9, <1>10, LoseSettles
<1>11. CASE Go(t, e, flights[t]) /\ UNCHANGED owed
  BY <1>2, <1>9, <1>11, NobodyAnswered, StayFlows, GoSettles
<1> QED BY <1>5, <1>10, <1>11

LEMMA HintSettles ==
    ASSUME NEW t \in Tokens, TaskOK(task[t], flights[t]), TakeHint(t)
    PROVE  \E e, gs, R : Settled(t, e, gs, R)
<1> DEFINE c == task[t]
           k == Taken(t)
           h == Head(c.queue)
           gs == Deferring(flights[t], h)
           R == Superseded(flights[t], h)
<1>1. c.queue # <<>> /\ h.op = "hint" /\ Go(t, k, gs) /\ Answer(R)
  BY DEF TakeHint, Taking
<1>2. /\ c \in TaskRec /\ k \in TaskRec /\ k.queue = Tail(c.queue) /\ h \in Cmds
      /\ flights[t] \in FlightRec
  BY <1>1, TakenSync
<1>3. h \in Requests /\ Asked(h) = {h}
  BY <1>1, <1>2, CmdFacts DEF Asked
<1>4. gs \in FlightRec
  BY <1>2, <1>3 DEF Deferring, FlightRec
<1>5. Flows(flights[t], {h}, gs, R)
  BY <1>2, DeferFlows
<1>6. Passes(c.queue, k.queue, {h})
  BY <1>1, <1>2, <1>3 DEF Passes
<1> HIDE DEF gs, R, k, h
<1> QED BY <1>1, <1>2, <1>4, <1>5, <1>6, GoSettles

LEMMA RequestSettles ==
    ASSUME NEW t \in Tokens, TaskOK(task[t], flights[t]), TakeRequest(t)
    PROVE  \E e, gs, R : Settled(t, e, gs, R)
<1> DEFINE c == task[t]
           k == Taken(t)
           h == Head(c.queue)
<1>1. c.queue # <<>> /\ h.op = "request"
  BY DEF TakeRequest, Taking
<1>2. /\ c \in TaskRec /\ k \in TaskRec /\ k.queue = Tail(c.queue) /\ h \in Cmds
      /\ flights[t] \in FlightRec
  BY <1>1, TakenSync
<1>3. Asked(h) = {h}
  BY <1>1 DEF Asked
<1>4. PICK flush \in Sends, outcome \in {"ok", "refused", "error", "timeout", "closed"} :
        \/ Lose(t, Flushed(k, flush), Condemned(Flushed(k, flush).tally, outcome), {h})
        \/ /\ Go(t, [Flushed(k, flush) EXCEPT !.tally = Noted(@, outcome)], flights[t])
           /\ Answer({h})
  <2>1. FlushOutcomes(k) \subseteq Sends
    BY DEF FlushOutcomes, Sends
  <2> QED BY <2>1 DEF TakeRequest
<1> DEFINE f == Flushed(k, flush)
           e == [f EXCEPT !.tally = Noted(@, outcome)]
<1>5. \/ Lose(t, f, Condemned(f.tally, outcome), {h})
      \/ (Go(t, e, flights[t]) /\ Answer({h}))
  BY <1>4
<1>6. f \in TaskRec /\ f.queue = Tail(c.queue)
  BY <1>2, FlushKeeps
<1> HIDE DEF f
<1>7. e.queue = Tail(c.queue)
  BY <1>6 DEF TaskRec
<1> HIDE DEF e
<1>8. Passes(c.queue, f.queue, {h}) /\ Passes(c.queue, e.queue, {h})
  BY <1>1, <1>3, <1>6, <1>7 DEF Passes
<1> HIDE DEF h
<1>9. CASE Lose(t, f, Condemned(f.tally, outcome), {h})
  BY <1>2, <1>6, <1>8, <1>9, LoseSettles
<1>10. CASE Go(t, e, flights[t]) /\ Answer({h})
  BY <1>2, <1>8, <1>10, StayFlows, GoSettles
<1> QED BY <1>5, <1>9, <1>10

LEMMA QuietSettles ==
    ASSUME NEW t \in Tokens, TaskOK(task[t], flights[t]), owed \in [Asks -> {0, 1}],
           Quiet(t) \/ Lost(t)
    PROVE  \E e, gs, R : Settled(t, e, gs, R)
<1>1. /\ task[t] \in TaskRec /\ flights[t] \in FlightRec
      /\ Passes(task[t].queue, task[t].queue, {})
  BY DEF TaskOK, Passes
<1>2. CASE Lost(t)
  BY <1>1, <1>2, LoseSettles DEF Lost
<1>3. CASE Quiet(t)
  <2>1. PICK flush \in Sends :
          \/ Lose(t, Flushed(task[t], flush), FALSE, {})
          \/ (Go(t, Flushed(task[t], flush), flights[t]) /\ UNCHANGED owed)
    BY <1>3 DEF Quiet
  <2> DEFINE f == Flushed(task[t], flush)
  <2>2. f \in TaskRec /\ f.queue = task[t].queue
    BY <1>1, FlushKeeps
  <2>3. Passes(task[t].queue, f.queue, {})
    BY <2>2 DEF Passes
  <2> HIDE DEF f
  <2>4. CASE Lose(t, f, FALSE, {})
    BY <1>1, <2>2, <2>3, <2>4, LoseSettles
  <2>5. CASE Go(t, f, flights[t]) /\ UNCHANGED owed
    BY <1>1, <2>3, <2>5, NobodyAnswered, StayFlows, GoSettles
  <2> QED BY <2>1, <2>4, <2>5 DEF f
<1> QED BY <1>2, <1>3

LEMMA FinishSettles ==
    ASSUME NEW t \in Tokens, TaskOK(task[t], flights[t]), FinishHints(t)
    PROVE  \E e, gs, R : Settled(t, e, gs, R)
<1>1. /\ task[t] \in TaskRec /\ flights[t] \in FlightRec
      /\ Passes(task[t].queue, task[t].queue, {})
  BY DEF TaskOK, Passes
<1>2. PICK f \in flights[t].running : FinishHint(t, f)
  BY DEF FinishHints
<1> DEFINE gs == [flights[t] EXCEPT !.running = @ \ {f}]
<1>3. PICK outcome \in {"ok", "failed", "closed"} :
        \/ Lose(t, task[t], FALSE, {})
        \/ /\ Go(t, [task[t] EXCEPT !.tally.answered = @ \/ outcome = "ok"], gs)
           /\ Answer({f})
  BY <1>2 DEF FinishHint
<1> DEFINE e == [task[t] EXCEPT !.tally.answered = @ \/ outcome = "ok"]
<1>4. Lose(t, task[t], FALSE, {}) \/ (Go(t, e, gs) /\ Answer({f}))
  BY <1>3
<1>5. e.queue = task[t].queue
  BY <1>1 DEF TaskRec
<1>6. gs \in FlightRec
  BY <1>1 DEF FlightRec
<1>7. Flows(flights[t], {}, gs, {f})
  BY <1>1, <1>2, FinishFlows
<1> HIDE DEF e, gs
<1>8. Passes(task[t].queue, e.queue, {})
  BY <1>5 DEF Passes
<1>9. CASE Lose(t, task[t], FALSE, {})
  BY <1>1, <1>9, LoseSettles
<1>10. CASE Go(t, e, gs) /\ Answer({f})
  BY <1>1, <1>6, <1>7, <1>8, <1>10, GoSettles
<1> QED BY <1>4, <1>9, <1>10

\* Without a connection, the one request that is taken is answered.
LEMMA OfflineSettles ==
    ASSUME NEW t \in Tokens, TaskOK(task[t], flights[t]), flights = [u \in Tokens |-> flights[u]],
           TakeOffline(t)
    PROVE  \E e, gs, R : Settled(t, e, gs, R)
<1> DEFINE c == task[t]
           k == Taken(t)
           h == Head(c.queue)
<1>1. c.queue # <<>> /\ task' = [task EXCEPT ![t] = k] /\ flights' = flights
      /\ Answer(Asked(h))
  BY DEF TakeOffline, Taking, Asked
<1>2. c \in TaskRec /\ k.queue = Tail(c.queue) /\ c.queue \in Seq(Cmds)
  BY <1>1, TakenSync, TaskFacts
<1>3. Passes(c.queue, k.queue, Asked(h))
  BY <1>1, <1>2 DEF Passes
<1>4. flights' = [flights EXCEPT ![t] = flights[t]]
  BY <1>1
<1> HIDE DEF k, h
<1>5. Settles(c, flights[t], k, flights[t], Asked(h))
  BY <1>2, <1>3, StayFlows, PassesSettles
<1>6. Settled(t, k, flights[t], Asked(h))
  BY <1>1, <1>4, <1>5 DEF Settled
<1> QED BY <1>6

LEMMA LaunchSettles ==
    ASSUME NEW t \in Tokens, TaskOK(task[t], flights[t]), flights = [u \in Tokens |-> flights[u]],
           owed \in [Asks -> {0, 1}], Launch(t)
    PROVE  \E e, gs, R : Settled(t, e, gs, R)
<1>1. task[t] \in TaskRec /\ task[t].queue \in Seq(Cmds)
  BY TaskFacts DEF TaskOK
<1>2. flights' = flights /\ owed' = owed
  BY DEF Launch, Connect, ReplayFails, Unavailable, LaunchFails, Launching
<1>3. PICK e : task' = [task EXCEPT ![t] = e] /\ e.queue = task[t].queue
  <2>1. CASE Connect(t)
    <3> DEFINE e == [task[t] EXCEPT !.phase = "Running", !.worked = TRUE,
                       !.server.copy = [d \in Docs |-> IF task[t].replay[d] = Nil THEN Nil
                                                       ELSE task[t].replay[d].text]]
    <3>1. task' = [task EXCEPT ![t] = e]
      BY <2>1 DEF Connect
    <3>2. e.queue = task[t].queue
      BY <1>1 DEF TaskRec
    <3> HIDE DEF e
    <3> QED BY <3>1, <3>2
  <2>2. CASE ReplayFails(t) \/ LaunchFails(t)
    <3>1. PICK state : task' = [task EXCEPT ![t] = Down(task[t], state)]
      BY <2>2 DEF ReplayFails, LaunchFails
    <3>2. Down(task[t], state).queue = task[t].queue
      BY <1>1 DEF Down, TaskRec
    <3> QED BY <3>1, <3>2
  <2>3. CASE Unavailable(t)
    <3> DEFINE e == [task[t] EXCEPT !.phase = "Unavailable"]
    <3>1. task' = [task EXCEPT ![t] = e]
      BY <2>3 DEF Unavailable
    <3>2. e.queue = task[t].queue
      BY <1>1 DEF TaskRec
    <3> HIDE DEF e
    <3> QED BY <3>1, <3>2
  <2> QED BY <2>1, <2>2, <2>3 DEF Launch
<1>4. Passes(task[t].queue, e.queue, {})
  BY <1>3 DEF Passes
<1>5. flights' = [flights EXCEPT ![t] = flights[t]] /\ Answer({})
  BY <1>2, NobodyAnswered
<1>6. Settles(task[t], flights[t], e, flights[t], {})
  BY <1>1, <1>4, StayFlows, PassesSettles
<1>7. Settled(t, e, flights[t], {})
  BY <1>3, <1>5, <1>6 DEF Settled
<1> QED BY <1>7

LEMMA EndSettles ==
    ASSUME NEW t \in Tokens, TaskOK(task[t], flights[t]), End(t)
    PROVE  \E e, gs, R : Settled(t, e, gs, R)
<1> DEFINE e == [NewTask EXCEPT !.phase = "Ended"]
           R == flights[t].deferred \cup flights[t].running
<1>1. /\ task' = [task EXCEPT ![t] = e] /\ flights' = [flights EXCEPT ![t] = NoFlights]
      /\ Answer(R) /\ task[t].queue = <<>>
  BY DEF End
<1>2. e.queue = <<>>
  BY DEF NewTask
<1>3. Passes(task[t].queue, e.queue, {}) /\ task[t].queue \in Seq(Cmds)
  BY <1>1, <1>2 DEF Passes
<1>4. Flows(flights[t], {}, NoFlights, R \cup {}) /\ R \cup {} = R
  BY LoseFlows
<1> HIDE DEF e, R
<1>5. Settles(task[t], flights[t], e, NoFlights, R)
  BY <1>3, <1>4, PassesSettles
<1>6. Settled(t, e, NoFlights, R)
  BY <1>1, <1>5 DEF Settled
<1> QED BY <1>6

LEMMA StepSettles ==
    ASSUME NEW t \in Tokens, TaskOK(task[t], flights[t]), flights = [u \in Tokens |-> flights[u]],
           owed \in [Asks -> {0, 1}], RunTask(t) \/ Lost(t)
    PROVE  \E e, gs, R : Settled(t, e, gs, R)
  BY ChangeSettles, NoticeSettles, HintSettles, RequestSettles, OfflineSettles, QuietSettles,
     FinishSettles, LaunchSettles, EndSettles DEF RunTask, Serve

-----------------------------------------------------------------------------
(* Who has a request that is owed an answer *)

Unheld(a) == \A t \in Tokens : None(task[t], flights[t], a)
HeldOnce(a) ==
    \E t \in Tokens :
       /\ Single(task[t], flights[t], a)
       /\ \A u \in Tokens \ {t} : None(task[u], flights[u], a)

AskInv ==
    /\ owed \in [Asks -> {0, 1}]
    /\ \A a \in Asks : IF owed[a] = 0 THEN Unheld(a) ELSE HeldOnce(a)

LEMMA StepKeepsAsks ==
    ASSUME AskInv, TasksOK, NEW t \in Tokens, RunTask(t) \/ Lost(t)
    PROVE  AskInv'
<1>1. /\ TaskOK(task[t], flights[t]) /\ owed \in [Asks -> {0, 1}]
      /\ task = [u \in Tokens |-> task[u]] /\ flights = [u \in Tokens |-> flights[u]]
  BY DEF TasksOK, AskInv
<1>2. PICK e, gs, R : Settled(t, e, gs, R)
  BY <1>1, StepSettles
<1>3. /\ task'[t] = e /\ flights'[t] = gs
      /\ \A u \in Tokens \ {t} : task'[u] = task[u] /\ flights'[u] = flights[u]
  BY <1>1, <1>2 DEF Settled
<1>4. owed' = [a \in Asks |-> owed[a] - Cardinality(About(R, a))]
  BY <1>2 DEF Settled, Answer, About
<1>5. Settles(task[t], flights[t], e, gs, R)
  BY <1>2 DEF Settled
<1>6. Cardinality({}) = 0 /\ \A x : Cardinality({x}) = 1
  BY FS_EmptySet, FS_Singleton
<1>7. ASSUME NEW a \in Asks
      PROVE  owed'[a] \in {0, 1} /\ IF owed'[a] = 0 THEN Unheld(a)' ELSE HeldOnce(a)'
  <2> DEFINE mine == None(task[t], flights[t], a)
             B == About(R, a)
  <2>1. /\ None(task[t], flights[t], a) => B = {} /\ None(e, gs, a)
        /\ Single(task[t], flights[t], a) => \/ B = {} /\ Single(e, gs, a)
                                             \/ (\E x : B = {x}) /\ None(e, gs, a)
    BY <1>5 DEF Settles
  <2>2. owed'[a] = owed[a] - Cardinality(B)
    BY <1>4
  <2> HIDE DEF B
  <2>3. CASE owed[a] = 0
    <3>1. Unheld(a)
      BY <2>3 DEF AskInv
    <3>2. B = {} /\ None(e, gs, a)
      BY <2>1, <3>1 DEF Unheld
    <3>3. owed'[a] = 0
      BY <1>6, <2>2, <2>3, <3>2
    <3>4. \A u \in Tokens : None(task'[u], flights'[u], a)
      BY <1>3, <3>1, <3>2 DEF Unheld
    <3> QED BY <3>3, <3>4 DEF Unheld
  <2>4. CASE owed[a] # 0
    <3>1. owed[a] = 1 /\ HeldOnce(a)
      BY <2>4 DEF AskInv
    <3>2. PICK v \in Tokens : /\ Single(task[v], flights[v], a)
                              /\ \A u \in Tokens \ {v} : None(task[u], flights[u], a)
      BY <3>1 DEF HeldOnce
    <3>3. CASE v # t
      <4>1. B = {} /\ None(e, gs, a)
        BY <2>1, <3>2, <3>3
      <4>2. owed'[a] = 1
        BY <1>6, <2>2, <3>1, <4>1
      <4>3. /\ Single(task'[v], flights'[v], a)
            /\ \A u \in Tokens \ {v} : None(task'[u], flights'[u], a)
        BY <1>3, <3>2, <3>3, <4>1
      <4> QED BY <4>2, <4>3 DEF HeldOnce
    <3>4. CASE v = t /\ B = {} /\ Single(e, gs, a)
      <4>1. owed'[a] = 1
        BY <1>6, <2>2, <3>1, <3>4
      <4>2. /\ Single(task'[v], flights'[v], a)
            /\ \A u \in Tokens \ {v} : None(task'[u], flights'[u], a)
        BY <1>3, <3>2, <3>4
      <4> QED BY <4>1, <4>2 DEF HeldOnce
    <3>5. CASE v = t /\ (\E x : B = {x}) /\ None(e, gs, a)
      <4>1. Cardinality(B) = 1
        BY <1>6, <3>5
      <4>2. owed'[a] = 0
        BY <2>2, <3>1, <4>1
      <4>3. \A u \in Tokens : None(task'[u], flights'[u], a)
        BY <1>3, <3>2, <3>5
      <4> QED BY <4>2, <4>3 DEF Unheld
    <3> QED BY <2>1, <3>2, <3>3, <3>4, <3>5
  <2> QED BY <2>3, <2>4
<1>8. owed' \in [Asks -> {0, 1}]
  BY <1>4, <1>7
<1>9. (\A a \in Asks : IF owed[a] = 0 THEN Unheld(a) ELSE HeldOnce(a))'
  BY <1>7
<1> QED BY <1>8, <1>9 DEF AskInv

\* Commands that are no requests add none.
LEMMA SamePlacesKeepAsks ==
    ASSUME AskInv, UNCHANGED <<flights, owed>>,
           \A t \in Tokens : \A a : Places(task'[t].queue, a) = Places(task[t].queue, a)
    PROVE  AskInv'
<1>1. \A t \in Tokens : \A a : /\ None(task'[t], flights'[t], a) = None(task[t], flights[t], a)
                               /\ Single(task'[t], flights'[t], a) = Single(task[t], flights[t], a)
  BY DEF None, Single
<1>2. \A a \in Asks : Unheld(a)' = Unheld(a) /\ HeldOnce(a)' = HeldOnce(a)
  BY <1>1 DEF Unheld, HeldOnce
<1> QED BY <1>2 DEF AskInv

LEMMA AppendPlaces ==
    ASSUME NEW q \in Seq(Cmds), NEW cmd \in Cmds, NEW a
    PROVE  /\ cmd.op \in {"hint", "request"} /\ cmd.ask = a =>
                Places(Append(q, cmd), a) = Places(q, a) \cup {Len(q) + 1}
           /\ ~(cmd.op \in {"hint", "request"} /\ cmd.ask = a) =>
                Places(Append(q, cmd), a) = Places(q, a)
<1> DEFINE u == Append(q, cmd)
<1>1. /\ Len(u) = Len(q) + 1 /\ Len(q) \in Nat /\ u[Len(q) + 1] = cmd
      /\ \A i \in 1..Len(q) : u[i] = q[i] /\ i \in 1..Len(u)
      /\ \A i \in 1..Len(u) : i # Len(q) + 1 => i \in 1..Len(q)
  BY AppendFacts
<1>2. Len(q) + 1 \in 1..Len(u) /\ Len(q) + 1 \notin 1..Len(q)
  BY <1>1
<1> HIDE DEF u
<1>3. \A i : i # Len(q) + 1 => (i \in Places(u, a) <=> i \in Places(q, a))
  BY <1>1 DEF Places
<1>4. /\ Len(q) + 1 \notin Places(q, a)
      /\ Len(q) + 1 \in Places(u, a) <=> cmd.op \in {"hint", "request"} /\ cmd.ask = a
  BY <1>1, <1>2 DEF Places
<1>5. CASE cmd.op \in {"hint", "request"} /\ cmd.ask = a
  <2>1. Places(u, a) = Places(q, a) \cup {Len(q) + 1}
    BY <1>3, <1>4, <1>5
  <2> QED BY <1>5, <2>1 DEF u
<1>6. CASE ~(cmd.op \in {"hint", "request"} /\ cmd.ask = a)
  <2>1. \A i : i \in Places(u, a) <=> i \in Places(q, a)
    BY <1>3, <1>4, <1>6
  <2>2. Places(u, a) = Places(q, a)
    BY <2>1
  <2> QED BY <1>6, <2>2 DEF u
<1> QED BY <1>5, <1>6

\* What a queue takes is a command, if every queue is typed before and after.
LEMMA QueueAsks ==
    ASSUME TasksOK, TasksOK', NEW t \in Tokens, NEW cmd, Queue(t, cmd)
    PROVE  /\ cmd \in Cmds /\ task[t].queue \in Seq(Cmds)
           /\ task'[t].queue = Append(task[t].queue, cmd)
           /\ \A u \in Tokens \ {t} : task'[u] = task[u]
<1> DEFINE q == task[t].queue
           C == Cmds \cup {cmd}
<1>1. task[t] \in TaskRec /\ task = [u \in Tokens |-> task[u]]
  BY DEF TasksOK, TaskOK
<1>2. task'[t] \in TaskRec
  BY DEF TasksOK, TaskOK
<1>3. q \in Seq(Cmds) /\ task'[t].queue \in Seq(Cmds)
  BY <1>1, <1>2, TaskFacts
<1>4. task' = [task EXCEPT ![t] = [task[t] EXCEPT !.queue = Append(@, cmd)]]
  BY DEF Queue
<1>5. task'[t] = [task[t] EXCEPT !.queue = Append(@, cmd)]
      /\ \A u \in Tokens \ {t} : task'[u] = task[u]
  BY <1>1, <1>4
<1>6. task'[t].queue = Append(q, cmd)
  BY <1>1, <1>5 DEF TaskRec
<1> HIDE DEF q
<1>7. q \in Seq(C) /\ cmd \in C
  BY <1>3
<1>8. Len(Append(q, cmd)) = Len(q) + 1 /\ Append(q, cmd)[Len(q) + 1] = cmd /\ Len(q) \in Nat
  BY <1>7
<1>9. cmd \in Cmds
  <2>1. Append(q, cmd) \in Seq(Cmds) /\ Len(q) + 1 \in 1..Len(Append(q, cmd))
    BY <1>3, <1>6, <1>8
  <2>2. Append(q, cmd)[Len(q) + 1] \in Cmds
    BY <2>1
  <2> QED BY <1>8, <2>2
<1> QED BY <1>3, <1>5, <1>6, <1>9 DEF q

LEMMA AskKeepsAsks ==
    ASSUME AskInv, TextInv, TextInv', NEW d \in Docs, NEW op \in {"hint", "request"},
           AskServer(d, op)
    PROVE  AskInv'
<1>1. PICK t, fresh, cmd :
        /\ slot # Nil /\ t = slot.token /\ Queue(t, cmd) /\ flights' = flights
        /\ fresh \in Asks /\ owed[fresh] = 0 /\ owed' = [owed EXCEPT ![fresh] = @ + 1]
        /\ cmd.op \in {"hint", "request"} /\ cmd.ask = fresh
  <2> DEFINE fresh == CHOOSE a \in Asks : owed[a] = 0
             cmd == [op |-> op, ask |-> fresh, doc |-> d, text |-> told[d]]
  <2>1. /\ slot # Nil /\ Queue(slot.token, cmd) /\ flights' = flights
        /\ \E a \in Asks : owed[a] = 0
        /\ owed' = [owed EXCEPT ![fresh] = @ + 1]
    BY DEF AskServer, Attached
  <2>2. fresh \in Asks /\ owed[fresh] = 0
    BY <2>1
  <2>3. cmd.op \in {"hint", "request"} /\ cmd.ask = fresh
    OBVIOUS
  <2> HIDE DEF fresh, cmd
  <2> QED BY <2>1, <2>2, <2>3
<1>2. t \in Tokens
  BY <1>1 DEF TextInv, SlotOK
<1>3. cmd.op \in {"hint", "request"} /\ cmd.ask = fresh /\ fresh \in Asks /\ owed[fresh] = 0
  BY <1>1
<1> DEFINE q == task[t].queue
<1>4. /\ cmd \in Cmds /\ q \in Seq(Cmds) /\ task'[t].queue = Append(q, cmd)
      /\ \A u \in Tokens \ {t} : task'[u] = task[u]
  BY <1>1, <1>2, QueueAsks DEF TextInv
<1>5. owed \in [Asks -> {0, 1}]
  BY DEF AskInv
<1>6. owed' \in [Asks -> {0, 1}] /\ owed'[fresh] = 1
      /\ \A a \in Asks \ {fresh} : owed'[a] = owed[a]
  BY <1>1, <1>3, <1>5
<1>7. ASSUME NEW a \in Asks, a # fresh
      PROVE  IF owed'[a] = 0 THEN Unheld(a)' ELSE HeldOnce(a)'
  <2>1. Places(task'[t].queue, a) = Places(task[t].queue, a)
    BY <1>3, <1>4, <1>7, AppendPlaces
  <2>2. \A u \in Tokens : Places(task'[u].queue, a) = Places(task[u].queue, a)
    BY <1>4, <2>1
  <2>3. \A u \in Tokens : /\ None(task'[u], flights'[u], a) = None(task[u], flights[u], a)
                          /\ Single(task'[u], flights'[u], a) = Single(task[u], flights[u], a)
    BY <1>1, <2>2 DEF None, Single
  <2>4. Unheld(a)' = Unheld(a) /\ HeldOnce(a)' = HeldOnce(a)
    BY <2>3 DEF Unheld, HeldOnce
  <2> QED BY <1>6, <1>7, <2>4 DEF AskInv
<1>8. HeldOnce(fresh)'
  <2>1. \A u \in Tokens : None(task[u], flights[u], fresh)
    BY <1>3 DEF AskInv, Unheld
  <2>2. Places(task'[t].queue, fresh) = Places(q, fresh) \cup {Len(q) + 1}
    <3> HIDE DEF q
    <3>1. cmd.op \in {"hint", "request"} /\ cmd.ask = fresh =>
            Places(Append(q, cmd), fresh) = Places(q, fresh) \cup {Len(q) + 1}
      BY <1>4, AppendPlaces
    <3> QED BY <1>3, <1>4, <3>1
  <2>3. /\ Places(q, fresh) = {} /\ About(flights'[t].deferred, fresh) = {}
        /\ About(flights'[t].running, fresh) = {}
    BY <1>1, <1>2, <2>1 DEF None, Nothing
  <2>4. Places(task'[t].queue, fresh) = {Len(q) + 1}
    BY <2>2, <2>3
  <2>5. Single(task'[t], flights'[t], fresh)
    BY <2>3, <2>4 DEF Single, Alone
  <2>6. \A u \in Tokens \ {t} : None(task'[u], flights'[u], fresh)
    BY <1>1, <1>4, <2>1
  <2>7. \E v \in Tokens : /\ Single(task'[v], flights'[v], fresh)
                          /\ \A u \in Tokens \ {v} : None(task'[u], flights'[u], fresh)
    BY <1>2, <2>5, <2>6
  <2> QED BY <2>7 DEF HeldOnce
<1>9. (\A a \in Asks : IF owed[a] = 0 THEN Unheld(a) ELSE HeldOnce(a))'
  BY <1>6, <1>7, <1>8
<1> QED BY <1>6, <1>9 DEF AskInv

\* The other commands of the session.
LEMMA NotesKeepAsks ==
    ASSUME AskInv, TextInv, TextInv', NEW d \in Docs,
           OpenDocument(d) \/ EditDocument(d) \/ SaveDocument(d) \/ CloseDocument(d)
    PROVE  AskInv'
<1>1. flights' = flights /\ owed' = owed
  BY DEF OpenDocument, EditDocument, SaveDocument, CloseDocument
<1>2. \/ task' = task
      \/ \E t \in Tokens : \E cmd : Queue(t, cmd) /\ cmd.op \notin {"hint", "request"}
  <2>1. slot # Nil => slot.token \in Tokens
    BY DEF TextInv, SlotOK
  <2>2. CASE OpenDocument(d)
    <3>1. CASE HasRoom(IF slot = Nil THEN nextToken ELSE slot.token)
      <4>1. /\ (IF slot = Nil THEN nextToken ELSE slot.token) \in Tokens
            /\ Queue(IF slot = Nil THEN nextToken ELSE slot.token, Cmd("open", d, open'[d]))
        BY <2>2, <3>1 DEF OpenDocument
      <4>2. Cmd("open", d, open'[d]).op = "open"
        BY DEF Cmd
      <4> QED BY <4>1, <4>2
    <3>2. CASE ~HasRoom(IF slot = Nil THEN nextToken ELSE slot.token)
      BY <2>2, <3>2 DEF OpenDocument
    <3> QED BY <3>1, <3>2
  <2>3. CASE EditDocument(d)
    <3>1. PICK delta \in BOOLEAN :
            \/ task' = task
            \/ Attached(d) /\ Queue(slot.token, [op |-> "change", doc |-> d, text |-> open'[d],
                                                 delta |-> delta])
      BY <2>3 DEF EditDocument
    <3> DEFINE cmd == [op |-> "change", doc |-> d, text |-> open'[d], delta |-> delta]
    <3>2. cmd.op = "change"
      OBVIOUS
    <3>3. task' = task \/ (Attached(d) /\ Queue(slot.token, cmd))
      BY <3>1
    <3> HIDE DEF cmd
    <3> QED BY <2>1, <3>2, <3>3 DEF Attached
  <2>4. CASE SaveDocument(d)
    <3>1. Queue(slot.token, Cmd("save", d, open[d])) /\ Attached(d)
      BY <2>4 DEF SaveDocument
    <3>2. Cmd("save", d, open[d]).op = "save"
      BY DEF Cmd
    <3> QED BY <2>1, <3>1, <3>2 DEF Attached
  <2>5. CASE CloseDocument(d)
    <3>1. task' = task \/ (Attached(d) /\ Queue(slot.token, Cmd("close", d, Nil)))
      BY <2>5 DEF CloseDocument
    <3>2. Cmd("close", d, Nil).op = "close"
      BY DEF Cmd
    <3> QED BY <2>1, <3>1, <3>2 DEF Attached
  <2> QED BY <2>2, <2>3, <2>4, <2>5
<1>3. CASE task' = task
  BY <1>1, <1>3, SamePlacesKeepAsks
<1>4. ASSUME NEW t \in Tokens, NEW cmd, Queue(t, cmd), cmd.op \notin {"hint", "request"}
      PROVE  AskInv'
  <2>1. /\ cmd \in Cmds /\ task[t].queue \in Seq(Cmds)
        /\ task'[t].queue = Append(task[t].queue, cmd)
        /\ \A u \in Tokens \ {t} : task'[u] = task[u]
    BY <1>4, QueueAsks DEF TextInv
  <2>2. \A a : Places(task'[t].queue, a) = Places(task[t].queue, a)
    BY <1>4, <2>1, AppendPlaces
  <2>3. \A u \in Tokens : \A a : Places(task'[u].queue, a) = Places(task[u].queue, a)
    BY <2>1, <2>2
  <2> QED BY <1>1, <2>3, SamePlacesKeepAsks
<1> QED BY <1>2, <1>3, <1>4

\* The queue a restart starts with holds opens only, and was empty before.
LEMMA RestartKeepsAsks ==
    ASSUME AskInv, TextInv, RestartServer PROVE AskInv'
<1>1. flights' = flights /\ owed' = owed /\ nextToken \in Tokens
  BY DEF RestartServer
<1>2. PICK n \in {Cardinality(slot.documents), Capacity} : \E order \in [1..n -> slot.documents] :
        task' = [task EXCEPT ![nextToken].queue = Opens(n, order, open)]
  <2> DEFINE n == IF Cardinality(slot.documents) < Capacity
                  THEN Cardinality(slot.documents) ELSE Capacity
  <2>1. PICK order \in [1..n -> slot.documents] :
          task' = [task EXCEPT ![nextToken].queue =
                     [i \in 1..n |-> Cmd("open", order[i], open[order[i]])]]
    BY DEF RestartServer
  <2>2. task' = [task EXCEPT ![nextToken].queue = Opens(n, order, open)]
    BY <2>1 DEF Opens
  <2> QED BY <2>2
<1>3. PICK order \in [1..n -> slot.documents] :
        task' = [task EXCEPT ![nextToken].queue = Opens(n, order, open)]
  BY <1>2
<1>4. n \in Nat
  <2>1. slot # Nil /\ IsFiniteSet(slot.documents)
    BY DEF RestartServer, TextInv, SlotOK
  <2> QED BY <2>1, FS_CardinalityType, CapacityHoldsACommand
<1>5. task = [u \in Tokens |-> task[u]] /\ task[nextToken] = NewTask
  BY <1>1 DEF TextInv, TasksOK, Born, SessionOK, Tokens
<1> DEFINE q == Opens(n, order, open)
<1>6. task'[nextToken].queue = q /\ \A u \in Tokens \ {nextToken} : task'[u] = task[u]
  <2> HIDE DEF q
  <2>1. task'[nextToken] = [NewTask EXCEPT !.queue = q]
    BY <1>1, <1>3, <1>5 DEF q
  <2> QED BY <1>1, <1>3, <1>5, <2>1 DEF NewTask
<1>7. \A a : Places(q, a) = {}
  <2>1. Len(q) = n /\ \A i \in 1..n : q[i].op = "open"
    BY <1>4 DEF Opens, Cmd
  <2> HIDE DEF q
  <2> QED BY <2>1 DEF Places
<1>8. \A a : Places(task[nextToken].queue, a) = {}
  <2>1. task[nextToken].queue = <<>>
    BY <1>5 DEF NewTask
  <2>2. Len(<<>>) = 0 /\ 1..0 = {}
    OBVIOUS
  <2> QED BY <2>1, <2>2 DEF Places
<1> HIDE DEF q
<1>9. \A u \in Tokens : \A a : Places(task'[u].queue, a) = Places(task[u].queue, a)
  BY <1>6, <1>7, <1>8
<1> QED BY <1>1, <1>9, SamePlacesKeepAsks

LEMMA InitHoldsAsks == Init => AskInv
<1> SUFFICES ASSUME Init PROVE AskInv
  OBVIOUS
<1>1. owed \in [Asks -> {0, 1}] /\ \A a \in Asks : owed[a] = 0
  BY DEF Init
<1>2. ASSUME NEW t \in Tokens, NEW a PROVE None(task[t], flights[t], a)
  <2>1. task[t].queue = <<>> /\ flights[t] = NoFlights
    BY DEF Init, NewTask
  <2>2. flights[t].deferred = {} /\ flights[t].running = {}
    BY <2>1 DEF NoFlights
  <2>3. Len(<<>>) = 0 /\ 1..0 = {}
    OBVIOUS
  <2>4. Places(<<>>, a) = {}
    BY <2>3 DEF Places
  <2> QED BY <2>1, <2>2, <2>4, AboutFacts DEF None, Nothing
<1> QED BY <1>1, <1>2 DEF AskInv, Unheld

LEMMA AsksAreHeld == Spec => []AskInv
<1>1. TextInv /\ TextInv' /\ AskInv /\ [Next]_vars => AskInv'
  <2> SUFFICES ASSUME TextInv, TextInv', AskInv, [Next]_vars PROVE AskInv'
    OBVIOUS
  <2>1. CASE SessionStep
    <3>1. CASE AdoptReport
      BY <3>1, SamePlacesKeepAsks DEF AdoptReport
    <3> QED BY <2>1, <3>1, NotesKeepAsks, AskKeepsAsks, RestartKeepsAsks DEF SessionStep
  <2>2. CASE \E t \in Tokens : RunTask(t) \/ Lost(t)
    BY <2>2, StepKeepsAsks DEF TextInv
  <2>3. CASE UNCHANGED vars
    BY <2>3, SamePlacesKeepAsks DEF vars
  <2> QED BY <2>1, <2>2, <2>3 DEF Next
<1> QED BY <1>1, InitHoldsAsks, TextsHold, PTL DEF Spec

\* A request a task took is in one place, its queue or its background requests,
\* until exactly one answer is given for it (runtime.rs, hint_flight.rs): what is
\* superseded, lost with a connection or drained offline is answered too.
THEOREM AsksAreConserved == Spec => []AsksConserved
<1>1. AskInv => AsksConserved
  <2> SUFFICES ASSUME AskInv, NEW a \in Asks
               PROVE  LET queued(t) == {i \in 1..Len(task[t].queue) :
                                          task[t].queue[i].op \in {"hint", "request"}
                                          /\ task[t].queue[i].ask = a}
                          flying(t) == {p \in ({"deferred"} \X flights[t].deferred)
                                              \cup ({"running"} \X flights[t].running) :
                                          p[2].ask = a}
                          places == UNION {{<<t, x>> : x \in queued(t)} : t \in Tokens}
                          flown == UNION {{<<t, x>> : x \in flying(t)} : t \in Tokens} IN
                      owed[a] = Cardinality(places) + Cardinality(flown)
    BY DEF AsksConserved
  <2> DEFINE queued(t) == {i \in 1..Len(task[t].queue) :
                             task[t].queue[i].op \in {"hint", "request"}
                             /\ task[t].queue[i].ask = a}
             flying(t) == {p \in ({"deferred"} \X flights[t].deferred)
                                 \cup ({"running"} \X flights[t].running) :
                             p[2].ask = a}
             places == UNION {{<<t, x>> : x \in queued(t)} : t \in Tokens}
             flown == UNION {{<<t, x>> : x \in flying(t)} : t \in Tokens}
  <2>1. \A t : queued(t) = Places(task[t].queue, a)
    BY DEF Places
  <2>2. \A t : flying(t) = ({"deferred"} \X About(flights[t].deferred, a))
                           \cup ({"running"} \X About(flights[t].running, a))
    BY DEF About
  <2>3. \A p : p \in places <=> \E t \in Tokens : \E x \in queued(t) : p = <<t, x>>
    OBVIOUS
  <2>4. \A p : p \in flown <=> \E t \in Tokens : \E x \in flying(t) : p = <<t, x>>
    OBVIOUS
  <2> HIDE DEF queued, flying, places, flown
  <2>5. ASSUME NEW t \in Tokens, None(task[t], flights[t], a)
        PROVE  queued(t) = {} /\ flying(t) = {}
    BY <2>1, <2>2, <2>5 DEF None, Nothing
  <2>6. Cardinality({}) = 0 /\ \A x : Cardinality({x}) = 1
    BY FS_EmptySet, FS_Singleton
  <2>7. CASE owed[a] = 0
    <3>1. \A t \in Tokens : None(task[t], flights[t], a)
      BY <2>7 DEF AskInv, Unheld
    <3>2. places = {} /\ flown = {}
      BY <2>3, <2>4, <2>5, <3>1
    <3>3. Cardinality(places) = 0 /\ Cardinality(flown) = 0
      BY <2>6, <3>2
    <3>4. owed[a] = Cardinality(places) + Cardinality(flown)
      BY <2>7, <3>3
    <3> QED BY <3>4 DEF places, flown, queued, flying
  <2>8. CASE owed[a] # 0
    <3>1. owed[a] = 1 /\ HeldOnce(a)
      BY <2>8 DEF AskInv
    <3>2. PICK t \in Tokens : /\ Single(task[t], flights[t], a)
                              /\ \A u \in Tokens \ {t} : None(task[u], flights[u], a)
      BY <3>1 DEF HeldOnce
    <3>3. \A u \in Tokens : u # t => queued(u) = {} /\ flying(u) = {}
      BY <2>5, <3>2
    <3>4. \/ (\E x : queued(t) = {x}) /\ flying(t) = {}
          \/ queued(t) = {} /\ \E x : flying(t) = {x}
      <4>1. CASE (\E x : Places(task[t].queue, a) = {x})
                 /\ About(flights[t].deferred, a) = {} /\ About(flights[t].running, a) = {}
        BY <2>1, <2>2, <4>1
      <4>2. ASSUME NEW x, Places(task[t].queue, a) = {}, About(flights[t].deferred, a) = {x},
                   About(flights[t].running, a) = {}
            PROVE  queued(t) = {} /\ flying(t) = {<<"deferred", x>>}
        BY <2>1, <2>2, <4>2
      <4>3. ASSUME NEW x, Places(task[t].queue, a) = {}, About(flights[t].deferred, a) = {},
                   About(flights[t].running, a) = {x}
            PROVE  queued(t) = {} /\ flying(t) = {<<"running", x>>}
        BY <2>1, <2>2, <4>3
      <4> QED BY <3>2, <4>1, <4>2, <4>3 DEF Single, Alone
    <3>5. CASE (\E x : queued(t) = {x}) /\ flying(t) = {}
      <4>1. PICK x : queued(t) = {x}
        BY <3>5
      <4>2. places = {<<t, x>>} /\ flown = {}
        BY <2>3, <2>4, <3>3, <3>5, <4>1
      <4>3. Cardinality(places) = 1 /\ Cardinality(flown) = 0
        BY <2>6, <4>2
      <4>4. owed[a] = Cardinality(places) + Cardinality(flown)
        BY <3>1, <4>3
      <4> QED BY <4>4 DEF places, flown, queued, flying
    <3>6. CASE queued(t) = {} /\ \E x : flying(t) = {x}
      <4>1. PICK x : flying(t) = {x}
        BY <3>6
      <4>2. places = {} /\ flown = {<<t, x>>}
        BY <2>3, <2>4, <3>3, <3>6, <4>1
      <4>3. Cardinality(places) = 0 /\ Cardinality(flown) = 1
        BY <2>6, <4>2
      <4>4. owed[a] = Cardinality(places) + Cardinality(flown)
        BY <3>1, <4>3
      <4> QED BY <4>4 DEF places, flown, queued, flying
    <3> QED BY <3>4, <3>5, <3>6
  <2> QED BY <2>7, <2>8
<1> QED BY <1>1, AsksAreHeld, PTL
=============================================================================
