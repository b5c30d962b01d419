--------------------------- MODULE DocumentProofs ---------------------------
(***************************************************************************)
(* Proofs about one document, for any texts and cleanup, any undo limit,   *)
(* any number of parked saves and of runs, and any allowance.              *)
(***************************************************************************)
EXTENDS Document, SequenceTheorems, TLAPS

-----------------------------------------------------------------------------
(* What the history does to its stacks *)

Steps == [from : Texts, to : Texts]

\* The undo half and the redo half of Fits.
FitsBack(text, undo) ==
    /\ undo # <<>> => undo[Len(undo)].to = text
    /\ \A i \in 1..Len(undo) - 1 : undo[i].to = undo[i + 1].from
FitsOn(text, redo) ==
    /\ redo # <<>> => redo[Len(redo)].from = text
    /\ \A i \in 1..Len(redo) - 1 : redo[i].from = redo[i + 1].to

\* Forgetting the oldest steps leaves a history that fits.
LEMMA LimitFits ==
    ASSUME NEW undo \in Seq(Steps), NEW text, FitsBack(text, undo)
    PROVE  EnforceLimit(undo) \in Seq(Steps) /\ FitsBack(text, EnforceLimit(undo))
<1>1. CASE Len(undo) <= UndoLimit
  BY <1>1, LimitKeepsAStep DEF EnforceLimit
<1>2. CASE Len(undo) > UndoLimit
  <2> DEFINE m == Len(undo) - UndoLimit + 1
             kept == SubSeq(undo, m, Len(undo))
  <2>1. m \in 1..Len(undo) + 1 /\ Len(undo) \in m - 1..Len(undo) /\ m <= Len(undo)
    BY <1>2, LimitKeepsAStep
  <2>2. /\ kept \in Seq(Steps) /\ Len(kept) = UndoLimit
        /\ \A i \in 1..UndoLimit : kept[i] = undo[m + i - 1]
    BY <2>1, SubSeqProperties, LimitKeepsAStep
  <2>3. kept[Len(kept)] = undo[Len(undo)]
    BY <2>2, LimitKeepsAStep
  <2>4. undo # <<>>
    BY <1>2, LimitKeepsAStep
  <2>5. ASSUME NEW i \in 1..Len(kept) - 1
        PROVE  kept[i].to = kept[i + 1].from
    <3>1. kept[i] = undo[m + i - 1] /\ kept[i + 1] = undo[m + i]
      BY <2>2, <2>5, LimitKeepsAStep
    <3>2. m + i - 1 \in 1..Len(undo) - 1 /\ (m + i - 1) + 1 = m + i
      BY <2>1, <2>2, <2>5, LimitKeepsAStep
    <3> QED BY <3>1, <3>2 DEF FitsBack
  <2>6. FitsBack(text, kept)
    BY <2>3, <2>4, <2>5 DEF FitsBack
  <2>7. EnforceLimit(undo) = kept
    BY <1>2 DEF EnforceLimit
  <2> QED BY <2>2, <2>6, <2>7
<1> QED BY <1>1, <1>2, LimitKeepsAStep

\* A new step goes on from the text the history leads back from.
LEMMA GrowFits ==
    ASSUME NEW undo \in Seq(Steps), NEW text \in Texts, NEW next \in Texts,
           FitsBack(text, undo)
    PROVE  /\ Append(undo, Step(text, next)) \in Seq(Steps)
           /\ FitsBack(next, Append(undo, Step(text, next)))
<1> DEFINE grown == Append(undo, Step(text, next))
<1>1. Step(text, next) \in Steps /\ Step(text, next).from = text /\ Step(text, next).to = next
  BY DEF Step, Steps
<1>2. /\ grown \in Seq(Steps) /\ Len(grown) = Len(undo) + 1
      /\ \A i \in 1..Len(undo) : grown[i] = undo[i]
      /\ grown[Len(undo) + 1] = Step(text, next)
  BY <1>1, AppendProperties
<1>3. ASSUME NEW i \in 1..Len(grown) - 1
      PROVE  grown[i].to = grown[i + 1].from
  <2>1. CASE i = Len(undo)
    BY <1>1, <1>2, <2>1 DEF FitsBack
  <2>2. CASE i \in 1..Len(undo) - 1
    BY <1>2, <2>2 DEF FitsBack
  <2> QED BY <1>2, <1>3, <2>1, <2>2
<1> HIDE DEF grown
<1> QED BY <1>1, <1>2, <1>3 DEF FitsBack, grown

\* The same for a step put on the redo stack.
LEMMA GrowFitsOn ==
    ASSUME NEW redo \in Seq(Steps), NEW step \in Steps, FitsOn(step.to, redo)
    PROVE  Append(redo, step) \in Seq(Steps) /\ FitsOn(step.from, Append(redo, step))
<1> DEFINE grown == Append(redo, step)
<1>2. /\ grown \in Seq(Steps) /\ Len(grown) = Len(redo) + 1
      /\ \A i \in 1..Len(redo) : grown[i] = redo[i]
      /\ grown[Len(redo) + 1] = step
  BY AppendProperties
<1>3. ASSUME NEW i \in 1..Len(grown) - 1
      PROVE  grown[i].from = grown[i + 1].to
  <2>1. CASE i = Len(redo)
    BY <1>2, <2>1 DEF FitsOn
  <2>2. CASE i \in 1..Len(redo) - 1
    BY <1>2, <2>2 DEF FitsOn
  <2> QED BY <1>2, <1>3, <2>1, <2>2
<1> HIDE DEF grown
<1> QED BY <1>2, <1>3 DEF FitsOn, grown

\* Without its last step a stack leads from where that step began.
LEMMA FrontFits ==
    ASSUME NEW stack \in Seq(Steps), stack # <<>>
    PROVE  /\ Front(stack) \in Seq(Steps) /\ Last(stack) \in Steps
           /\ FitsBack(Last(stack).to, stack) => FitsBack(Last(stack).from, Front(stack))
           /\ FitsOn(Last(stack).from, stack) => FitsOn(Last(stack).to, Front(stack))
<1> DEFINE n == Len(stack)
           front == SubSeq(stack, 1, n - 1)
<1>1. n \in Nat \ {0}
  OBVIOUS
<1>2. /\ front \in Seq(Steps) /\ Len(front) = n - 1
      /\ \A i \in 1..n - 1 : front[i] = stack[i]
  <2>1. 1 \in 1..n + 1 /\ n - 1 \in 1 - 1..n
    BY <1>1
  <2>2. /\ front \in Seq(Steps)
        /\ Len(front) = IF 1 <= n - 1 THEN (n - 1) - 1 + 1 ELSE 0
        /\ \A i \in 1..(n - 1) - 1 + 1 : front[i] = stack[1 + i - 1]
    BY <2>1, SubSeqProperties
  <2> HIDE DEF front, n
  <2>3. Len(front) = n - 1
    BY <1>1, <2>2
  <2>4. ASSUME NEW i \in 1..n - 1
        PROVE  front[i] = stack[i]
    <3>1. i \in 1..(n - 1) - 1 + 1 /\ 1 + i - 1 = i
      BY <1>1
    <3> QED BY <2>2, <3>1
  <2> QED BY <2>2, <2>3, <2>4
<1>3. stack[n] \in Steps
  BY <1>1
<1> HIDE DEF front
<1>4. ASSUME FitsBack(stack[n].to, stack)
      PROVE  FitsBack(stack[n].from, front)
  BY <1>1, <1>2, <1>4 DEF FitsBack
<1>5. ASSUME FitsOn(stack[n].from, stack)
      PROVE  FitsOn(stack[n].to, front)
  BY <1>1, <1>2, <1>5 DEF FitsOn
<1> QED BY <1>2, <1>3, <1>4, <1>5 DEF Front, Last, front

-----------------------------------------------------------------------------
(* What the operations make of a buffer *)

Good(b) == b \in Buffers /\ Fits(b.text, b.undo, b.redo)

\* The fields that say what the session knows of the file.
SameDisk(b, c) ==
    /\ c.saved = b.saved /\ c.stat = b.stat
    /\ c.raced = b.raced /\ c.mustCreate = b.mustCreate

\* What the swap owes the buffer, and that a dirty buffer is on the backup clock.
Kept(b, swap) ==
    /\ b.owed /\ Dirty(b) => swap = b.text
    /\ b.backed => swap = b.text
    /\ Dirty(b) => b.armed

LEMMA BuffersAreOpen == ASSUME NEW b \in Buffers PROVE b # Nil
<1>1. "text" \in DOMAIN b
  BY DEF Buffers
<1>2. DOMAIN Nil = {}
  BY DEF Nil
<1> QED BY <1>1, <1>2

\* A changed buffer, reconciled with the backup bookkeeping, owes nothing.
LEMMA SyncedIs ==
    ASSUME NEW b \in Buffers, NEW swap
    PROVE  LET c == SyncDirtySince(Bumped(b)) IN
           /\ c \in Buffers /\ SameDisk(b, c) /\ Kept(c, swap)
           /\ c.text = b.text /\ c.undo = b.undo /\ c.redo = b.redo
<1> DEFINE parked == [r \in Requests |-> IF b.parked[r] = "none" THEN "none" ELSE "stale"]
           c == Bumped(b)
<1>1. parked \in [Requests -> {"none", "fresh", "stale"}]
  OBVIOUS
<1>2. c = [b EXCEPT !.backed = FALSE, !.owed = FALSE, !.parked = parked]
  BY DEF Bumped, Buffers
<1> HIDE DEF c, parked
<1>3. /\ c \in Buffers /\ SameDisk(b, c) /\ ~c.owed /\ ~c.backed
      /\ c.text = b.text /\ c.undo = b.undo /\ c.redo = b.redo
  BY <1>1, <1>2 DEF Buffers, SameDisk
<1>4. CASE Dirty(c)
  <2>1. SyncDirtySince(c) = [c EXCEPT !.armed = TRUE]
    BY <1>4 DEF SyncDirtySince
  <2> QED BY <1>3, <1>4, <2>1 DEF Buffers, SameDisk, Kept, Dirty, c
<1>5. CASE ~Dirty(c)
  <2>1. SyncDirtySince(c) = [c EXCEPT !.armed = FALSE, !.backed = FALSE]
    BY <1>5 DEF SyncDirtySince, MarkSaved
  <2> QED BY <1>3, <1>5, <2>1 DEF Buffers, SameDisk, Kept, Dirty, c
<1> QED BY <1>4, <1>5

LEMMA RecordIs ==
    ASSUME NEW b, Good(b), NEW text \in Texts, NEW join \in BOOLEAN, NEW swap
    PROVE  LET c == Record(b, text, join) IN
           Good(c) /\ SameDisk(b, c) /\ Kept(c, swap) /\ c.text = text
<1> DEFINE grown == IF join /\ b.undo # <<>>
                    THEN Append(Front(b.undo), Step(Last(b.undo).from, text))
                    ELSE Append(b.undo, Step(b.text, text))
           undo == EnforceLimit(grown)
           c == [b EXCEPT !.text = text, !.undo = undo, !.redo = <<>>, !.typing = TRUE]
<1>1. /\ b \in Buffers /\ b.undo \in Seq(Steps) /\ b.text \in Texts
      /\ FitsBack(b.text, b.undo)
  BY DEF Good, Fits, FitsBack, Buffers, Stacks, Steps
<1>2. grown \in Seq(Steps) /\ FitsBack(text, grown)
  <2>1. CASE join /\ b.undo # <<>>
    <3>1. /\ Front(b.undo) \in Seq(Steps) /\ Last(b.undo) \in Steps
          /\ FitsBack(Last(b.undo).to, b.undo)
                => FitsBack(Last(b.undo).from, Front(b.undo))
      BY <1>1, <2>1, FrontFits
    <3>2. Last(b.undo).to = b.text
      BY <1>1, <2>1 DEF FitsBack, Last
    <3>3. Last(b.undo).from \in Texts /\ FitsBack(Last(b.undo).from, Front(b.undo))
      BY <1>1, <3>1, <3>2 DEF Steps
    <3> QED BY <2>1, <3>1, <3>3, GrowFits
  <2>2. CASE ~(join /\ b.undo # <<>>)
    BY <1>1, <2>2, GrowFits
  <2> QED BY <2>1, <2>2
<1> HIDE DEF grown
<1>3. undo \in Seq(Steps) /\ FitsBack(text, undo)
  BY <1>2, LimitFits
<1> HIDE DEF undo
<1>4. /\ c \in Buffers /\ SameDisk(b, c)
      /\ c.text = text /\ c.undo = undo /\ c.redo = <<>>
  <2>1. undo \in Stacks /\ <<>> \in Stacks
    BY <1>3 DEF Stacks, Steps
  <2> QED BY <1>1, <2>1 DEF Buffers, SameDisk
<1>5. Fits(text, undo, <<>>)
  BY <1>3 DEF Fits, FitsBack
<1>6. Record(b, text, join) = SyncDirtySince(Bumped(c))
  BY DEF Record, grown, undo
<1> HIDE DEF c
<1> DEFINE d == SyncDirtySince(Bumped(c))
<1>7. /\ d \in Buffers /\ SameDisk(c, d) /\ Kept(d, swap)
      /\ d.text = c.text /\ d.undo = c.undo /\ d.redo = c.redo
  BY <1>4, SyncedIs
<1> HIDE DEF d
<1>8. Good(d) /\ SameDisk(b, d) /\ d.text = text
  BY <1>4, <1>5, <1>7 DEF Good, SameDisk
<1> QED BY <1>6, <1>7, <1>8 DEF d

LEMMA UndoneIs ==
    ASSUME NEW b, Good(b), b.undo # <<>>
    PROVE  LET c == Undone(b) IN Good(c) /\ SameDisk(b, c)
<1> DEFINE step == Last(b.undo)
           redo == Append(b.redo, step)
           c == [b EXCEPT !.text = step.from, !.undo = Front(b.undo), !.redo = redo,
                          !.typing = FALSE]
<1>1. /\ b \in Buffers /\ b.undo \in Seq(Steps) /\ b.redo \in Seq(Steps)
      /\ FitsBack(b.text, b.undo) /\ FitsOn(b.text, b.redo)
  BY DEF Good, Fits, FitsBack, FitsOn, Buffers, Stacks, Steps
<1>2. step.to = b.text
  BY <1>1 DEF FitsBack, Last
<1>3. /\ Front(b.undo) \in Seq(Steps) /\ step \in Steps
      /\ FitsBack(step.from, Front(b.undo))
  BY <1>1, <1>2, FrontFits
<1>4. redo \in Seq(Steps) /\ FitsOn(step.from, redo)
  BY <1>1, <1>2, <1>3, GrowFitsOn
<1>5. Undone(b) = c
  BY <1>1, <1>2 DEF Undone, Replay, Buffers
<1> HIDE DEF redo, step
<1>6. /\ c \in Buffers /\ SameDisk(b, c)
      /\ c.text = step.from /\ c.undo = Front(b.undo) /\ c.redo = redo
  <2>1. Front(b.undo) \in Stacks /\ redo \in Stacks /\ step.from \in Texts
    BY <1>3, <1>4 DEF Stacks, Steps
  <2> QED BY <1>1, <2>1 DEF Buffers, SameDisk
<1> HIDE DEF c
<1> QED BY <1>3, <1>4, <1>5, <1>6 DEF Good, Fits, FitsBack, FitsOn

LEMMA RedoneIs ==
    ASSUME NEW b, Good(b), b.redo # <<>>
    PROVE  LET c == Redone(b) IN Good(c) /\ SameDisk(b, c)
<1> DEFINE step == Last(b.redo)
           grown == Append(b.undo, step)
           undo == EnforceLimit(grown)
           c == [b EXCEPT !.text = step.to, !.redo = Front(b.redo), !.undo = undo,
                          !.typing = FALSE]
<1>1. /\ b \in Buffers /\ b.undo \in Seq(Steps) /\ b.redo \in Seq(Steps)
      /\ b.text \in Texts /\ FitsBack(b.text, b.undo) /\ FitsOn(b.text, b.redo)
  BY DEF Good, Fits, FitsBack, FitsOn, Buffers, Stacks, Steps
<1>2. step.from = b.text
  BY <1>1 DEF FitsOn, Last
<1>3. /\ Front(b.redo) \in Seq(Steps) /\ step \in Steps
      /\ FitsOn(step.to, Front(b.redo))
  BY <1>1, <1>2, FrontFits
<1>4. step = Step(b.text, step.to) /\ step.to \in Texts
  BY <1>2, <1>3 DEF Steps, Step
<1>5. grown \in Seq(Steps) /\ FitsBack(step.to, grown)
  <2> HIDE DEF step
  <2>1. /\ Append(b.undo, Step(b.text, step.to)) \in Seq(Steps)
        /\ FitsBack(step.to, Append(b.undo, Step(b.text, step.to)))
    BY <1>1, <1>4, GrowFits
  <2> QED BY <1>4, <2>1
<1>6. Redone(b) = c
  BY <1>1, <1>2 DEF Redone, Replay, Buffers
<1> HIDE DEF grown
<1>7. undo \in Seq(Steps) /\ FitsBack(step.to, undo)
  BY <1>5, LimitFits
<1> HIDE DEF undo, step
<1>8. /\ c \in Buffers /\ SameDisk(b, c)
      /\ c.text = step.to /\ c.redo = Front(b.redo) /\ c.undo = undo
  <2>1. Front(b.redo) \in Stacks /\ undo \in Stacks /\ step.to \in Texts
    BY <1>3, <1>7 DEF Stacks, Steps
  <2> QED BY <1>1, <2>1 DEF Buffers, SameDisk
<1> HIDE DEF c
<1> QED BY <1>3, <1>6, <1>7, <1>8 DEF Good, Fits, FitsBack, FitsOn

-----------------------------------------------------------------------------
(* The inductive invariant *)

History == [text : Texts, undo : Stacks, redo : Stacks]

OpInv ==
    /\ op \in Ops
    /\ op.at \in {"checked", "written"} => Open
    /\ op.at = "idle" /\ op.todo # {} => Open

BufInv == Open => Good(buf) /\ Kept(buf, swaps[session])

UndoInv ==
    undoFile # Nil => undoFile \in History /\ Fits(undoFile.text, undoFile.undo, undoFile.redo)

\* A swap that was announced is of an earlier run, and is there; no later run
\* has left one; while a recovery is under way none is announced.
SwapInv ==
    /\ session \in Sessions /\ pending \subseteq Sessions
    /\ swaps \in [Sessions -> Texts \cup {Nil}]
    /\ \A s \in pending \cup op.todo : s < session /\ swaps[s] # Nil
    /\ op.todo # {} => pending = {}
    /\ \A s \in Sessions : s > session => swaps[s] = Nil

\* What the fingerprint says of the file, and what a load or a save under way
\* knows of it while no other program has come between.
DiskInv ==
    /\ Open /\ buf.stat = "current" /\ ~buf.raced => file = buf.saved
    /\ Open /\ buf.stat = "none" => buf.mustCreate \/ buf.raced
    /\ op.at = "read" /\ ~op.raced => file = op.text
    /\ op.at = "checked" /\ ~buf.mustCreate /\ ~op.raced /\ buf.stat = "old"
          => file \in {Nil, buf.saved}
    /\ op.at = "written" /\ ~op.raced => file = buf.text

IInv ==
    /\ file \in Texts \cup {Nil}
    /\ OpInv /\ BufInv /\ UndoInv /\ SwapInv /\ DiskInv

LEMMA RestIs == Rest \in Ops /\ Rest.at = "idle" /\ Rest.todo = {} /\ ~Rest.raced
BY BlankIsText DEF Rest, Ops

LEMMA TextIsSome == \A t \in Texts : t # Nil
BY TextsAreText

LEMMA InitHolds == Init => IInv
<1> SUFFICES ASSUME Init PROVE IInv
  OBVIOUS
<1>1. /\ ~Open /\ op = Rest /\ undoFile = Nil /\ pending = {} /\ session = 1
      /\ swaps = [s \in Sessions |-> Nil] /\ file \in Texts \cup {Nil}
  BY DEF Init, Open
<1>2. 1 \in Sessions
  BY SessionsAreCounted DEF Sessions
<1>3. OpInv /\ BufInv /\ UndoInv /\ DiskInv
  BY <1>1, RestIs DEF OpInv, BufInv, UndoInv, DiskInv
<1>4. SwapInv
  BY <1>1, <1>2, RestIs DEF SwapInv
<1> QED BY <1>1, <1>3, <1>4 DEF IInv

\* A buffer that changes between two operations, but not in what it knows of the
\* file.
LEMMA EditKeeps ==
    ASSUME IInv, Free, Open, NEW c, Good(c), SameDisk(buf, c),
           Kept(c, swaps[session]), buf' = c,
           UNCHANGED <<file, op, swaps, undoFile, session, pending>>
    PROVE  IInv'
<1>1. c # Nil /\ op.at = "idle" /\ op.todo = {}
  BY BuffersAreOpen, RestIs DEF Good, Free
<1>2. file' \in Texts \cup {Nil} /\ OpInv' /\ UndoInv' /\ SwapInv'
  BY <1>1 DEF IInv, OpInv, UndoInv, SwapInv, Open
<1>3. BufInv'
  BY DEF BufInv
<1>4. DiskInv'
  BY <1>1 DEF IInv, DiskInv, SameDisk, Open
<1> QED BY <1>2, <1>3, <1>4 DEF IInv

\* The same, with the text written to the session's swap or not.
LEMMA SwapKeeps ==
    ASSUME IInv, Open, NEW c, Good(c), SameDisk(buf, c), NEW d,
           d = [c EXCEPT !.backed = TRUE, !.owed = TRUE], Dirty(c) => c.armed
    PROVE  Good(d) /\ SameDisk(buf, d) /\ Kept(d, c.text)
<1>1. /\ d \in Buffers /\ d.text = c.text /\ d.undo = c.undo /\ d.redo = c.redo
      /\ SameDisk(c, d) /\ d.armed = c.armed /\ d.saved = c.saved
  BY DEF Good, Buffers, SameDisk
<1> QED BY <1>1 DEF Good, SameDisk, Kept, Dirty

\* What holds when the operation under way, if any, has ended with nothing
\* written but, perhaps, the swap.
LEMMA EndKeeps ==
    ASSUME IInv, Open, NEW c, Good(c), SameDisk(buf, c), NEW swap \in Texts \cup {Nil},
           Kept(c, swap), buf' = c, op' = Rest, swaps' = [swaps EXCEPT ![session] = swap],
           UNCHANGED <<file, undoFile, session, pending>>
    PROVE  IInv'
<1>1. c # Nil /\ op'.at = "idle" /\ op'.todo = {} /\ op' \in Ops
  BY BuffersAreOpen, RestIs DEF Good
<1>2. file' \in Texts \cup {Nil} /\ OpInv' /\ UndoInv'
  BY <1>1 DEF IInv, OpInv, UndoInv, Open
<1>3. SwapInv'
  <2>1. /\ session \in Sessions /\ swaps \in [Sessions -> Texts \cup {Nil}]
        /\ \A s \in pending : s < session /\ swaps[s] # Nil
        /\ \A s \in Sessions : s > session => swaps[s] = Nil
        /\ pending \subseteq Sessions
    BY DEF IInv, SwapInv
  <2>2. \A s \in pending : swaps'[s] = swaps[s]
    BY <2>1 DEF Sessions
  <2>3. \A s \in Sessions : s > session => swaps'[s] = swaps[s]
    BY <2>1 DEF Sessions
  <2> QED BY <1>1, <2>1, <2>2, <2>3 DEF SwapInv
<1>4. BufInv'
  <2>1. swaps'[session'] = swap
    BY DEF IInv, SwapInv
  <2> QED BY <2>1 DEF BufInv
<1>5. DiskInv'
  BY <1>1 DEF IInv, DiskInv, SameDisk, Open
<1> QED BY <1>2, <1>3, <1>4, <1>5 DEF IInv

LEMMA RefuseKeeps ==
    ASSUME IInv, Open, NEW c, Good(c), SameDisk(buf, c), Kept(c, swaps[session]),
           NEW build, Refuse(c, build), UNCHANGED <<file, undoFile, session, pending>>
    PROVE  IInv'
<1>1. CASE build
  <2>1. swaps' = [swaps EXCEPT ![session] = swaps[session]]
    BY <1>1 DEF Refuse, IInv, SwapInv
  <2>2. swaps[session] \in Texts \cup {Nil}
    BY DEF IInv, SwapInv
  <2> QED BY <1>1, <2>1, <2>2, EndKeeps DEF Refuse
<1>2. CASE ~build
  <2>1. /\ swaps' = [swaps EXCEPT ![session] = c.text] /\ op' = Rest
        /\ buf' = [c EXCEPT !.backed = TRUE, !.owed = TRUE]
    BY <1>2 DEF Refuse, WriteSwap
  <2>2. Good(buf') /\ SameDisk(buf, buf') /\ Kept(buf', c.text)
    BY <2>1, SwapKeeps DEF Kept
  <2>3. c.text \in Texts \cup {Nil}
    BY DEF Good, Buffers
  <2> QED BY <2>1, <2>2, <2>3, EndKeeps
<1> QED BY <1>1, <1>2

\* A save as far as its conflict check.
LEMMA CommitKeeps ==
    ASSUME IInv, Free, Open, NEW b, Good(b), SameDisk(buf, b), Kept(b, swaps[session]),
           NEW formatted \in BOOLEAN, NEW build \in BOOLEAN, CommitSave(b, formatted, build),
           UNCHANGED <<file, undoFile, session, pending>>
    PROVE  IInv'
<1> DEFINE c == Cleaned(b, formatted)
<1>1. Good(c) /\ SameDisk(buf, c) /\ Kept(c, swaps[session])
  <2>1. CASE Tidy[b.text] = b.text
    BY <2>1 DEF Cleaned
  <2>2. CASE Tidy[b.text] # b.text
    <3>1. Tidy[b.text] \in Texts
      BY TidyIsText DEF Good, Buffers
    <3>2. c = Record(b, Tidy[b.text], formatted)
      BY <2>2 DEF Cleaned
    <3> HIDE DEF c
    <3>3. Good(c) /\ SameDisk(b, c) /\ Kept(c, swaps[session])
      BY <3>1, <3>2, RecordIs
    <3> QED BY <3>3 DEF SameDisk
  <2> QED BY <2>1, <2>2
<1>2. CASE ~c.mustCreate /\ ConflictsWithDisk(c)
  <2>1. Refuse(c, build)
    BY <1>2 DEF CommitSave
  <2> HIDE DEF c
  <2> QED BY <1>1, <2>1, RefuseKeeps
<1>3. CASE ~(~c.mustCreate /\ ConflictsWithDisk(c))
  <2>1. /\ buf' = c /\ UNCHANGED swaps
        /\ op' = [Rest EXCEPT !.at = "checked", !.build = build]
    BY <1>3 DEF CommitSave
  <2>2. op' \in Ops /\ op'.at = "checked" /\ op'.todo = {} /\ ~op'.raced
    BY <2>1, RestIs DEF Ops, Rest
  <2> HIDE DEF c
  <2>3. c # Nil
    BY <1>1, BuffersAreOpen DEF Good
  <2>4. file' \in Texts \cup {Nil} /\ OpInv' /\ UndoInv'
    BY <2>1, <2>2, <2>3 DEF IInv, OpInv, UndoInv, Open
  <2>5. SwapInv'
    BY <2>1, <2>2 DEF IInv, SwapInv
  <2>6. BufInv'
    BY <1>1, <2>1 DEF BufInv
  <2>7. DiskInv'
    BY <1>1, <1>3, <2>1, <2>2 DEF IInv, DiskInv, SameDisk, Open, ConflictsWithDisk
  <2> QED BY <2>4, <2>5, <2>6, <2>7 DEF IInv
<1> QED BY <1>2, <1>3

LEMMA NewBufferIs ==
    ASSUME NEW text \in Texts, NEW stat \in Stats, NEW raced \in BOOLEAN
    PROVE  LET b == NewBuffer(text, stat, raced) IN
           /\ b \in Buffers /\ b.undo = <<>> /\ b.redo = <<>>
           /\ b.text = text /\ b.saved = text /\ b.stat = stat /\ b.raced = raced
           /\ ~b.owed /\ ~b.backed /\ ~b.mustCreate
<1>1. <<>> \in Stacks
  BY DEF Stacks
<1>2. [r \in Requests |-> "none"] \in [Requests -> {"none", "fresh", "stale"}]
  OBVIOUS
<1> QED BY <1>1, <1>2 DEF NewBuffer, Buffers

LEMMA EmptyFits == \A text : Fits(text, <<>>, <<>>)
BY DEF Fits

\* The first half of a load.
LEMMA StartKeeps ==
    ASSUME IInv, Free, ~Open \/ file # Nil, NEW todo, StartLoad(todo),
           UNCHANGED <<file, swaps, undoFile, session>>,
           \/ todo = {} /\ pending' = pending
           \/ todo = pending /\ pending' = {}
    PROVE  IInv'
<1>1. op.at = "idle" /\ op.todo = {} /\ todo \subseteq Sessions
  BY RestIs DEF Free, IInv, SwapInv
<1>2. CASE file = Nil
  <2> DEFINE new == NewBuffer(Blank, "none", FALSE)
             b == [new EXCEPT !.mustCreate = TRUE]
  <2>1. ~Open /\ buf' = b /\ op' = [Rest EXCEPT !.todo = todo]
    BY <1>2 DEF StartLoad
  <2>2. /\ new \in Buffers /\ new.undo = <<>> /\ new.redo = <<>> /\ new.text = Blank
        /\ new.saved = Blank /\ new.stat = "none" /\ ~new.owed /\ ~new.backed
    <3>1. Blank \in Texts /\ "none" \in Stats /\ FALSE \in BOOLEAN
      BY BlankIsText DEF Stats
    <3> QED BY <3>1, NewBufferIs
  <2> HIDE DEF new
  <2>3. /\ b \in Buffers /\ b.undo = <<>> /\ b.redo = <<>> /\ b.text = b.saved
        /\ b.stat = "none" /\ b.mustCreate /\ ~b.owed /\ ~b.backed
    BY <2>2 DEF Buffers
  <2> HIDE DEF b
  <2>4. b # Nil
    BY <2>3, BuffersAreOpen
  <2>5. op' \in Ops /\ op'.at = "idle" /\ op'.todo = todo
    BY <1>1, <2>1, RestIs DEF Ops
  <2>6. file' \in Texts \cup {Nil} /\ OpInv' /\ UndoInv'
    BY <2>1, <2>4, <2>5 DEF IInv, OpInv, UndoInv, Open
  <2>7. SwapInv'
    BY <1>1, <2>5 DEF IInv, SwapInv
  <2>8. BufInv'
    BY <2>1, <2>3, EmptyFits DEF BufInv, Good, Kept, Dirty
  <2>9. DiskInv'
    BY <2>1, <2>3, <2>5 DEF DiskInv
  <2> QED BY <2>6, <2>7, <2>8, <2>9 DEF IInv
<1>3. CASE file # Nil
  <2>1. /\ op' = [Rest EXCEPT !.at = "read", !.text = file, !.todo = todo]
        /\ UNCHANGED buf
    BY <1>3 DEF StartLoad
  <2>2. op' \in Ops /\ op'.at = "read" /\ op'.todo = todo /\ op'.text = file
    BY <1>1, <1>3, <2>1 DEF IInv, Ops, Rest
  <2>3. file' \in Texts \cup {Nil} /\ OpInv' /\ UndoInv' /\ BufInv'
    BY <2>1, <2>2 DEF IInv, OpInv, UndoInv, BufInv, Open
  <2>4. SwapInv'
    BY <1>1, <2>2 DEF IInv, SwapInv
  <2>5. DiskInv'
    BY <2>1, <2>2 DEF IInv, DiskInv, Open
  <2> QED BY <2>3, <2>4, <2>5 DEF IInv
<1> QED BY <1>2, <1>3

LEMMA AdoptIs ==
    ASSUME NEW b \in Buffers, NEW text \in Texts, NEW stat \in Stats, NEW raced \in BOOLEAN
    PROVE  LET c == AdoptContent(b, NewBuffer(text, stat, raced)) IN
           /\ Good(c) /\ c.text = text /\ c.saved = text /\ c.stat = stat /\ c.raced = raced
           /\ c.mustCreate = b.mustCreate /\ ~c.owed /\ ~c.backed
<1> DEFINE fresh == NewBuffer(text, stat, raced)
           c == [fresh EXCEPT !.armed = b.armed, !.backed = b.backed,
                              !.mustCreate = b.mustCreate, !.parked = b.parked]
           parked == [r \in Requests |-> IF c.parked[r] = "none" THEN "none" ELSE "stale"]
           d == [c EXCEPT !.backed = FALSE, !.owed = FALSE, !.parked = parked]
<1>1. /\ fresh \in Buffers /\ fresh.undo = <<>> /\ fresh.redo = <<>>
      /\ fresh.text = text /\ fresh.saved = text /\ fresh.stat = stat
      /\ fresh.raced = raced
  BY NewBufferIs
<1> HIDE DEF fresh
<1>2. /\ c \in Buffers /\ c.undo = <<>> /\ c.redo = <<>> /\ c.text = text
      /\ c.saved = text /\ c.stat = stat /\ c.raced = raced
      /\ c.mustCreate = b.mustCreate
  BY <1>1 DEF Buffers
<1>3. AdoptContent(b, fresh) = Bumped(c)
  BY DEF AdoptContent
<1> HIDE DEF c
<1>4. parked \in [Requests -> {"none", "fresh", "stale"}]
  OBVIOUS
<1>5. Bumped(c) = d
  BY <1>2 DEF Bumped, Buffers
<1> HIDE DEF parked
<1>6. /\ d \in Buffers /\ d.undo = <<>> /\ d.redo = <<>> /\ d.text = text
      /\ d.saved = text /\ d.stat = stat /\ d.raced = raced
      /\ d.mustCreate = b.mustCreate /\ ~d.owed /\ ~d.backed
  BY <1>2, <1>4 DEF Buffers
<1> HIDE DEF d
<1> QED BY <1>3, <1>5, <1>6, EmptyFits DEF Good, fresh

\* What a run finds beside the file fits the text it comes back to.
LEMMA PrepareIs ==
    ASSUME IInv, NEW text \in Texts, NEW stat \in Stats, NEW raced \in BOOLEAN
    PROVE  LET c == PrepareUndo(NewBuffer(text, stat, raced)) IN
           /\ Good(c) /\ c.text = text /\ c.saved = text /\ c.stat = stat /\ c.raced = raced
           /\ ~c.owed /\ ~c.backed
<1> DEFINE fresh == NewBuffer(text, stat, raced)
           c == PrepareUndo(fresh)
<1>1. /\ fresh \in Buffers /\ fresh.undo = <<>> /\ fresh.redo = <<>>
      /\ fresh.text = text /\ fresh.saved = text /\ fresh.stat = stat
      /\ fresh.raced = raced /\ ~fresh.owed /\ ~fresh.backed
  BY NewBufferIs
<1> HIDE DEF fresh
<1>2. CASE undoFile # Nil /\ undoFile.text = text
  <2> DEFINE undo == EnforceLimit(undoFile.undo)
             redo == undoFile.redo
             d == [fresh EXCEPT !.undo = undo, !.redo = redo]
  <2>1. /\ undoFile.undo \in Seq(Steps) /\ redo \in Stacks
        /\ FitsBack(text, undoFile.undo) /\ FitsOn(text, redo)
    BY <1>2 DEF IInv, UndoInv, History, Stacks, Steps, Fits, FitsBack, FitsOn
  <2>2. undo \in Seq(Steps) /\ FitsBack(text, undo)
    BY <2>1, LimitFits
  <2>3. undo \in Stacks
    BY <2>2 DEF Stacks, Steps
  <2>4. c = d
    BY <1>1, <1>2 DEF PrepareUndo
  <2> HIDE DEF undo, redo, c
  <2>5. /\ d \in Buffers /\ d.undo = undo /\ d.redo = redo /\ d.text = text
        /\ d.saved = text /\ d.stat = stat /\ d.raced = raced
        /\ ~d.owed /\ ~d.backed
    BY <1>1, <2>1, <2>3 DEF Buffers
  <2> HIDE DEF d
  <2>6. Fits(text, undo, redo)
    BY <2>1, <2>2 DEF Fits, FitsBack, FitsOn
  <2>7. Good(d)
    BY <2>5, <2>6 DEF Good
  <2> QED BY <2>4, <2>5, <2>7 DEF c, fresh
<1>3. CASE ~(undoFile # Nil /\ undoFile.text = text)
  <2>1. c = fresh
    BY <1>1, <1>3 DEF PrepareUndo
  <2> HIDE DEF c
  <2>2. Good(fresh)
    BY <1>1, EmptyFits DEF Good
  <2> QED BY <1>1, <2>1, <2>2 DEF c, fresh
<1> QED BY <1>2, <1>3

LEMMA FinishLoadKeeps == IInv /\ FinishLoad => IInv'
<1> SUFFICES ASSUME IInv, FinishLoad PROVE IInv'
  OBVIOUS
<1> DEFINE stat == IF file = Nil THEN "none" ELSE "current"
           fresh == NewBuffer(op.text, stat, op.raced)
<1>1. /\ op.at = "read" /\ op \in Ops /\ op' = [Rest EXCEPT !.todo = op.todo]
      /\ UNCHANGED <<file, swaps, session, pending, left>>
      /\ op.text \in Texts /\ op.raced \in BOOLEAN /\ stat \in Stats
  BY DEF FinishLoad, IInv, OpInv, Ops, Stats
<1>2. op' \in Ops /\ op'.at = "idle" /\ op'.todo = op.todo
  BY <1>1, RestIs DEF Ops
<1>3. /\ undoFile' \in {undoFile, Nil}
      /\ buf' = IF Open THEN AdoptContent(buf, fresh) ELSE PrepareUndo(fresh)
  BY DEF FinishLoad
<1>4. /\ Good(buf') /\ buf'.text = op.text /\ buf'.saved = op.text
      /\ buf'.stat = stat /\ buf'.raced = op.raced /\ ~buf'.owed /\ ~buf'.backed
  <2>1. CASE Open
    <3>1. buf \in Buffers
      BY <2>1 DEF IInv, BufInv, Good
    <3> HIDE DEF stat
    <3> QED BY <1>1, <1>3, <2>1, <3>1, AdoptIs
  <2>2. CASE ~Open
    <3> HIDE DEF stat
    <3> QED BY <1>1, <1>3, <2>2, PrepareIs
  <2> QED BY <2>1, <2>2
<1>5. buf' # Nil
  BY <1>4, BuffersAreOpen DEF Good
<1>6. file' \in Texts \cup {Nil} /\ OpInv' /\ UndoInv'
  BY <1>1, <1>2, <1>3, <1>5 DEF IInv, OpInv, UndoInv, Open
<1>7. SwapInv'
  BY <1>1, <1>2 DEF IInv, SwapInv
<1>8. BufInv'
  BY <1>4 DEF BufInv, Kept, Dirty
<1>9. DiskInv'
  BY <1>1, <1>2, <1>4, TextIsSome DEF IInv, DiskInv
<1> QED BY <1>6, <1>7, <1>8, <1>9 DEF IInv

-----------------------------------------------------------------------------
(* The steps of a save *)

LEMMA WriteKeeps == IInv /\ Write => IInv'
<1> SUFFICES ASSUME IInv, Write PROVE IInv'
  OBVIOUS
<1>1. op.at = "checked" /\ UNCHANGED <<undoFile, session, pending>> /\ Open /\ op \in Ops
  BY DEF Write, IInv, OpInv
<1>2. Good(buf) /\ Kept(buf, swaps[session]) /\ SameDisk(buf, buf)
  BY <1>1 DEF IInv, BufInv, SameDisk
<1>3. CASE buf.mustCreate /\ file # Nil
  <2>1. Refuse(buf, op.build) /\ UNCHANGED file
    BY <1>3 DEF Write
  <2> QED BY <1>1, <1>2, <2>1, RefuseKeeps
<1>4. CASE ~(buf.mustCreate /\ file # Nil)
  <2>1. /\ file' = buf.text /\ UNCHANGED swaps /\ op' = [op EXCEPT !.at = "written"]
        /\ buf' = IF buf.stat = "none" THEN buf ELSE [buf EXCEPT !.stat = "old"]
    BY <1>4 DEF Write
  <2>2. op' \in Ops /\ op'.at = "written" /\ op'.todo = op.todo /\ op'.raced = op.raced
    BY <1>1, <2>1 DEF Ops
  <2>3. /\ buf' \in Buffers /\ buf'.text = buf.text /\ buf'.undo = buf.undo
        /\ buf'.redo = buf.redo /\ buf'.saved = buf.saved /\ buf'.raced = buf.raced
        /\ buf'.mustCreate = buf.mustCreate /\ buf'.owed = buf.owed
        /\ buf'.backed = buf.backed /\ buf'.armed = buf.armed
        /\ buf'.stat = IF buf.stat = "none" THEN "none" ELSE "old"
    BY <1>2, <2>1 DEF Good, Buffers, Stats
  <2>4. buf' # Nil /\ file' \in Texts
    BY <1>2, <2>1, <2>3, BuffersAreOpen DEF Good, Buffers
  <2>5. OpInv' /\ UndoInv'
    BY <1>1, <2>1, <2>2, <2>4 DEF IInv, OpInv, UndoInv, Open
  <2>6. SwapInv'
    BY <1>1, <2>1, <2>2 DEF IInv, SwapInv
  <2>7. BufInv'
    BY <1>1, <1>2, <2>1, <2>3 DEF BufInv, Good, Kept, Dirty
  <2>8. DiskInv'
    BY <1>1, <2>1, <2>2, <2>3 DEF IInv, DiskInv
  <2> QED BY <2>4, <2>5, <2>6, <2>7, <2>8 DEF IInv
<1> QED BY <1>3, <1>4

LEMMA SnapshotFits ==
    ASSUME NEW b, Good(b), Snapshot(b) # Nil
    PROVE  /\ Snapshot(b) \in History
           /\ Fits(Snapshot(b).text, Snapshot(b).undo, Snapshot(b).redo)
BY DEF Snapshot, Good, Buffers, History

LEMMA FinishSaveKeeps == IInv /\ FinishSave => IInv'
<1> SUFFICES ASSUME IInv, FinishSave PROVE IInv'
  OBVIOUS
<1>1. /\ op.at = "written" /\ UNCHANGED <<file, session, pending>> /\ Open
      /\ op.raced \in BOOLEAN /\ session \in Sessions
  BY DEF FinishSave, IInv, OpInv, Ops, SwapInv
<1>2. Good(buf) /\ Kept(buf, swaps[session]) /\ SameDisk(buf, buf)
  BY <1>1 DEF IInv, BufInv, SameDisk
<1>3. CASE file = Nil
  <2>1. Refuse(buf, op.build) /\ UNCHANGED undoFile
    BY <1>3 DEF FinishSave
  <2> QED BY <1>1, <1>2, <2>1, RefuseKeeps
<1>4. CASE file # Nil
  <2> DEFINE b == [buf EXCEPT !.saved = buf.text, !.stat = "current",
                              !.raced = op.raced, !.mustCreate = FALSE]
  <2>1. /\ buf' = MarkSaved(b) /\ swaps' = [swaps EXCEPT ![session] = Nil]
        /\ undoFile' = Snapshot(buf) /\ op' = Rest
    BY <1>4 DEF FinishSave
  <2>2. b \in Buffers
    BY <1>1, <1>2 DEF Good, Buffers, Stats
  <2>3. b.text = buf.text /\ b.saved = buf.text /\ b.undo = buf.undo /\ b.redo = buf.redo
        /\ b.stat = "current" /\ b.raced = op.raced
    BY <1>2 DEF Good, Buffers
  <2> HIDE DEF b
  <2>4. /\ buf' \in Buffers /\ buf'.text = buf.text /\ buf'.saved = buf.text
        /\ buf'.undo = buf.undo /\ buf'.redo = buf.redo /\ ~buf'.backed
        /\ buf'.stat = "current" /\ buf'.raced = op.raced
    BY <2>1, <2>2, <2>3 DEF MarkSaved, Buffers
  <2>5. buf' # Nil /\ op'.at = "idle" /\ op'.todo = {} /\ op' \in Ops
    BY <2>1, <2>4, BuffersAreOpen, RestIs
  <2>6. OpInv' /\ file' \in Texts \cup {Nil}
    BY <1>1, <2>5 DEF IInv, OpInv, Open
  <2>7. UndoInv'
    BY <1>2, <2>1, SnapshotFits DEF UndoInv
  <2>8. SwapInv'
    <3>1. \A s \in pending : swaps'[s] = swaps[s]
      BY <2>1 DEF IInv, SwapInv, Sessions
    <3> QED BY <1>1, <2>1, <2>5, <3>1 DEF IInv, SwapInv
  <2>9. BufInv'
    BY <1>2, <2>4 DEF BufInv, Good, Kept, Dirty
  <2>10. DiskInv'
    BY <1>1, <2>4, <2>5 DEF IInv, DiskInv
  <2> QED BY <2>6, <2>7, <2>8, <2>9, <2>10 DEF IInv
<1> QED BY <1>3, <1>4

-----------------------------------------------------------------------------
(* The other steps *)

LEMMA UndoKeeps == IInv /\ (Undo \/ Redo) => IInv'
<1> SUFFICES ASSUME IInv, Undo \/ Redo PROVE IInv'
  OBVIOUS
<1>1. Free /\ Open /\ UNCHANGED <<file, op, swaps, undoFile, session, pending>>
  BY DEF Undo, Redo
<1>2. Good(buf)
  BY <1>1 DEF IInv, BufInv
<1>3. PICK b : Good(b) /\ SameDisk(buf, b) /\ buf' = SyncDirtySince(Bumped(b))
  <2>1. CASE Undo
    BY <1>2, <2>1, UndoneIs DEF Undo
  <2>2. CASE Redo
    BY <1>2, <2>2, RedoneIs DEF Redo
  <2> QED BY <2>1, <2>2
<1> DEFINE c == SyncDirtySince(Bumped(b))
<1>4. /\ c \in Buffers /\ SameDisk(b, c) /\ Kept(c, swaps[session])
      /\ c.text = b.text /\ c.undo = b.undo /\ c.redo = b.redo
  BY <1>3, SyncedIs DEF Good
<1> HIDE DEF c
<1>5. Good(c) /\ SameDisk(buf, c)
  BY <1>3, <1>4 DEF Good, SameDisk
<1> QED BY <1>1, <1>3, <1>4, <1>5, EditKeeps DEF c

\* A parked save that is taken up or dropped.
LEMMA UnparkIs ==
    ASSUME IInv, Open, NEW r \in Requests
    PROVE  Good(Unpark(r)) /\ SameDisk(buf, Unpark(r)) /\ Kept(Unpark(r), swaps[session])
<1> DEFINE c == [buf EXCEPT !.parked[r] = "none"]
<1>1. Good(buf) /\ Kept(buf, swaps[session])
  BY DEF IInv, BufInv
<1>2. /\ c \in Buffers /\ c.text = buf.text /\ c.undo = buf.undo /\ c.redo = buf.redo
      /\ c.saved = buf.saved /\ c.stat = buf.stat /\ c.raced = buf.raced
      /\ c.mustCreate = buf.mustCreate /\ c.owed = buf.owed /\ c.backed = buf.backed
      /\ c.armed = buf.armed
  BY <1>1 DEF Good, Buffers
<1>3. Unpark(r) = c
  BY DEF Unpark
<1> HIDE DEF c
<1> QED BY <1>1, <1>2, <1>3 DEF Good, SameDisk, Kept, Dirty

LEMMA SaveKeeps ==
    ASSUME IInv, Free, Open, NEW b, Good(b), SameDisk(buf, b), Kept(b, swaps[session]),
           NEW build \in BOOLEAN,
           \/ CommitSave(b, FALSE, build)
           \/ \E text \in Texts : CommitSave(Record(b, text, FALSE), TRUE, build),
           UNCHANGED <<file, undoFile, session, pending>>
    PROVE  IInv'
<1>1. CASE CommitSave(b, FALSE, build)
  BY <1>1, CommitKeeps
<1>2. ASSUME NEW text \in Texts, CommitSave(Record(b, text, FALSE), TRUE, build)
      PROVE  IInv'
  <2> DEFINE c == Record(b, text, FALSE)
  <2>1. Good(c) /\ SameDisk(b, c) /\ Kept(c, swaps[session])
    BY RecordIs
  <2> HIDE DEF c
  <2>2. SameDisk(buf, c)
    BY <2>1 DEF SameDisk
  <2>3. CommitSave(c, TRUE, build)
    BY <1>2 DEF c
  <2> QED BY <2>1, <2>2, <2>3, CommitKeeps
<1> QED BY <1>1, <1>2

\* A buffer that has had its turn of the backup.
LEMMA TurnKeeps ==
    ASSUME IInv, Free, Open, NEW b, Good(b), SameDisk(buf, b), Kept(b, swaps[session]),
           \/ BackUp(b)
           \/ ~b.armed /\ buf' = [b EXCEPT !.owed = TRUE] /\ UNCHANGED swaps,
           UNCHANGED <<file, op, undoFile, session, pending>>
    PROVE  IInv'
<1>1. op = Rest /\ op' = Rest /\ session \in Sessions /\ swaps \in [Sessions -> Texts \cup {Nil}]
  BY DEF Free, IInv, SwapInv
<1>2. CASE Dirty(b) /\ ~b.backed /\ BackUp(b)
  <2>1. /\ swaps' = [swaps EXCEPT ![session] = b.text]
        /\ buf' = [b EXCEPT !.backed = TRUE, !.owed = TRUE]
    BY <1>2 DEF BackUp, WriteSwap
  <2>2. Good(buf') /\ SameDisk(buf, buf') /\ Kept(buf', b.text)
    BY <2>1, SwapKeeps DEF Kept
  <2>3. b.text \in Texts \cup {Nil}
    BY DEF Good, Buffers
  <2> QED BY <1>1, <2>1, <2>2, <2>3, EndKeeps
<1>3. CASE ~(Dirty(b) /\ ~b.backed /\ BackUp(b))
  <2> DEFINE c == [b EXCEPT !.owed = TRUE]
  <2>1. buf' = c /\ UNCHANGED swaps /\ (Dirty(b) => b.backed)
    BY <1>3 DEF BackUp, Kept
  <2>2. /\ c \in Buffers /\ c.text = b.text /\ c.undo = b.undo /\ c.redo = b.redo
        /\ SameDisk(b, c) /\ c.backed = b.backed /\ c.armed = b.armed
    BY DEF Good, Buffers, SameDisk
  <2> HIDE DEF c
  <2>3. Good(c) /\ SameDisk(buf, c) /\ Kept(c, swaps[session])
    BY <2>1, <2>2 DEF Good, SameDisk, Kept, Dirty
  <2> QED BY <1>1, <2>1, <2>3, EditKeeps
<1> QED BY <1>2, <1>3

LEMMA ParkKeeps ==
    ASSUME IInv, NEW r \in Requests, Park(r)
    PROVE  IInv'
<1> DEFINE c == [buf EXCEPT !.parked[r] = "fresh"]
<1>1. /\ Free /\ Open /\ BackUp(c) /\ UNCHANGED <<file, op, undoFile, session, pending>>
      /\ Good(buf) /\ Kept(buf, swaps[session])
  BY DEF Park, IInv, BufInv
<1>2. /\ c \in Buffers /\ c.text = buf.text /\ c.undo = buf.undo /\ c.redo = buf.redo
      /\ c.saved = buf.saved /\ c.stat = buf.stat /\ c.raced = buf.raced
      /\ c.mustCreate = buf.mustCreate /\ c.owed = buf.owed /\ c.backed = buf.backed
      /\ c.armed = buf.armed
  BY <1>1 DEF Good, Buffers
<1> HIDE DEF c
<1>3. Good(c) /\ SameDisk(buf, c) /\ Kept(c, swaps[session])
  BY <1>1, <1>2 DEF Good, SameDisk, Kept, Dirty
<1> QED BY <1>1, <1>3, TurnKeeps

LEMMA CloseKeeps == IInv /\ CloseDocument => IInv'
<1> SUFFICES ASSUME IInv, CloseDocument PROVE IInv'
  OBVIOUS
<1>1. /\ Open /\ ~Open' /\ op.at = "idle" /\ op.todo = {} /\ session \in Sessions
      /\ UNCHANGED <<file, op, session, pending>>
      /\ swaps' = [swaps EXCEPT ![session] = Nil]
      /\ undoFile' \in {undoFile, Snapshot(buf)}
  BY RestIs DEF CloseDocument, Free, Open, IInv, SwapInv
<1>2. file' \in Texts \cup {Nil} /\ OpInv' /\ BufInv' /\ DiskInv'
  BY <1>1 DEF IInv, OpInv, BufInv, DiskInv
<1>3. UndoInv'
  BY <1>1, SnapshotFits DEF IInv, UndoInv, BufInv
<1>4. SwapInv'
  <2>1. \A s \in pending : swaps'[s] = swaps[s]
    BY <1>1 DEF IInv, SwapInv, Sessions
  <2> QED BY <1>1, <2>1 DEF IInv, SwapInv
<1> QED BY <1>2, <1>3, <1>4 DEF IInv

LEMMA RecoverSwapsKeeps == IInv /\ RecoverSwaps => IInv'
<1> SUFFICES ASSUME IInv, RecoverSwaps PROVE IInv'
  OBVIOUS
<1>1. /\ Free /\ op.at = "idle" /\ op.todo = {} /\ pending' = {}
      /\ UNCHANGED <<file, swaps, undoFile, session>>
  BY RestIs DEF RecoverSwaps, Free
<1>2. CASE Open
  <2>1. op' = [Rest EXCEPT !.todo = pending] /\ UNCHANGED buf
    BY <1>2 DEF RecoverSwaps
  <2>2. op' \in Ops /\ op'.at = "idle" /\ op'.todo = pending
    BY <2>1, RestIs DEF IInv, SwapInv, Ops
  <2>3. file' \in Texts \cup {Nil} /\ OpInv' /\ BufInv' /\ UndoInv'
    BY <1>1, <1>2, <2>1, <2>2 DEF IInv, OpInv, BufInv, UndoInv, Open
  <2>4. SwapInv'
    BY <1>1, <2>2 DEF IInv, SwapInv
  <2>5. DiskInv'
    BY <1>1, <2>1, <2>2 DEF IInv, DiskInv, Open
  <2> QED BY <2>3, <2>4, <2>5 DEF IInv
<1>3. CASE ~Open
  <2>1. StartLoad(pending)
    BY <1>3 DEF RecoverSwaps
  <2> QED BY <1>1, <1>3, <2>1, StartKeeps
<1> QED BY <1>2, <1>3

LEMMA RecoverNextKeeps == IInv /\ RecoverNext => IInv'
<1> SUFFICES ASSUME IInv, RecoverNext PROVE IInv'
  OBVIOUS
<1>1. PICK s \in op.todo :
        /\ buf' = Record(buf, swaps[s], FALSE)
        /\ swaps' = [swaps EXCEPT ![s] = Nil]
        /\ op' = [op EXCEPT !.todo = @ \ {s}]
  BY DEF RecoverNext
<1>2. /\ op.at = "idle" /\ UNCHANGED <<file, undoFile, session, pending>>
      /\ Open /\ pending = {} /\ op \in Ops /\ s \in Sessions /\ s < session
      /\ swaps[s] \in Texts
  BY DEF RecoverNext, IInv, OpInv, SwapInv, Ops
<1>3. op' \in Ops /\ op'.at = "idle" /\ op'.todo = op.todo \ {s}
  BY <1>1, <1>2 DEF Ops
<1> DEFINE c == Record(buf, swaps[s], FALSE)
<1>4. Good(c) /\ SameDisk(buf, c) /\ Kept(c, swaps[session])
  BY <1>2, RecordIs DEF IInv, BufInv
<1>5. buf' = c
  BY <1>1
<1> HIDE DEF c
<1>6. c # Nil
  BY <1>4, BuffersAreOpen DEF Good
<1>7. file' \in Texts \cup {Nil} /\ OpInv' /\ UndoInv'
  BY <1>2, <1>3, <1>5, <1>6 DEF IInv, OpInv, UndoInv, Open
<1>8. /\ SwapInv' /\ swaps'[session] = swaps[session]
  <2>1. \A t \in Sessions : t # s => swaps'[t] = swaps[t]
    BY <1>1 DEF IInv, SwapInv
  <2>2. session \in Sessions /\ session # s /\ swaps' \in [Sessions -> Texts \cup {Nil}]
    BY <1>1, <1>2 DEF IInv, SwapInv, Sessions
  <2>3. \A t \in Sessions : t > session => swaps'[t] = Nil
    BY <1>2, <2>1 DEF IInv, SwapInv, Sessions
  <2>4. \A t \in op.todo \ {s} : t < session /\ swaps'[t] # Nil
    BY <1>2, <2>1 DEF IInv, SwapInv, Ops
  <2> QED BY <1>2, <1>3, <2>1, <2>2, <2>3, <2>4 DEF SwapInv
<1>9. BufInv'
  BY <1>2, <1>4, <1>5, <1>8 DEF BufInv
<1>10. DiskInv'
  BY <1>2, <1>3, <1>4, <1>5 DEF IInv, DiskInv, SameDisk, Open
<1> QED BY <1>7, <1>8, <1>9, <1>10 DEF IInv

LEMMA DiscardSwapsKeeps == IInv /\ DiscardSwaps => IInv'
<1> SUFFICES ASSUME IInv, DiscardSwaps PROVE IInv'
  OBVIOUS
<1>1. /\ op.at = "idle" /\ op.todo = {} /\ pending' = {}
      /\ UNCHANGED <<file, buf, op, undoFile, session>>
      /\ swaps' = [s \in Sessions |-> IF s \in pending THEN Nil ELSE swaps[s]]
  BY RestIs DEF DiscardSwaps, Free
<1>2. swaps'[session] = swaps[session] /\ session \in Sessions
  BY <1>1 DEF IInv, SwapInv, Sessions
<1>3. SwapInv'
  BY <1>1 DEF IInv, SwapInv
<1> QED BY <1>1, <1>2, <1>3 DEF IInv, OpInv, BufInv, UndoInv, DiskInv, Open

LEMMA RelaunchKeeps == IInv /\ Relaunch => IInv'
<1> SUFFICES ASSUME IInv, Relaunch PROVE IInv'
  OBVIOUS
<1>1. /\ ~Open' /\ op' = Rest /\ session < MaxSessions /\ session' = session + 1
      /\ pending' = {s \in Sessions : swaps[s] # Nil}
      /\ UNCHANGED <<file, swaps, undoFile>>
  BY DEF Relaunch, Open
<1>2. file' \in Texts \cup {Nil} /\ OpInv' /\ BufInv' /\ UndoInv' /\ DiskInv'
  BY <1>1, RestIs DEF IInv, OpInv, BufInv, UndoInv, DiskInv
<1>3. SwapInv'
  BY <1>1, RestIs, SessionsAreCounted DEF IInv, SwapInv, Sessions
<1> QED BY <1>2, <1>3 DEF IInv

LEMMA OthersWriteKeeps == IInv /\ OthersWrite => IInv'
<1> SUFFICES ASSUME IInv, OthersWrite PROVE IInv'
  OBVIOUS
<1>1. /\ file' \in Texts \cup {Nil} /\ UNCHANGED <<swaps, undoFile, session, pending>>
      /\ op \in Ops
  BY DEF OthersWrite, IInv, OpInv
<1>2. /\ op' \in Ops /\ op'.at = op.at /\ op'.todo = op.todo
      /\ op.at # "idle" => op'.raced
  BY <1>1 DEF OthersWrite, Ops
<1>3. CASE ~Open
  <2>1. ~Open'
    BY <1>3 DEF OthersWrite, Open
  <2> QED BY <1>1, <1>2, <1>3, <2>1 DEF IInv, OpInv, BufInv, UndoInv, SwapInv, DiskInv
<1>4. CASE Open
  <2>1. buf' = IF buf.stat = "current" THEN [buf EXCEPT !.stat = "old"] ELSE buf
    BY <1>4 DEF OthersWrite
  <2>2. Good(buf) /\ Kept(buf, swaps[session])
    BY <1>4 DEF IInv, BufInv
  <2>3. /\ buf' \in Buffers /\ buf'.text = buf.text /\ buf'.undo = buf.undo
        /\ buf'.redo = buf.redo /\ buf'.saved = buf.saved /\ buf'.raced = buf.raced
        /\ buf'.mustCreate = buf.mustCreate /\ buf'.owed = buf.owed
        /\ buf'.backed = buf.backed /\ buf'.armed = buf.armed
        /\ buf'.stat # "current" /\ (buf'.stat = "none" => buf.stat = "none")
    BY <2>1, <2>2 DEF Good, Buffers, Stats
  <2>4. buf' # Nil
    BY <2>3, BuffersAreOpen
  <2>5. OpInv' /\ UndoInv' /\ SwapInv'
    BY <1>1, <1>2, <2>4 DEF IInv, OpInv, UndoInv, SwapInv, Open
  <2>6. BufInv'
    BY <1>1, <2>2, <2>3 DEF BufInv, Good, Kept, Dirty
  <2>7. DiskInv'
    BY <1>2, <1>4, <2>3 DEF IInv, DiskInv
  <2> QED BY <1>1, <2>5, <2>6, <2>7 DEF IInv
<1> QED BY <1>3, <1>4

LEMMA StepKeeps == IInv /\ [Next]_vars => IInv'
<1> SUFFICES ASSUME IInv, [Next]_vars PROVE IInv'
  OBVIOUS
<1>1. CASE OpenDocument
  BY <1>1, StartKeeps DEF OpenDocument
<1>2. CASE FinishLoad
  BY <1>2, FinishLoadKeeps
<1>3. CASE ExternalChange
  BY <1>3, StartKeeps DEF ExternalChange
<1>4. CASE CloseDocument
  BY <1>4, CloseKeeps
<1>5. CASE Edit
  <2>1. PICK text \in Texts, join \in BOOLEAN : buf' = Record(buf, text, join)
    BY <1>5 DEF Edit
  <2>2. Good(buf') /\ SameDisk(buf, buf') /\ Kept(buf', swaps[session])
    BY <1>5, <2>1, RecordIs DEF Edit, IInv, BufInv
  <2> QED BY <1>5, <2>2, EditKeeps DEF Edit
<1>6. CASE Undo \/ Redo
  BY <1>6, UndoKeeps
<1>7. CASE Save \/ SaveForExternalBuild
  <2>1. /\ Free /\ Open /\ UNCHANGED <<file, undoFile, session, pending>>
        /\ Good(buf) /\ SameDisk(buf, buf) /\ Kept(buf, swaps[session])
    BY <1>7 DEF Save, SaveForExternalBuild, IInv, BufInv, SameDisk
  <2>2. CASE Save
    BY <2>1, <2>2, SaveKeeps DEF Save
  <2>3. CASE SaveForExternalBuild
    BY <2>1, <2>3, CommitKeeps DEF SaveForExternalBuild
  <2> QED BY <1>7, <2>2, <2>3
<1>8. CASE Write
  BY <1>8, WriteKeeps
<1>9. CASE WriteFails
  <2>1. Open /\ Good(buf) /\ SameDisk(buf, buf) /\ Kept(buf, swaps[session])
    BY <1>9 DEF WriteFails, IInv, OpInv, BufInv, SameDisk
  <2> QED BY <1>9, <2>1, RefuseKeeps DEF WriteFails
<1>10. CASE FinishSave
  BY <1>10, FinishSaveKeeps
<1>11. ASSUME NEW r \in Requests, Park(r) \/ FormatAnswer(r) \/ Expire(r) \/ CancelSave(r)
       PROVE  IInv'
  <2>1. CASE Park(r)
    BY <2>1, ParkKeeps
  <2>2. CASE FormatAnswer(r) \/ Expire(r)
    <3>1. Free /\ Open /\ UNCHANGED <<file, undoFile, session, pending>>
      BY <2>2 DEF FormatAnswer, Expire
    <3>2. /\ Good(Unpark(r)) /\ SameDisk(buf, Unpark(r))
          /\ Kept(Unpark(r), swaps[session])
      BY <3>1, UnparkIs
    <3>3. \/ CommitSave(Unpark(r), FALSE, FALSE)
          \/ \E text \in Texts : CommitSave(Record(Unpark(r), text, FALSE), TRUE, FALSE)
      BY <2>2 DEF FormatAnswer, Expire
    <3> QED BY <3>1, <3>2, <3>3, SaveKeeps
  <2>3. CASE CancelSave(r)
    BY <2>3, UnparkIs, EditKeeps DEF CancelSave
  <2> QED BY <1>11, <2>1, <2>2, <2>3
<1>12. CASE BackupTick
  <2>1. Good(buf) /\ SameDisk(buf, buf) /\ Kept(buf, swaps[session])
    BY <1>12 DEF BackupTick, IInv, BufInv, SameDisk
  <2> QED BY <1>12, <2>1, TurnKeeps DEF BackupTick
<1>13. CASE RecoverSwaps
  BY <1>13, RecoverSwapsKeeps
<1>14. CASE RecoverNext
  BY <1>14, RecoverNextKeeps
<1>15. CASE DiscardSwaps
  BY <1>15, DiscardSwapsKeeps
<1>16. CASE Relaunch
  BY <1>16, RelaunchKeeps
<1>17. CASE OthersWrite
  BY <1>17, OthersWriteKeeps
<1>18. CASE UNCHANGED vars
  BY <1>18 DEF vars, IInv, OpInv, BufInv, UndoInv, SwapInv, DiskInv, Open
<1> QED BY <1>1, <1>2, <1>3, <1>4, <1>5, <1>6, <1>7, <1>8, <1>9, <1>10, <1>11, <1>12,
           <1>13, <1>14, <1>15, <1>16, <1>17, <1>18 DEF Next

LEMMA InvariantHolds == Spec => []IInv
BY InitHolds, StepKeeps, PTL DEF Spec

-----------------------------------------------------------------------------
(* The properties *)

LEMMA AllowanceShrinks == Next => UNCHANGED left \/ \E event \in Events : Spend(event)
<1>1. OpenDocument \/ FinishLoad \/ ExternalChange \/ CloseDocument => UNCHANGED left
  BY DEF OpenDocument, FinishLoad, ExternalChange, CloseDocument
<1>2. Edit \/ Undo \/ Redo => \E event \in Events : Spend(event)
  BY DEF Edit, Undo, Redo, Events
<1>3. Save \/ SaveForExternalBuild \/ OthersWrite => \E event \in Events : Spend(event)
  BY DEF Save, SaveForExternalBuild, OthersWrite, Events
<1>4. Write \/ WriteFails \/ FinishSave \/ BackupTick => UNCHANGED left
  BY DEF Write, WriteFails, FinishSave, BackupTick
<1>5. \A r \in Requests : Park(r) => Spend("formats")
  BY DEF Park
<1>6. \A r \in Requests : FormatAnswer(r) \/ Expire(r) \/ CancelSave(r) => UNCHANGED left
  BY DEF FormatAnswer, Expire, CancelSave
<1>7. RecoverSwaps \/ RecoverNext \/ DiscardSwaps \/ Relaunch => UNCHANGED left
  BY DEF RecoverSwaps, RecoverNext, DiscardSwaps, Relaunch
<1>8. "formats" \in Events
  BY DEF Events
<1> QED BY <1>1, <1>2, <1>3, <1>4, <1>5, <1>6, <1>7, <1>8 DEF Next

\* Every variable keeps to its type, and an operation on the buffer finds one.
THEOREM TypesHold == Spec => []TypeOK
<1> DEFINE Left == left \in [Events -> Nat]
<1>1. Init => Left
  BY AllowancesBoundEvents DEF Init
<1>2. Left /\ [Next]_vars => Left'
  <2> SUFFICES ASSUME Left, [Next]_vars PROVE Left'
    OBVIOUS
  <2>1. CASE UNCHANGED left
    BY <2>1
  <2>2. ASSUME NEW event \in Events, Spend(event) PROVE Left'
    BY <2>2 DEF Spend
  <2> QED BY <2>1, <2>2, AllowanceShrinks DEF vars
<1>3. IInv /\ Left => TypeOK
  BY DEF IInv, OpInv, BufInv, UndoInv, SwapInv, Good, History, TypeOK, Open
<1> HIDE DEF Left
<1> QED BY <1>1, <1>2, <1>3, InvariantHolds, PTL DEF Spec

\* Every undo and redo is of a text it was recorded for (restore_history,
\* adopt_content, record_joined, enforce_limit).
THEOREM HistoryAlwaysFits == Spec => []HistoryFits
<1>1. IInv => HistoryFits
  BY DEF IInv, BufInv, UndoInv, Good, HistoryFits
<1> QED BY <1>1, InvariantHolds, PTL

\* Unsaved text is in the session's swap once the backup has had its turn
\* (back_up_document, save_document's failure path).
THEOREM UnsavedIsKept == Spec => []UnsavedTextIsKept
<1>1. IInv => UnsavedTextIsKept
  BY DEF IInv, BufInv, Kept, UnsavedTextIsKept
<1> QED BY <1>1, InvariantHolds, PTL

\* A save that replaces a text the session did not know raced another program
\* (conflicts_with_disk, save_new_bytes).
THEOREM SavesOverwriteNothingUnread == Spec => NoSilentOverwrite
<1> DEFINE Known == Overwrites => \/ file = buf.saved
                                  \/ op.raced
                                  \/ buf.raced /\ buf.stat # "old"
<1>1. IInv /\ [Next]_vars => [Known]_vars
  <2> SUFFICES ASSUME IInv, Next, Overwrites PROVE Known
    BY DEF Known
  <2>1. op.at = "checked" /\ op'.at = "written" /\ file # Nil /\ op \in Ops
    BY DEF Overwrites, IInv, OpInv
  <2>2. ~Free /\ op' # Rest
    BY <2>1, RestIs DEF Free
  <2>3. Write
    <3>1. ~OthersWrite
      BY <2>1 DEF OthersWrite, Ops
    <3>2. ~WriteFails /\ ~Relaunch
      BY <2>2 DEF WriteFails, Refuse, Relaunch
    <3>3. ~FinishLoad /\ ~FinishSave /\ ~RecoverNext
      BY <2>1 DEF FinishLoad, FinishSave, RecoverNext
    <3>4. ~OpenDocument /\ ~ExternalChange /\ ~CloseDocument /\ ~RecoverSwaps /\ ~DiscardSwaps
      BY <2>2 DEF OpenDocument, ExternalChange, CloseDocument, RecoverSwaps, DiscardSwaps
    <3>5. ~Edit /\ ~Undo /\ ~Redo /\ ~Save /\ ~SaveForExternalBuild /\ ~BackupTick
      BY <2>2 DEF Edit, Undo, Redo, Save, SaveForExternalBuild, BackupTick
    <3>6. \A r \in Requests : ~Park(r) /\ ~FormatAnswer(r) /\ ~Expire(r) /\ ~CancelSave(r)
      BY <2>2 DEF Park, FormatAnswer, Expire, CancelSave
    <3> QED BY <3>1, <3>2, <3>3, <3>4, <3>5, <3>6 DEF Next
  <2>4. ~buf.mustCreate
    <3>1. ~Refuse(buf, op.build)
      BY <2>2 DEF Refuse
    <3> QED BY <2>1, <2>3, <3>1 DEF Write
  <2>5. buf.stat \in Stats
    BY <2>1 DEF IInv, OpInv, BufInv, Good, Buffers
  <2> QED BY <2>1, <2>4, <2>5 DEF IInv, OpInv, DiskInv, Known, Stats
<1> QED BY <1>1, InvariantHolds, PTL DEF Spec, NoSilentOverwrite
=============================================================================
