--------------------------- MODULE RpcCallsProofs ---------------------------
(***************************************************************************)
(* Proofs about RpcCalls, for any set of calls and any queue capacity.     *)
(***************************************************************************)
EXTENDS RpcCalls, TLAPS

\* Every field of the state has its type, the queue its capacity.
LEMMA InitTyped == Init => TypeOK
<1> SUFFICES ASSUME Init PROVE TypeOK
  OBVIOUS
<1>1. outbound \in Seq(Frames) /\ Len(outbound) = 0
  BY DEF Init
<1>2. writer.at = "receive"
  BY DEF Init
<1>3. at \in [Callers -> Calls] /\ id \in [Callers -> Nat]
      /\ result \in [Callers -> Results]
  BY DEF Init, Calls, Results
<1>4. mail \in [Callers -> SUBSET Callers]
  BY DEF Init, Nothing
<1>5. pending \subseteq Nat /\ nextSeq \in Nat \ {0} /\ serving \subseteq Requests
      /\ others \in 0..MaxOthers
  BY MaxOthersIsNat DEF Init
<1>6. Len(outbound) <= Outbound
  BY <1>1, OutboundHoldsAFrame
<1>7. closed \in BOOLEAN /\ signal \in BOOLEAN /\ reader = "reading" /\ owner = "open"
  BY DEF Init
<1> QED
  BY <1>1, <1>2, <1>3, <1>4, <1>5, <1>6, <1>7 DEF TypeOK, WriterStates

\* Queueing a frame where there is room keeps the type of the queue.
LEMMA QueueTyped ==
  ASSUME TypeOK, NEW f \in Frames, Len(outbound) < Outbound,
         outbound' = Append(outbound, f)
  PROVE  outbound' \in Seq(Frames) /\ Len(outbound') <= Outbound
<1>1. outbound \in Seq(Frames)
  BY DEF TypeOK
<1>2. Len(Append(outbound, f)) = Len(outbound) + 1 /\ Len(outbound) \in Nat
  BY <1>1
<1>3. Append(outbound, f) \in Seq(Frames)
  BY <1>1
<1> QED BY <1>2, <1>3, OutboundHoldsAFrame

LEMMA StepTyped == TypeOK /\ [Next]_vars => TypeOK'
<1> SUFFICES ASSUME TypeOK, [Next]_vars PROVE TypeOK'
  OBVIOUS
<1> USE OutboundHoldsAFrame, MaxOthersIsNat
<1> USE DEF TypeOK
<1>0. Other \in Frames /\ Close \in Frames /\ Requests \subseteq Frames
  BY DEF Frames
<1>1. CASE UNCHANGED vars
  BY <1>1 DEF vars, calls, map, flags
<1>2. ASSUME NEW c \in Callers, Register(c) PROVE TypeOK'
  BY <1>2 DEF Register, Go, flags, Calls
<1>3. ASSUME NEW c \in Callers, CheckClosed(c) PROVE TypeOK'
  BY <1>3 DEF CheckClosed, Go, Return, Forget, flags, Calls, Results
<1>4. ASSUME NEW c \in Callers, SendRequest(c) PROVE TypeOK'
  <2>1. Request(c) \in Frames
    BY <1>0 DEF Request, Requests
  <2>2. UNCHANGED <<id, mail, nextSeq, closed, signal, writer, reader, owner,
                    serving, others>>
    BY <1>4 DEF SendRequest, flags
  <2>3. CASE Len(outbound) < Outbound /\ outbound' = Append(outbound, Request(c))
             /\ Go(c, "waiting") /\ UNCHANGED <<result, pending>>
    <3>1. outbound' \in Seq(Frames) /\ Len(outbound') <= Outbound
      BY <2>1, <2>3, QueueTyped
    <3> QED BY <2>2, <2>3, <3>1 DEF Go, Calls
  <2>4. CASE Return(c, "closed") /\ Forget(c) /\ UNCHANGED outbound
    BY <2>2, <2>4 DEF Return, Forget, Go, Calls, Results
  <2> QED BY <1>4, <2>3, <2>4 DEF SendRequest
<1>5. ASSUME NEW c \in Callers, Resolve(c) \/ Timeout(c) \/ Abandon(c)
      PROVE TypeOK'
  BY <1>5 DEF Resolve, Timeout, Abandon, Go, Return, Forget, map, flags, Calls,
              Results
<1>6. CASE QueueOther \/ QueueClose
  <2>1. outbound' \in Seq(Frames) /\ Len(outbound') <= Outbound
    BY <1>0, <1>6, QueueTyped DEF QueueOther, QueueClose
  <2>2. CASE QueueOther
    BY <2>1, <2>2 DEF QueueOther, calls, map, flags
  <2>3. CASE QueueClose
    BY <2>1, <2>3 DEF QueueClose, calls, map, flags
  <2> QED BY <1>6, <2>2, <2>3
<1>7. CASE WriterReceive
  <2>1. outbound \in Seq(Frames) /\ outbound # <<>> /\ outbound' = Tail(outbound)
    BY <1>7 DEF WriterReceive
  <2>2. Head(outbound) \in Frames
    BY <2>1
  <2>3. Tail(outbound) \in Seq(Frames) /\ Len(Tail(outbound)) = Len(outbound) - 1
    BY <2>1
  <2>4. outbound' \in Seq(Frames) /\ Len(outbound') <= Outbound
    BY <2>1, <2>3
  <2>5. writer' = [at |-> "stopping"]
        \/ writer' = [at |-> "writing", frame |-> Head(outbound)]
    BY <1>7 DEF WriterReceive
  <2>6. (writer.at \in WriterStates /\ (writer.at = "writing" => writer.frame \in Frames))'
    BY <2>2, <2>5 DEF WriterStates
  <2> QED BY <1>7, <2>4, <2>6 DEF WriterReceive, calls, map, flags
<1>8. CASE WriteFrame
  <2>1. writer.frame \in Frames
    BY <1>8 DEF WriteFrame
  <2>2. writer.frame.kind = "request" => writer.frame \in Requests
    BY <2>1 DEF Frames, Other, Close
  <2>3. writer'.at = "receive"
    BY <1>8 DEF WriteFrame
  <2>4. serving' \subseteq Requests
    BY <1>8, <2>2 DEF WriteFrame
  <2> QED BY <1>8, <2>3, <2>4 DEF WriteFrame, calls, map, flags, WriterStates
<1>9. CASE WriteFails \/ WriterFlags \/ WriterEnds
  <2>1. writer'.at \in {"stopping", "flagged", "over"}
    BY <1>9 DEF WriteFails, WriterFlags, WriterEnds
  <2>2. outbound' \in Seq(Frames) /\ Len(outbound') <= Outbound
    <3>1. UNCHANGED outbound \/ outbound' = <<>>
      BY <1>9 DEF WriteFails, WriterFlags, WriterEnds
    <3>2. <<>> \in Seq(Frames) /\ Len(<<>>) <= Outbound
      BY OutboundHoldsAFrame
    <3> QED BY <3>1, <3>2
  <2> QED BY <1>9, <2>1, <2>2
          DEF WriteFails, WriterFlags, WriterEnds, calls, map, flags, WriterStates
<1>10. ASSUME NEW m \in serving, ReadResponse(m) PROVE TypeOK'
  <2>1. m.about \in Callers
    BY DEF Requests
  <2> QED BY <1>10, <2>1 DEF ReadResponse, map, flags
<1>11. CASE ReaderFlags \/ FailPending \/ ReaderEnds \/ CloseActor
  BY <1>11 DEF ReaderFlags, FailPending, ReaderEnds, CloseActor, calls, map, flags
<1>12. CASE FinishClose \/ DropActor
  <2>1. writer'.at = "over" /\ outbound' = <<>>
    BY <1>12 DEF FinishClose, DropActor, Abort
  <2>2. outbound' \in Seq(Frames) /\ Len(outbound') <= Outbound
    BY <2>1, OutboundHoldsAFrame
  <2> QED BY <1>12, <2>1, <2>2
          DEF FinishClose, DropActor, Abort, calls, map, flags, WriterStates
<1> QED
  BY <1>1, <1>2, <1>3, <1>4, <1>5, <1>6, <1>7, <1>8, <1>9, <1>10, <1>11, <1>12
     DEF Next, CallStep, WriterStep, ReaderStep, Over

\* The state of an actor always has its type; in particular the frame queue
\* never outgrows its capacity.
THEOREM TypeCorrect == Spec => []TypeOK
  BY InitTyped, StepTyped, PTL DEF Spec

-----------------------------------------------------------------------------
(* Ids *)

\* An id names one call: the counter is ahead of all of them, and a request on
\* its way carries the id of the call it is about.
Carries(m) == m.kind = "request" => m.id = id[m.about] /\ m.id # 0

IdsAreFresh ==
    /\ \A c \in Callers : id[c] < nextSeq /\ (at[c] = "idle" <=> id[c] = 0)
    /\ \A c, d \in Callers : id[c] = id[d] /\ id[c] # 0 => c = d
    /\ \A i \in 1..Len(outbound) : Carries(outbound[i])
    /\ writer.at = "writing" => Carries(writer.frame)
    /\ \A m \in serving : Carries(m)

LEMMA InitFresh == Init => IdsAreFresh
  BY DEF Init, IdsAreFresh

LEMMA StepFresh == TypeOK /\ IdsAreFresh /\ [Next]_vars => IdsAreFresh'
<1> SUFFICES ASSUME TypeOK, IdsAreFresh, [Next]_vars PROVE IdsAreFresh'
  OBVIOUS
<1> USE DEF IdsAreFresh
<1>1. CASE UNCHANGED vars
  BY <1>1 DEF vars, calls, map, flags, Carries
<1>2. ASSUME NEW c \in Callers, Register(c) PROVE IdsAreFresh'
  <2>1. id[c] = 0 /\ id' = [id EXCEPT ![c] = nextSeq] /\ nextSeq' = nextSeq + 1
    BY <1>2 DEF Register
  <2>2. ASSUME NEW m \in Requests, Carries(m) PROVE Carries(m)'
    BY <2>1, <2>2 DEF Carries, Requests, TypeOK
  <2>3. ASSUME NEW m \in Frames, Carries(m) PROVE Carries(m)'
    BY <2>2, <2>3 DEF Frames, Carries, Other, Close
  <2>4. UNCHANGED <<outbound, writer, serving>> /\ at' = [at EXCEPT ![c] = "registered"]
    BY <1>2 DEF Register, Go
  <2>5. \A i \in 1..Len(outbound) : outbound[i] \in Frames
    BY DEF TypeOK
  <2>6. writer.at = "writing" => writer.frame \in Frames
    BY DEF TypeOK
  <2>7. (\A i \in 1..Len(outbound) : Carries(outbound[i]))'
    BY <2>3, <2>4, <2>5
  <2>8. (writer.at = "writing" => Carries(writer.frame))'
    BY <2>3, <2>4, <2>6
  <2>9. (\A m \in serving : Carries(m))'
    BY <2>2, <2>4 DEF TypeOK
  <2>10. (\A d \in Callers : id[d] < nextSeq /\ (at[d] = "idle" <=> id[d] = 0))'
    BY <2>1, <2>4 DEF TypeOK
  <2>11. (\A d, e \in Callers : id[d] = id[e] /\ id[d] # 0 => d = e)'
    BY <2>1 DEF TypeOK
  <2> QED BY <2>7, <2>8, <2>9, <2>10, <2>11
<1>3. ASSUME NEW c \in Callers, CheckClosed(c) PROVE IdsAreFresh'
  BY <1>3 DEF CheckClosed, Go, Return, TypeOK, Carries, Calls
<1>4. ASSUME NEW c \in Callers, SendRequest(c) PROVE IdsAreFresh'
  <2>1. UNCHANGED <<id, nextSeq, writer, serving>> /\ at[c] = "sending"
    BY <1>4 DEF SendRequest
  <2>2. at' \in {[at EXCEPT ![c] = "waiting"], [at EXCEPT ![c] = "done"]}
    BY <1>4 DEF SendRequest, Go, Return
  <2>3. id[c] # 0
    BY <2>1 DEF TypeOK
  <2>4. (\A i \in 1..Len(outbound) : Carries(outbound[i]))'
    <3>1. CASE UNCHANGED outbound
      BY <2>1, <3>1 DEF Carries
    <3>2. CASE outbound' = Append(outbound, Request(c))
      <4>1. outbound \in Seq(Frames)
        BY DEF TypeOK
      <4>2. Request(c).id = id[c] /\ Request(c).about = c
        BY DEF Request
      <4>3. \A i \in 1..Len(outbound) : Carries(outbound[i])
        OBVIOUS
      <4>4. \A i \in 1..Len(outbound') :
               outbound'[i] = IF i <= Len(outbound) THEN outbound[i] ELSE Request(c)
        BY <3>2, <4>1
      <4>5. Len(outbound') = Len(outbound) + 1 /\ Len(outbound) \in Nat
        BY <3>2, <4>1
      <4> QED BY <2>1, <2>3, <4>2, <4>3, <4>4, <4>5 DEF Carries
    <3> QED BY <1>4, <3>1, <3>2 DEF SendRequest
  <2>5. (\A m \in serving : Carries(m))' /\ (writer.at = "writing" => Carries(writer.frame))'
    BY <2>1 DEF Carries
  <2> QED BY <2>1, <2>2, <2>4, <2>5 DEF TypeOK
<1>5. ASSUME NEW c \in Callers, Resolve(c) \/ Timeout(c) \/ Abandon(c)
      PROVE IdsAreFresh'
  BY <1>5 DEF Resolve, Timeout, Abandon, Go, Return, map, TypeOK, Carries
<1>6. CASE QueueOther \/ QueueClose
  <2>1. UNCHANGED <<at, id, nextSeq, writer, serving>>
    BY <1>6 DEF QueueOther, QueueClose, calls, map
  <2>2. PICK f \in {Other, Close} : outbound' = Append(outbound, f)
    BY <1>6 DEF QueueOther, QueueClose
  <2>3. outbound \in Seq(Frames)
    BY DEF TypeOK
  <2>4. f.kind # "request"
    BY DEF Other, Close
  <2>5. \A i \in 1..Len(outbound') :
           outbound'[i] = IF i <= Len(outbound) THEN outbound[i] ELSE f
    BY <2>2, <2>3
  <2>6. Len(outbound') = Len(outbound) + 1 /\ Len(outbound) \in Nat
    BY <2>2, <2>3
  <2> QED BY <2>1, <2>4, <2>5, <2>6 DEF Carries
<1>7. CASE WriterReceive
  <2>1. UNCHANGED <<at, id, nextSeq, serving>> /\ outbound # <<>>
        /\ outbound' = Tail(outbound)
    BY <1>7 DEF WriterReceive, calls, map
  <2>2. Carries(Head(outbound))
    BY <2>1 DEF TypeOK
  <2>3. writer'.at = "writing" => writer'.frame = Head(outbound)
    BY <1>7 DEF WriterReceive
  <2>4. (\A i \in 1..Len(outbound) : Carries(outbound[i]))'
    BY <2>1 DEF TypeOK, Carries
  <2> QED BY <2>1, <2>2, <2>3, <2>4 DEF Carries
<1>8. CASE WriteFrame
  BY <1>8 DEF WriteFrame, calls, map, Carries
<1>9. CASE WriteFails \/ WriterFlags \/ WriterEnds
  BY <1>9 DEF WriteFails, WriterFlags, WriterEnds, calls, map, Carries
<1>10. ASSUME NEW m \in serving, ReadResponse(m) PROVE IdsAreFresh'
  BY <1>10 DEF ReadResponse, Carries
<1>11. CASE ReaderFlags \/ FailPending \/ ReaderEnds \/ CloseActor
  BY <1>11 DEF ReaderFlags, FailPending, ReaderEnds, CloseActor, calls, map, Carries
<1>12. CASE FinishClose \/ DropActor
  BY <1>12 DEF FinishClose, DropActor, Abort, calls, map, Carries
<1> QED
  BY <1>1, <1>2, <1>3, <1>4, <1>5, <1>6, <1>7, <1>8, <1>9, <1>10, <1>11, <1>12
     DEF Next, CallStep, WriterStep, ReaderStep, Over

LEMMA AlwaysFresh == Spec => [](TypeOK /\ IdsAreFresh)
<1>1. Init => TypeOK /\ IdsAreFresh
  BY InitTyped, InitFresh
<1>2. TypeOK /\ IdsAreFresh /\ [Next]_vars => (TypeOK /\ IdsAreFresh)'
  BY StepTyped, StepFresh
<1> QED BY <1>1, <1>2, PTL DEF Spec

-----------------------------------------------------------------------------
(* Answers *)

\* A call gets the answer to its own request, however late the answers to
\* abandoned and timed-out ones come in (actor.rs, the pending map).
AnswersTheirCaller == \A c \in Callers : mail[c] \subseteq {c}

\* A call is never given the answer to another's request.
THEOREM Correlation == Spec => []AnswersTheirCaller
<1>1. Init => AnswersTheirCaller
  BY DEF Init, AnswersTheirCaller, Nothing
<1>2. TypeOK /\ IdsAreFresh /\ AnswersTheirCaller /\ [Next]_vars
        => AnswersTheirCaller'
  <2> SUFFICES ASSUME TypeOK, IdsAreFresh, AnswersTheirCaller, [Next]_vars
               PROVE AnswersTheirCaller'
    OBVIOUS
  <2>1. ASSUME NEW m \in serving, ReadResponse(m) PROVE AnswersTheirCaller'
    <3>1. m \in Requests /\ m.id = id[m.about] /\ m.id # 0 /\ m.about \in Callers
      BY DEF TypeOK, IdsAreFresh, Carries, Requests
    <3>2. ASSUME NEW c \in Callers, id[c] = m.id PROVE c = m.about
      BY <3>1, <3>2 DEF IdsAreFresh
    <3>3. mail' = [c \in Callers |-> IF id[c] = m.id /\ HasSender(c)
                                     THEN mail[c] \cup {m.about} ELSE mail[c]]
      BY <2>1 DEF ReadResponse
    <3>4. ASSUME NEW c \in Callers PROVE mail'[c] \subseteq {c}
      <4>1. mail'[c] = IF id[c] = m.id /\ HasSender(c)
                       THEN mail[c] \cup {m.about} ELSE mail[c]
        BY <3>3
      <4> QED BY <3>2, <4>1 DEF AnswersTheirCaller
    <3> QED BY <3>4 DEF AnswersTheirCaller
  <2>2. UNCHANGED mail \/ \E m \in serving : ReadResponse(m)
    BY DEF Next, vars, calls, CallStep, WriterStep, ReaderStep, Over, Register,
           CheckClosed, SendRequest, Resolve, Timeout, Abandon, QueueOther,
           QueueClose, WriterReceive, WriteFrame, WriteFails, WriterFlags,
           WriterEnds, ReaderFlags, FailPending, ReaderEnds, CloseActor,
           FinishClose, DropActor, Abort
  <2> QED BY <2>1, <2>2 DEF AnswersTheirCaller
<1> QED BY <1>1, <1>2, AlwaysFresh, PTL DEF Spec

-----------------------------------------------------------------------------
(* The end of the reader *)

\* What dispatch and read_loop rely on: the flag is up before the map is
\* failed, and only the end of a task gives the signal.
Settled ==
    /\ reader \in {"flagged", "cleared", "over"} => closed
    /\ signal /\ writer.at # "over" => reader = "over"
    /\ NobodyWaitsOnADeadReader

LEMMA StepSettled ==
    TypeOK /\ IdsAreFresh /\ Settled /\ [Next]_vars => Settled'
<1> SUFFICES ASSUME TypeOK, IdsAreFresh, Settled, [Next]_vars PROVE Settled'
  OBVIOUS
<1> USE DEF Settled, NobodyWaitsOnADeadReader, HasSender
<1>1. CASE UNCHANGED vars
  BY <1>1 DEF vars, calls, map, flags
<1>2. ASSUME NEW c \in Callers, Register(c) PROVE Settled'
  <2>1. ASSUME NEW d \in Callers, d # c PROVE id'[d] = id[d] /\ id[d] # nextSeq
    BY <1>2, <2>1 DEF Register, IdsAreFresh, TypeOK
  <2> QED BY <1>2, <2>1 DEF Register, Go, flags, TypeOK
<1>3. ASSUME NEW c \in Callers, CheckClosed(c) PROVE Settled'
  BY <1>3 DEF CheckClosed, Go, Return, Forget, flags, TypeOK
<1>4. ASSUME NEW c \in Callers, SendRequest(c) PROVE Settled'
  BY <1>4 DEF SendRequest, Go, Return, Forget, flags, TypeOK
<1>5. ASSUME NEW c \in Callers, Resolve(c) \/ Timeout(c) \/ Abandon(c)
      PROVE Settled'
  BY <1>5 DEF Resolve, Timeout, Abandon, Go, Return, Forget, map, flags, TypeOK
<1>6. CASE QueueOther \/ QueueClose \/ CloseActor
  BY <1>6 DEF QueueOther, QueueClose, CloseActor, calls, map, flags
<1>7. CASE WriterReceive \/ WriteFrame \/ WriteFails \/ WriterFlags \/ WriterEnds
  BY <1>7 DEF WriterReceive, WriteFrame, WriteFails, WriterFlags, WriterEnds,
              calls, map, flags
<1>8. ASSUME NEW m \in serving, ReadResponse(m) PROVE Settled'
  BY <1>8 DEF ReadResponse, flags
<1>9. CASE ReaderFlags \/ FailPending \/ ReaderEnds
  BY <1>9 DEF ReaderFlags, FailPending, ReaderEnds, calls, map, flags
<1>10. CASE FinishClose \/ DropActor
  BY <1>10 DEF FinishClose, DropActor, Abort, calls, map, flags
<1> QED
  BY <1>1, <1>2, <1>3, <1>4, <1>5, <1>6, <1>7, <1>8, <1>9, <1>10
     DEF Next, CallStep, WriterStep, ReaderStep, Over

LEMMA AlwaysSettled == Spec => []Settled
<1>1. Init => Settled
  BY DEF Init, Settled, NobodyWaitsOnADeadReader
<1> QED BY <1>1, StepSettled, AlwaysFresh, PTL DEF Spec

\* No call waits out its timeout on an actor whose reader is gone, however its
\* registration raced the end of the stream.
THEOREM DeadReaderFails == Spec => []NobodyWaitsOnADeadReader
<1>1. Settled => NobodyWaitsOnADeadReader
  BY DEF Settled
<1> QED BY <1>1, AlwaysSettled, PTL

\* Whoever the reader's signal wakes finds the flag set and every request in
\* flight failed.
THEOREM SettledBeforeSignal == Spec => []WokenFindsItSettled
<1>1. Settled => WokenFindsItSettled
  BY DEF Settled, WokenFindsItSettled, NobodyWaitsOnADeadReader
<1> QED BY <1>1, AlwaysSettled, PTL
-----------------------------------------------------------------------------
(* Where a request is *)

\* A request is in one place, once; it is nowhere before dispatch queued it;
\* and until the reader ends, an open call has its sender or its answer.
Once(c) ==
    \A i, j \in 1..Len(outbound) : Asks(outbound[i], c) /\ Asks(outbound[j], c) => i = j

InOnePlace(c) ==
    /\ at[c] \in {"idle", "registered", "sending"} =>
          ~InQueue(c) /\ ~InWriter(c) /\ ~AtPeer(c) /\ c \notin mail[c]
    /\ c \in mail[c] => ~InQueue(c) /\ ~InWriter(c) /\ ~AtPeer(c)
    /\ AtPeer(c) => ~InQueue(c) /\ ~InWriter(c)
    /\ InWriter(c) => ~InQueue(c)
    /\ Once(c)

KeepsItsSender(c) ==
    at[c] \in {"registered", "sending", "waiting"} /\ reader = "reading"
        => c \in mail[c] \/ HasSender(c)

OneCopy == \A c \in Callers : InOnePlace(c) /\ KeepsItsSender(c)

CallInv == TypeOK /\ IdsAreFresh /\ AnswersTheirCaller /\ OneCopy

\* The queue after a frame is appended, and after its head is taken.
LEMMA QueueGrows ==
  ASSUME TypeOK, NEW f, outbound' = Append(outbound, f), NEW c \in Callers
  PROVE  /\ InQueue(c)' <=> InQueue(c) \/ Asks(f, c)
         /\ Once(c) /\ ~(InQueue(c) /\ Asks(f, c)) => Once(c)'
<1>1. outbound \in Seq(Frames)
  BY DEF TypeOK
<1>2. Len(outbound') = Len(outbound) + 1 /\ Len(outbound) \in Nat
  BY <1>1
<1>3. \A i \in 1..Len(outbound') :
         outbound'[i] = IF i <= Len(outbound) THEN outbound[i] ELSE f
  BY <1>1
<1>4. InQueue(c)' <=> InQueue(c) \/ Asks(f, c)
  <2>1. ASSUME InQueue(c)' PROVE InQueue(c) \/ Asks(f, c)
    BY <1>2, <1>3, <2>1 DEF InQueue
  <2>2. ASSUME InQueue(c) PROVE InQueue(c)'
    <3>1. PICK i \in 1..Len(outbound) : Asks(outbound[i], c)
      BY <2>2 DEF InQueue
    <3>2. i \in 1..Len(outbound') /\ outbound'[i] = outbound[i]
      BY <1>2, <1>3, <3>1
    <3> QED BY <3>1, <3>2 DEF InQueue
  <2>3. ASSUME Asks(f, c) PROVE InQueue(c)'
    <3>1. Len(outbound') \in 1..Len(outbound') /\ outbound'[Len(outbound')] = f
      BY <1>2, <1>3
    <3> QED BY <2>3, <3>1 DEF InQueue
  <2> QED BY <2>1, <2>2, <2>3
<1>5. ASSUME Once(c), ~(InQueue(c) /\ Asks(f, c)) PROVE Once(c)'
  BY <1>2, <1>3, <1>5 DEF Once, InQueue
<1> QED BY <1>4, <1>5

LEMMA QueueShrinks ==
  ASSUME TypeOK, outbound # <<>>, outbound' = Tail(outbound), NEW c \in Callers,
         Once(c)
  PROVE  /\ InQueue(c) <=> InQueue(c)' \/ Asks(Head(outbound), c)
         /\ ~(InQueue(c)' /\ Asks(Head(outbound), c))
         /\ Once(c)'
<1>1. outbound \in Seq(Frames)
  BY DEF TypeOK
<1>2. Len(outbound') = Len(outbound) - 1 /\ Len(outbound) \in Nat \ {0}
      /\ Head(outbound) = outbound[1]
  BY <1>1
<1>3. \A i \in 1..Len(outbound') : outbound'[i] = outbound[i + 1]
  BY <1>1
<1>4. \A i \in 1..Len(outbound') : i + 1 \in 1..Len(outbound) /\ i + 1 # 1
  BY <1>2
<1>5. \A j \in 1..Len(outbound) : j # 1 =>
         j - 1 \in 1..Len(outbound') /\ outbound'[j - 1] = outbound[j]
  BY <1>2, <1>3
<1>6. 1 \in 1..Len(outbound)
  BY <1>2
<1>7. ASSUME InQueue(c)' PROVE InQueue(c) /\ ~Asks(Head(outbound), c)
  BY <1>2, <1>3, <1>4, <1>6, <1>7 DEF InQueue, Once
<1>8. ASSUME InQueue(c) PROVE InQueue(c)' \/ Asks(Head(outbound), c)
  BY <1>2, <1>5, <1>8 DEF InQueue
<1>9. Asks(Head(outbound), c) => InQueue(c)
  BY <1>2, <1>6 DEF InQueue
<1>10. Once(c)'
  <2> SUFFICES ASSUME NEW i \in 1..Len(outbound'), NEW j \in 1..Len(outbound'),
                      Asks(outbound'[i], c), Asks(outbound'[j], c)
               PROVE  i = j
    BY DEF Once, Asks
  <2>1. i + 1 = j + 1
    BY <1>3, <1>4 DEF Once
  <2> QED BY <2>1, <1>2
<1> QED BY <1>7, <1>8, <1>9, <1>10

\* What each step does to the places of the frames; the steps not named here
\* leave the queue, the writer and the peer alone.
LEMMA FramesStay ==
  ASSUME UNCHANGED <<outbound, writer, serving>>, NEW c \in Callers
  PROVE  /\ InQueue(c)' <=> InQueue(c)
         /\ InWriter(c)' <=> InWriter(c)
         /\ AtPeer(c)' <=> AtPeer(c)
         /\ Once(c)' <=> Once(c)
  BY DEF InQueue, InWriter, AtPeer, Once

LEMMA ReceiveMoves ==
  ASSUME TypeOK, OneCopy, WriterReceive, NEW c \in Callers
  PROVE  /\ ~InWriter(c)
         /\ InQueue(c) <=> InQueue(c)' \/ InWriter(c)'
         /\ ~(InQueue(c)' /\ InWriter(c)')
         /\ AtPeer(c)' <=> AtPeer(c)
         /\ Once(c)'
<1>1. outbound # <<>> /\ outbound' = Tail(outbound) /\ writer.at = "receive"
      /\ UNCHANGED serving
  BY DEF WriterReceive
<1>2. Once(c)
  BY DEF OneCopy, InOnePlace
<1>3. InWriter(c)' <=> Asks(Head(outbound), c)
  <2>1. CASE Head(outbound) = Close
    BY <2>1 DEF WriterReceive, InWriter, Asks, Close
  <2>2. CASE Head(outbound) # Close
    <3>1. writer' = [at |-> "writing", frame |-> Head(outbound)]
      BY <2>2 DEF WriterReceive
    <3>2. writer'.at = "writing" /\ writer'.frame = Head(outbound)
      BY <3>1
    <3> QED BY <3>2 DEF InWriter, Asks
  <2> QED BY <2>1, <2>2
<1>4. ~InWriter(c)
  BY <1>1 DEF InWriter
<1>5. AtPeer(c)' <=> AtPeer(c)
  BY <1>1 DEF AtPeer
<1> QED BY <1>1, <1>2, <1>3, <1>4, <1>5, QueueShrinks

LEMMA WriteMoves ==
  ASSUME TypeOK, WriteFrame, NEW c \in Callers
  PROVE  /\ InQueue(c)' <=> InQueue(c)
         /\ ~InWriter(c)'
         /\ AtPeer(c)' <=> AtPeer(c) \/ InWriter(c)
         /\ Once(c)' <=> Once(c)
<1>1. writer' = [at |-> "receive"] /\ UNCHANGED outbound /\ writer.at = "writing"
      /\ serving' = IF writer.frame.kind = "request"
                    THEN serving \cup {writer.frame} ELSE serving
  BY DEF WriteFrame
<1>2. writer'.at = "receive"
  BY <1>1
<1> QED BY <1>1, <1>2 DEF InQueue, InWriter, AtPeer, Once, Asks

\* A frame is lost with the writer that holds it, or with the queue.
LEMMA FramesLost ==
  ASSUME UNCHANGED <<outbound, serving>> \/ (outbound' = <<>> /\ UNCHANGED serving),
         writer'.at # "writing", NEW c \in Callers
  PROVE  /\ InQueue(c)' => InQueue(c)
         /\ ~InWriter(c)'
         /\ AtPeer(c)' <=> AtPeer(c)
         /\ Once(c) => Once(c)'
<1>1. outbound' = <<>> => ~InQueue(c)' /\ Once(c)'
  BY DEF InQueue, Once
<1> QED BY <1>1 DEF InQueue, InWriter, AtPeer, Once

\* A response takes the one copy its call has at the peer, and reaches the call
\* if its sender is there.
LEMMA ReadMoves ==
  ASSUME TypeOK, IdsAreFresh, NEW m \in serving, ReadResponse(m), NEW c \in Callers
  PROVE  /\ m.about \in Callers /\ AtPeer(m.about)
         /\ InQueue(c)' <=> InQueue(c)
         /\ InWriter(c)' <=> InWriter(c)
         /\ Once(c)' <=> Once(c)
         /\ AtPeer(c)' <=> AtPeer(c) /\ c # m.about
         /\ c # m.about => mail'[c] = mail[c] /\ (HasSender(c)' <=> HasSender(c))
         /\ c = m.about => mail'[c] = IF HasSender(c) THEN mail[c] \cup {c} ELSE mail[c]
<1>1. \A r \in serving : r \in Requests /\ r.id = id[r.about] /\ r.id # 0
                         /\ r.about \in Callers
  BY DEF TypeOK, IdsAreFresh, Carries, Requests
<1>2. \A r \in serving : r.about = m.about => r = m
  BY <1>1 DEF Requests
<1>3. id[c] = m.id <=> c = m.about
  BY <1>1 DEF IdsAreFresh
<1>4. serving' = serving \ {m} /\ UNCHANGED <<outbound, writer, id>>
      /\ pending' = pending \ {m.id}
      /\ mail' = [d \in Callers |-> IF id[d] = m.id /\ HasSender(d)
                                    THEN mail[d] \cup {m.about} ELSE mail[d]]
  BY DEF ReadResponse
<1>5. AtPeer(c)' <=> AtPeer(c) /\ c # m.about
  BY <1>2, <1>4 DEF AtPeer
<1>6. AtPeer(m.about) /\ m.about \in Callers
  BY <1>1 DEF AtPeer
<1>7. (InQueue(c)' <=> InQueue(c)) /\ (InWriter(c)' <=> InWriter(c))
      /\ (Once(c)' <=> Once(c))
  BY <1>4 DEF InQueue, InWriter, Once
<1>8. mail'[c] = IF id[c] = m.id /\ HasSender(c) THEN mail[c] \cup {m.about} ELSE mail[c]
  BY <1>4
<1>9. c # m.about => (HasSender(c)' <=> HasSender(c))
  BY <1>3, <1>4 DEF HasSender
<1> QED BY <1>3, <1>5, <1>6, <1>7, <1>8, <1>9

LEMMA InitOneCopy == Init => OneCopy
<1> SUFFICES ASSUME Init, NEW c \in Callers PROVE InOnePlace(c) /\ KeepsItsSender(c)
  BY DEF OneCopy
<1>1. outbound = <<>> /\ serving = {} /\ mail[c] = {} /\ writer.at = "receive"
      /\ at[c] = "idle"
  BY DEF Init, Nothing
<1>2. ~InQueue(c) /\ Once(c)
  BY <1>1 DEF InQueue, Once
<1> QED BY <1>1, <1>2 DEF InOnePlace, KeepsItsSender, InWriter, AtPeer

LEMMA StepOneCopy ==
    TypeOK /\ IdsAreFresh /\ OneCopy /\ [Next]_vars => OneCopy'
<1> SUFFICES ASSUME TypeOK, IdsAreFresh, OneCopy, [Next]_vars, NEW d \in Callers
             PROVE  (InOnePlace(d) /\ KeepsItsSender(d))'
  BY DEF OneCopy
<1>0. InOnePlace(d) /\ KeepsItsSender(d)
  BY DEF OneCopy
<1> USE DEF InOnePlace, KeepsItsSender
<1>1. CASE UNCHANGED vars
  BY <1>0, <1>1, FramesStay DEF vars, calls, map, flags, HasSender
<1>2. ASSUME NEW c \in Callers, Register(c) PROVE (InOnePlace(d) /\ KeepsItsSender(d))'
  <2>1. UNCHANGED <<outbound, writer, serving, mail, reader>>
        /\ at' = [at EXCEPT ![c] = "registered"] /\ at[c] = "idle"
        /\ id' = [id EXCEPT ![c] = nextSeq] /\ pending' = pending \cup {nextSeq}
    BY <1>2 DEF Register, Go
  <2>2. HasSender(d)' \/ (d # c /\ ~HasSender(d))
    BY <2>1 DEF HasSender, TypeOK
  <2> QED BY <1>0, <2>1, <2>2, FramesStay DEF TypeOK
<1>3. ASSUME NEW c \in Callers, CheckClosed(c) \/ Resolve(c) \/ Timeout(c) \/ Abandon(c)
      PROVE (InOnePlace(d) /\ KeepsItsSender(d))'
  <2>1. UNCHANGED <<outbound, writer, serving, mail, reader, id>>
        /\ at[c] # "idle" /\ (at[c] = "registered" \/ at'[c] = "done")
        /\ at' \in {[at EXCEPT ![c] = "sending"], [at EXCEPT ![c] = "done"]}
        /\ pending' \in {pending, pending \ {id[c]}}
        /\ (pending' # pending => at' = [at EXCEPT ![c] = "done"])
    BY <1>3 DEF CheckClosed, Resolve, Timeout, Abandon, Go, Return, Forget, map, TypeOK
  <2>2. d # c /\ at[d] # "idle" => id[d] # id[c]
    BY DEF IdsAreFresh
  <2>3. d # c /\ at[d] # "idle" /\ HasSender(d) => HasSender(d)'
    BY <2>1, <2>2 DEF HasSender
  <2>4. d = c => at'[d] \in {"sending", "done"} /\ (at'[d] = "sending" => at[d] = "registered"
                                /\ (HasSender(d) => HasSender(d)'))
    BY <2>1 DEF HasSender, TypeOK
  <2>5. d # c => at'[d] = at[d]
    BY <2>1 DEF TypeOK
  <2> QED BY <1>0, <2>1, <2>3, <2>4, <2>5, FramesStay
<1>4. ASSUME NEW c \in Callers, SendRequest(c) PROVE (InOnePlace(d) /\ KeepsItsSender(d))'
  <2>1. UNCHANGED <<writer, serving, mail, reader, id>> /\ at[c] = "sending"
    BY <1>4 DEF SendRequest
  <2>2. CASE outbound' = Append(outbound, Request(c)) /\ Go(c, "waiting")
             /\ UNCHANGED <<result, pending>>
    <3>1. Asks(Request(c), d) <=> d = c
      BY DEF Asks, Request
    <3>2. (InQueue(d)' <=> InQueue(d) \/ d = c) /\ Once(d)'
      BY <1>0, <2>1, <2>2, <3>1, QueueGrows
    <3>3. (InWriter(d)' <=> InWriter(d)) /\ (AtPeer(d)' <=> AtPeer(d))
          /\ (HasSender(d)' <=> HasSender(d))
      BY <2>1, <2>2 DEF InWriter, AtPeer, HasSender
    <3>4. at'[d] = IF d = c THEN "waiting" ELSE at[d]
      BY <2>2 DEF Go, TypeOK
    <3> QED BY <1>0, <2>1, <3>2, <3>3, <3>4
  <2>3. CASE Return(c, "closed") /\ Forget(c) /\ UNCHANGED outbound
    <3>1. at'[d] = IF d = c THEN "done" ELSE at[d]
      BY <2>3 DEF Return, Go, TypeOK
    <3>2. d # c /\ at[d] # "idle" /\ HasSender(d) => HasSender(d)'
      BY <2>1, <2>3 DEF Forget, HasSender, IdsAreFresh
    <3> QED BY <1>0, <2>1, <2>3, <3>1, <3>2, FramesStay
  <2> QED BY <1>4, <2>2, <2>3 DEF SendRequest
<1>5. CASE QueueOther \/ QueueClose
  <2>1. UNCHANGED <<writer, serving, mail, reader, id, at, pending>>
    BY <1>5 DEF QueueOther, QueueClose, calls, map
  <2>2. PICK f \in {Other, Close} : outbound' = Append(outbound, f)
    BY <1>5 DEF QueueOther, QueueClose
  <2>3. ~Asks(f, d)
    BY DEF Other, Close, Asks
  <2>4. (InQueue(d)' <=> InQueue(d)) /\ (Once(d) => Once(d)')
    BY <2>2, <2>3, QueueGrows
  <2> QED BY <1>0, <2>1, <2>4 DEF InWriter, AtPeer, HasSender
<1>6. CASE WriterReceive
  <2>1. UNCHANGED <<mail, reader, id, at, pending>>
    BY <1>6 DEF WriterReceive, calls, map
  <2> QED BY <1>0, <1>6, <2>1, ReceiveMoves DEF HasSender
<1>7. CASE WriteFrame
  <2>1. UNCHANGED <<mail, reader, id, at, pending>>
    BY <1>7 DEF WriteFrame, calls, map
  <2> QED BY <1>0, <1>7, <2>1, WriteMoves DEF HasSender
<1>8. CASE WriteFails \/ WriterFlags \/ WriterEnds \/ FinishClose \/ DropActor
  <2>1. UNCHANGED <<mail, id, at, pending>> /\ (reader' = "reading" => reader = "reading")
    BY <1>8 DEF WriteFails, WriterFlags, WriterEnds, FinishClose, DropActor, Abort,
                calls, map
  <2>2. UNCHANGED <<outbound, serving>> \/ (outbound' = <<>> /\ UNCHANGED serving)
    BY <1>8 DEF WriteFails, WriterFlags, WriterEnds, FinishClose, DropActor, Abort
  <2>3. writer'.at # "writing"
    BY <1>8 DEF WriteFails, WriterFlags, WriterEnds, FinishClose, DropActor, Abort
  <2> QED BY <1>0, <2>1, <2>2, <2>3, FramesLost DEF HasSender
<1>9. ASSUME NEW m \in serving, ReadResponse(m) PROVE (InOnePlace(d) /\ KeepsItsSender(d))'
  <2>1. UNCHANGED <<at, reader>>
    BY <1>9 DEF ReadResponse
  <2>2. mail'[d] = mail[d] \/ (d = m.about /\ mail'[d] = mail[d] \cup {d})
    BY <1>9, ReadMoves
  <2> QED BY <1>0, <1>9, <2>1, <2>2, ReadMoves
<1>10. CASE ReaderFlags \/ FailPending \/ ReaderEnds \/ CloseActor
  BY <1>0, <1>10, FramesStay
     DEF ReaderFlags, FailPending, ReaderEnds, CloseActor, calls, map, flags, HasSender
<1> QED
  BY <1>1, <1>2, <1>3, <1>4, <1>5, <1>6, <1>7, <1>8, <1>9, <1>10
     DEF Next, CallStep, WriterStep, ReaderStep, Over

-----------------------------------------------------------------------------
(* The actor implements RemoteCall *)

\* A step of RemoteCall from how it changes the mapped state, call by call.
LEMMA MapsToOpen ==
  ASSUME NEW x \in Callers, Outcome(x) = "idle",
         \A d \in Callers : Outcome(d)' = IF d = x THEN "open" ELSE Outcome(d),
         \A d \in Callers : Place(d)' = Place(d)
  PROVE  Remote!Next
<1>1. Remote!Open(x)
  BY DEF Remote!Open
<1> QED BY <1>1 DEF Remote!Next

LEMMA MapsToMove ==
  ASSUME NEW x \in Callers, NEW p,
         \A d \in Callers : Outcome(d)' = Outcome(d),
         \A d \in Callers : Place(d)' = IF d = x THEN p ELSE Place(d),
         \/ p = "travelling" /\ Place(x) = "unsent" /\ Outcome(x) = "open"
         \/ p = "served" /\ Place(x) = "travelling"
         \/ p = "answered" /\ Place(x) = "served"
         \/ p = "gone" /\ Place(x) = "served" /\ Outcome(x) # "open"
  PROVE  Remote!Next
<1>1. Remote!Send(x) \/ Remote!Serve(x) \/ Remote!Answer(x)
  BY DEF Remote!Send, Remote!Serve, Remote!Answer, Remote!Move
<1> QED BY <1>1 DEF Remote!Next

LEMMA MapsToLose ==
  ASSUME \A d \in Callers : Outcome(d)' = Outcome(d),
         \A d \in Callers : \/ Place(d)' = Place(d)
                            \/ Place(d) = "travelling" /\ Place(d)' = "gone"
  PROVE  Remote!Next
<1> DEFINE S == {d \in Callers : Place(d) = "travelling" /\ Place(d)' = "gone"}
<1>1. \A d \in Callers : Place(d)' = IF d \in S THEN "gone" ELSE Place(d)
  OBVIOUS
<1>2. S \in SUBSET {d \in Callers : [c \in Callers |-> Place(c)][d] = "travelling"}
  OBVIOUS
<1>3. [c \in Callers |-> Place(c)]'
        = [c \in Callers |-> IF c \in S THEN "gone" ELSE [d \in Callers |-> Place(d)][c]]
  BY <1>1
<1> HIDE DEF S
<1>4. Remote!Lose
  BY <1>2, <1>3 DEF Remote!Lose
<1> QED BY <1>4 DEF Remote!Next

LEMMA MapsToReturn ==
  ASSUME NEW x \in Callers, NEW o, Outcome(x) = "open",
         \A d \in Callers : Outcome(d)' = IF d = x THEN o ELSE Outcome(d),
         \/ /\ o = "answered" /\ Place(x) = "answered"
            /\ \A d \in Callers : Place(d)' = Place(d)
         \/ /\ o = "failed"
            /\ \A d \in Callers :
                  Place(d)' = IF d = x /\ Place(x) = "unsent" THEN "gone" ELSE Place(d)
  PROVE  Remote!Next
<1>1. Remote!Succeed(x) \/ Remote!Fail(x)
  BY DEF Remote!Succeed, Remote!Fail
<1> QED BY <1>1 DEF Remote!Next

\* A call whose state stays, or moves within one outcome, has the same outcome.
LEMMA SameOutcome ==
  ASSUME NEW d \in Callers, UNCHANGED <<at, result>>
  PROVE  Outcome(d)' = Outcome(d)
  BY DEF Outcome

\* A request that is where it was is in the same place.
LEMMA SamePlace ==
  ASSUME NEW d \in Callers, UNCHANGED <<outbound, writer, serving, mail>>,
         at'[d] = at[d]
  PROVE  Place(d)' = Place(d)
  BY FramesStay DEF Place

LEMMA SimulationStep == CallInv /\ [Next]_vars => [Remote!Next]_(Remote!vars)
<1> SUFFICES ASSUME CallInv, [Next]_vars PROVE Remote!Next
  OBVIOUS
<1>0. /\ TypeOK /\ IdsAreFresh /\ AnswersTheirCaller /\ OneCopy
      /\ \A c \in Callers : InOnePlace(c) /\ KeepsItsSender(c)
  BY DEF CallInv, OneCopy
<1>a. at \in [Callers -> Calls] /\ result \in [Callers -> Results]
  BY <1>0 DEF TypeOK
<1>1. CASE UNCHANGED vars
  <2>1. \A d \in Callers : Outcome(d)' = Outcome(d) /\ Place(d)' = Place(d)
    BY <1>1, SameOutcome, SamePlace DEF vars, calls
  <2> QED BY <2>1, MapsToLose
<1>2. ASSUME NEW c \in Callers, Register(c) PROVE Remote!Next
  <2>1. UNCHANGED <<outbound, writer, serving, mail, result>> /\ at[c] = "idle"
        /\ at' = [at EXCEPT ![c] = "registered"]
    BY <1>2 DEF Register, Go
  <2>2. \A d \in Callers : at'[d] = IF d = c THEN "registered" ELSE at[d]
    BY <1>a, <2>1
  <2>3. \A d \in Callers : Outcome(d)' = IF d = c THEN "open" ELSE Outcome(d)
    BY <2>1, <2>2 DEF Outcome
  <2>4. \A d \in Callers : Place(d)' = Place(d)
    <3>1. Place(c) = "unsent" /\ Place(c)' = "unsent"
      BY <2>1, <2>2 DEF Place
    <3> QED BY <2>1, <2>2, <3>1, SamePlace
  <2>5. Outcome(c) = "idle"
    BY <2>1 DEF Outcome
  <2> QED BY <2>3, <2>4, <2>5, MapsToOpen
<1>3. ASSUME NEW c \in Callers, at[c] \in {"registered", "sending", "waiting"},
             NEW r \in {"answered", "timeout", "closed", "abandoned"}, Return(c, r),
             UNCHANGED <<outbound, writer, serving, mail>>,
             r = "answered" => at[c] = "waiting" /\ c \in mail[c]
      PROVE Remote!Next
  <2>1. \A d \in Callers : /\ at'[d] = IF d = c THEN "done" ELSE at[d]
                           /\ result'[d] = IF d = c THEN r ELSE result[d]
    BY <1>a, <1>3 DEF Return, Go
  <2>2. Outcome(c) = "open"
    BY <1>3 DEF Outcome
  <2>3. \A d \in Callers : Outcome(d)' =
           IF d = c THEN IF r = "answered" THEN "answered" ELSE "failed" ELSE Outcome(d)
    BY <2>1 DEF Outcome
  <2>4. \A d \in Callers : d # c => Place(d)' = Place(d)
    BY <1>3, <2>1, SamePlace
  <2>5. CASE at[c] = "waiting"
    <3>1. Place(c)' = Place(c)
      BY <1>3, <2>1, <2>5, FramesStay DEF Place
    <3>2. Place(c) # "unsent"
      BY <2>5 DEF Place
    <3>3. r = "answered" => Place(c) = "answered"
      BY <1>3 DEF Place
    <3> QED BY <2>2, <2>3, <2>4, <3>1, <3>2, <3>3, MapsToReturn
  <2>6. CASE at[c] \in {"registered", "sending"}
    <3>1. Place(c) = "unsent"
      BY <2>6 DEF Place
    <3>2. ~InQueue(c) /\ ~InWriter(c) /\ ~AtPeer(c) /\ c \notin mail[c]
      BY <1>0, <2>6 DEF InOnePlace
    <3>3. Place(c)' = "gone"
      BY <1>3, <2>1, <3>2, FramesStay DEF Place
    <3>4. r # "answered"
      BY <1>3, <2>6
    <3> QED BY <2>2, <2>3, <2>4, <3>1, <3>3, <3>4, MapsToReturn
  <2> QED BY <1>3, <2>5, <2>6
<1>4. ASSUME NEW c \in Callers, CheckClosed(c) PROVE Remote!Next
  <2>1. CASE Return(c, "closed")
    BY <1>3, <1>4, <2>1 DEF CheckClosed
  <2>2. CASE Go(c, "sending") /\ UNCHANGED result
    <3>1. \A d \in Callers : at'[d] = IF d = c THEN "sending" ELSE at[d]
      BY <1>a, <2>2 DEF Go
    <3>2. UNCHANGED <<outbound, writer, serving, mail>> /\ at[c] = "registered"
      BY <1>4 DEF CheckClosed
    <3>3. \A d \in Callers : Outcome(d)' = Outcome(d)
      BY <2>2, <3>1, <3>2 DEF Outcome
    <3>4. Place(c) = "unsent" /\ Place(c)' = "unsent"
      BY <3>1, <3>2 DEF Place
    <3>5. \A d \in Callers : Place(d)' = Place(d)
      BY <3>1, <3>2, <3>4, SamePlace
    <3> QED BY <3>3, <3>5, MapsToLose
  <2> QED BY <1>4, <2>1, <2>2 DEF CheckClosed
<1>5. ASSUME NEW c \in Callers, SendRequest(c) PROVE Remote!Next
  <2>1. UNCHANGED <<writer, serving, mail>> /\ at[c] = "sending"
    BY <1>5 DEF SendRequest
  <2>2. CASE Return(c, "closed") /\ UNCHANGED outbound
    BY <1>3, <2>1, <2>2
  <2>3. CASE outbound' = Append(outbound, Request(c)) /\ Go(c, "waiting")
             /\ UNCHANGED <<result, pending>>
    <3>1. \A d \in Callers : at'[d] = IF d = c THEN "waiting" ELSE at[d]
      BY <1>a, <2>3 DEF Go
    <3>2. \A d \in Callers : Asks(Request(c), d) <=> d = c
      BY DEF Asks, Request
    <3>3. \A d \in Callers : InQueue(d)' <=> InQueue(d) \/ d = c
      BY <1>0, <2>3, <3>2, QueueGrows
    <3>4. \A d \in Callers : (InWriter(d)' <=> InWriter(d)) /\ (AtPeer(d)' <=> AtPeer(d))
      BY <2>1 DEF InWriter, AtPeer
    <3>5. \A d \in Callers : Outcome(d)' = Outcome(d)
      BY <2>1, <2>3, <3>1 DEF Outcome
    <3>6. Place(c) = "unsent" /\ Outcome(c) = "open"
      BY <2>1 DEF Place, Outcome
    <3>7. ~AtPeer(c) /\ c \notin mail[c]
      BY <1>0, <2>1 DEF InOnePlace
    <3>8. Place(c)' = "travelling"
      BY <2>1, <3>1, <3>3, <3>4, <3>7 DEF Place
    <3>9. \A d \in Callers : d # c => Place(d)' = Place(d)
      BY <2>1, <3>1, <3>3, <3>4 DEF Place
    <3> QED BY <3>5, <3>6, <3>8, <3>9, MapsToMove
  <2> QED BY <1>5, <2>2, <2>3 DEF SendRequest
<1>6. ASSUME NEW c \in Callers, Resolve(c) PROVE Remote!Next
  <2>1. UNCHANGED <<outbound, writer, serving, mail>> /\ at[c] = "waiting"
    BY <1>6 DEF Resolve
  <2>2. CASE mail[c] # Nothing /\ Return(c, "answered")
    <3>1. c \in mail[c]
      BY <1>0, <2>2 DEF AnswersTheirCaller, Nothing
    <3> QED BY <1>3, <2>1, <2>2, <3>1
  <2>3. CASE Return(c, "closed")
    BY <1>3, <2>1, <2>3
  <2> QED BY <1>6, <2>2, <2>3 DEF Resolve
<1>7. ASSUME NEW c \in Callers, Timeout(c) \/ Abandon(c) PROVE Remote!Next
  <2>1. CASE Timeout(c)
    BY <1>3, <2>1 DEF Timeout
  <2>2. CASE Abandon(c)
    BY <1>3, <2>2 DEF Abandon
  <2> QED BY <1>7, <2>1, <2>2
<1>8. CASE QueueOther \/ QueueClose
  <2>1. UNCHANGED <<writer, serving, mail, at, result>>
    BY <1>8 DEF QueueOther, QueueClose, calls
  <2>2. PICK f \in {Other, Close} : outbound' = Append(outbound, f)
    BY <1>8 DEF QueueOther, QueueClose
  <2>3. \A d \in Callers : InQueue(d)' <=> InQueue(d)
    BY <1>0, <2>2, QueueGrows DEF Other, Close, Asks
  <2>4. \A d \in Callers : Place(d)' = Place(d)
    BY <2>1, <2>3 DEF Place, InWriter, AtPeer
  <2> QED BY <2>1, <2>4, SameOutcome, MapsToLose
<1>9. CASE WriterReceive
  <2>1. UNCHANGED <<mail, at, result>>
    BY <1>9 DEF WriterReceive, calls
  <2>2. \A d \in Callers : /\ InQueue(d) \/ InWriter(d) <=> InQueue(d)' \/ InWriter(d)'
                           /\ AtPeer(d)' <=> AtPeer(d)
    BY <1>0, <1>9, ReceiveMoves
  <2>3. \A d \in Callers : Place(d)' = Place(d)
    BY <2>1, <2>2 DEF Place
  <2> QED BY <2>1, <2>3, SameOutcome, MapsToLose
<1>10. CASE WriteFrame
  <2>1. UNCHANGED <<mail, at, result>>
    BY <1>10 DEF WriteFrame, calls
  <2>2. \A d \in Callers : /\ InQueue(d)' <=> InQueue(d)
                           /\ ~InWriter(d)'
                           /\ AtPeer(d)' <=> AtPeer(d) \/ InWriter(d)
    BY <1>0, <1>10, WriteMoves
  <2>3. CASE \E c \in Callers : InWriter(c)
    <3>1. PICK c \in Callers : InWriter(c)
      BY <2>3
    <3>2. \A d \in Callers : InWriter(d) => d = c
      BY <3>1 DEF InWriter, Asks
    <3>3. \A d \in Callers : d # c => Place(d)' = Place(d)
      BY <2>1, <2>2, <3>2 DEF Place
    <3>4. at[c] \in {"waiting", "done"} /\ c \notin mail[c] /\ ~AtPeer(c)
      BY <1>0, <1>a, <3>1 DEF InOnePlace, Calls
    <3>5. Place(c) = "travelling" /\ Place(c)' = "served"
      BY <2>1, <2>2, <3>1, <3>4 DEF Place
    <3> QED BY <2>1, <3>3, <3>5, SameOutcome, MapsToMove
  <2>4. CASE ~\E c \in Callers : InWriter(c)
    <3>1. \A d \in Callers : Place(d)' = Place(d)
      BY <2>1, <2>2, <2>4 DEF Place
    <3> QED BY <2>1, <3>1, SameOutcome, MapsToLose
  <2> QED BY <2>3, <2>4
<1>11. CASE WriteFails \/ WriterFlags \/ WriterEnds \/ FinishClose \/ DropActor
  <2>1. UNCHANGED <<mail, at, result>>
    BY <1>11 DEF WriteFails, WriterFlags, WriterEnds, FinishClose, DropActor, Abort, calls
  <2>2. UNCHANGED <<outbound, serving>> \/ (outbound' = <<>> /\ UNCHANGED serving)
    BY <1>11 DEF WriteFails, WriterFlags, WriterEnds, FinishClose, DropActor, Abort
  <2>3. writer'.at # "writing"
    BY <1>11 DEF WriteFails, WriterFlags, WriterEnds, FinishClose, DropActor, Abort
  <2>4. \A d \in Callers : /\ InQueue(d)' => InQueue(d)
                           /\ ~InWriter(d)'
                           /\ AtPeer(d)' <=> AtPeer(d)
    BY <2>2, <2>3, FramesLost
  <2>5. \A d \in Callers : \/ Place(d)' = Place(d)
                           \/ Place(d) = "travelling" /\ Place(d)' = "gone"
    BY <2>1, <2>4 DEF Place
  <2> QED BY <2>1, <2>5, SameOutcome, MapsToLose
<1>12. ASSUME NEW m \in serving, ReadResponse(m) PROVE Remote!Next
  <2> DEFINE c == m.about
  <2>1. UNCHANGED <<at, result>> /\ reader = "reading"
    BY <1>12 DEF ReadResponse
  <2>2. c \in Callers /\ AtPeer(c)
    BY <1>0, <1>12, ReadMoves DEF TypeOK, Requests, AtPeer
  <2>3. at[c] \in {"waiting", "done"} /\ c \notin mail[c] /\ ~InQueue(c) /\ ~InWriter(c)
    BY <1>0, <1>a, <2>2 DEF InOnePlace, Calls
  <2>4. Place(c) = "served"
    BY <2>2, <2>3 DEF Place
  <2>5. \A d \in Callers : d # c => Place(d)' = Place(d)
    BY <1>0, <1>12, <2>1, ReadMoves DEF Place
  <2>6. /\ ~AtPeer(c)' /\ ~InQueue(c)' /\ ~InWriter(c)'
        /\ mail'[c] = IF HasSender(c) THEN mail[c] \cup {c} ELSE mail[c]
    BY <1>0, <1>12, <2>2, <2>3, ReadMoves
  <2>7. Place(c)' = IF HasSender(c) THEN "answered" ELSE "gone"
    BY <2>1, <2>3, <2>6 DEF Place
  <2>8. ~HasSender(c) => Outcome(c) # "open"
    BY <1>0, <2>1, <2>2, <2>3 DEF KeepsItsSender, Outcome
  <2> HIDE DEF c
  <2> QED BY <2>1, <2>2, <2>4, <2>5, <2>7, <2>8, SameOutcome, MapsToMove
<1>13. CASE ReaderFlags \/ FailPending \/ ReaderEnds \/ CloseActor
  <2>1. UNCHANGED <<outbound, writer, serving, mail, at, result>>
    BY <1>13 DEF ReaderFlags, FailPending, ReaderEnds, CloseActor, calls
  <2> QED BY <2>1, SameOutcome, SamePlace, MapsToLose
<1> QED
  BY <1>1, <1>2, <1>4, <1>5, <1>6, <1>7, <1>8, <1>9, <1>10, <1>11, <1>12, <1>13
     DEF Next, CallStep, WriterStep, ReaderStep, Over

\* The actor implements RemoteCall: a call's request is sent at most once and
\* served at most once, it is answered only with its own answer, and the answer
\* to a call that is still open reaches it.
THEOREM ImplementsRemoteCall == Spec => IsARemoteCall
<1>1. Init => Remote!Init
  <2> SUFFICES ASSUME Init PROVE Remote!Init
    OBVIOUS
  <2>1. \A c \in Callers : at[c] = "idle"
    BY DEF Init
  <2>2. \A c \in Callers : Outcome(c) = "idle" /\ Place(c) = "unsent"
    BY <2>1 DEF Outcome, Place
  <2> QED BY <2>2 DEF Remote!Init
<1>2. Spec => []OneCopy
  BY InitOneCopy, StepOneCopy, AlwaysFresh, PTL DEF Spec
<1>3. TypeOK /\ IdsAreFresh /\ AnswersTheirCaller /\ OneCopy /\ [Next]_vars
        => [Remote!Next]_(Remote!vars)
  BY SimulationStep DEF CallInv
<1> QED
  BY <1>1, <1>2, <1>3, AlwaysFresh, Correlation, PTL
     DEF Spec, IsARemoteCall, Remote!Spec

=============================================================================
