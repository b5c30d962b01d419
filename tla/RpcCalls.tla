------------------------------ MODULE RpcCalls ------------------------------
(***************************************************************************)
(* The calls of one correlation actor: dispatch and the future it returns, *)
(* the pending map, the writer and the reader task, and how each of them   *)
(* ends (karet-jsonrpc/src/actor.rs).                                      *)
(*                                                                         *)
(* RpcReplies models the reply path.  Here its frames are `other` frames   *)
(* in the bounded queue, its close signal comes when there is room, and    *)
(* the peer answers what it has read in any order.  A response's `about`   *)
(* is the call whose request it answers.                                   *)
(***************************************************************************)
EXTENDS Naturals, Sequences, FiniteSets

CONSTANTS
    Callers,     \* calls of dispatch
    MaxOthers,   \* frames queued by notify and by replies
    Outbound     \* OUTBOUND_CHANNEL_CAPACITY

ASSUME OutboundHoldsAFrame == Outbound \in Nat \ {0}
ASSUME MaxOthersIsNat == MaxOthers \in Nat

VARIABLES
    at,        \* where each call is
    id,        \* the id it got
    mail,      \* what its oneshot channel holds
    result,    \* what it returned
    pending,   \* Actor.pending: the ids that have a sender
    nextSeq,   \* Link.next_seq
    closed,    \* Actor.closed
    signal,    \* Actor.closed_signal
    writer,    \* the writer task
    reader,    \* the reader task
    outbound,  \* the bounded frame queue
    owner,     \* what the owner of the actor does with it
    serving,   \* requests the peer has and did not answer
    others     \* other frames queued so far

calls == <<at, id, mail, result>>
map == <<pending, nextSeq>>
flags == <<closed, signal>>
vars == <<calls, map, flags, writer, reader, outbound, owner, serving, others>>

Request(c) == [kind |-> "request", id |-> id[c], about |-> c]
Other == [kind |-> "other"]
Close == [kind |-> "close"]
Nothing == {}    \* an empty oneshot channel

Init ==
    /\ at = [c \in Callers |-> "idle"]
    /\ id = [c \in Callers |-> 0]
    /\ mail = [c \in Callers |-> Nothing]
    /\ result = [c \in Callers |-> "none"]
    /\ pending = {} /\ nextSeq = 1
    /\ closed = FALSE /\ signal = FALSE
    /\ writer = [at |-> "receive"] /\ reader = "reading"
    /\ outbound = <<>>
    /\ owner = "open"
    /\ serving = {} /\ others = 0

-----------------------------------------------------------------------------
(* dispatch and its future *)

Go(c, s) == at' = [at EXCEPT ![c] = s]
Return(c, what) == Go(c, "done") /\ result' = [result EXCEPT ![c] = what]
Forget(c) == pending' = pending \ {id[c]}
WriterLives == writer.at # "over"

\* close and Drop need the actor to themselves, dispatch shares it.
Usable == owner \in {"open", "closed"}
Unused == \A c \in Callers : at[c] \notin {"registered", "sending"}
HasSender(c) == id[c] \in pending

\* Bug: an id that is no longer pending is given out again.
RegisterReusing(c) ==
    /\ at[c] = "idle" /\ Usable
    /\ \E n \in 1..nextSeq \ pending :
          id' = [id EXCEPT ![c] = n] /\ pending' = pending \cup {n}
    /\ nextSeq' = nextSeq + 1
    /\ Go(c, "registered")
    /\ UNCHANGED <<mail, result, flags, writer, reader, outbound, owner, serving,
                   others>>

\* A fresh id, and a sender for its outcome in the pending map.
Register(c) ==
    /\ at[c] = "idle" /\ Usable
    /\ id' = [id EXCEPT ![c] = nextSeq]
    /\ nextSeq' = nextSeq + 1
    /\ pending' = pending \cup {nextSeq}
    /\ Go(c, "registered")
    /\ UNCHANGED <<mail, result, flags, writer, reader, outbound, owner, serving,
                   others>>

\* Bug: the flag is not looked at.
CheckNothing(c) ==
    /\ at[c] = "registered"
    /\ Go(c, "sending")
    /\ UNCHANGED <<id, mail, result, map, flags, writer, reader, outbound, owner,
                   serving, others>>

\* The flag, looked at after registering.
CheckClosed(c) ==
    /\ at[c] = "registered"
    /\ IF closed THEN Return(c, "closed") /\ Forget(c)
                 ELSE Go(c, "sending") /\ UNCHANGED <<result, pending>>
    /\ UNCHANGED <<id, mail, nextSeq, flags, writer, reader, outbound, owner,
                   serving, others>>

\* Bug: the frame is queued without waiting for room.
SendUnbounded(c) ==
    /\ at[c] = "sending" /\ WriterLives
    /\ outbound' = Append(outbound, Request(c))
    /\ Go(c, "waiting")
    /\ UNCHANGED <<id, mail, result, map, flags, writer, reader, owner, serving,
                   others>>

\* Waits for room; fails once the writer has dropped its receiver.
SendRequest(c) ==
    /\ at[c] = "sending"
    /\ \/ /\ WriterLives /\ Len(outbound) < Outbound
          /\ outbound' = Append(outbound, Request(c))
          /\ Go(c, "waiting")
          /\ UNCHANGED <<result, pending>>
       \/ /\ ~WriterLives
          /\ Return(c, "closed") /\ Forget(c)
          /\ UNCHANGED outbound
    /\ UNCHANGED <<id, mail, nextSeq, flags, writer, reader, owner, serving,
                   others>>

\* The outcome arrived, or its sender was dropped.
Resolve(c) ==
    /\ at[c] = "waiting"
    /\ \/ mail[c] # Nothing /\ Return(c, "answered")
       \/ mail[c] = Nothing /\ ~HasSender(c) /\ Return(c, "closed")
    /\ UNCHANGED <<id, mail, map, flags, writer, reader, outbound, owner, serving,
                   others>>

\* Bug: the future has no deadline.
NeverTimeout(c) == at[c] = "nowhere" /\ UNCHANGED vars

\* The deadline counts only while the channel is open and empty.
Timeout(c) ==
    /\ at[c] = "waiting"
    /\ mail[c] = Nothing /\ HasSender(c)
    /\ Return(c, "timeout") /\ Forget(c)
    /\ UNCHANGED <<id, mail, nextSeq, flags, writer, reader, outbound, owner,
                   serving, others>>

\* The caller drops the future before it is done; nothing forgets its id.
Abandon(c) ==
    /\ at[c] \in {"sending", "waiting"}
    /\ Return(c, "abandoned")
    /\ UNCHANGED <<id, mail, map, flags, writer, reader, outbound, owner, serving,
                   others>>

\* notify's try_send, or a frame of the reply path.
QueueOther ==
    /\ others < MaxOthers
    /\ WriterLives /\ Len(outbound) < Outbound
    /\ outbound' = Append(outbound, Other)
    /\ others' = others + 1
    /\ UNCHANGED <<calls, map, flags, writer, reader, owner, serving>>

-----------------------------------------------------------------------------
(* The writer task *)

WriterReceive ==
    /\ writer.at = "receive" /\ outbound # <<>>
    /\ outbound' = Tail(outbound)
    /\ writer' = IF Head(outbound) = Close THEN [at |-> "stopping"]
                 ELSE [at |-> "writing", frame |-> Head(outbound)]
    /\ UNCHANGED <<calls, map, flags, reader, owner, serving, others>>

\* The peer makes room and takes the frame in.
WriteFrame ==
    /\ writer.at = "writing"
    /\ serving' = IF writer.frame.kind = "request"
                  THEN serving \cup {writer.frame} ELSE serving
    /\ writer' = [at |-> "receive"]
    /\ UNCHANGED <<calls, map, flags, reader, outbound, owner, others>>

WriteFails ==
    /\ writer.at = "writing"
    /\ writer' = [at |-> "stopping"]
    /\ UNCHANGED <<calls, map, flags, reader, outbound, owner, serving, others>>

WriterFlags ==
    /\ writer.at = "stopping"
    /\ closed' = TRUE
    /\ writer' = [at |-> "flagged"]
    /\ UNCHANGED <<calls, map, signal, reader, outbound, owner, serving, others>>

\* The signal, and the end of the task with its receiver.  The pending map is
\* not touched: requests in flight wait for the reader or for their timeout.
WriterEnds ==
    /\ writer.at = "flagged"
    /\ signal' = TRUE
    /\ writer' = [at |-> "over"]
    /\ outbound' = <<>>
    /\ UNCHANGED <<calls, map, closed, reader, owner, serving, others>>

-----------------------------------------------------------------------------
(* The reader task *)

\* A response resolves the call under its id, and is dropped if there is none.
ReadResponse(m) ==
    /\ reader = "reading" /\ m \in serving
    /\ serving' = serving \ {m}
    /\ pending' = pending \ {m.id}
    /\ mail' = [c \in Callers |-> IF id[c] = m.id /\ HasSender(c)
                                  THEN mail[c] \cup {m.about} ELSE mail[c]]
    /\ UNCHANGED <<at, id, result, nextSeq, flags, writer, reader, outbound,
                   owner, others>>

\* The end of the stream, or lost framing: the flag first, ...
ReaderFlags ==
    /\ reader = "reading"
    /\ closed' = TRUE
    /\ reader' = "flagged"
    /\ UNCHANGED <<calls, map, signal, writer, outbound, owner, serving, others>>

\* Bug: the signal is given first.
SignalFirst ==
    /\ reader = "flagged"
    /\ signal' = TRUE
    /\ \/ pending' = {} /\ reader' = "over"
       \/ UNCHANGED <<pending, reader>>
    /\ UNCHANGED <<calls, nextSeq, closed, writer, outbound, owner, serving, others>>

\* ... then every sender, ...
FailPending ==
    /\ reader = "flagged"
    /\ pending' = {}
    /\ reader' = "cleared"
    /\ UNCHANGED <<calls, nextSeq, flags, writer, outbound, owner, serving, others>>

\* ... and the signal last.
ReaderEnds ==
    /\ reader = "cleared"
    /\ signal' = TRUE
    /\ reader' = "over"
    /\ UNCHANGED <<calls, map, closed, writer, outbound, owner, serving, others>>

-----------------------------------------------------------------------------
(* The owner: close, and Drop *)

CloseActor ==
    /\ owner = "open" /\ Unused
    /\ owner' = "closing"
    /\ UNCHANGED <<calls, map, flags, writer, reader, outbound, serving, others>>

\* The reply path found room for the close signal.
QueueClose ==
    /\ owner = "closing"
    /\ WriterLives /\ Len(outbound) < Outbound
    /\ outbound' = Append(outbound, Close)
    /\ owner' = "signalled"
    /\ UNCHANGED <<calls, map, flags, writer, reader, serving, others>>

\* Aborted tasks leave the flag, the signal and the pending map as they are.
Abort ==
    /\ writer' = [at |-> "over"] /\ outbound' = <<>>
    /\ reader' = IF reader = "reading" THEN "aborted" ELSE reader
    /\ UNCHANGED <<calls, map, flags, serving, others>>

\* The writer stopped, or CLOSE_TIMEOUT passed.
FinishClose ==
    /\ owner \in {"closing", "signalled"}
    /\ owner' = "closed"
    /\ Abort

\* Also in place of the rest of a close that is cancelled.
DropActor ==
    /\ owner # "dropped" /\ Unused
    /\ owner' = "dropped"
    /\ Abort

-----------------------------------------------------------------------------
CallStep(c) == CheckClosed(c) \/ SendRequest(c) \/ Resolve(c) \/ Timeout(c)

\* What the writer does by itself; WriteFrame needs the peer, too.
WriterStep == WriterReceive \/ WriterFlags \/ WriterEnds
ReaderStep == FailPending \/ ReaderEnds

\* The actor is gone, and so is every call: nothing need happen any more.
Over == owner = "dropped" /\ UNCHANGED vars

Next ==
    \/ \E c \in Callers : Register(c) \/ CallStep(c) \/ Abandon(c)
    \/ QueueOther
    \/ WriterStep \/ WriteFrame \/ WriteFails
    \/ ReaderStep \/ ReaderFlags \/ \E m \in serving : ReadResponse(m)
    \/ CloseActor \/ QueueClose \/ FinishClose \/ DropActor \/ Over

Spec == Init /\ [][Next]_vars

\* The runtime polls the tasks and fires the timers.  Nobody has to call, to
\* close or to drop anything, and the peer owes nothing, not even reading.
Fairness ==
    /\ \A c \in Callers : WF_vars(CallStep(c))
    /\ WF_vars(WriterStep) /\ WF_vars(ReaderStep) /\ WF_vars(FinishClose)

FairSpec == Spec /\ Fairness

\* A peer that goes on reading, or whose end of the pipe is gone.
ReadingPeer == FairSpec /\ WF_vars(WriteFrame \/ WriteFails)

-----------------------------------------------------------------------------
(* Properties *)

Calls == {"idle", "registered", "sending", "waiting", "done"}
Results == {"none", "answered", "timeout", "closed", "abandoned"}
Requests == [kind : {"request"}, id : Nat, about : Callers]
Frames == Requests \cup {Other, Close}
WriterStates == {"receive", "writing", "stopping", "flagged", "over"}

TypeOK ==
    /\ at \in [Callers -> Calls]
    /\ id \in [Callers -> Nat]
    /\ mail \in [Callers -> SUBSET Callers]
    /\ result \in [Callers -> Results]
    /\ pending \subseteq Nat /\ nextSeq \in Nat \ {0}
    /\ closed \in BOOLEAN /\ signal \in BOOLEAN
    /\ writer.at \in WriterStates
    /\ writer.at = "writing" => writer.frame \in Frames
    /\ reader \in {"reading", "flagged", "cleared", "over", "aborted"}
    /\ outbound \in Seq(Frames) /\ Len(outbound) <= Outbound
    /\ serving \subseteq Requests
    /\ owner \in {"open", "closing", "signalled", "closed", "dropped"}
    /\ others \in 0..MaxOthers

\* The refinement: how a call ended, and where its request is.
Asks(f, c) == f.kind = "request" /\ f.about = c
InQueue(c) == \E i \in 1..Len(outbound) : Asks(outbound[i], c)
InWriter(c) == writer.at = "writing" /\ Asks(writer.frame, c)
AtPeer(c) == \E m \in serving : m.about = c

Outcome(c) ==
    CASE at[c] = "idle" -> "idle"
      [] at[c] = "done" -> IF result[c] = "answered" THEN "answered" ELSE "failed"
      [] OTHER -> "open"

Place(c) ==
    CASE at[c] \in {"idle", "registered", "sending"} -> "unsent"
      [] at[c] \in {"waiting", "done"} ->
            IF c \in mail[c] THEN "answered"
            ELSE IF AtPeer(c) THEN "served"
            ELSE IF InQueue(c) \/ InWriter(c) THEN "travelling" ELSE "gone"

Remote == INSTANCE RemoteCall
          WITH outcome <- [c \in Callers |-> Outcome(c)],
               request <- [c \in Callers |-> Place(c)]

\* The actor implements RemoteCall: at most one request per call, none after it
\* returned, no answer but its own, and no answer lost to a call still open
\* (actor.rs, dispatch, forget, read_loop and the end of both tasks).
IsARemoteCall == Remote!Spec

\* A call that raced the end of the stream is failed and does not wait out its
\* timeout: dispatch looks at the flag after it registered, the reader fails the
\* map after it set the flag (actor.rs, dispatch and read_loop).
NobodyWaitsOnADeadReader ==
    reader \in {"cleared", "over"} =>
        \A c \in Callers : at[c] \in {"sending", "waiting"} => ~HasSender(c)

\* Whoever the reader's signal wakes finds a settled actor: the flag set and
\* every request in flight failed (actor.rs, read_loop).
WokenFindsItSettled ==
    signal /\ writer.at \in {"receive", "writing", "stopping"} =>
        /\ closed
        /\ \A c \in Callers : at[c] \in {"sending", "waiting"} => ~HasSender(c)

\* Every call returns, bounded by its timeout (actor.rs, request_with).
CallsReturn == \A c \in Callers : (at[c] # "idle") ~> (at[c] = "done")
=============================================================================
