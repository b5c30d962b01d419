----------------------------- MODULE RpcReplies -----------------------------
(***************************************************************************)
(* The replies of one correlation actor to its peer's requests: responders *)
(* held by the reader, by the consumer of inbound_requests or dropped,     *)
(* Replies::deliver with its overflow queue and single drainer, the writer *)
(* behind them, and close (karet-jsonrpc/src/{peer,connection,actor}.rs).  *)
(*                                                                         *)
(* RpcCalls models the requests of this side; here they and the            *)
(* notifications are `other` frames.  The peer is external: it takes one   *)
(* frame at a time and does not read while it waits for room to write.     *)
(* Item n is the reply to the n-th request of the peer, item 0 the close   *)
(* signal; handed, before and written record the history of the path.      *)
(***************************************************************************)
EXTENDS Naturals, Sequences, FiniteSets, SequencesExt

CONSTANTS
    MaxAsks,     \* requests the peer issues
    MaxOthers,   \* frames queued by requests and notifications
    Outbound,    \* OUTBOUND_CHANNEL_CAPACITY
    Inbox,       \* INBOUND_REQUEST_CAPACITY
    Pipe         \* frames the pipe from the peer holds

ASSUME CapacitiesArePositive ==
    Outbound \in Nat \ {0} /\ Inbox \in Nat \ {0} /\ Pipe \in Nat \ {0}
ASSUME FrameBoundsAreNat == MaxAsks \in Nat /\ MaxOthers \in Nat

VARIABLES
    outbound,  \* the bounded frame queue
    writer,    \* the writer task
    reader,    \* the reader task
    overflow,  \* Replies.overflow
    backlog,   \* Replies.backlog
    drainer,   \* the drainer task
    delivery,  \* where each caller of Replies::deliver is
    stream,    \* the inbound_requests stream
    inbox,     \* ... and its queue
    hands,     \* peer requests whose responder the consumer holds
    owner,     \* what the owner of the actor does with it
    inbound,   \* frames the peer wrote and the reader did not take
    todo,      \* the frame the peer waits to write
    asks,      \* requests the peer has issued
    others,    \* other frames queued
    handed,    \* items whose delivery is over
    before,    \* ... when the delivery of each item began
    written    \* items in the order the writer got to them

path == <<overflow, backlog, drainer, delivery, handed, before>>
consumer == <<stream, inbox, hands>>
peer == <<todo, asks>>
vars == <<outbound, writer, written, reader, path, consumer, owner, inbound, peer,
          others>>

Close == 0
Items == 0..MaxAsks
Item(n) == [kind |-> "item", id |-> n]
Other == [kind |-> "other"]
Ask(n) == [kind |-> "ask", id |-> n]

Deliverers == {"reader", "consumer", "owner"}
Resting == [at |-> "rest"]
Receiving == [at |-> "receive"]
Over == [at |-> "over"]

WriterLives == writer # Over
Room == Len(outbound) < Outbound

\* close and Drop need the actor to themselves; everything else shares it.
Usable == owner \in {"open", "closed"}

Init ==
    /\ outbound = <<>> /\ writer = Receiving /\ written = <<>>
    /\ reader = "reading"
    /\ overflow = <<>> /\ backlog = 0 /\ drainer = Receiving
    /\ delivery = [p \in Deliverers |-> Resting]
    /\ handed = {} /\ before = [n \in Items |-> {}]
    /\ stream = "untaken" /\ inbox = <<>> /\ hands = {}
    /\ owner = "open"
    /\ inbound = <<>> /\ todo = <<>> /\ asks = 0 /\ others = 0

-----------------------------------------------------------------------------
(* Replies::deliver and the drainer *)

Deliver(p, n) ==
    /\ delivery[p] = Resting
    /\ delivery' = [delivery EXCEPT ![p] = [at |-> "load", item |-> n]]
    /\ before' = [before EXCEPT ![n] = handed]

Handed(p) ==
    /\ delivery' = [delivery EXCEPT ![p] = Resting]
    /\ handed' = handed \cup {delivery[p].item}

Advance(p, s) ==
    /\ delivery' = [delivery EXCEPT ![p].at = s]
    /\ UNCHANGED handed

\* Bug: an item overtakes those parked before it.
LoadNothing(p) ==
    /\ delivery[p].at = "load"
    /\ Advance(p, "fast")
    /\ UNCHANGED <<overflow, backlog, drainer, before, outbound, writer, written,
                   reader, consumer, owner, inbound, peer, others>>

\* The fast path only while nothing is parked.
LoadBacklog(p) ==
    /\ delivery[p].at = "load"
    /\ Advance(p, IF backlog = 0 THEN "fast" ELSE "park")
    /\ UNCHANGED <<overflow, backlog, drainer, before, outbound, writer, written,
                   reader, consumer, owner, inbound, peer, others>>

\* Bug: the caller, who may be the reader, waits for room.
SendWaiting(p) ==
    /\ delivery[p].at = "fast"
    /\ WriterLives => Room
    /\ outbound' = IF WriterLives THEN Append(outbound, Item(delivery[p].item))
                   ELSE outbound
    /\ Handed(p)
    /\ UNCHANGED <<overflow, backlog, drainer, before, writer, written, reader,
                   consumer, owner, inbound, peer, others>>

\* With no writer left the item is discarded.
TrySend(p) ==
    /\ delivery[p].at = "fast"
    /\ \/ ~WriterLives /\ Handed(p) /\ UNCHANGED outbound
       \/ /\ WriterLives /\ Room
          /\ outbound' = Append(outbound, Item(delivery[p].item))
          /\ Handed(p)
       \/ /\ WriterLives /\ ~Room
          /\ Advance(p, "park")
          /\ UNCHANGED outbound
    /\ UNCHANGED <<overflow, backlog, drainer, before, writer, written, reader,
                   consumer, owner, inbound, peer, others>>

\* Bug: the item is parked and not counted.
ParkUncounted(p) ==
    /\ delivery[p].at = "park"
    /\ Advance(p, "push")
    /\ UNCHANGED <<overflow, backlog, drainer, before, outbound, writer, written,
                   reader, consumer, owner, inbound, peer, others>>

Park(p) ==
    /\ delivery[p].at = "park"
    /\ backlog' = backlog + 1
    /\ Advance(p, "push")
    /\ UNCHANGED <<overflow, drainer, before, outbound, writer, written, reader,
                   consumer, owner, inbound, peer, others>>

Push(p) ==
    /\ delivery[p].at = "push"
    /\ IF drainer = Over
       THEN backlog' = backlog - 1 /\ UNCHANGED overflow
       ELSE overflow' = Append(overflow, delivery[p].item) /\ UNCHANGED backlog
    /\ Handed(p)
    /\ UNCHANGED <<drainer, before, outbound, writer, written, reader, consumer,
                   owner, inbound, peer, others>>

DrainerTakes ==
    /\ drainer = Receiving /\ overflow # <<>>
    /\ drainer' = [at |-> "send", item |-> Head(overflow)]
    /\ overflow' = Tail(overflow)
    /\ UNCHANGED <<backlog, delivery, handed, before, outbound, writer, written,
                   reader, consumer, owner, inbound, peer, others>>

DrainerSends ==
    /\ drainer.at = "send"
    /\ WriterLives => Room
    /\ outbound' = IF WriterLives THEN Append(outbound, Item(drainer.item))
                   ELSE outbound
    /\ drainer' = [at |-> "uncount"]
    /\ UNCHANGED <<overflow, backlog, delivery, handed, before, writer, written,
                   reader, consumer, owner, inbound, peer, others>>

DrainerUncounts ==
    /\ drainer.at = "uncount"
    /\ backlog' = backlog - 1
    /\ drainer' = Receiving
    /\ UNCHANGED <<overflow, delivery, handed, before, outbound, writer, written,
                   reader, consumer, owner, inbound, peer, others>>

\* A request of this side, or a notification.
QueueOther ==
    /\ Usable
    /\ others < MaxOthers
    /\ WriterLives /\ Room
    /\ outbound' = Append(outbound, Other)
    /\ others' = others + 1
    /\ UNCHANGED <<writer, written, reader, path, consumer, owner, inbound, peer>>

-----------------------------------------------------------------------------
(* The writer task *)

\* The close signal ends the loop; the rest of the queue goes with the task.
WriterReceives ==
    /\ writer = Receiving /\ outbound # <<>>
    /\ IF Head(outbound) = Item(Close)
       THEN /\ writer' = Over /\ outbound' = <<>>
            /\ written' = Append(written, Close)
       ELSE /\ writer' = [at |-> "writing", frame |-> Head(outbound)]
            /\ outbound' = Tail(outbound)
            /\ UNCHANGED written
    /\ UNCHANGED <<reader, path, consumer, owner, inbound, peer, others>>

\* Waits for the peer, which reads when it has nothing left to write.
WriteFrame ==
    /\ writer.at = "writing" /\ todo = <<>>
    /\ written' = IF writer.frame = Other THEN written
                  ELSE Append(written, writer.frame.id)
    /\ writer' = Receiving
    /\ UNCHANGED <<outbound, reader, path, consumer, owner, inbound, peer, others>>

WriteFails ==
    /\ writer.at = "writing"
    /\ writer' = Over /\ outbound' = <<>>
    /\ UNCHANGED <<written, reader, path, consumer, owner, inbound, peer, others>>

-----------------------------------------------------------------------------
(* The reader task *)

Frame == Head(inbound)
Reads == reader = "reading" /\ delivery["reader"] = Resting /\ inbound # <<>>

ReadOther ==
    /\ Reads /\ Frame = Other
    /\ inbound' = Tail(inbound)
    /\ UNCHANGED <<outbound, writer, written, reader, path, consumer, owner, peer, others>>

\* Bug: a request that finds the consumer's queue full is lost.
ReadAskLossy ==
    /\ Reads /\ Frame.kind = "ask"
    /\ inbound' = Tail(inbound)
    /\ IF stream = "held"
       THEN /\ inbox' = IF Len(inbox) < Inbox THEN Append(inbox, Frame.id)
                        ELSE inbox
            /\ UNCHANGED <<delivery, before>>
       ELSE Deliver("reader", Frame.id) /\ UNCHANGED inbox
    /\ UNCHANGED <<overflow, backlog, drainer, handed, outbound, writer, written,
                   reader, stream, hands, owner, peer, others>>

\* A request of the peer goes to the consumer that holds the stream, or is
\* answered here: by the handler, or as busy.
ReadAsk ==
    /\ Reads /\ Frame.kind = "ask"
    /\ inbound' = Tail(inbound)
    /\ IF stream = "held" /\ Len(inbox) < Inbox
       THEN inbox' = Append(inbox, Frame.id) /\ UNCHANGED <<delivery, before>>
       ELSE Deliver("reader", Frame.id) /\ UNCHANGED inbox
    /\ UNCHANGED <<overflow, backlog, drainer, handed, outbound, writer, written,
                   reader, stream, hands, owner, peer, others>>

\* The end of the stream, or lost framing.
ReaderEnds ==
    /\ reader = "reading" /\ delivery["reader"] = Resting
    /\ reader' = "over"
    /\ inbound' = <<>>
    /\ UNCHANGED <<outbound, writer, written, path, consumer, owner, peer,
                   others>>

-----------------------------------------------------------------------------
(* The consumer of peer requests *)

TakeStream ==
    /\ stream = "untaken" /\ Usable
    /\ stream' = "held"
    /\ UNCHANGED <<outbound, writer, written, reader, path, inbox, hands, owner,
                   inbound, peer, others>>

TakeAsk ==
    /\ inbox # <<>>
    /\ hands' = hands \cup {Head(inbox)}
    /\ inbox' = Tail(inbox)
    /\ UNCHANGED <<outbound, writer, written, reader, path, stream, owner, inbound,
                   peer, others>>

\* What is queued goes with the stream: its responders are dropped, and answer.
DropStream ==
    /\ stream = "held"
    /\ stream' = "dropped"
    /\ hands' = hands \cup ToSet(inbox)
    /\ inbox' = <<>>
    /\ UNCHANGED <<outbound, writer, written, reader, path, owner, inbound, peer,
                   others>>

\* respond, or the Drop of a responder.
Respond(n) ==
    /\ n \in hands
    /\ Deliver("consumer", n)
    /\ hands' = hands \ {n}
    /\ UNCHANGED <<overflow, backlog, drainer, handed, outbound, writer, written,
                   reader, stream, inbox, owner, inbound, peer, others>>

-----------------------------------------------------------------------------
(* The owner: close, and Drop *)

CloseActor ==
    /\ owner = "open"
    /\ owner' = "closing"
    /\ Deliver("owner", Close)
    /\ UNCHANGED <<overflow, backlog, drainer, handed, outbound, writer, written,
                   reader, consumer, inbound, peer, others>>

\* A task is aborted where it awaits, so the reader finishes its delivery.
Abort ==
    /\ delivery["reader"] = Resting
    /\ writer' = Over /\ outbound' = <<>>
    /\ reader' = "over" /\ inbound' = <<>>
    /\ drainer' = Over /\ overflow' = <<>>
    /\ UNCHANGED <<written, backlog, delivery, handed, before, consumer, peer,
                   others>>

\* The writer stopped, or CLOSE_TIMEOUT passed.
FinishClose ==
    /\ owner = "closing" /\ delivery["owner"] = Resting
    /\ owner' = "closed"
    /\ Abort

\* Also in place of the rest of a close that is cancelled.
DropActor ==
    /\ owner # "dropped" /\ delivery["owner"] = Resting
    /\ owner' = "dropped"
    /\ Abort

-----------------------------------------------------------------------------
(* The peer *)

\* A response or a notification.
PeerSpeaks ==
    /\ todo = <<>>
    /\ todo' = <<Other>>
    /\ UNCHANGED <<outbound, writer, written, reader, path, consumer, owner, inbound,
                   asks, others>>

PeerAsks ==
    /\ todo = <<>> /\ asks < MaxAsks
    /\ asks' = asks + 1
    /\ todo' = <<Ask(asks')>>
    /\ UNCHANGED <<outbound, writer, written, reader, path, consumer, owner, inbound,
                   others>>

\* Waits for room; what it writes when the reader is gone is lost.
PeerWrites ==
    /\ todo # <<>>
    /\ reader = "reading" => Len(inbound) < Pipe
    /\ inbound' = IF reader = "reading" THEN inbound \o todo ELSE inbound
    /\ todo' = <<>>
    /\ UNCHANGED <<outbound, writer, written, reader, path, consumer, owner, asks, others>>

-----------------------------------------------------------------------------
DeliverStep(p) == LoadBacklog(p) \/ TrySend(p) \/ Park(p) \/ Push(p)
DrainerStep == DrainerTakes \/ DrainerSends \/ DrainerUncounts
ReaderStep == ReadOther \/ ReadAsk
ConsumerStep == TakeAsk \/ \E n \in hands : Respond(n)

\* The actor is gone; nothing need happen any more.
Gone == owner = "dropped" /\ UNCHANGED vars

Next ==
    \/ \E p \in Deliverers : DeliverStep(p)
    \/ DrainerStep \/ QueueOther \/ WriterReceives \/ WriteFrame \/ WriteFails
    \/ ReaderStep \/ ReaderEnds
    \/ TakeStream \/ ConsumerStep \/ DropStream
    \/ CloseActor \/ FinishClose \/ DropActor
    \/ PeerSpeaks \/ PeerAsks \/ PeerWrites \/ Gone

Spec == Init /\ [][Next]_vars

\* The runtime polls every task, the consumer answers what it took, and the
\* peer finishes what it writes and reads between two messages of its own.
Fairness ==
    /\ \A p \in Deliverers : WF_vars(DeliverStep(p))
    /\ WF_vars(DrainerStep) /\ WF_vars(WriterReceives) /\ WF_vars(ReaderStep)
    /\ WF_vars(ConsumerStep) /\ WF_vars(FinishClose)
    /\ SF_vars(WriteFrame) /\ WF_vars(PeerWrites)

FairSpec == Spec /\ Fairness

-----------------------------------------------------------------------------
(* Properties *)

TypeOK ==
    /\ Len(outbound) <= Outbound /\ Len(inbox) <= Inbox
    /\ writer.at \in {"receive", "writing", "over"}
    /\ reader \in {"reading", "over"}
    /\ backlog \in Nat
    /\ drainer.at \in {"receive", "send", "uncount", "over"}
    /\ \A p \in Deliverers :
          delivery[p].at \in {"rest", "load", "fast", "park", "push"}
    /\ stream \in {"untaken", "held", "dropped"}
    /\ hands \subseteq 1..MaxAsks
    /\ owner \in {"open", "closing", "closed", "dropped"}
    /\ handed \subseteq Items /\ before \in [Items -> SUBSET Items]

\* A reply, and the close signal, is written behind everything handed over
\* before it, whether that found room or was parked (peer.rs, Replies).
RepliesInOrder ==
    \A i \in DOMAIN written :
        before[written[i]] \subseteq {written[j] : j \in 1..(i - 1)}

\* Where the obligation to answer the n-th request can be.
CountIn(x, s) == Cardinality({i \in DOMAIN s : s[i] = x})
InHand(n) ==
    Cardinality({t \in {writer} : t.at = "writing" /\ t.frame = Item(n)})
    + Cardinality({t \in {drainer} : t.at = "send" /\ t.item = n})
Delivering(n) ==
    Cardinality({p \in Deliverers :
                    delivery[p] # Resting /\ delivery[p].item = n})
Read(n) == n <= asks /\ Ask(n) \notin ToSet(inbound) \cup ToSet(todo)

\* While there is a wire, a request the reader took is answered exactly once or
\* somebody still has it to answer (peer.rs, the invariant of Responder).
EveryAskHasOneAnswer ==
    WriterLives /\ reader = "reading" =>
        \A n \in 1..asks :
            Read(n) =>
                CountIn(n, inbox) + Cardinality({n} \cap hands) + Delivering(n)
                + CountIn(n, overflow) + InHand(n) + CountIn(Item(n), outbound)
                + CountIn(n, written) = 1

\* A request of the peer is read and answered on the wire unless one of the two
\* tasks stops: no full queue, in either direction, holds it up for good.
AsksAreAnswered ==
    \A n \in 1..MaxAsks :
        (n <= asks) ~> (n \in ToSet(written) \/ ~WriterLives \/ reader = "over")
=============================================================================
