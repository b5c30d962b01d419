----------------------------- MODULE BrokerCore -----------------------------
(***************************************************************************)
(* One running LSP broker: the sessions of its clients, the shared         *)
(* `initialize`, the requests in flight in both directions, the document   *)
(* leases, the bounded queues, and retirement                              *)
(* (karet-supervisor/src/broker/{serve,lsp,protocol}.rs).                  *)
(*                                                                         *)
(* Each session is a task running serve_client; one more task runs         *)
(* upstream_reader.  A task is a small program whose steps end at the      *)
(* awaits and locks of the code.  Messages keep what routing and document  *)
(* leases depend on; `about` is a history field, the <<session, id>> a     *)
(* request was asked under, which the brokered server echoes.              *)
(***************************************************************************)
EXTENDS Naturals, Sequences, FiniteSets, SequencesExt

CONSTANTS
    Clients,       \* sessions (ClientId is fresh for each connection)
    Docs,          \* document URIs
    LeaseRaces,    \* a session may act between another's lease update and send
    LateClients,   \* a session may register while the broker retires
    MaxRequests,   \* requests a session makes, its initialize included
    MaxPushes,     \* messages the server originates
    MaxErrors,     \* initialize requests the server refuses
    ClientQueue,   \* capacity of a session's outgoing queue
    UpstreamQueue  \* capacity of the queue to the server

ASSUME QueuesHoldAMessage ==
    ClientQueue \in Nat \ {0} /\ UpstreamQueue \in Nat \ {0}
ASSUME BoundsAreNat ==
    MaxRequests \in Nat /\ MaxPushes \in Nat /\ MaxErrors \in Nat
ASSUME RacesAreBoolean == LeaseRaces \in BOOLEAN /\ LateClients \in BOOLEAN

VARIABLES
    clients,     \* Core.clients: the registered sessions
    task,        \* where each session's task is
    asking,      \* the id of the message a task is handling
    held,        \* messages a task has decided to send upstream
    phase,       \* how far the peer of a session got with its handshake
    asked,       \* ids the peer has used so far
    waiting,     \* ids the peer has no answer to yet
    obliged,     \* server requests the peer has received and not answered
    upstream,    \* queue to the server
    pending,     \* Core.pending, with its key
    nextRequest, \* Core.next_request
    queue,       \* queue to each client
    started,     \* LspState.initialize_started
    cached,      \* LspState.initialize_result is Some
    enrolled,    \* the waiter list of LspState.initialize_ready
    owners,      \* LspState.documents
    reader,      \* the upstream_reader task
    retired,     \* how far run_broker_inner got with retiring the broker
    working,     \* requests the server has read and not answered
    owed,        \* server requests nobody has answered
    pushes,      \* messages the server originated so far
    serverOpen,  \* documents open in the server
    greeted,     \* `initialized` notifications the server has read
    errors       \* initialize requests refused so far

session == <<task, asking, held>>
peer == <<phase, asked, waiting, obliged>>
handshake == <<started, cached, enrolled>>
requests == <<pending, nextRequest>>
broker == <<clients, reader, retired>>
server == <<working, owed, pushes, serverOpen, greeted, errors>>
vars == <<broker, session, peer, upstream, requests, queue, handshake, owners,
          server>>

Ids == 1..MaxRequests

\* What travels upstream: a request under its broker-wide id, the answer to a
\* server request, or a notification.
Request(tag, id, about) == [kind |-> tag, id |-> id, about |-> about]
Answered(n) == [kind |-> "answer", id |-> n]
Note(kind, doc) == [kind |-> kind, doc |-> doc]
Plain(kind) == [kind |-> kind]
IsRequest(m) == m.kind \in {"plain", "initialize", "shutdown"}

\* What travels to a client.
Reply(id, ok, about) == [kind |-> "reply", id |-> id, ok |-> ok, about |-> about]
Push(kind, n) == [kind |-> kind, id |-> n]

Idle == [at |-> "idle"]
Ended == [at |-> "ended"]

Init ==
    /\ clients = {}
    /\ task = [c \in Clients |-> "absent"]
    /\ asking = [c \in Clients |-> 0]
    /\ held = [c \in Clients |-> <<>>]
    /\ phase = [c \in Clients |-> "new"]
    /\ asked = [c \in Clients |-> 0]
    /\ waiting = [c \in Clients |-> {}]
    /\ obliged = [c \in Clients |-> {}]
    /\ upstream = <<>>
    /\ pending = {}
    /\ nextRequest = 1
    /\ queue = [c \in Clients |-> <<>>]
    /\ started = FALSE /\ cached = FALSE /\ enrolled = {}
    /\ owners = [d \in Docs |-> {}]
    /\ reader = Idle
    /\ retired = "no"
    /\ working = {} /\ owed = {} /\ pushes = 0
    /\ serverOpen = {} /\ greeted = 0 /\ errors = 0

-----------------------------------------------------------------------------
(* Steps of a session's task *)

At(c, s) == task[c] = s
Go(c, s) == task' = [task EXCEPT ![c] = s]
Hold(c, ms) == held' = [held EXCEPT ![c] = ms]

\* serve_client enters the session in the map.  A client that was acknowledged
\* just before the broker found itself idle gets here while it retires.
Register(c) ==
    /\ At(c, "absent")
    /\ retired = "no" \/ LateClients
    /\ clients' = clients \cup {c}
    /\ Go(c, "reading")
    /\ UNCHANGED <<reader, retired, asking, held, peer, upstream, requests,
                   queue, handshake, owners, server>>

\* The peer sends a message under a fresh id of its own.
Ask(c) ==
    /\ At(c, "reading")
    /\ asked[c] < MaxRequests
    /\ asked' = [asked EXCEPT ![c] = @ + 1]
    /\ waiting' = [waiting EXCEPT ![c] = @ \cup {asked'[c]}]
    /\ asking' = [asking EXCEPT ![c] = asked'[c]]
    /\ UNCHANGED obliged

\* Bug: the request keeps its client's id.
ProxyVerbatim(c, tag, id) ==
    /\ pending' = pending \cup
          {[id |-> id, client |-> c, original |-> id, tag |-> tag]}
    /\ UNCHANGED nextRequest
    /\ Hold(c, <<Request(tag, id, <<c, id>>)>>)
    /\ Go(c, "sending")

\* proxy_request, up to its send: a broker-wide id, remembered as pending.
Proxy(c, tag, id) ==
    /\ pending' = pending \cup
          {[id |-> nextRequest, client |-> c, original |-> id, tag |-> tag]}
    /\ nextRequest' = nextRequest + 1
    /\ Hold(c, <<Request(tag, nextRequest, <<c, id>>)>>)
    /\ Go(c, "sending")

ReadRequest(c) ==
    /\ phase[c] = "configured"
    /\ Ask(c)
    /\ Proxy(c, "plain", asked'[c])
    /\ UNCHANGED <<broker, phase, upstream, queue, handshake, owners, server>>

\* `shutdown` is answered by the broker itself.
ReadShutdown(c) ==
    /\ phase[c] = "configured"
    /\ Ask(c)
    /\ Go(c, "replying")
    /\ UNCHANGED <<broker, held, phase, upstream, requests, queue, handshake,
                   owners, server>>

\* handle_initialize: enrol for the wakeup, look at the cache, try the
\* election, wait; then again.
ReadInitialize(c) ==
    /\ phase[c] = "new"
    /\ Ask(c)
    /\ phase' = [phase EXCEPT ![c] = "asked"]
    /\ Go(c, "enrol")
    /\ UNCHANGED <<broker, held, upstream, requests, queue, handshake, owners,
                   server>>

Enrol(c) ==
    /\ At(c, "enrol")
    /\ enrolled' = enrolled \cup {c}
    /\ Go(c, "check")
    /\ UNCHANGED <<broker, asking, held, peer, upstream, requests, queue,
                   started, cached, owners, server>>

CheckCache(c) ==
    /\ At(c, "check")
    /\ Go(c, IF cached THEN "replying" ELSE "elect")
    /\ enrolled' = IF cached THEN enrolled \ {c} ELSE enrolled
    /\ UNCHANGED <<broker, asking, held, peer, upstream, requests, queue,
                   started, cached, owners, server>>

\* Bug: the election is not a compare-and-exchange.
WinAnyway(c) ==
    /\ At(c, "elect")
    /\ started' = TRUE
    /\ enrolled' = enrolled \ {c}
    /\ Proxy(c, "initialize", asking[c])
    /\ UNCHANGED <<broker, asking, peer, upstream, queue, cached, owners, server>>

WinInitialize(c) ==
    /\ At(c, "elect")
    /\ ~started
    /\ started' = TRUE
    /\ enrolled' = enrolled \ {c}
    /\ Proxy(c, "initialize", asking[c])
    /\ UNCHANGED <<broker, asking, peer, upstream, queue, cached, owners, server>>

\* Bug: the session joins the waiter list only when it awaits.
LoseThenEnrol(c) ==
    /\ At(c, "elect")
    /\ started
    /\ enrolled' = enrolled \cup {c}
    /\ Go(c, "parked")
    /\ UNCHANGED <<broker, asking, held, peer, upstream, requests, queue,
                   started, cached, owners, server>>

LoseInitialize(c) ==
    /\ At(c, "elect")
    /\ started
    /\ Go(c, "parked")
    /\ UNCHANGED <<broker, asking, held, peer, upstream, requests, queue,
                   handshake, owners, server>>

\* notify_waiters empties the list; a session it took off the list loops.
Wake(c) ==
    /\ At(c, "parked")
    /\ c \notin enrolled
    /\ Go(c, "enrol")
    /\ UNCHANGED <<broker, asking, held, peer, upstream, requests, queue,
                   handshake, owners, server>>

\* Bug: the queue has no bound.
ReplyUnbounded(c) ==
    /\ At(c, "replying")
    /\ queue' = [queue EXCEPT ![c] =
                    Append(@, Reply(asking[c], TRUE, <<c, asking[c]>>))]
    /\ Go(c, "reading")
    /\ UNCHANGED <<broker, asking, held, peer, upstream, requests, handshake,
                   owners, server>>

\* link.reply: waits for room in the session's own queue.
ReplyLocally(c) ==
    /\ At(c, "replying")
    /\ Len(queue[c]) < ClientQueue
    /\ queue' = [queue EXCEPT ![c] =
                    Append(@, Reply(asking[c], TRUE, <<c, asking[c]>>))]
    /\ Go(c, "reading")
    /\ UNCHANGED <<broker, asking, held, peer, upstream, requests, handshake,
                   owners, server>>

\* Forward one message: queued by a later step, unless the model assumes that
\* nobody acts in between.
Forward(c, m) ==
    \/ /\ LeaseRaces
       /\ Hold(c, <<m>>)
       /\ Go(c, "sending")
       /\ UNCHANGED upstream
    \/ /\ ~LeaseRaces
       /\ Len(upstream) < UpstreamQueue
       /\ upstream' = Append(upstream, m)
       /\ UNCHANGED <<held, task>>

\* A peer with its initialize result sends `initialized`, which is swallowed,
\* then pushes its settings.
ReadSettings(c) ==
    /\ At(c, "reading")
    /\ phase[c] = "ready"
    /\ phase' = [phase EXCEPT ![c] = "configured"]
    /\ Forward(c, Plain("settings"))
    /\ UNCHANGED <<broker, asking, asked, waiting, obliged, requests, queue,
                   handshake, owners, server>>

\* The answer to a server request travels upstream as it is.
ReadAnswer(c, n) ==
    /\ At(c, "reading")
    /\ n \in obliged[c]
    /\ obliged' = [obliged EXCEPT ![c] = @ \ {n}]
    /\ Forward(c, Answered(n))
    /\ UNCHANGED <<broker, asking, phase, asked, waiting, requests, queue,
                   handshake, owners, server>>

HasOpen(c, d) == c \in owners[d]

\* should_forward_notification: the first open of a document is forwarded.
ReadOpen(c, d) ==
    /\ At(c, "reading") /\ phase[c] = "configured"
    /\ ~HasOpen(c, d)
    /\ owners' = [owners EXCEPT ![d] = @ \cup {c}]
    /\ IF owners[d] = {}
       THEN Forward(c, Note("open", d))
       ELSE UNCHANGED <<held, task, upstream>>
    /\ UNCHANGED <<broker, asking, peer, requests, queue, handshake, server>>

\* ... and the last close.
ReadClose(c, d) ==
    /\ At(c, "reading")
    /\ HasOpen(c, d)
    /\ owners' = [owners EXCEPT ![d] = @ \ {c}]
    /\ IF owners'[d] = {}
       THEN Forward(c, Note("close", d))
       ELSE UNCHANGED <<held, task, upstream>>
    /\ UNCHANGED <<broker, asking, peer, requests, queue, handshake, server>>

\* send_upstream of the messages a task holds: waits for room.
Send(c) ==
    /\ task[c] \in {"sending", "closing"}
    /\ held[c] # <<>>
    /\ Len(upstream) < UpstreamQueue
    /\ upstream' = Append(upstream, Head(held[c]))
    /\ Hold(c, Tail(held[c]))
    /\ IF At(c, "sending") THEN Go(c, "reading") ELSE UNCHANGED task
    /\ UNCHANGED <<broker, asking, peer, requests, queue, handshake, owners,
                   server>>

\* `exit`, a disconnection or broken framing ends client_loop; whatever ended
\* it, the session leaves the map first.
Leave(c) ==
    /\ At(c, "reading")
    /\ clients' = clients \ {c}
    /\ Go(c, "gone")
    /\ UNCHANGED <<reader, retired, asking, held, peer, upstream, requests,
                   queue, handshake, owners, server>>

\* close_client_documents: drop every lease, then close what nobody else holds.
LastOwned(c) == {d \in Docs : owners[d] = {c}}

\* Bug: the leases go and the server is not told.
DropLeasesSilently(c) ==
    /\ At(c, "gone")
    /\ owners' = [d \in Docs |-> owners[d] \ {c}]
    /\ Go(c, "closing")
    /\ UNCHANGED <<broker, asking, held, peer, upstream, requests, queue,
                   handshake, server>>

DropLeases(c) ==
    /\ At(c, "gone")
    /\ owners' = [d \in Docs |-> owners[d] \ {c}]
    /\ \E closes \in SetToSeqs({Note("close", d) : d \in LastOwned(c)}) :
          \/ LeaseRaces /\ Hold(c, closes) /\ UNCHANGED upstream
          \/ /\ ~LeaseRaces
             /\ Len(upstream) + Len(closes) <= UpstreamQueue
             /\ upstream' = upstream \o closes
             /\ UNCHANGED held
    /\ Go(c, "closing")
    /\ UNCHANGED <<broker, asking, peer, requests, queue, handshake, server>>

\* The writer is aborted with whatever it has not written.
EndSession(c) ==
    /\ At(c, "closing")
    /\ held[c] = <<>>
    /\ Go(c, "ended")
    /\ queue' = [queue EXCEPT ![c] = <<>>]
    /\ UNCHANGED <<broker, asking, held, peer, upstream, requests, handshake,
                   owners, server>>

-----------------------------------------------------------------------------
(* The peer of a session reads what its writer wrote *)

Receive(c) ==
    /\ queue[c] # <<>>
    /\ queue' = [queue EXCEPT ![c] = Tail(@)]
    /\ LET m == Head(queue[c]) IN
       CASE m.kind = "reply" ->
              /\ waiting' = [waiting EXCEPT ![c] = @ \ {m.id}]
              /\ phase' = [phase EXCEPT ![c] =
                              CASE @ # "asked" -> @
                                [] m.ok        -> "ready"
                                [] OTHER       -> "refused"]
              /\ UNCHANGED obliged
         [] m.kind = "ask" ->
              /\ obliged' = [obliged EXCEPT ![c] = @ \cup {m.id}]
              /\ UNCHANGED <<waiting, phase>>
         [] OTHER -> UNCHANGED <<waiting, phase, obliged>>
    /\ UNCHANGED <<broker, session, asked, upstream, requests, handshake,
                   owners, server>>

-----------------------------------------------------------------------------
(* upstream_reader *)

\* Send m to each of a list of sessions, in turn.
Dispatch(targets, m) ==
    reader' = IF targets = <<>> THEN Idle
              ELSE [at |-> "send", to |-> targets, msg |-> m]

\* A reply arrives: its pending entry is taken in a statement of its own.
TakeReply(m, ok) ==
    /\ reader = Idle
    /\ m \in working
    /\ ~ok => m.kind = "initialize" /\ errors < MaxErrors
    /\ working' = working \ {m}
    /\ errors' = IF ok THEN errors ELSE errors + 1
    /\ \E p \in pending :
          /\ p.id = m.id
          /\ pending' = pending \ {p}
          /\ reader' = [at |-> IF p.tag = "initialize" THEN "hook" ELSE "lookup",
                        client |-> p.client,
                        msg |-> Reply(p.original, ok, m.about)]
    /\ UNCHANGED <<clients, retired, session, peer, upstream, nextRequest, queue,
                   handshake, owners, owed, pushes, serverOpen, greeted>>

\* A reply nobody is pending for, which is the one to the broker's own
\* `shutdown`, is routed like a notification: to every client.
TakeStrayReply(m) ==
    /\ reader = Idle
    /\ m \in working
    /\ \A p \in pending : p.id # m.id
    /\ working' = working \ {m}
    /\ \E targets \in SetToSeqs(clients) :
          Dispatch(targets, Reply(m.id, TRUE, m.about))
    /\ UNCHANGED <<clients, retired, session, peer, upstream, requests, queue,
                   handshake, owners, owed, pushes, serverOpen, greeted, errors>>

\* Bug: a server request is broadcast like a notification.
Broadcast(kind) ==
    /\ reader = Idle
    /\ pushes < MaxPushes
    /\ pushes' = pushes + 1
    /\ owed' = IF kind = "ask" THEN owed \cup {pushes'} ELSE owed
    /\ \E order \in SetToSeqs(clients) : Dispatch(order, Push(kind, pushes'))
    /\ UNCHANGED <<clients, retired, session, peer, upstream, requests, queue,
                   handshake, owners, working, serverOpen, greeted, errors>>

\* route_server_message: a server request goes to one client, whichever the map
\* yields first; a notification goes to all, one after the other.
TakePush(kind) ==
    /\ reader = Idle
    /\ pushes < MaxPushes
    /\ pushes' = pushes + 1
    /\ owed' = IF kind = "ask" THEN owed \cup {pushes'} ELSE owed
    /\ \E order \in SetToSeqs(clients) :
          Dispatch(IF kind = "ask" /\ order # <<>> THEN <<Head(order)>> ELSE order,
                   Push(kind, pushes'))
    /\ UNCHANGED <<clients, retired, session, peer, upstream, requests, queue,
                   handshake, owners, working, serverOpen, greeted, errors>>

\* on_response: keep the result and greet the server, or release the election.
KeepResult ==
    /\ reader.at = "hook" /\ reader.msg.ok
    /\ cached' = TRUE
    /\ reader' = [reader EXCEPT !.at = "greet"]
    /\ UNCHANGED <<clients, retired, session, peer, upstream, requests, queue,
                   started, enrolled, owners, server>>

GreetServer ==
    /\ reader.at = "greet"
    /\ Len(upstream) < UpstreamQueue
    /\ upstream' = Append(upstream, Plain("initialized"))
    /\ reader' = [reader EXCEPT !.at = "notify"]
    /\ UNCHANGED <<clients, retired, session, peer, requests, queue, handshake,
                   owners, server>>

\* Bug: the client whose handshake failed is not told.
ReleaseQuietly ==
    /\ reader.at = "hook" /\ ~reader.msg.ok
    /\ started' = FALSE
    /\ enrolled' = {}
    /\ reader' = Idle
    /\ UNCHANGED <<clients, retired, session, peer, upstream, requests, queue,
                   cached, owners, server>>

ReleaseInitialize ==
    /\ reader.at = "hook" /\ ~reader.msg.ok
    /\ started' = FALSE
    /\ reader' = [reader EXCEPT !.at = "notify"]
    /\ UNCHANGED <<clients, retired, session, peer, upstream, requests, queue,
                   cached, enrolled, owners, server>>

NotifyWaiters ==
    /\ reader.at = "notify"
    /\ enrolled' = {}
    /\ reader' = [reader EXCEPT !.at = "lookup"]
    /\ UNCHANGED <<clients, retired, session, peer, upstream, requests, queue,
                   started, cached, owners, server>>

\* The client that asked, if it is still there.
LookUp ==
    /\ reader.at = "lookup"
    /\ Dispatch(IF reader.client \in clients THEN <<reader.client>> ELSE <<>>,
                reader.msg)
    /\ UNCHANGED <<clients, retired, session, peer, upstream, requests, queue,
                   handshake, owners, server>>

\* A full queue makes the reader wait; one whose session ended takes nothing.
SendDown ==
    /\ reader.at = "send"
    /\ LET c == Head(reader.to) IN
       \/ At(c, "ended") /\ UNCHANGED queue
       \/ /\ ~At(c, "ended")
          /\ Len(queue[c]) < ClientQueue
          /\ queue' = [queue EXCEPT ![c] = Append(@, reader.msg)]
    /\ Dispatch(Tail(reader.to), reader.msg)
    /\ UNCHANGED <<clients, retired, session, peer, upstream, requests,
                   handshake, owners, server>>

-----------------------------------------------------------------------------
(* The brokered server *)

ServerReads ==
    /\ upstream # <<>> /\ reader # Ended
    /\ LET m == Head(upstream) IN
       /\ working' = IF IsRequest(m) THEN working \cup {m} ELSE working
       /\ owed' = IF m.kind = "answer" THEN owed \ {m.id} ELSE owed
       /\ serverOpen' = CASE m.kind = "open"  -> serverOpen \cup {m.doc}
                          [] m.kind = "close" -> serverOpen \ {m.doc}
                          [] OTHER            -> serverOpen
       /\ greeted' = IF m.kind = "initialized" THEN greeted + 1 ELSE greeted
    /\ upstream' = Tail(upstream)
    /\ UNCHANGED <<broker, session, peer, requests, queue, handshake, owners,
                   pushes, errors>>

\* Its stdout ends, or loses framing: the reader is done.
ServerEnds ==
    /\ reader = Idle
    /\ reader' = Ended
    /\ UNCHANGED <<clients, retired, session, peer, upstream, requests, queue,
                   handshake, owners, server>>

-----------------------------------------------------------------------------
(* The end of the broker *)

\* accept_clients found the broker idle: `shutdown` under a broker id that is
\* not pending, then `exit`.
NobodyHere == \A c \in Clients : task[c] \in {"absent", "ended"}

RetireShutdown ==
    /\ retired = "no"
    /\ NobodyHere /\ reader # Ended
    /\ Len(upstream) < UpstreamQueue
    /\ upstream' = Append(upstream, Request("shutdown", nextRequest, <<nextRequest>>))
    /\ nextRequest' = nextRequest + 1
    /\ retired' = "shutdown"
    /\ UNCHANGED <<clients, reader, session, peer, pending, queue, handshake,
                   owners, server>>

RetireExit ==
    /\ retired = "shutdown"
    /\ Len(upstream) < UpstreamQueue
    /\ upstream' = Append(upstream, Plain("exit"))
    /\ retired' = "exit"
    /\ UNCHANGED <<clients, reader, session, peer, requests, queue, handshake,
                   owners, server>>

\* The server exited, or was killed: run_broker returns and the process takes
\* every task with it.
BrokerExits ==
    /\ retired = "exit" \/ reader = Ended
    /\ \E c \in Clients : task[c] # "ended"
    /\ clients' = {}
    /\ task' = [c \in Clients |-> "ended"]
    /\ held' = [c \in Clients |-> <<>>]
    /\ queue' = [c \in Clients |-> <<>>]
    /\ reader' = Ended
    /\ UNCHANGED <<retired, asking, peer, upstream, requests, handshake, owners,
                   server>>

-----------------------------------------------------------------------------
\* Steps a session's task owes once it has read a message or lost its peer.
TaskStep(c) ==
    \/ Enrol(c) \/ CheckCache(c) \/ WinInitialize(c) \/ LoseInitialize(c)
    \/ Wake(c) \/ ReplyLocally(c) \/ Send(c) \/ DropLeases(c) \/ EndSession(c)

PeerStep(c) ==
    \/ Register(c) \/ ReadRequest(c) \/ ReadShutdown(c) \/ ReadInitialize(c)
    \/ ReadSettings(c) \/ (\E n \in obliged[c] : ReadAnswer(c, n))
    \/ (\E d \in Docs : ReadOpen(c, d) \/ ReadClose(c, d)) \/ Leave(c)

TakeMessage ==
    \/ \E m \in working : TakeStrayReply(m) \/ \E ok \in BOOLEAN : TakeReply(m, ok)
    \/ \E kind \in {"ask", "tell"} : TakePush(kind)

ReaderStep ==
    \/ TakeMessage \/ KeepResult \/ GreetServer \/ ReleaseInitialize
    \/ NotifyWaiters \/ LookUp \/ SendDown

EndStep == RetireShutdown \/ RetireExit \/ BrokerExits

\* Nothing is left to do.
AllOver ==
    /\ reader = Ended
    /\ \A c \in Clients : task[c] = "ended"
    /\ UNCHANGED vars

Next ==
    \/ \E c \in Clients : TaskStep(c) \/ PeerStep(c) \/ Receive(c)
    \/ ReaderStep \/ ServerReads \/ ServerEnds \/ EndStep \/ AllOver

Spec == Init /\ [][Next]_vars

\* Tasks are polled, peers drain their sockets, the server reads its input and
\* answers what it was asked.  No peer is obliged to say anything or to leave,
\* nor the server to end.
Fairness ==
    /\ \A c \in Clients : WF_vars(TaskStep(c)) /\ WF_vars(Receive(c))
    /\ WF_vars(ReaderStep) /\ WF_vars(ServerReads) /\ WF_vars(BrokerExits)

FairSpec == Spec /\ Fairness

-----------------------------------------------------------------------------
(* Properties *)

TypeOK ==
    /\ clients \subseteq Clients
    /\ task \in [Clients -> {"absent", "reading", "enrol", "check", "elect",
                             "parked", "replying", "sending", "gone", "closing",
                             "ended"}]
    /\ asking \in [Clients -> 0..MaxRequests]
    /\ phase \in [Clients -> {"new", "asked", "ready", "configured", "refused"}]
    /\ asked \in [Clients -> 0..MaxRequests]
    /\ waiting \in [Clients -> SUBSET Ids]
    /\ obliged \in [Clients -> SUBSET (1..MaxPushes)]
    /\ Len(upstream) <= UpstreamQueue
    /\ \A c \in Clients : Len(queue[c]) <= ClientQueue
    /\ retired \in {"no", "shutdown", "exit"}
    /\ owners \in [Docs -> SUBSET Clients]
    /\ enrolled \subseteq Clients
    /\ owed \subseteq 1..MaxPushes
    /\ serverOpen \subseteq Docs
    /\ greeted \in Nat /\ errors \in 0..MaxErrors /\ nextRequest \in Nat

\* One window never gets another's answer (lsp.rs, classify): whatever ids the
\* peers chose, a reply a session is waiting for answers what it asked.
RepliesReachTheirAsker ==
    \A c \in Clients : \A i \in DOMAIN queue[c] :
        LET m == queue[c][i] IN
        m.kind = "reply" /\ m.id \in waiting[c] => m.about = <<c, m.id>>

\* The places a request <<c, id>> can be in.
Upstreamed(w) == {m \in working \cup ToSet(upstream) : IsRequest(m) /\ m.about = w}
HeldBack(w) == {m \in ToSet(held[w[1]]) : IsRequest(m) /\ m.about = w}
Returning(w) == {r \in {reader} \ {Idle, Ended} :
                    r.msg.kind = "reply" /\ r.msg.about = w}
Queued(w) == {i \in DOMAIN queue[w[1]] :
                 queue[w[1]][i].kind = "reply" /\ queue[w[1]][i].about = w}
InTask(w) == {s \in {"enrol", "check", "elect", "parked", "replying"} :
                 task[w[1]] = s /\ asking[w[1]] = w[2]}

\* A request is in exactly one place until its peer has the answer: nothing is
\* lost, answered twice, or answered before it was asked.
RequestsConserved ==
    \A c \in clients : \A id \in Ids :
        LET w == <<c, id>> IN
        Cardinality(Upstreamed(w)) + Cardinality(HeldBack(w))
        + Cardinality(Returning(w)) + Cardinality(Queued(w))
        + Cardinality(InTask(w)) = IF id \in waiting[c] THEN 1 ELSE 0

\* The handshake happens once: at most one `initialize` is on its way, none
\* once a result is cached, and only as many `initialized` as results.
Handshakes ==
    {m \in working \cup ToSet(upstream) \cup UNION {ToSet(held[c]) : c \in Clients} :
        m.kind = "initialize"}

OneHandshake ==
    /\ Cardinality(Handshakes) <= 1
    /\ cached => Handshakes = {} /\ started
    /\ greeted <= 1

\* Two windows never both answer one server request (protocol.rs, SingleClient),
\* and none answers after the server has its answer.
OneClientAnswers ==
    \A n \in 1..pushes :
        LET ask == Push("ask", n)
            answering == {c \in Clients : n \in obliged[c]}
            queued == {c \in Clients : ask \in ToSet(queue[c])}
            heldBack == {c \in Clients : Answered(n) \in ToSet(held[c])}
            sent == {i \in DOMAIN upstream : upstream[i] = Answered(n)}
            routed == {r \in {reader} \ {Idle, Ended} : r.msg = ask}
        IN  Cardinality(answering) + Cardinality(queued) + Cardinality(heldBack)
            + Cardinality(sent) + Cardinality(routed) <= IF n \in owed THEN 1 ELSE 0

\* Only the first open and the last close of a document reach the server
\* (lsp.rs): once nothing is on its way, the server has open exactly the
\* documents somebody holds.
InTransit(d) ==
    \E m \in ToSet(upstream) \cup UNION {ToSet(held[c]) : c \in Clients} :
        m.kind \in {"open", "close"} /\ m.doc = d

DocumentsInSync ==
    reader # Ended =>
        \A d \in Docs : ~InTransit(d) => (d \in serverOpen <=> owners[d] # {})

\* Everything a peer asks is answered, its initialize included, unless it
\* leaves first or the broker is over.
EveryRequestAnswered ==
    \A c \in Clients : \A id \in Ids :
        (id \in waiting[c]) ~> (id \notin waiting[c] \/ c \notin clients)
=============================================================================
