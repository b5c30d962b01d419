# karet, specified

TLA+ specifications of karet, a terminal editor built from a workspace of Rust
crates (`src/crates/*`).  Most crates are pure: parsers, renderers, themes,
matchers, widgets.  The parts in which several actors share state are the LSP
broker (a hidden process that lets every editor window share one language
server), the JSON-RPC actor every protocol client is built on, the session that
owns documents and supervises language servers, and the save and history
machinery of a document.  Those are what this project specifies.

Every definition that models code has its source lines in `PROJECT.json`
("map"); hazards and the properties that cover them are listed there too.

## Inventory

| component | source (under `src/crates/`) | state | operations | what makes it correct |
|---|---|---|---|---|
| Broker election | `karet-supervisor/src/broker/{lease,failure,endpoint}.rs`, `serve.rs` (start and end of `run_broker`) | the files `{key}.lock`, `{key}.json`, `{key}.error`; the broker processes | `connect_observed`, `greet`, `release_lease`, `run_broker`, `release_election`, report write/read/sweep | one broker per key; a listening broker can be found; a permanent launch verdict is true; nothing stays locked by the dead |
| Broker accept loop | `broker/serve.rs` | `active_clients`, `last_activity`, `upstream_closed`, the connections | `accept_clients`, `serve_client` around its pump, idle tick, the latch of `upstream_reader` | never retires under a client; always notices the server's end; does retire when alone |
| Broker core | `broker/{serve,lsp,protocol}.rs` | `clients`, `pending`, `next_request`, `initialize_*`, `documents`, bounded queues | classification of client messages, `proxy_request`, `handle_initialize`, `on_response`, `route_server_message`, leases, `retire` | each answer to its asker, once; one handshake; one answerer; server's open documents = leased ones |
| Process supervisor | `karet-supervisor/src/{supervisor,lib}.rs` | a process group, a liveness pipe | spawn, watch, kill group | no server outlives its editor |
| JSON-RPC actor | `karet-jsonrpc/src/{actor,peer,connection}.rs` | `pending`, `closed`, the outbound and overflow queues | `dispatch`, `request`, `try_send`, `deliver`, the drainer, `close`, read loop, responders | each request resolves once; every peer request is answered while the writer lives; replies keep their order |
| JSON-RPC framing and messages | `karet-jsonrpc/src/{framing,framing/*,message}.rs` | none | encode, decode | round trip |
| LSP client | `karet-lsp` | capabilities, document versions, diagnostics | typed requests, `didChange` | versions increase; late results are dropped |
| DAP client | `karet-dap` | sequence numbers, session state | requests, events | as the JSON-RPC actor |
| Session: documents and persistence | `karet-session/src/session/{documents,edit_requests,persistence,reload,docfile}.rs`, `backup.rs` | the open document, parked saves, swaps, the persisted undo history | open, edit, undo, save, reload, back up, close, recover | no edit lost silently; no foreign text overwritten |
| Session: LSP runtime | `karet-session/src/lsp.rs`, `lsp/{slot,lifecycle,runtime,commands,delta,hint_flight,health}.rs` | per slot: token, attached documents, shown state; per task: command queue, replay set, pending change, background requests, tally, restart budget | document sync, requests, restart, connect, replay, lose, give up, retire | the server's copy is the buffer's; each request answered once; restarts bounded |
| Session: search, vcs, seam and debug workers | `karet-session` | generations, cancellation tokens | start, cancel, deliver | results of a superseded job are dropped |
| Text buffer, history, save | `karet-text/src/{lib,apply,history,load,save}.rs` | rope, undo and redo stacks, saved fingerprint | edit, undo, redo, snapshot, restore, check, write | an undo is of the text it meets; a save overwrites only what was read |
| Watcher | `karet-watch` | pending events, debounce | watch, coalesce | nothing lost |
| Search, VCS, seam index, notebooks | `karet-search`, `karet-vcs`, `karet-seam`, `karet-notebook` | caches | query | pure or I/O |
| Editor widget and the TUI application | `karet-editor`, `karet`, `karet-widgets` | view state | keys, layout | UI |
| Pure libraries | `karet-core`, `-syntax`, `-treesitter`, `-diff`, `-filetype`, `-fileview`, `-fuzzy`, `-github`, `-graph`, `-markdown`, `-pdf`, `-docx`, `-cbor`, `-theme`, `blameline` | none shared | transformations | sequential functions with unit tests |

How they interact: the session starts language servers through `karet-lsp`,
which speaks over a `karet-jsonrpc` connection to a child process or, when a
server is brokered, to a socket obtained from `connect_observed`.  Windows are
separate processes; the only state they share is the election's files and the
broker they meet there.  Inside the broker, one task per client and one
`upstream_reader` share `Core` under short locks and wait on bounded queues.

Hard behaviour: crashes between any two file operations of an election, stale
files and recycled ports and process ids; a check and an unlink in two system
calls; wakeups that can be missed; ids that collide across windows; bounded
queues in a cycle; locks released before the message they decided about is
sent; a writer and a reader that die separately; a deadline that does not cover
the wait in front of it; changes sent as ranges of a text the receiver may have
missed; a server that connects and dies again and again; reports of a task that
is already replaced; a file other programs write between a check and a rename.

## Modules

| module | models | kind |
|---|---|---|
| `KeyOwner` | what an election promises: one owner of a key at a time | abstract specification |
| `BrokerElection` | `connect_observed` against `run_broker` over the three files | component |
| `BrokerElectionProofs` | theorems about it | proofs |
| `BrokerAccept` | when one broker stops: `accept_clients` and the life of its connections | component |
| `BrokerAcceptProofs` | theorems about it | proofs |
| `BrokerCore` | what one broker does between its clients and its server | component |
| `BrokerCoreProofs` | theorems about it | proofs |
| `RemoteCall` | what an actor promises its callers | abstract specification |
| `RpcCalls` | the requests an actor makes: `dispatch`, the pending map, the two tasks | component |
| `RpcCallsProofs` | theorems about it | proofs |
| `RpcReplies` | the requests an actor answers: `Replies`, responders, the consumer, `close` | component |
| `RpcRepliesProofs` | theorems about it | proofs |
| `ServerHealth` | when a connection counts as lost and what the loss costs | operators |
| `ServerTask` | one provider slot of the session, its tasks and their servers | component |
| `ServerTaskProofs` | theorems about its reports, background requests and budgets | proofs |
| `ServerTextProofs` | theorems about its texts and its answers | proofs |
| `Document` | one document: buffer, history, file, swaps, persisted undo | component |
| `DocumentProofs` | theorems about it | proofs |
| `MC...` | the instance of each component that TLC checks | model checking |

In the modules a definition whose comment begins with "Bug:" is a plausible
mistake in the action after it.  It is used by no specification; `PROJECT.json`
("mutants") names the property that fails when it takes that action's place.

### BrokerElection

A process step is one system call on the shared files: creating the lock file
(`O_EXCL`) and writing the owner's pid into it are two steps, so are the check
and the unlink of `release_lease` and of `release_election`, and so are the end
of `run_broker_inner`, the failure report and the release.  `lease`, `endpoint`
and `report` are the files; `broker[b]` is where the process with pid `b` is;
`pc`, `owner`, `child`, `peer` and `verdict` are the locals of a connector.
A greeting has the four outcomes of `Peer` (`Greeting`): a broker acknowledges
only while it runs its accept loop, a dead one's port may refuse, or belong to
a stranger, and anything may fail to answer in time.  Time is abstract: a
deadline may expire in any round of the loop, an idle period may elapse whenever
nobody is connected, a file ages when `LiveLeasesAge` lets it.

Assumptions, each a constant or a guard:

* `AtomicUnlink`: nobody acts between the check and the unlink of one file.  The
  comment of `release_lease` accepts that race; with it the code does not keep
  `SingleBroker`, and the endpoint of a serving broker can be removed by the
  exit of its predecessor.  `election_liveness` runs without the assumption.
* `LiveLeasesAge`: the lock file of a serving broker gets as old as
  `STALE_LEASE`.  `election_aged_lease` shows what then happens.
* A lease ages only while no connector is inside an attempt that started when it
  was young (`AgeLease`): STALE_LEASE is 60 s, an attempt 5 s.
* A pid is reused only when no file and no local names it (`ReusePid`).
* `MaxCrashes` bounds connector crashes (brokers can be killed at any time).

### BrokerAccept

`CheckLatch`, `Park` and the branches of `select!` are steps, so a `Notify`
that fires while nobody waits is lost, as with `notify_waiters`; the latch
`upstream_closed` is what makes that harmless.  `conn[s]` walks a connection
through accept, greeting, map, count, pump and teardown; `active_clients`,
`last_activity` and the map change in steps of their own, in the order of
`serve_client`.  `idle` says that `IDLE_TIMEOUT` has passed since the last touch.

### BrokerCore

A session's task is a small program whose steps end where the code awaits or
unlocks: handling one message of the peer decides, under the locks, what it
replies, holds and records, and `sending` hands what is held to the bounded
upstream queue one by one.  `handle_initialize` is modelled with its waiter list
(`enrolled`): enrol, look, elect or park.  `upstream_reader` routes the server's
messages: a response to its asker by `pending`, a request to one client, a
notification to all; when it is sending into one client's full queue it waits,
and everybody else with it.  The peers and the server are the environment: a
peer asks under ids that count from 1, opens and closes documents, leaves at any
time; the server answers in any order, may refuse `initialize`, originates
requests and notifications, and may end.  `about` is a history field which the
server echoes: the session and id a request was asked under.

`LeaseRaces = FALSE` keeps a session from acting between the lease update and
the send of another; `core_lease_race` shows what it hides.  `LateClients =
FALSE` keeps a session from registering once the broker retires.

### RpcCalls

`dispatch` is four steps (insert, look at the flag, send, and from then on the
future it returned), and each task's end is a step per statement: the writer
sets the flag and gives the signal, the reader sets the flag, clears the map and
gives the signal.  A `oneshot` channel is its content `mail[c]` plus whether its
sender is in the pending map.  `Unused` is what `&mut self` means for `close` and
`Drop`: no `dispatch` is under way, though futures it returned may be.  `others`
are the frames of notifications and of the reply path.

### RpcReplies

`deliver` is one step per atomic operation: load the backlog, try the outbound
queue, count, park; the drainer takes, sends and uncounts.  Three parties
deliver at the same time, the reader, the consumer and the owner of the actor in
`close`.  (Several consumer tasks delivering at once are one in the model.)  The
peer cannot read while it waits for room to write; with the pipe, the inbound
queue and the outbound queue this closes the cycle that `peer.rs` warns about.
Item 0 is the close signal; `handed`, `before` and `written` are history.

`RpcCalls` and `RpcReplies` share the outbound queue and the two tasks; each sees
the other's frames as `other`.  Their composition is not checked: it would say
nothing that the frames of the other do not already allow, because neither half
reads what the other half writes.

### ServerTask

The session's side are the operations of `LspManager` on one slot
(`document_opened` to `document_saved`, a request, `restart_lsp`, a report taken
in); each puts at most one command into the bounded queue of the slot's task or
drops it, as `try_send` does.  A task's step is one turn of `server_task`: a
command taken with `remember_document`, the flush in front of it and its own
send or request; the debounce (`Quiet`); a background request that returns; the
connection's end (`Lost`); a launch with its replay; the end of the channel.
A turn ends with `launch_ready` (`Go`) or with the loss of the connection
(`Lose`), which answers everything in flight and charges `ServerHealth`.

A text is `<<opening, version>>`.  The server's copy of a document goes wrong in
the model exactly as it would in fact: a change made of ranges applied to a text
other than the one they start from becomes `Garbage`.  Every send has the
outcomes of `FailureTally::note`: taken, refused by a full queue of the
connection, closed.  `restart_lsp` is one step, as it is one handler of the
session, and so takes only as many documents as the new queue has room for.

History variables: `told` is the last text of each document the slot's queue
took; `server.astray` the documents whose `didOpen` or `didClose` the connection
refused while it stayed up, about which nothing is promised; `storm` counts
losses in a row with no pause, no stable connection and no circuit between them.
`left` is what a scenario still allows the environment.

Time is abstract: sleeps may end when armed, an entry of a failure log may have
left its window at any later look (after a cooldown it has), a connection may
have been stable or not.  Background requests of all five kinds are one,
`hint`; requests awaited in line are one, `request`.  `delta = FALSE` stands for
a reload, for an edit with lines the server counts differently, and for the size
fallback of `coalesce`.  Left out: the fan-out to several providers, settings
reloads and their generation, diagnostics, the fetches, reports that change no
state (`SpawnFailed`, `SyncFailed`, `ServerDied`), and requests that are not
queued, which the session answers itself.

### Document

One file, one document and whatever a session keeps beside it.  The session's
actor runs one handler at a time; its system calls are steps of their own where
another program can come between: reading the file and the stat that becomes its
fingerprint; the conflict check, the rename and the stat after it.  `OthersWrite`
may happen between any two steps and `Relaunch`, the end of the session, too: it
loses the buffer and keeps the files.

A text stands for its hash.  A step of the history is `[from, to]`, and undoing
it on any other text gives `Garbage`.  The fingerprint's mtime and size are
`stat`: whether the file's are still those (`current`), not (`old`), or never
taken (`none`).  `op` is where the handler is; `parked` are the saves that wait
for a formatter, and whether the buffer is still at the version they asked about.
Two history fields: `owed` says that the backup clock, a parked save or a failed
one has had its turn since the last edit; `raced` that another program wrote
while the fingerprint was being taken.

Assumed: one session at a time, each with a session id of its own (in the code
the process id); `files.backup` and `files.persistentUndo` on; writing a swap or
a history succeeds; one view of the document.  The backup tick is a step that
may come at any time, when the interval has passed.  An edit changes the text.
Left out: `retarget`, CBOR, byte order marks and line endings, the fallback of
`write_atomic` when a rename crosses file systems.

## Runs

| run | instance | what it shows |
|---|---|---|
| `election_safety` | 2 connectors, 2 pids, 1 connector crash, atomic unlinks | one broker per key, a listening broker is published, refinement of `KeyOwner` |
| `election_liveness` | 1 connector, 2 pids, 1 crash, everything allowed | no lease stays locked for good, a permanent verdict is true |
| `election_aged_lease` | as safety, leases of live brokers age | **violation**: the backstop evicts a live broker |
| `accept` | 2 connections | never retires under a session, notices the server's end, retires when alone |
| `core_safety` | 2 sessions, 2 requests each, 1 document, 1 server message, 1 refusal | answers reach their askers once, one handshake, one answerer, documents in step |
| `core_liveness` | the same without documents, queues of 1 | every request of a session that stays is answered |
| `core_lease_race` | 2 sessions, 1 document | **violation**: an open and a close of one document change places |
| `rpc_calls` | 2 calls, 1 other frame, a queue of 1 | refinement of `RemoteCall`, nobody waits on a dead reader, every call returns |
| `rpc_stalled_peer` | 1 call, 2 other frames, a queue of 1 | **violation**: the timeout does not cover the wait for room |
| `rpc_replies` | 2 requests of the peer, every capacity 1 | replies in order, exactly one each, no deadlock of full queues |
| `server_task` | 2 documents, 2 requests, 2 incarnations, a command queue of 2, limits of 2, 8 scenarios | the server's copy is in step and never mangled, reconnects miss nothing, requests answered once and behind their edits, the circuit, retirement |
| `document` | 3 texts, undo limit 2, 2 parked saves, 2 runs of the editor, 4 scenarios | undo always fits, backed-up text is kept, no silent overwrite outside two windows |

**Bounds.** Two actors of a kind are what every race here needs: two connectors
to contend and one pid each to elect, two sessions to collide on an id, two
calls to swap answers, two replies to overtake one another.  Two pids in the
liveness run let a successor meet what its predecessor left.  Queues of one make
full queues common; a longer queue only delays them.  `MaxRequests = 2` is an
`initialize` and one more request, `MaxErrors = 1` lets the winner of the
handshake fail once.  The runs with liveness use no symmetry.

`server_task` and `document` choose one of several allowances at the start
(`Scenarios`): how many edits, saves, losses, foreign writes and so on the
behaviour may have.  Each combines the kinds of event whose orders matter to one
property, so that the state graph is a sum of small products.  In `server_task`
these are: two documents edited in turn; one through a loss, a refused send and
a save; a request around a reopening, around a restart, and around a loss; a
loss around a restart; a server that dies three times; one that falls silent (six
requests, as three silences of two requests each are one more than the limit).
The limits of 2 stand for 5 failures, 2 silences and 3 timeouts: a row
of 2 is the shortest that is not a single event.  In `document`: histories with
joined, forgotten, undone and redone steps; two saves against two foreign writes;
two parked saves with edits under them; all kinds once or twice.  An undo limit
of 2 forgets at the third edit; the third text is one the save's cleanup changes.

**Deadlock** is checked in every run but `server_task`.  Where a system has
stopped (the broker exited, the actor is dropped) the module has an explicit
stuttering action.  A server task rests when its queue is empty and its server
well, and nothing obliges the session to act, so `server_task` has states without
a successor; that nothing is stuck there is what its liveness properties say.

**Fairness** is that of a scheduler: an enabled step of a task, a connector or a
broker is eventually taken (weak fairness per actor), and timers fire.  Three
strong ones: a connector's deadline (its loop leaves the state in which the
deadline is looked at, and comes back to it), the age of a lock file (it is old
once the attempts pause) and, in `RpcReplies`, a peer that reads between two
messages of its own even when it has always more to write.  Nothing obliges an
environment to crash, to connect, to ask, to leave or to end.
In `server_task` it is weak fairness of each task's turn: `tokio` runs a ready
task, requests time out, deadlines pass, a launch succeeds or fails.  `document`
states no liveness and assumes no fairness.
`rpc_calls` adds a peer that goes on reading, and `rpc_stalled_peer` is the same
specification without it.

## Proofs

All theorems hold for every value of the constants that satisfies the named
assumptions, checked by TLAPS from nothing.

* `BrokerElectionProofs`.  `TypeCorrect`.  `VerdictTruth` (`VerdictIsTrue`) needs
  no assumption about races: `EvidenceInv` says that an outcome is recorded
  before a report exists, that a report is true of the pid it names, and that
  only a connector that is leaving holds a verdict.  `Exclusion`
  (`SingleBroker`), `Reachability` (`ListenerIsPublished`) and
  `ImplementsKeyOwner` assume `Undisturbed` (`AtomicUnlink` and not
  `LiveLeasesAge`) and rest on one inductive invariant, `KeyInv`: every process
  that holds the key is the one the lease was taken for, the lease names nobody
  else, whoever is about to unlink the lease has seen its broker gone, and pids
  in use are not reused.  `SingleBroker` alone is not inductive: nothing in it
  says that the lease outlives its broker.  The refinement maps the abstract
  holder to the one broker that is `Holding`.
* `BrokerAcceptProofs`.  `CountIsExact`: `active_clients` is the cardinality of
  the set of registered sessions, which needs that each moves at most one
  session at a time; `NobodyIsCutOff` follows, because the loop returns `Ok`
  only at a count of zero.
* `BrokerCoreProofs`.  One inductive invariant, `Inv`, in seven parts, each used by
  the ones after it.  `Typed` and `Sessions` say what each stage of a session's
  task holds.  `Tracked`: entries of `pending` have ids of their own below
  `next_request`, and each request at or on the way to the server has the entry
  that is about it, so a response finds the session that asked.  `Conserved`
  counts, for each request of a session, the six places it can be in (the task's
  hand, what it holds, the upstream queue, the server, the reader, the session's
  queue); counts, because a queue is a sequence and "in it once" is a number.
  `Handshake`: one entry is tagged `initialize` at a time, none once a result is
  cached, and `initialized` is queued for that result only.  `AskOnce` follows a
  request of the server through the same kind of places, `InSync` says what the
  notifications still queued will make of the server's documents, which is what
  the leases say.  `HandshakeHappensOnce` (`OneHandshake`), `ServerGetsOneAnswer`
  (`OneClientAnswers`) and `TypeCorrect` hold without conditions.
  `RepliesAreTheirs` (`RepliesReachTheirAsker`) and `RequestsAreConserved` assume
  `~LateClients`: a session that registers while the broker retires can be given
  the reply to `shutdown` for its own.  `LeasesAreKept` (`DocumentsInSync`)
  assumes `~LeaseRaces`; `core_lease_race` is the counterexample without it.
* `RpcCallsProofs`.  `TypeCorrect`, with the bound of the queue.  `Correlation`
  (`AnswersTheirCaller`, which only the proofs need by itself) rests on
  `IdsAreFresh`: two calls never have one id, ids are below the counter, and what
  the peer, the queue and the writer hold is about the call that has the id.
  `ImplementsRemoteCall` (`IsARemoteCall`) adds `OneCopy`: a request is in at most
  one place and in it once, nowhere before `dispatch` queued it, and while the
  reader reads, an open call has its sender in the map or its answer in hand.  The
  mapping reads a call's outcome off `at` and `result` and its request's place off
  the queue, the writer, the peer and the oneshot channel; each step of the actor
  is shown to be one step of `RemoteCall`; a step a caller does not see is `Lose`
  with nothing lost.
  `DeadReaderFails` and `SettledBeforeSignal`
  rest on `Settled`: the flag is up before the map is failed, and while the
  writer lives only the end of the reader gives the signal.  `TypeOK` and
  `IdsAreFresh` are needed under it, because a call that registers after the map
  was failed must still meet the flag.
* `RpcRepliesProofs`.  `Typed`; `Counted`: while the drainer lives `backlog` is what
  is parked, about to be parked, or in its hands, so a `deliver` that reads zero
  has nothing in front of it; `OneAnswer`: an item is in at most one place, and in
  exactly one while both tasks work (`AnsweredOnce`, for `EveryAskHasOneAnswer`);
  `Ordered`: behind each item in each place there is nothing that was handed over
  before it, place by place from the parked ones to the wire (`ReplyOrder`, for
  `RepliesInOrder`).  The order alone is not inductive: that the fast way
  overtakes nothing is what `Counted` says.
* `ServerTaskProofs`.  `RunningIsUnique` (`OneRunningPerDocument`): a document has
  at most one deferred request, and `launch_ready` starts it only while none
  runs, so uniqueness needs both.  `ShownIsTrue` (`ShownStateIsTrue`) rests on an
  invariant over the channel: the last report of a task on its way says the phase
  it is in, and a slot without one on the way shows it; tokens not yet taken have
  said nothing.  `CircuitIsReached` (`DeathsOpenTheCircuit`) bounds each row by the
  budget it is charged to: a row is never longer than the failures (silences) the
  log holds, and a log that reached its limit has opened the circuit.
* `ServerTextProofs`.  `TextInv` has three parts.  `SessionOK` types the buffers.
  `TasksOK` holds of every task, retired ones too: the texts in its queue, its
  replay set and its background requests are in the order in which the document
  had them, openings included (`InOrder`), and the server's copy is the text the
  replay set remembers, or the pending ranges begin at the text the server holds
  and chain up to it (`InSync`).  `SlotOK` ties the task that holds the slot to the
  session: nothing it has is ahead of the buffers (`Bounds`), every attached
  document is known to it under its present opening, and it was given the last
  text told (`Serves`).  `NoMisappliedChange` alone is not inductive: that the next
  delta fits needs the order of the whole queue, because a change may be dropped
  and the document reopened in between.  The proof factors through `Moved`: a step
  of a task either keeps the texts, takes the first command, or finishes.  From
  `TextInv` follow `ServerTypeOK`, `ChangesFit` (`NoMisappliedChange`),
  `AttachedAreReplayed` (`AttachedIsReplayed`), `QuietIsSynced`
  (`SyncedWhenQuiet`) and the action property `RequestsFindTheirText`
  (`RequestsSeeTheirText`), for which the step says in addition that a request is
  launched only when nothing is pending for its document.  `AsksAreConserved`
  (`AsksConserved`) rests on `AskInv`: a request nobody is owed an answer for is
  nowhere, one that is owed is in exactly one place of exactly one task.  Its
  steps `Settle`: what a task took and had in flight is answered or still there,
  whether it was launched, superseded, lost with the connection, drained or
  abandoned at the end.
* `DocumentProofs`.  One invariant in parts: a type for each variable (`TypesHold`);
  in the buffer the stacks chain to its text (`HistoryAlwaysFits`), which needs
  that also in the persisted history; a backed-up version is in the swap
  (`UnsavedIsKept`), which needs that no pending recovery names the session's own
  swap; and for a save under way, that the file is what was read or written, that
  it changed under a fingerprint that says so, or that somebody raced
  (`SavesOverwriteNothingUnread`).

Every safety invariant and action property of the passing runs is a theorem, most
for all values of the constants, six under a named condition:
`SingleBroker`, `ListenerIsPublished` and `KeyHasOneOwner` when `Undisturbed`,
`RepliesReachTheirAsker` and `RequestsConserved` without late clients,
`DocumentsInSync` without lease races.

Only model-checked are the liveness properties, which are out of the prover's
reach: `NeverWedged`, `DeathIsNoticed`, `RetiresWhenAlone`,
`EveryRequestAnswered`, `CallsReturn`, `AsksAreAnswered`, `AsksAnswered` and
`RetiredTasksEnd`.

## Where code and documents disagree

Three disagreements have a run: `election_aged_lease` (the age backstop removes
the lease of a serving broker), `core_lease_race` (lease order is not send
order) and `rpc_stalled_peer` (a request is not bounded by its timeout).  Others
met while modelling have no run, and are listed as hazards with a note:

* `serve.rs:193` an exiting broker can unlink the endpoint of its successor;
* `serve.rs:377` a long-quiet client that leaves can take the broker with it at
  once, as the count falls before the activity is touched;
* `lsp.rs:119` the settings of a second window can be queued before
  `initialized`;
* `serve.rs:481` the reply to `shutdown` is routed to every client, and can be
  taken for the answer to a late client's first request;
* `actor.rs:233` requests in flight are not failed when only the writer dies;
  `actor.rs:403` nor when the actor is closed: they wait out their timeouts;
* `actor.rs:312` an abandoned future leaves its id in the pending map.

Others were met in the session.  They are modelled where the model reaches them,
and the properties say what is left:

* `runtime.rs:220` a replay that fails is charged but never opens the circuit, though
  `lsp.rs:17` promises one for a server that keeps failing; `DeathsOpenTheCircuit`
  counts no replay failures.
* `lsp.rs:10` says that a request always sees the latest text.  After a flush the
  connection refused (`resync`), or a change the session could not queue, it does not;
  `RequestsSeeTheirText` excepts the first and speaks of the text told, not the
  buffer's.
* `lsp.rs:905` a `didClose` that finds the queue full is dropped: the task keeps the
  document in its replay set and opens it again at every reconnect.
* `commands.rs:763` a `didSave` behind a dropped change gives the replay set a newer text
  under the older version.
* `health.rs:257` a loss that is no silence forgives the silences before it, so a server
  that alternates opens no circuit; nor does one whose handshake is slow enough for
  each failure to have left the window when the next comes.
* `hint_flight.rs:264` a deferred request is launched although its document was closed
  meanwhile.
* `docfile.rs:142` `must_create` is cleared by a save only: a new file that somebody else
  creates, and the editor then reloads, cannot be saved any more.  (In the model a
  reload keeps `mustCreate`, and each later `Write` is refused.)
* `persistence.rs:45` a recovered swap is deleted as soon as its text is in the buffer, so a
  crash before the next backup loses it; `docs/configuration.md:683` says that unsaved
  work is safe when karet crashes.  Two swaps of one path are applied one over
  the other, and only undo leads back to the first.
* `documents.rs:685` a failed save for a build writes no swap; `docs/configuration.md:684`
  says "immediately whenever a save fails" (`Refuse` with `build`).
* an undo back to the saved text leaves the swap on disk, to be offered by the next
  session; `backup.rs:424` finds the swaps of editors that are still running;
  `documents.rs:738` `retarget` leaves swap and history under the old path; a stat that
  fails at load leaves no fingerprint, and the saves after it check nothing (the
  second window of `NoSilentOverwrite`).

## Not modelled, and why

Listed with reasons in `PROJECT.json` ("components").  In short: the kernel side
of process groups, encodings and framing, pure libraries, and view code have no
interleavings of their own.  In the modelled parts, message contents, logging
and the failure to encode a message are left out.

## Plan

1. *(done)* broker election, accept loop and core; the actor's calls and replies.
2. *(done)* a document with its history, its file and its swaps.
3. *(done)* a slot of the language-server runtime.
4. *(done)* the inductive invariants of the broker's core, of the reply path and of
   a slot's texts and requests, and the refinement of `RemoteCall` by the actor's
   calls.
5. Proofs left: an abstract specification of the slot (a server that is told each
   document's texts in order, and answers each request once) refined by
   `ServerTask`; the same for the actor's replies.
6. Components left: the workers of the session (a generation each), `retarget` and
   documents with several views, several providers of one document.
