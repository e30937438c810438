# A verification project for intent-broker

Intent-broker is a Node.js service through which coding agents and people who
work on the same projects exchange intents: tasks, results, questions,
approvals and room messages. The broker is one single-threaded process over a
synchronous SQLite file. Agents reach it through small local processes
(session bridges and editor hooks), people through chat and mobile channels,
and other brokers through a relay.

This directory holds TLA+ models of the broker and of the processes around it,
their TLC configurations, and proofs that TLAPS checks. Line numbers below are those of the repository.

## 1. Inventory

What makes this code hard is rarely a single function. A handler without an
`await` is atomic, so the hazards are in the order of handlers, in the few
awaits, in what survives a crash, and in files that several processes share.

| Component | State | Operations | Hard behaviour | What makes it correct |
|---|---|---|---|---|
| Room service (`src/room/service.js`, `store.js`) | rooms, members, messages, wakes (deliveries), audits, request receipts, in SQLite | create, update members, finalize removals, send, schedule, start and cancel a discussion, claim / complete / reject a wake, archive, settle, delete | retries of messages; late answers of agents; settlement and deletion in several transactions; an await per member in `finalizeMemberRemovals` | a wake has one life and one reply; no archived room has a running claim; somebody owns the room; the transcript is ordered |
| Event store (`src/store/event-store.js`) | event log, receipts, inbox rows, cursors, roles | append, read, acknowledge, discard | lost answers and retries after the roster changed; readers that restart; a database from before the receipts | one event per intent; nothing is acknowledged unread; nothing appears behind a cursor |
| Registry, presence, websockets (`src/broker/service.js`, `presence.js`, `websocket.js`) | maps of participants, aliases, logical sessions, work states, presence, sockets, in memory; roles on disk | register, rename, roles, presence, work state, sweep, connect, heartbeat, disconnect | any order of those calls, also by participants that are not registered; the sweep; restart | an alias leads to who holds it, a logical id also to who left it; roles survive; the dead leave and are announced |
| Tasks and approvals (`src/domain/reducer.js`, watchdog in `src/broker/service.js`) | a view folded from the log; timers in memory | request, accept, progress, result, approval, cancel; escalate | results that cross cancellations; approvals asked and answered in any order and again; timers lost in a restart | no result is lost or replaced; blocked means asked for and not answered since; an open task is escalated |
| Recipient resolution (`src/broker/service.js`) | none of its own | resolve participants, roles, aliases, broadcasts | stale roster | every recipient is registered |
| Workspace and disclosure (`src/room/workspace-service.js`) | phase and generations of a binding, claims, mappings, grants, approvals, leases, pending mutations | begin, commit, cancel and activate a change; claim, take over, release; map; approve and disclose; register a host; complete a deferred mutation | changes of authority under a held lease; hosts that start again; leases nobody releases | no lease or claim outlives its basis; generations follow one another; no mutation is stranded |
| Relay adapter (`src/relay/*`) | connection state, buffer, cursor, seen window | poll and forward, flush, receive, sync | back-pressure, reconnection, buffer limit, replays | nothing lost silently, nothing applied twice, order |
| Context sync (`src/sync/*`) | sync records, refs of git, isolated branches, loads in progress | checkpoint, push, emit, retry, expire, load, acknowledge, clean up | awaits of git and of the broker; crash between two pushes, or between record and acknowledgement | a context is loaded once; what counts as acknowledged was loaded; no ref is forgotten |
| Session bridge and hooks (`adapters/session-bridge/*`, `adapters/*-plugin`) | queue, cursor, runtime and reply files | poll, push, queue, dispatch, recover, prompt, end of turn | files shared by processes, failing dispatches, stale owners, errors of the broker that nobody reads | the cursor stays within what is acknowledged or was refused; every event is acknowledged or refused |
| Keeper and bridge processes (`session-keeper.js`, `interprocess-lock.js`) | a lock file and a record per participant | start, reuse, replace, prune, end with the parent | hooks that overlap or are killed, old locks | one starter, one process, none without its parent |
| Approvals of tools (`hook-approval.js`, `codex-native-approval.js`) | the pending tool use, requests and responses in the log | ask, poll, give up, answer for the human | time-out against answer, answers with an old id, a connection that ends, a request that the broker refuses | nothing is blocked or run by an answer nobody gave |
| User confirmations, file locks, tasks with subtasks (`adapters/user-confirm`, `conflict-detector`, `task-dispatcher`) | JSON files | ask, reply, time out; acquire, renew, release; create, divide | load, change, save by several commands; a file that is being saved reads as empty | a request or lock that no overlap has touched has one outcome, one holder; subtasks belong to a task |
| Yunzhijia channel (`adapters/yunzhijia`) | sockets to the broker, to the chat and per user; their timers; known users | start, connect, reconnect, handle, stop | calls awaited between a test and its use, failing calls, `stop()` | every socket comes back; after the stop none to the broker is opened |
| Broker processes and their control (`src/cli.js`, `src/runtime/broker-runtime-state.js`, `scripts/broker-control.js`) | the port, the heartbeat file | start, serve, beat, shut down; stop, restart | overlapping commands, signals in every phase, writes that cross, processes that are killed | a restart reports ready what serves; the heartbeat names it |
| Groups, history, adapters, installers, monitors | little | translate, record, start and stop | formats, I/O | outside this project |

The parts interact as follows. The HTTP server and the sockets call the
methods of the broker service, one call per request. `sendIntent` resolves
recipients in the registry, appends to the event store, and notifies sockets.
Registration, presence changes and pruning themselves send intents, so the
registry writes to the inboxes of its observers; pruning discards inboxes. The
task view is a fold over the event log. Rooms live in tables of their own in
the same file and are never written by generic intents. Bridges and hooks read
inboxes by polling and acknowledge by cursor, over files that they share; hooks
start the bridges and keepers, ask the human for approval through the log, and
read the answer there. The relay adapter polls the event
log and appends what other brokers send.

`PROJECT.json` lists every component with its status, and the hazards each at
its line.

## 2. The modules

### Room

State: the row of one room (`status`, `deleted`, `epoch`, `lastSeq`), its
members (`user`, `agent`), its messages by idempotency key (`msg`), and for each
message and agent the delivery (`wake`, `left` until the lease ends, `reply`,
`audits`). `call`, `torn` and `todo` are what the process has in hand: a
settlement between two writes, and the members whose blocker check is awaited.

One action is one service method, except the two methods in which something can
happen in the middle. `settleArchiveGrace` and `deleteRoom` are split at each
write, because a crash can fall between them (`SettleFail`, `SettleAudit`,
`SettleArchive`, `CallReturns`; no other handler runs meanwhile, and every
other action waits for `call = "idle"`). `finalizeMemberRemovals` is split at
each await (`BlockerCheckAnswered`).

`SendRoomMessage` is `PostMessage` or, for a known key, `RepostMessage`, which
repeats `INSERT OR IGNORE` for the members of now. `CompleteWake` is the whole of
`completeWake` with the check of the epoch, the refusal of stale wakes, the
reply and its sequence number.

### Inbox and Mailbox

`Inbox` is the event store: `log` with the receipt of each event, inbox `rows`,
`discarded` marks and `cursor` per participant, and a reader per participant
with its own cursor (`at`) and page (`batch`). `AppendIntent` is a new event or a
retry that matches its receipt; every other retry is refused and changes
nothing. The initial states contain a migrated database whose events have no
receipts and may miss rows.

`Mailbox` is the abstract specification: a letter enters all mailboxes at one
moment, behind everything there, at most once ever, and leaves when the
participant settles it or the mailbox is thrown away. `Promise` is
`Abstract!MailboxSpec` under the mapping from rows and cursors to open letters:
a retry, a read, a restart and a repeated acknowledgement are stutters.

### Registry

The maps of the broker service (`registered`, `alias`, `aliases`, `logical`,
`sessions`, `roles`, `working`), who has `moved` from a logical id to another or to
none (history: `registerParticipant` adds to the new session and removes nothing
from the old one), the presence entries (`status`, `ws`, `age`), the
stored roles (`dbRoles`), the open `sockets`, and what one observer's inbox said
last of each participant (`heard`). `Forget` is `pruneParticipant` for a set of
participants; `Sweep` is one pass of `sweepStalePresence`, with the double event
of a participant that goes offline and is pruned in the same pass collapsed to
the last. A participant whose process is gone is in `silent`: it calls nothing
any more, but its sockets still close, and its presence may still be refreshed
by the heartbeat loop until they do.

### TaskFlow

The view of `reduceEventStream` (`status`, `canonical`, `duplicates`, `decision` and `tied`,
the approvals whose record names their task), what the watchdog reads from the log (`request`, `age`, `unacked`),
and its timers. An appended event applies its case of the reducer at once,
because the view is recomputed at each read from a log that is only appended
to. An approval may be asked for and answered in any order and again; `asking` is
history, the approvals that were asked for since their latest answer. `CheckUnacked` is `checkAndNotifyUnacked` with its early returns.

### Relay

Of each broker: `log` (events with their recipients), `presence` and `guest`
(`metadata.originBrokerId`), and whether the process is `live`. Of its adapter: the
connection (`conn`, `open`, `retry`), the timers (`polling`, `flushing`), back-pressure
(`paused`), the way out (`cursor`, `buffer`) and the way in (`seen`, `nodes`). The relay
service is not in this repository: `down` is what it has passed on to a broker
that is connected and has not received it yet. `sent` and `lost` are history.

Three handlers loop over events or participants and write to the log in each
iteration: the poll, the sync response, and the departure of a peer. Each
iteration is a step; `upto`, `work` and `leaving` hold what is left of the loop, and
`Idle` keeps every other handler of that broker waiting, as the event loop does.
Only a crash falls in between. Handlers that append refuse to start when the
log might exceed `MaxLog`.

`ForwardNext` is the body of `pollAndForward`; `FlushBuffer` is `flushBuffer` with its
three ends (paused, sent, socket not open), reached from its timer and from
`handleHello`. `HandleRemoteEvent` is the method of that name with the seen window, the
receipt in the event store (`Record`, `Conflict`) and, for presence, the
registration or removal of a guest, whose own announcement is again an event of
this broker. `Throw` is a conflict that nobody catches: the process ends.

### RealtimeBridge and SessionHooks

`RealtimeBridge` is the background process of a session: what the broker has
`published` and counts as `acked`, what is on the `wire`, the `bridge` process with the
queue it polled behind, its overlapping calls of `maybeAutoDispatchRealtimeQueue`
(`acts`), and the files `queue`, `cursor`, `runtime` and `mirror` (the pending reply). One
action is what runs between two awaits; what a call has read before an await
stays in its record, so `DispatchAcked` writes the queue as it was read.
`SessionHooks` EXTENDS it with the hooks of six editors. They follow one pattern:
`Start`, `Submit` and `Stop` have as parameters in what the plugins differ, and each
hook is several steps over the same files.

A call can fail in two ways. It throws, or its answer is lost (`DispatchFails`,
`HookFails`): the caller stops where it is. Or the broker throws and answers with an
error: `requestJson` returns that like any other body and looks at no status, so the
caller goes on, drains the queue and saves the cursor (`Answered`, which both use).
`refused` is history: the highest event that the broker was asked to acknowledge and
did not.

### Supervisor

How hooks keep one process alive: `lock` is the lock file with its owner, `state` the
record per participant, `child` the processes, `hook` the steps of
`ensureSessionKeeper` and `ensureRealtimeBridge`. `FindStale` and `RemoveStale` are apart, as
are reading and killing a sibling, and `Records` is the child's own write of its
record. A hook runs once and has a number. Three variables are history: `last`, the
last hook that succeeded, or that hooks of different participants overlapped or one was
killed; `raced`, the participants whose lock was made while a hook that had found a
stale one was still to remove it; `shared`, those that a hook found in use by another
session.

### BrokerControl

`broker` is the phase of each process: spawned (no handlers of signals yet), booting,
opening (it listens), running, closing (it still listens), draining (the port is
free, connections are not), dead. `file` is the heartbeat, `save` the write that a process is
in: `Persists` tests and truncates, `Writes` writes. `command` is where a stop or restart
is, with the process it is about; `ready` is history.

### Workspace

One room's workspace, with the room actions that call it. A call is a
transaction, so an action is a call; `Cut` in a name is the transaction that notes
the mutation and crashes before the second one. Revisions and incarnations are
not counted: a claim, approval or mutation says what has moved since (`stale`).
`Defer` is the retry that applies a noted mutation.

### ContextSync

Two brokers and a git repository. `Checkpoint` to `PushLatest` are `explicitSync`, each
push apart; `sends` are requests under way, which may be delivered and yet fail at the
sender; `loads` are calls of the receiver between its awaits (`Fetch`, `Isolate`,
`Acknowledge`). Both brokers crash; `interrupted` notes pushes whose outcome the
sender never learned, the only ones whose refs may be forgotten.

### Approvals

The log's requests and responses with their approval ids, `wait` for each ask, and
`outcome`. Hooks give up open: after the deadline they answer for the human, and the
tool runs. Codex's watcher gives up closed, over connections (`client`) that end and
are made again. An id is the tool use's or, if a use has none, made of session
and tool, so that two asks can share one. A request throws (`HookCannotAsk`,
`CodexCannotAsk`) or is refused (`Refused`): then the answer has no event number, the code
takes 0 for it and reads the log from its start, where any answer with the id will do.

### FileServices

Confirmations, locks and tasks as JSON files: every command loads a whole file,
changes its copy and writes it back. A save is two steps, because `writeFileSync`
truncates the file before it writes: in between, and for good if the command is
killed there, the file does not parse, and the code takes it for an empty table. If
another command has written meanwhile (`blank` says who may tell), what is in the file
may not parse either. A behaviour is of one service. `exposed` is history: the
requests and locks that an overlap or a kill may have cost. The properties leave
those out, and `TypeOK` nothing.

### Yunzhijia

The adapter's `phase`, per link the socket, its reconnect timer and the call that
precedes it, the users it knows, and for each handler the calls that are left. A
call that fails in a handler that nobody awaits ends the process (`Rejected`).

### Compositions

`SessionHooks` composes hooks with the bridge over shared files, and Inbox's cursor
with both. `MCSharing`, `MCPeople` and `MCProcesses` check two modules each in one run; they
share no state, so `part` says whose behaviour it is. `MCFileServices` EXTENDS `MCSharing`, and
`MCPeople` EXTENDS TaskFlow, whose states stand still there: so one module of proofs can speak
of all of them. What such a module only instantiates has a prefix: `Tools!` Approvals, `Chat!`
Yunzhijia, `Sync!` ContextSync, `Files!` FileServices, `Sessions!` Supervisor. The assumptions on
the constants of those are in the MC modules (`ToolsConstants`, `ChatConstants`, `SharingConstants`,
`FilesConstants`, `SessionsConstants`), where TLC evaluates them.

## 3. Runs

Each run is one question.

| Run | Instance | Shows |
|---|---|---|
| `room_safety` | 1 user, 1 agent, 2 keys, 1 cancel request, 1 finalizer, 1 crash, lease of 1 tick, symmetric keys; 232 574 states | wakes, replies, settlement and order of the transcript |
| `room_live` | 2 users, 2 agents, 1 key, 1 crash; 68 274 states | an owner always remains; archiving ends |
| `inbox` | 2 intents, 2 contents, 2 participants, pages of 1, 1 old event, 1 restart; 279 146 states | refinement of Mailbox, delivery under fairness |
| `registry` | 1 agent, 1 human, 2 names, 1 logical id, 1 role, 2 sockets, 1 restart; 145 032 states | addresses, announcements, removal of the dead |
| `tasks` | 1 task, 1 worker, 2 results, 2 approvals, each asked and answered at any time and again, threshold 1, repetition after 2, 1 restart; 434 352 states | results, approvals, escalation |
| `relay` | 2 brokers, 3 agents of which 1 acts twice, buffer of 2, batches of 1, seen window of 2, 1 fault; 147 425 states | nothing applied twice or unaccounted for; guests; the backlog drains |
| `bridge` | 2 events, sessions of 6 editors, 2 calls of dispatch, limit of 1 failure, 1 crash, call that throws or call that is refused; 570 237 states | the cursor, and that every event is acknowledged or refused |
| `bridge_skipped` | Claude Code, 2 events, no fault | violation: an event is acknowledged and never shown |
| `sharing` | 2 syncs, 2 loads at a time, 1 call under way, 1 fault; 1 claim, 2 changes of binding, 2 starts of the host; 1 610 579 states | loaded once, refs recorded; authority, drained changes, no stranded mutation |
| `files` | 2 commands at a time, 2 requests, 2 locks of 2 files, 3 tasks, 1 fault, symmetric commands and paths; 2 629 883 states | what overlaps, half-written files and kills spare: outcomes, locks, a sound table of tasks |
| `people` | 2 hooks that may share an id, 1 use of Codex over 2 connections, 1 fault; 1 user of the chat, 2 handlers, 2 failures; 69 014 states | answers of humans only; sockets come back, and none to the broker after the stop |
| `processes` | 2 brokers, 2 commands, 1 kill; 2 sessions, 2 parents, 3 hooks, 2 processes, 1 kill; 653 840 states | ready means serving, the heartbeat comes to name who serves; one starter but for the removal of a stale lock, one process, none that outlives its parent for ever |

Why these bounds are enough. A wake concerns one message and one agent, and
what disturbs it from outside is a second message (later turn, later epoch),
the agent's leaving and returning, archive and crash: all are in `room_safety`.
A second agent matters only to the member limit and to the retries after it
joined, which `room_live` has. Two intents and a page of
one make a reader skip if anything lets it; the legacy event is the only
difference an older database makes. In the registry two participants already
compete for one name; two names are one more than what each asks for, and `age`
beyond `PruneAfter` is not told apart. A task interferes with no other, as every
case of the reducer touches one task and one approval. In Relay the two limits
that bite are reached: three events (a registration, what is said, a departure)
meet a buffer of two, and a window of two forgets ids that a sync response
repeats. One fault, a lost or refused connection, a process that dies, a warning
or a drain, already crosses with everything under way. Batches of one leave out
that a flush loses the rest of its batch, which the proofs cover; an instance
with batches of two has over a million states. One crash or restart is enough to
lose what memory holds, and for Room the bound on audits counts crashes, so the
theorem about it covers any number.

In the bridge an event is news or work, is polled or pushed, and is taken by the
bridge or by a hook; two events and two overlapping calls let each overtake the
other in every one of these. A limit of one failure is reached by two calls that
fail side by side. In ContextSync the second sync moves the ref that the first
still has to clean up, and two loads of one request meet. In Workspace two
changes of binding are the least of which one can be cancelled before the other,
and one claim under a lease already stands in the way of each kind of mutation;
a second claim would only multiply what `claims` holds one by one. Every command of the file services touches one
request, one file or one task and its parent, so two overlapping commands give
every interleaving of two copies of a file. One kill leaves one empty file, which the
other command and the next ones find. Two hooks with one shared id are what
an answer can be confused between. In Supervisor one session moves to another parent
and one shares the first parent, which are the two ways in which hooks touch each
other's processes. Three hooks are the least with which two of them race for the lock that
a killed one left. No two sessions share a participant there; the proof covers those. In BrokerControl the old broker and the new one, or two that start,
are all that can meet at one port, and two commands all that can cross; an
instance of three brokers and one command holds as well, and takes too long for
a run beside Supervisor.

`CHECK_DEADLOCK FALSE` is set where the bounds on keys, crashes, restarts, time, agents'
operations and faults let a system come to rest; the broker may always be idle.

Every property of a passing run has a mutant, an operator written before the
one it would replace, that breaks it under the same configuration.

### What the code does not promise

These are properties that documents, comments or tests of the repository state, or that a
reader might take for granted, that the modules define and that TLC finds violated. `NothingSkipped` has its run;
each of the others is shown by its name in the configuration of its module's
run, except where another one is named; where the run only instantiates the
module, by a definition of that name in the MC module. In the modules their
comments begin with "Does not hold".

* `NothingSkipped` (`bridge_skipped`): the bridge polls the backlog "during previous
  disconnect" before it opens the socket. An event in between is neither polled
  nor pushed, and the acknowledgement of the next one passes over it.
* `DepartedUsersAreGone` (`MCRoom_live.cfg`): `updateRoomMembers` checks `removeUserIds`,
  answers ok, and its transaction never applies them; the test "self-removal
  succeeds once another active owner exists" only looks at the answer.
* `RetryRestoresOnlyLost` (`MCRoom_live.cfg`): the comment at `src/room/service.js:640` says
  that a retry restores obligations "lost to a torn write". Message and deliveries
  are committed together, so none is ever lost, and what the retry adds is wakes
  for agents that joined later.
* `CancelledIsTerminal`: only a result looks at `cancelled`. An acceptance that
  crosses the cancellation makes the task `assigned`, and the result that follows
  is canonical, contrary to the comment in the reducer.
* `HumansHearOfIt` (with `Roster = {"human"}`): the watchdog returns when no participant
  has the role `governance-pm`, before the part that tells humans, although the
  specification wants them told in addition.
* `LocalContinues`: a peer that registers a guest announces it in its own name,
  and so sends the agent's presence back to the agent's broker. If the agent's
  next registration there comes first, `registerRemoteParticipant` marks the local
  agent as a guest of the peer, and `PEER_LEFT` prunes it. The design says
  "Fail-open locally: relay down = local collaboration continues".
* `DuplicatesDiscarded`: the design says of an intent that is in the event store "silently
  discard". `appendIntent` does so only if the recipients are the same; a broadcast
  that comes again after the roster has changed is an `intent_conflict`, which leaves
  the socket's handler uncaught.
* `ActiveHasBinding`: a room that was never bound, in which two preparations are
  begun and cancelled, ends `active` without a binding.
* `CleanupSparesOthers` (`Sync!CleanupSparesOthers` in `MCSharing`): the cleanup compares the
  SHA of the latest ref and deletes it with a push that has no lease.
* `RunsByItsOwnRequest` (`Tools!` in `MCPeople`): a use without an id takes that of the pending one, so one
  answer lets another hook go on.
* `RefusedAckRepeated` (`bridge`): after an acknowledgement that the broker refused, bridge and
  hooks drain the queue and save the cursor, so the event is never polled again. What does
  hold, `CursorWithinAcked` and `EventsAcknowledged`, names that case.
* `RefusedIsUnanswered` (`Tools!` in `MCPeople`): a request of a hook or of Codex that the broker
  refused is answered by the first answer of its id in the log, also one to an earlier
  request. `HooksHeedHumans` and `CodexRunsByHuman` name that case.
* `BlockedIsPending`: `request_approval` blocks its task whatever the record of the approval
  says, and an approval that was answered stays answered when it is asked for again. The
  task is then blocked and nothing in the view is pending; `BlockedIsAsked` holds.
* `LogicalIsCurrent`: who registers again with another logical id stays in the session of the
  old one. `AddressesReach` names those.
* `AnswerStands`, `NeverTwoHolders` (`Files!` in `MCFileServices`): `checkTimeouts` settles a request
  as timed out over an answer that came while it was telling others; and two commands
  that load the lock table before either saves, or a half-written one, both get the lock.
* `NeverTwoStart` (`Sessions!` in `MCProcesses`): of two hooks that found a dead hook's lock file the
  second removes the one that the first has just made. `OneStarter` says that this is the
  only way.
* `ChatIsQuiet` (`Chat!` in `MCPeople`): `connectYunzhijiaWebSocket` tests `stopped`, awaits a token and
  opens its socket (`adapters/yunzhijia/index.js:318`), also if `stop()` was called meanwhile.
* `WaitKeepsWaiting` (`Files!` in `MCFileServices`): the fallback `wait` times out as every other.
* `OneBridge` (`Sessions!` in `MCProcesses`, with two uses that share a participant): participants are named by eight
  characters of the session id, and two sessions that share them replace each
  other's record for ever.

Three more divergences have no property: Codex's hook never recognises a
destructive git command (its regular expressions match a literal backslash), the
keeper looks for a stale runtime in a file that nobody writes, and a failed call
in a handler of the chat ends the broker.

Two more sentences of `design/relay-service.md` differ from the code; no run is
spent on them. Line 637 has the client reconnect after `reconnectAfterMs` when the
relay drains; the code waits for the close. Line 1023 promises zero loss for
offline brokers; what the code loses is exactly what `Accounted` lists.

## 4. Fairness

* Room: `WF(CallStep)`, since a running method of the event loop continues unless the
  process crashes; `WF(Tick)`, the clock; `SF(RetryDelete)`. The last is an assumption on
  the client: nothing in the broker settles a room by itself, so `ArchiveSettles`
  holds for an owner who keeps asking (the answer of `deleteRoom` says that the
  settlement is pending). Agents and finalizers get no fairness.
* Inbox: readers poll on a timer and finish what they read. Acknowledging and
  sending get none.
* Registry: the clock, the sweep interval, and that the sockets of a process
  that is gone close: the heartbeat terminates a socket that did not answer its
  last ping.
* TaskFlow: the clock, the periodic reconciliation and the set timers. Neither
  participants nor the roster are fair, so `OpenTaskIsEscalated` demands a project
  manager who is there at the time.

* Relay: timers fire, a poll or flush that began goes on, the message at the head of
  a socket is handled if it is a hello, a pause ends, a connection is at last
  accepted, a relay that drains closes its sockets, and a broker that died is
  started again by its supervisor. The last three are assumptions on the
  surroundings; `BacklogDrains` excludes an adapter that gave up after a 409.
* SessionHooks: a hook that began ends, as every call in it has a time-out; and
  the user goes on working in the session (`SF` of the first step of the hook of a
  prompt). The second is an assumption on the user that the code needs: without
  prompts nothing but the bridge reads the queue, and the bridge of a broken
  socket stops at its retry limit. The bridge itself gets no fairness, so
  `EventsAcknowledged` is what hooks guarantee also when the bridge is dead.
* Supervisor: a child that was started writes its record, ends when its parent is
  gone and removes its record. Those are timers of one process. Hooks get none.
* BrokerControl: a broker that is not killed goes on with its start, its beats, its
  signals and its shutdown, connections end, and a command goes on, as each of its
  waits has a limit. Errors, signals and kills get none.
* Yunzhijia: a call returns or fails, a connection is accepted or refused, a timer
  fires, and the registration with the broker ends. `Recovers` counts failures against a bound: it says
  that the sockets come back once failures stop.

## 5. Proofs

Every safety property that a passing run checks, invariant or action property, but
`SettledOnce` is also a theorem; so is the refinement of Mailbox. TLAPS proves them for all values of the
constants under named assumptions: senders are distinct, changes are changes,
bounds are naturals, pids are positive numbers, markers are not elements of the
sets they mark. `ToolsConstants` further says that no decision offered by Codex is
"null" or "error", which are not decisions but the absence of an answer. The decisions
that the code knows are those of `isSupportedNativeDecision` (`codex-native-approval.js:196`).

* **Room_proofs**: `TypeOK` is inductive. The properties of wakes follow from
  one invariant, `WakeInv`: which combinations of wake, reply, audit and lease exist,
  and what `torn` says. It is needed because `RepliesMatchWakes` alone does not say
  that a pending wake has no reply, and `AuditedOnce` alone does not say that the
  claim about to be settled has no audit row. Lemma `WakeMoves` states once what a
  step may do to one wake, with one step of proof per action; `TornSteps` and
  `MessagesStaySent` do the same for a half-settled claim and for messages. From
  these follow `RepliesMatchWakes`, `AuditedOnce`, `WakeLifecycle`, `TranscriptOrdered` and
  `NoLateReply`. `FailuresAudited` counts: the unaudited failures are a finite set that
  grows by at most the torn claim of a crash. `ArchivedIsSettled`, `DeletedIsArchived`,
  `ArchivedTranscriptFrozen` and `ActiveRoomHasOwner` are inductive by themselves or
  relative to types.
* **Inbox_proofs**: `InboxInv` adds to the four invariants that pages are
  contiguous behind the reader's cursor and that whatever lies behind it is done
  or discarded; without it an acknowledgement could cover a row in a gap. Lemma
  `RetryChangesNothing` shows that an accepted retry is a stutter, `NewEvent` that a
  new event is ahead of every cursor. `KeepsPromise` is the refinement: initial
  states map to initial states and each step to a step of `Mailbox` or a stutter.
* **Registry_proofs**: `AddressesReach` is not inductive alone: a participant that
  is not registered could hold a name, and registering it would release somebody
  else's. `NamesOfAbsent` excludes that, and that anybody counts as moved away from the
  logical id it has; so `moved` makes what is said of logical ids exact. `ForgetNames` and
  `AssignNames` are the two ways in which names change. `RolesDurable` and `LeavingIsTold`
  follow from types.
* **People_proofs**, TaskFlow: `TypeOK` contains that no timer exceeds the threshold;
  `NoResultLost` and `BlockedIsAsked` are inductive relative to it, and
  `CanonicalIsFirst` is a property of steps.
  Approvals: neither property is inductive. A hook that waits may already know that
  an answer is in the log without having acted on it, and Codex may hold a request
  on a connection that has ended. `ToolsInv` says which entries the log can hold and, for each
  place where an asker may be, what the log holds after its request or, if that was
  refused, at all (`HookKnown`, `CodexWait`). The log only grows, so that stays true while others write (`HookStays`,
  `AcceptedStays`); `ResolvedIs` and `FirstIs` say what the search for the first answer finds.
  Yunzhijia: `Quiet` is inductive relative to types. What the types say, that no socket is
  opened twice, is not: it needs `Unopened`, since the start opens two links without
  looking, and `Registration`: a message registers its user only if nobody else did, so
  the socket that follows is the first of that user.
* **SessionHooks_proofs**: `HooksInv` says of everything a process read before an await
  that it still is what the broker has published, and of every cursor read
  before an await that the broker has acknowledged it, or all up to what it refused
  (`Passed`). These only grow, so a late write is a write of something true; that is all that `CursorWithinAcked` rests on, and it
  holds for any number of dispatches side by side. `SessionTyped` contains that the
  failures of dispatches stay within their limit although each call adds to the count that
  it had read before it awaited: what it read was below the limit.
* **Processes_proofs**, BrokerControl: `ReadyServes` is about the heartbeat, which every
  process writes in two steps, over the others. `BrokerInv` says of each write under
  way where its broker is meanwhile (`WritesTruth`), so that whenever the file says
  "running", its broker serves or has served (`RunningServed`).
  Supervisor: `OneStarter` follows from `Exclusive`, what the lock file says of who works, for
  participants that are not `raced`; hooks may be killed. `EnsuredOnce` follows from `Settled`: for
  each place of the hook that works, what it has killed and started, and that
  whatever is alive is on record (`AllOnRecord`) and shares no parent (`Unrelated`), of
  participants that are not `shared`; `OneAtATime` that no second hook works meanwhile, and
  `Orphaned` why a process that ends by itself disturbs none of it.
* **Sharing_proofs**, Workspace: `WorkInv` joins the three properties, as each needs the others:
  a mutation can be settled because what it waits for has been drained, and what is
  drained is drained under a binding that no lease outlives. It adds that no claim of the project
  exists while a mapping's ticket is out (`TicketDrained`), and that generations in use were
  allocated (`Allocated`). ContextSync: `AckedKnown` (whoever may still bring "acked", the receiver
  has recorded it), `NotYetPushed` and `CleanersKnow` for the refs, `LoadsCounted` for the
  single load. FileServices: `Copies` says that a copy of a table
  that was sound is sound, and so is the empty one, so whatever is written back is; that
  gives `FilesTypesOK` and the last part of `OneHolder`. `Kept` gives the rest: a lock that was
  granted and not `exposed` is in the file, unless a command writes just now, and in the copy
  of every command that would write one. `SettledOnce` is only model-checked.

* **Relay_proofs**: logs are only appended to (`LogStep`), so what is on record stays
  there. `ReceivedStep` says for every action that whatever is then in a log, a
  buffer, a window, a handler's hands or on its way was there before or was just
  appended by its origin; `OriginHasIt` follows, and with it `AppliedOnce`: an event
  of a broker's own is at its place only, and `Record` refuses a second copy of
  another's. `OutStep` is what a step may do to cursor, buffer and `sent`;
  `BufferBounded` follows from it. `QuietWhilePaused` needs two more invariants: no
  poll runs under back-pressure, and a buffer holds only what is from here.
  `SentOnce` needs in addition that what was sent is on record, since a broker that
  starts again sets its cursor to the end of its log, and `Accounted` that a broker
  which is down has sent or lost all it had. `GuestsHaveHosts` is inductive relative
  to types. All of them hold for batches of any size.

Some properties with a theorem are no longer in a configuration, since a proof
for every value of the constants says more than a run: `DeletedIsArchived`,
`AuditedOnce`, `FailuresAudited`, `ArchivedTranscriptFrozen`, `OneEventPerIntent`, `CursorOwned`,
`AckedWasDone`, `NoRowBehindCursor`, `Forward`, `RolesDurable`, `CanonicalIsFirst`, `OriginHasIt`,
`SentOnce`, `BufferBounded`, `QuietWhilePaused`, and `TypeOK` of all modules with proofs.

Only model-checked are `SettledOnce` and every liveness property (`ArchiveSettles`, `Delivered`,
`SilentAgentsLeave`, `OpenTaskIsEscalated`, `BacklogDrains`, `EventsAcknowledged`, `EndsWithParent`,
`HeartbeatSettles`, `Recovers`), because fairness and ENABLED are out of the prover's reach. The
one lemma that is by induction over data, that a non-empty set of naturals has a least
element (`MinIs`), follows from the library's theorem that the order of Nat is well founded.
No module that a proof reaches has a recursive operator.

TLC has checked each inductive invariant named here, with the constants of the run of its
module, before it was proved.

## 6. Abstractions, and what is left out

* Room: revisions (a mismatch is refused and changes nothing), alias changes,
  membership leases, reading cursors, rooms with the workspace protocol. A reply
  is named by its wake, as its key is derived from the claim token, of which a
  wake has one.
* Inbox: payloads are compared as wholes, as `canonicalJson` does; one reader per
  participant.
* Registry: metadata, terminal locators, summaries; one observer. The stored
  heartbeat flag of a socket is not modelled: any open socket may be found dead.
* TaskFlow: an approval is of one task; who answers it, and what else the view shows of it,
  are left out.
* Relay: all agents are of kind agent; node and broker ids are configured and do
  not change; the events of a sync response are a set, taken in order of their
  place; refusals for lack of credentials or by HTTP are bounded faults; `stop()`
  comes only at the end of the process. Aliases of guests, message sizes (a
  response cut by size is one cut by number), heartbeats and `lastRelaySeq`, which
  nothing reads back, are left out.
* RealtimeBridge and SessionHooks: one session; an event is its number, and whether
  it starts a turn depends on which; the terminal is a program that accepts a
  dispatch, refuses it or fails. The status line and the hints of a prompt are
  left out.
* Supervisor: a lock file without readable owner is not distinguished from one with
  an owner; any lock whose owner's process is gone may be found stale, however new it is.
* BrokerControl: the system's queries of processes do not fail, and a process is a
  broker or nothing; Windows, where a signal ends a process at once, is left out.
  The heartbeat's statuses are starting, running and ended. When a broker is killed
  and the next one is started by hand, the heartbeat keeps the name of the first:
  `HeartbeatSettles` makes that exception, and a restart ends it.
* Workspace: one room and one workspace; revisions are compared, not counted; hosts
  and digests are model values.
* ContextSync: two brokers, a sender and a receiver; git is the refs of the remote
  and the branches of the receiver; the bytes of an archive are the commit.
* Approvals: a wait polls without delay, and its deadline may pass at any time. Of the
  decisions that Codex offers, those with amendments are left out: the code marks them
  as unsupported.
* FileServices: a behaviour is of one service. What two commands write over each other
  parses as one of the two or not at all.
* Yunzhijia: a handler is the number of calls it still waits for.
* HTTP, formats, wording and logs are left out everywhere.

### Not modelled

* Recipient resolution is a lookup in maps without effect, at the moment of sending;
  Inbox and Relay take any set of recipients, Registry says what the maps hold.
* Validation of intents and of trusted actors refuses a request before anything
  changes. The actions begin behind it, with the actor as parameter.
* The HTTP server calls one method of the service per request; a lost answer is a
  step of Inbox, Room and SessionHooks.
* Relay login and credentials: one HTTP call and a file with its answer.
* Session discovery reads files of other programs; installers write configuration
  once. Both are parsing and I/O without a state that a later step depends on.
* Agent and mobile adapters are clients without state of their own.
* Groups and collaboration history write JSON files in the manner that
  FileServices shows, and nothing decides on what they hold.
* Configuration, desktop notices, the status report, the health monitor and the smoke
  tests read or call; nothing depends on a state of theirs.

## 7. Plan

Written so far, in this order: Room, Inbox with Mailbox, Registry, TaskFlow,
Relay; RealtimeBridge with SessionHooks, Workspace, ContextSync, Approvals,
FileServices, Supervisor, Yunzhijia and BrokerControl; proofs of every safety
property of a run. Next, most important first:

1. **Proofs of what no run spends a property on**: what the relay keeps in order
   between two brokers; which events a receiver of a sync is told of.
2. **Abstract specifications** for ContextSync (a context is requested, loaded and
   acknowledged, in that order and once) and for the file services (a lock table
   without copies), with the refinements proved as that of Mailbox is.
3. **Delivery**: Registry and Inbox composed through `sendIntentInternal`, so that
   resolution, pruning and discarding meet in one behaviour.

The instances stay within a few minutes and three million states, with
one or two passing runs per module or pair of modules.
