--------------------------- MODULE RealtimeBridge ---------------------------
(***************************************************************************)
(* The realtime bridge of one agent session                                *)
(* (adapters/session-bridge/realtime-bridge.js): a background process that *)
(* copies what the broker pushes into a queue file and, while the session  *)
(* is idle, hands the queued work to the agent by itself.                  *)
(*                                                                         *)
(* Queue, cursor, runtime state and pending reply are files that the       *)
(* bridge shares with the hooks of the session (module SessionHooks).  A   *)
(* process runs undisturbed between two awaits, so one action is what it   *)
(* does from one await to the next; what it read before an await and uses  *)
(* after it is kept in its record.                                         *)
(*                                                                         *)
(* An event is its number: the broker numbers the events of an inbox, the  *)
(* queue file keeps a list per semantic, both ordered by number.  A reply  *)
(* pending for work that a user took up is cleared and never sent, so only *)
(* the replies to dispatched work are kept.                                *)
(***************************************************************************)
EXTENDS Integers, FiniteSets, FiniteSetsExt

CONSTANTS
  Sessions,     \* agent tools, with the events that are actionable
  N,            \* bound: events in the inbox
  Slots,        \* bound: dispatches at a time
  HookPage,     \* events that a hook asks for in a poll: 20
  BridgePage,   \* events that the bridge asks for in a poll: 50
  MaxFailures,  \* INTENT_BROKER_AUTO_DISPATCH_MAX_FAILURES
  MaxFaults     \* bound: crashes, failed calls of the broker and refused acknowledgements

ASSUME NType == N \in Nat
ASSUME SessionsType == \A w \in Sessions : w.actionable \subseteq 1..N
ASSUME PagesType == HookPage \in Nat \ {0} /\ BridgePage \in Nat \ {0}
ASSUME MaxFailuresType == MaxFailures \in Nat \ {0}
ASSUME MaxFaultsType == MaxFaults \in Nat

VARIABLES
  session,    \* [tool, actionable]: this session, which does not change
  published,  \* events the broker has put into the inbox
  acked,      \* cursor of the participant at the broker
  refused,    \* history: highest event whose acknowledgement the broker refused, or 0
  wire,       \* events on their way through the socket
  bridge,     \* [pc, base]: the bridge process and the queue it polled behind
  acts,       \* its calls of maybeAutoDispatchRealtimeQueue
  queue,      \* queue file
  cursor,     \* cursor file
  runtime,    \* runtime state file
  mirror,     \* pending reply: the event it answers, or 0
  seen,       \* history: events put before the agent
  faults

broker == <<published, acked, refused, wire>>
files  == <<queue, cursor, runtime, mirror>>
bridgeVars == <<session, broker, bridge, acts, files, seen, faults>>

Events == 1..N
tool == session.tool
Actionable == session.actionable   \* events whose semantic is actionable
Highest(items) == IF items = {} THEN 0 ELSE Max(items)

\* runtime states: "idle" and "failed" have the status idle, the others running
Runtime == [is : {"idle", "failed", "dispatching", "turn"}, owned : BOOLEAN,
            fails : 0..MaxFailures, fresh : BOOLEAN]
State(s) == [is |-> s, owned |-> FALSE, fails |-> 0, fresh |-> FALSE]

Queue == [items : SUBSET Events, last : 0..N]
Free == [pc |-> "free", items |-> {}, last |-> 0, cur |-> 0, prior |-> 0]

Queued(q, items) ==
  [items |-> q.items \union items, last |-> Highest(items \union {q.last})]
Drained(last) == [items |-> {}, last |-> last]
Restored(q, items) == Queued(q, items)

At(pc) == [pc |-> pc, base |-> Drained(0)]

BridgeInit ==
  /\ session \in Sessions
  /\ published = 0 /\ acked = 0 /\ refused = 0 /\ wire = {}
  /\ bridge = At("off")
  /\ acts = [s \in Slots |-> Free]
  /\ queue = Drained(0) /\ cursor = 0 /\ runtime = State("idle") /\ mirror = 0
  /\ seen = {} /\ faults = 0

-----------------------------------------------------------------------------
(* What the broker does for the session.                                   *)

Publish ==
  /\ published < N
  /\ published' = published + 1
  /\ wire' = IF bridge.pc = "open" THEN wire \union {published + 1} ELSE wire
  /\ UNCHANGED <<session, acked, refused, bridge, acts, files, seen, faults>>

InboxFromCursor(after, limit) ==
  {e \in Events : after <= e /\ e <= published /\ e < after + limit}
\* one page behind a cursor
Inbox(after, limit) == {e \in Events : after < e /\ e <= published /\ e <= after + limit}
Acked(e) == Highest({acked, e})

\* An acknowledgement is answered.  The broker did what was asked, or threw and
\* answers with an error, which requestJson returns like any other body and no caller
\* looks at: all go on as if the events were acknowledged.
Answered(e) ==
  \/ acked' = Acked(e) /\ UNCHANGED <<refused, faults>>
  \/ /\ faults < MaxFaults
     /\ refused' = Highest({refused, e})
     /\ faults' = faults + 1
     /\ UNCHANGED acked

-----------------------------------------------------------------------------
(* Automatic dispatch.                                                     *)

Executes == tool \in {"claude-code", "xiaok-code"}
Dispatches == Executes \/ tool = "codex"

Exhausted == runtime.is = "failed" /\ runtime.fails >= MaxFailures
CoolingDown == runtime.is = "failed" /\ runtime.fresh
Running == runtime.is \in {"dispatching", "turn"}
OwnerAlive == runtime.is = "dispatching" /\ runtime.owned
Recoverable == Executes /\ runtime.is = "dispatching" /\ ~runtime.fresh

\* the call drains the queue it reads, and awaits the acknowledgement
Take(q, prior) ==
  IF q.items \intersect Actionable = {} THEN Free
  ELSE [pc |-> "ack", items |-> q.items, last |-> q.last, cur |-> cursor, prior |-> prior]

\* a call of maybeAutoDispatchRealtimeQueue up to its first await
Called(q) ==
  IF ~Dispatches \/ Exhausted \/ CoolingDown THEN [act |-> Free, rt |-> runtime]
  ELSE IF ~Running
    THEN [act |-> Take(q, runtime.fails), rt |-> runtime]
  ELSE IF OwnerAlive \/ ~Recoverable THEN [act |-> Free, rt |-> runtime]
  ELSE [act |-> [Free EXCEPT !.pc = "recover"], rt |-> State("idle")]

Recovered(s) ==
  /\ acts[s].pc = "recover"
  /\ acts' = [acts EXCEPT ![s] = Take(queue, 0)]
  /\ UNCHANGED <<session, broker, bridge, files, seen, faults>>

\* answered, if only by a refusal: the drained queue, the cursor and the runtime are saved
DispatchAcked(s) ==
  /\ acts[s].pc = "ack"
  /\ Answered(Highest(acts[s].items))
  /\ cursor' = Highest({acts[s].cur} \union acts[s].items)
  /\ queue' = Drained(acts[s].last)
  /\ runtime' = [is |-> "dispatching", owned |-> TRUE, fails |-> 0, fresh |-> TRUE]
  /\ acts' = [acts EXCEPT ![s] = [@ EXCEPT !.pc = "announce", !.last = 0, !.cur = 0]]
  /\ UNCHANGED <<session, published, wire, bridge, mirror, seen>>

\* the call throws: the broker is out of reach, or its answer is lost
DispatchFails(s) ==
  /\ acts[s].pc = "ack" /\ faults < MaxFaults
  /\ acked' \in {acked, Acked(Highest(acts[s].items))}
  /\ acts' = [acts EXCEPT ![s] = Free]
  /\ faults' = faults + 1
  /\ UNCHANGED <<session, published, refused, wire, bridge, files, seen>>

\* Codex runs on its own and its hooks end the turn; the others are awaited
Spawned(s) ==
  /\ acts[s].pc = "announce"
  /\ mirror' = IF Executes THEN mirror ELSE Highest(acts[s].items)
  /\ acts' = [acts EXCEPT ![s] = IF Executes THEN [@ EXCEPT !.pc = "exec"] ELSE Free]
  /\ seen' = seen \union acts[s].items
  /\ UNCHANGED <<session, broker, bridge, queue, cursor, runtime, faults>>

Executed(s) ==
  /\ acts[s].pc = "exec"
  /\ runtime' = State("idle")
  /\ acts' = [acts EXCEPT ![s] = [@ EXCEPT !.pc = "close", !.prior = 0]]
  /\ UNCHANGED <<session, broker, bridge, queue, cursor, mirror, seen, faults>>

ExecFailed(s) ==
  /\ acts[s].pc = "exec"
  /\ queue' = Restored(queue, acts[s].items)
  /\ runtime' = [is |-> "failed", owned |-> FALSE, fails |-> acts[s].prior + 1, fresh |-> TRUE]
  /\ acts' = [acts EXCEPT ![s] = Free]
  /\ UNCHANGED <<session, broker, bridge, cursor, mirror, seen, faults>>

\* work that was queued meanwhile is dispatched by a call of its own
Closed(s) ==
  /\ acts[s].pc = "close"
  /\ IF \E e \in queue.items \intersect Actionable : e > Highest(acts[s].items)
       THEN /\ acts' = [acts EXCEPT ![s] = Called(queue).act]
            /\ runtime' = Called(queue).rt
       ELSE acts' = [acts EXCEPT ![s] = Free] /\ UNCHANGED runtime
  /\ UNCHANGED <<session, broker, bridge, queue, cursor, mirror, seen, faults>>

Dispatch(s) ==
  \/ Recovered(s) \/ DispatchAcked(s) \/ DispatchFails(s)
  \/ Spawned(s) \/ Executed(s) \/ ExecFailed(s) \/ Closed(s)

\* the time stamp of the runtime file gets older than the limits
RuntimeAges ==
  /\ runtime.fresh
  /\ runtime' = [runtime EXCEPT !.fresh = FALSE]
  /\ UNCHANGED <<session, broker, bridge, acts, queue, cursor, mirror, seen, faults>>

-----------------------------------------------------------------------------
(* The process: it polls once, dispatches, and then polls before it opens  *)
(* a socket, again and again.                                              *)

Begin ==
  /\ bridge.pc = "off"
  /\ bridge' = [pc |-> "first", base |-> queue]
  /\ UNCHANGED <<session, broker, acts, files, seen, faults>>

\* the polled events go to the queue as it was before the poll
Synced ==
  LET missed == Inbox(bridge.base.last, BridgePage)
  IN IF missed = {} THEN queue ELSE Queued(bridge.base, missed)

FirstSynced(q) ==
  \E s \in Slots :
    /\ acts[s] = Free
    /\ queue' = q
    /\ acts' = [acts EXCEPT ![s] = Called(q).act]
    /\ runtime' = Called(q).rt
    /\ bridge' = At("busy")
    /\ UNCHANGED <<session, broker, cursor, mirror, seen>>

FirstPoll == bridge.pc = "first" /\ FirstSynced(Synced) /\ UNCHANGED faults
FirstPollFails ==
  /\ bridge.pc = "first" /\ faults < MaxFaults
  /\ FirstSynced(queue)
  /\ faults' = faults + 1

Reconnect ==
  /\ \/ bridge.pc = "busy" /\ \A s \in Slots : acts[s] = Free
     \/ bridge.pc = "closed"
  /\ bridge' = [pc |-> "poll", base |-> queue]
  /\ UNCHANGED <<session, broker, acts, files, seen, faults>>

Poll ==
  /\ bridge.pc = "poll"
  /\ queue' = Synced
  /\ bridge' = At("connect")
  /\ UNCHANGED <<session, broker, acts, cursor, runtime, mirror, seen, faults>>

PollFails ==
  /\ bridge.pc = "poll" /\ faults < MaxFaults
  /\ bridge' = At("connect")
  /\ faults' = faults + 1
  /\ UNCHANGED <<session, broker, acts, files, seen>>

Connect ==
  /\ bridge.pc = "connect"
  /\ bridge' = At("open")
  /\ UNCHANGED <<session, broker, acts, files, seen, faults>>

Disconnect ==
  /\ bridge.pc = "open" /\ faults < MaxFaults
  /\ bridge' = At("closed")
  /\ wire' = {}
  /\ faults' = faults + 1
  /\ UNCHANGED <<session, published, acked, refused, acts, files, seen>>

\* a pushed event is queued, and the call that dispatches it is not awaited
Message ==
  \E s \in Slots :
    /\ acts[s] = Free /\ wire # {}
    /\ LET q == Queued(queue, {Min(wire)}) IN
       /\ queue' = q
       /\ acts' = [acts EXCEPT ![s] = Called(q).act]
       /\ runtime' = Called(q).rt
    /\ wire' = wire \ {Min(wire)}
    /\ UNCHANGED <<session, published, acked, refused, bridge, cursor, mirror, seen, faults>>

Crash ==
  /\ bridge.pc # "off" /\ faults < MaxFaults
  /\ bridge' = At("off")
  /\ acts' = [s \in Slots |-> Free]
  /\ wire' = {}
  /\ runtime' = [runtime EXCEPT !.owned = FALSE]
  /\ faults' = faults + 1
  /\ UNCHANGED <<session, published, acked, refused, queue, cursor, mirror, seen>>

BridgeNext ==
  \/ Publish \/ RuntimeAges
  \/ Begin \/ FirstPoll \/ FirstPollFails \/ Reconnect \/ Poll \/ PollFails
  \/ Connect \/ Disconnect \/ Message \/ Crash
  \/ \E s \in Slots : Dispatch(s)
=============================================================================
