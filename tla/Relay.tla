------------------------------- MODULE Relay -------------------------------
(***************************************************************************)
(* Brokers that share their events through a relay service                 *)
(* (src/relay/relay-adapter.js over backpressure.js and broker/service.js). *)
(*                                                                         *)
(* Each broker polls its own event log, sends what is not from the relay   *)
(* and buffers it while disconnected; it puts what it receives into its    *)
(* log and keeps the participants of its peers registered as guests.  The  *)
(* relay itself is external: it passes a message to every other broker     *)
(* that is connected and keeps nothing.                                    *)
(*                                                                         *)
(* The adapter is single-threaded.  Handlers that loop over events or      *)
(* participants take one step per iteration; upto, work and leaving hold   *)
(* what is left of a loop, and nothing else happens at the broker before   *)
(* it ends.                                                                *)
(***************************************************************************)
EXTENDS Integers, Sequences, FiniteSets, Functions

CONSTANTS
  Brokers,
  Agents,        \* participants, all of kind agent
  Home,          \* the broker an agent registers with
  Nobody,        \* no broker
  Early,         \* agents registered before the adapters start, one a broker
  Joined,        \* brokers that were connected before all this
  Active,        \* agents that do something
  Targets,       \* the target sets of context syncs
  MaxBuffer,     \* MAX_BUFFER_SIZE
  PollLimit,     \* events read by one poll
  FlushBatch,    \* FLUSH_BATCH_SIZE
  SyncScan,      \* events read to answer a sync request, from the oldest
  SyncLimit,     \* events in a sync response, by number or by size
  SeenWindow,    \* SEEN_WINDOW_SIZE
  SeenKept,      \* ids kept when the window overflows
  MaxLog,        \* bound: events in a log
  MaxLocal,      \* bound: operations by agents
  MaxFaults      \* bound: connections, processes that fail, warnings

ASSUME HomeType == Home \in [Agents -> Brokers] /\ Nobody \notin Brokers
ASSUME EarlyType ==
  /\ Early \subseteq Agents
  /\ \A p, q \in Early : Home[p] = Home[q] => p = q
  /\ Joined \subseteq Brokers
  /\ Active \subseteq Agents /\ Targets \subseteq SUBSET Agents
ASSUME LimitsType ==
  /\ {MaxBuffer, PollLimit, FlushBatch, SyncScan, SyncLimit} \subseteq Nat \ {0}
  /\ SeenWindow \in Nat /\ SeenKept \in Nat /\ SeenKept <= SeenWindow
ASSUME BoundsType == {MaxLog, MaxLocal, MaxFaults} \subseteq Nat

VARIABLES
  \* the broker
  log,       \* table events with intent_receipts: intents and recipients
  presence,  \* absent (not registered), online, offline
  guest,     \* metadata.originBrokerId of a registered participant
  live,      \* the process runs
  \* the adapter
  conn,      \* state
  open,      \* ws.readyState is OPEN
  retry,     \* reconnectTimer is armed, or start() is about to connect
  polling,   \* pollTimer is armed
  flushing,  \* flushTimer is armed
  paused,    \* before pausedUntil
  cursor,    \* localCursor
  upto,      \* where the running poll ends; the cursor, when none runs
  buffer,    \* outboundBuffer
  seen,      \* seenIntentIds, oldest first
  nodes,     \* keys of remoteNodes
  work,      \* events that the running handler has yet to apply
  leaving,   \* guests that the running handler has yet to put offline
  \* the relay, and bounds
  down,      \* messages on their way to a broker
  locals, faults,
  \* history
  sent,      \* events of its own that a broker gave to an open socket
  lost       \* those it discarded, or that were in the memory of its process

brokerVars  == <<log, presence, guest>>
socketVars  == <<conn, open, retry>>
outVars     == <<cursor, upto, buffer, flushing, sent, lost>>
inVars      == <<seen, nodes, work, leaving>>
boundVars   == <<locals, faults>>
vars == <<brokerVars, socketVars, outVars, inVars, boundVars,
          live, polling, paused, down>>

\* An intent is named by its origin and its place in the origin's log.
Intents == [origin : Brokers, seq : Nat \ {0},
            kind : {"talk", "sync", "removed", "presence"}, who : Agents,
            status : {"online", "offline"}, targets : SUBSET Agents]
Entries == [intent : Intents, to : SUBSET Agents]
Messages ==
  [type : {"hello", "rate_warning", "draining", "sync_request"}]
    \cup [type : {"event"}, intent : Intents]
    \cup [type : {"peer_left"}, peer : Brokers]
    \cup [type : {"sync_response"}, events : SUBSET Intents]

TypeOK ==
  /\ log \in [Brokers -> Seq(Entries)]
  /\ presence \in [Brokers -> [Agents -> {"absent", "online", "offline"}]]
  /\ guest \in [Brokers -> [Agents -> Brokers \cup {Nobody}]]
  /\ live \in [Brokers -> BOOLEAN]
  /\ conn \in [Brokers -> {"DISCONNECTED", "CONNECTING", "CONNECTED",
                           "DRAINING"}]
  /\ open \in [Brokers -> BOOLEAN]
  /\ retry \in [Brokers -> BOOLEAN]
  /\ polling \in [Brokers -> BOOLEAN]
  /\ flushing \in [Brokers -> BOOLEAN]
  /\ paused \in [Brokers -> BOOLEAN]
  /\ cursor \in [Brokers -> Nat]
  /\ upto \in [Brokers -> Nat]
  /\ buffer \in [Brokers -> Seq(Intents)]
  /\ seen \in [Brokers -> Seq(Intents)]
  /\ nodes \in [Brokers -> SUBSET Brokers]
  /\ work \in [Brokers -> SUBSET Intents]
  /\ leaving \in [Brokers -> SUBSET Agents]
  /\ down \in [Brokers -> Seq(Messages)]
  /\ locals \in Nat /\ faults \in Nat
  /\ sent \subseteq Intents /\ lost \subseteq Intents

Init ==
  /\ log = [b \in Brokers |-> <<>>]
  /\ presence = [b \in Brokers |-> [p \in Agents |->
                   IF p \in Early /\ Home[p] = b THEN "online" ELSE "absent"]]
  /\ guest = [b \in Brokers |-> [p \in Agents |-> Nobody]]
  /\ live = [b \in Brokers |-> TRUE]
  /\ conn = [b \in Brokers |->
               IF b \in Joined THEN "CONNECTED" ELSE "DISCONNECTED"]
  /\ open = [b \in Brokers |-> b \in Joined]
  /\ retry = [b \in Brokers |-> b \notin Joined]
  /\ polling = [b \in Brokers |-> TRUE]
  /\ flushing = [b \in Brokers |-> FALSE]
  /\ paused = [b \in Brokers |-> FALSE]
  /\ cursor = [b \in Brokers |-> 0]
  /\ upto = [b \in Brokers |-> 0]
  /\ buffer = [b \in Brokers |-> <<>>]
  /\ seen = [b \in Brokers |-> <<>>]
  /\ nodes = [b \in Brokers |-> {}]
  /\ work = [b \in Brokers |-> {}]
  /\ leaving = [b \in Brokers |-> {}]
  /\ down = [b \in Brokers |-> <<>>]
  /\ locals = 0 /\ faults = 0 /\ sent = {} /\ lost = {}

-----------------------------------------------------------------------------
(* Broker service *)

Registered(b) == {p \in Agents : presence[b][p] # "absent"}

\* An intent of b's own, next in its log l.
Own(b, l, kind, p, status, targets) ==
  [origin |-> b, seq |-> Len(l) + 1, kind |-> kind, who |-> p,
   status |-> status, targets |-> targets]

\* broadcastPresenceChange onto log l, all being registered by now.
News(b, l, p, status, all) ==
  LET was == IF presence[b][p] = "online" THEN "online" ELSE "offline" IN
  IF p \in all /\ was # status /\ all \ {p} # {}
  THEN Append(l, [intent |-> Own(b, l, "presence", p, status, {}),
                  to |-> all \ {p}])
  ELSE l

\* registerParticipant; metadata of an earlier registration are merged.
Online(b, l, p, origin) ==
  /\ log' = [log EXCEPT ![b] = News(b, l, p, "online", Registered(b) \cup {p})]
  /\ presence' = [presence EXCEPT ![b][p] = "online"]
  /\ guest' = [guest EXCEPT ![b][p] = IF origin = Nobody THEN @ ELSE origin]

\* setPresence offline; an agent that is pruned has its removal broadcast.
Offline(b, l, p, prune) ==
  LET known == p \in Registered(b)
      told  == News(b, l, p, "offline", Registered(b))
  IN  /\ log' = [log EXCEPT ![b] =
            IF known /\ prune
            THEN Append(told, [intent |-> Own(b, told, "removed", p, "offline", {}),
                               to |-> Registered(b)])
            ELSE told]
      /\ presence' = [presence EXCEPT ![b][p] =
            IF ~known THEN @ ELSE IF prune THEN "absent" ELSE "offline"]
      /\ guest' = [guest EXCEPT ![b][p] = IF prune THEN Nobody ELSE @]

\* No handler is in the middle of its loop.
Idle(b) ==
  live[b] /\ cursor[b] >= upto[b] /\ work[b] = {} /\ leaving[b] = {}
Fits(b, events) == Len(log[b]) + events <= MaxLog

-----------------------------------------------------------------------------
(* Local agents *)

ByAgent(b, p) ==
  /\ Idle(b) /\ Fits(b, 2) /\ Home[p] = b
  /\ locals < MaxLocal /\ locals' = locals + 1
  /\ UNCHANGED <<socketVars, outVars, inVars, faults, live, polling, paused,
                 down>>

Register(b, p) == ByAgent(b, p) /\ Online(b, log[b], p, Nobody)

\* It says goodbye (parent-exit), or just that it is offline.
Leave(b, p, forGood) ==
  /\ p \in Registered(b)
  /\ ByAgent(b, p) /\ Offline(b, log[b], p, forGood)

\* sendIntent, to everybody or, for a context sync, to its targets.
Talk(b, p, kind, targets) ==
  /\ p \in Registered(b)
  /\ ByAgent(b, p)
  /\ log' = [log EXCEPT ![b] = Append(@,
       [intent |-> Own(b, @, kind, p, "online", targets),
        to |-> (IF targets = {} THEN Registered(b) ELSE targets) \ {p}])]
  /\ UNCHANGED <<presence, guest>>

-----------------------------------------------------------------------------
(* The way out *)

\* The relay passes msgs to every other broker that is connected; rest is
\* what b itself has yet to receive.
Pass(b, rest, msgs) ==
  down' = [c \in Brokers |-> IF c = b THEN rest
                             ELSE IF open[c] THEN down[c] \o msgs ELSE down[c]]

Event(i) == [type |-> "event", intent |-> i]
Events(s) == [n \in DOMAIN s |-> Event(s[n])]
Lesser(m, n) == IF m <= n THEN m ELSE n
First(s, n) == SubSeq(s, 1, Lesser(n, Len(s)))

FromHere(b, i) == i.origin = b

\* createEventEnvelope
Envelope(b, n) == [log[b][n].intent EXCEPT !.origin = b]

\* pollAndForward, up to its loop.
Poll(b) ==
  /\ Idle(b) /\ polling[b] /\ ~paused[b]
  /\ conn[b] = "CONNECTED" \/ Len(buffer[b]) < MaxBuffer
  /\ cursor[b] < Len(log[b])
  /\ upto' = [upto EXCEPT ![b] = Lesser(cursor[b] + PollLimit, Len(log[b]))]
  /\ UNCHANGED <<brokerVars, socketVars, cursor, buffer, flushing, sent, lost,
                 inVars, boundVars, live, polling, paused, down>>

RoomInBuffer(b) == Len(buffer[b]) < MaxBuffer

\* One iteration of its loop: the event is skipped, sent, buffered or dropped.
ForwardNext(b) ==
  LET n == cursor[b] + 1
      i == Envelope(b, n)
      direct == conn[b] = "CONNECTED" /\ open[b]
  IN  /\ live[b] /\ n <= upto[b]
      /\ cursor' = [cursor EXCEPT ![b] = n]
      /\ \/ /\ ~FromHere(b, log[b][n].intent)
            /\ UNCHANGED <<buffer, sent, lost, down>>
         \/ /\ FromHere(b, log[b][n].intent) /\ direct
            /\ Pass(b, down[b], <<Event(i)>>)
            /\ sent' = sent \cup {i}
            /\ UNCHANGED <<buffer, lost>>
         \/ /\ FromHere(b, log[b][n].intent) /\ ~direct
            /\ IF RoomInBuffer(b)
               THEN buffer' = [buffer EXCEPT ![b] = Append(@, i)]
                    /\ UNCHANGED lost
               ELSE lost' = lost \cup {i} /\ UNCHANGED buffer
            /\ UNCHANGED <<sent, down>>
      /\ UNCHANGED <<brokerVars, socketVars, upto, flushing, inVars, boundVars,
                     live, polling, paused>>

Paused(b) == paused[b]

\* Mutant: flushing stops after one batch.
NoRest(b, rest) == FALSE
FlushAgain(b, rest) == rest # <<>>

Left(b, n) == SubSeq(buffer[b], n + 1, Len(buffer[b]))

\* Mutant: nothing is put back.
OnlyLeft(b, batch) == Left(b, Len(batch))
PutBack(b, batch) == First(batch, 1) \o Left(b, Len(batch))

\* flushBuffer, while receiving with rest left to receive and more to send.
\* A batch is taken out; if the socket is not open, its first event is put
\* back.
FlushBuffer(b, rest, more) ==
  LET batch == First(buffer[b], FlushBatch)
      left  == Left(b, Len(batch))
  IN  /\ UNCHANGED <<cursor, upto>>
      /\ \/ /\ Paused(b)
            /\ flushing' = [flushing EXCEPT ![b] = TRUE]
            /\ Pass(b, rest, more)
            /\ UNCHANGED <<buffer, sent, lost>>
         \/ /\ ~Paused(b) /\ open[b]
            /\ buffer' = [buffer EXCEPT ![b] = left]
            /\ flushing' = [flushing EXCEPT ![b] = FlushAgain(b, left)]
            /\ sent' = sent \cup Range(batch)
            /\ Pass(b, rest, Events(batch) \o more)
            /\ UNCHANGED lost
         \/ /\ ~Paused(b) /\ ~open[b]
            /\ buffer' = [buffer EXCEPT ![b] = PutBack(b, batch)]
            /\ flushing' = [flushing EXCEPT ![b] = FALSE]
            /\ lost' = lost \cup Range(SubSeq(batch, 2, Len(batch)))
            /\ UNCHANGED <<sent, down>>

\* Its timer; the pause it waited for may have been prolonged.
FlushTimer(b) ==
  /\ Idle(b) /\ flushing[b]
  /\ FlushBuffer(b, down[b], <<>>)
  /\ UNCHANGED <<brokerVars, socketVars, inVars, boundVars, live, polling,
                 paused>>

\* pausedUntil is over.
PauseEnds(b) ==
  /\ Idle(b) /\ paused[b]
  /\ paused' = [paused EXCEPT ![b] = FALSE]
  /\ UNCHANGED <<brokerVars, socketVars, outVars, inVars, boundVars, live,
                 polling, down>>

-----------------------------------------------------------------------------
(* The connection *)

\* connect: the relay accepts and says hello.
ConnectOpens(b) ==
  /\ Idle(b) /\ retry[b]
  /\ conn' = [conn EXCEPT ![b] = "CONNECTING"]
  /\ open' = [open EXCEPT ![b] = TRUE]
  /\ retry' = [retry EXCEPT ![b] = FALSE]
  /\ down' = [down EXCEPT ![b] = <<[type |-> "hello"]>>]
  /\ UNCHANGED <<brokerVars, outVars, inVars, boundVars, live, polling, paused>>

\* connect: no valid credentials (the state stays CONNECTING), or no socket;
\* in both cases the timer is armed again.
ConnectFails(b, state) ==
  /\ Idle(b) /\ retry[b]
  /\ faults < MaxFaults /\ faults' = faults + 1
  /\ conn' = [conn EXCEPT ![b] = state]
  /\ UNCHANGED <<brokerVars, outVars, inVars, locals, live, polling, paused,
                 down, open, retry>>

\* connect: HTTP 409, the node id is taken; the adapter gives up.
NodeIdTaken(b) ==
  /\ Idle(b) /\ retry[b]
  /\ faults < MaxFaults /\ faults' = faults + 1
  /\ conn' = [conn EXCEPT ![b] = "CONNECTING"]
  /\ retry' = [retry EXCEPT ![b] = FALSE]
  /\ polling' = [polling EXCEPT ![b] = FALSE]
  /\ UNCHANGED <<brokerVars, outVars, inVars, locals, live, paused, down, open>>

\* The socket dies, in the end if the relay drains: what was on its way to b
\* is gone, the relay tells the others.
SocketDies(b) ==
  /\ Idle(b) /\ open[b]
  /\ IF conn[b] = "DRAINING" THEN UNCHANGED faults
     ELSE faults < MaxFaults /\ faults' = faults + 1
  /\ open' = [open EXCEPT ![b] = FALSE]
  /\ Pass(b, <<>>, <<[type |-> "peer_left", peer |-> b]>>)
  /\ UNCHANGED <<brokerVars, outVars, inVars, locals, live, polling, paused,
                 conn, retry>>

\* ws close
OnClose(b) ==
  /\ Idle(b) /\ ~open[b] /\ ~retry[b] /\ polling[b]
  /\ conn' = [conn EXCEPT ![b] = "DISCONNECTED"]
  /\ retry' = [retry EXCEPT ![b] = TRUE]
  /\ UNCHANGED <<brokerVars, outVars, inVars, boundVars, live, polling, paused,
                 down, open>>

\* The relay warns of the rate limit, or is about to restart.
RelaySays(b, type) ==
  /\ open[b]
  /\ faults < MaxFaults /\ faults' = faults + 1
  /\ down' = [down EXCEPT ![b] = Append(@, [type |-> type])]
  /\ UNCHANGED <<brokerVars, socketVars, outVars, inVars, locals, live, polling,
                 paused>>
-----------------------------------------------------------------------------
(* The way in *)

Got(b, type) ==
  Idle(b) /\ open[b] /\ down[b] # <<>> /\ Head(down[b]).type = type

\* handleHello
ReceiveHello(b) ==
  /\ Got(b, "hello")
  /\ conn' = [conn EXCEPT ![b] = "CONNECTED"]
  /\ FlushBuffer(b, Tail(down[b]), <<[type |-> "sync_request"]>>)
  /\ UNCHANGED <<brokerVars, open, retry, inVars, boundVars, live, polling,
                 paused>>

ReceiveRateWarning(b) ==
  /\ Got(b, "rate_warning")
  /\ paused' = [paused EXCEPT ![b] = TRUE]
  /\ down' = [down EXCEPT ![b] = Tail(@)]
  /\ UNCHANGED <<brokerVars, socketVars, outVars, inVars, boundVars, live,
                 polling>>

\* handleDraining
ReceiveDraining(b) ==
  /\ Got(b, "draining")
  /\ conn' = [conn EXCEPT ![b] = "DRAINING"]
  /\ down' = [down EXCEPT ![b] = Tail(@)]
  /\ UNCHANGED <<brokerVars, open, retry, outVars, inVars, boundVars, live,
                 polling, paused>>

\* handleSyncRequest and selectSyncResponseEvents: of the oldest events, the
\* last ones that are from here.
ReceiveSyncRequest(b) ==
  LET scanned == First(log[b], SyncScan)
      mine    == {i \in {e.intent : e \in Range(scanned)} : FromHere(b, i)}
      events  == {i \in mine :
                    Cardinality({j \in mine : j.seq > i.seq}) < SyncLimit}
  IN  /\ Got(b, "sync_request")
      /\ Pass(b, Tail(down[b]), <<[type |-> "sync_response", events |-> events]>>)
      /\ UNCHANGED <<brokerVars, socketVars, outVars, inVars, boundVars, live,
                     polling, paused>>

\* handleSyncResponse, up to its loop.
ReceiveSyncResponse(b) ==
  /\ Got(b, "sync_response") /\ Fits(b, 3 * SyncLimit)
  /\ work' = [work EXCEPT ![b] = Head(down[b]).events]
  /\ down' = [down EXCEPT ![b] = Tail(@)]
  /\ UNCHANGED <<brokerVars, socketVars, outVars, seen, nodes, leaving,
                 boundVars, live, polling, paused>>

Remember(s, i) ==
  LET t == Append(s, i) IN
  IF Len(t) > SeenWindow THEN SubSeq(t, Len(t) - SeenKept + 1, Len(t)) ELSE t

Fresh(b, i) == i.origin # b /\ i \notin Range(seen[b])
Untargeted(i) == i.kind = "sync" /\ i.targets = {}

Recipients(b, i) ==
  CASE i.kind = "sync" -> i.targets \ {i.who}
    [] i.kind = "talk" -> Registered(b) \ {i.who}
    [] OTHER -> Registered(b)

\* Mutant: the store takes an intent it already has.
RecordAgain(b, i) == Append(log[b], [intent |-> i, to |-> Recipients(b, i)])
\* appendIntent: an intent it has must have the same recipients.
Record(b, i) ==
  IF \E e \in Range(log[b]) : e.intent = i THEN log[b]
  ELSE Append(log[b], [intent |-> i, to |-> Recipients(b, i)])
Conflict(b, i) ==
  /\ Fresh(b, i) /\ ~Untargeted(i)
  /\ \E e \in Range(log[b]) : e.intent = i /\ e.to # Recipients(b, i)

\* handleRemoteEvent and registerRemoteParticipant.  A guest whose peer says
\* it is offline is pruned; anybody else is put offline.
HandleRemoteEvent(b, i) ==
  /\ ~Conflict(b, i)
  /\ IF Fresh(b, i)
     THEN /\ seen' = [seen EXCEPT ![b] = Remember(@, i)]
          /\ nodes' = [nodes EXCEPT ![b] = @ \cup {i.origin}]
     ELSE UNCHANGED <<seen, nodes>>
  /\ IF ~Fresh(b, i) \/ Untargeted(i) THEN UNCHANGED brokerVars
     ELSE IF i.kind # "presence"
     THEN log' = [log EXCEPT ![b] = Record(b, i)] /\ UNCHANGED <<presence, guest>>
     ELSE IF i.status = "online" THEN Online(b, Record(b, i), i.who, i.origin)
     ELSE Offline(b, Record(b, i), i.who, guest[b][i.who] # Nobody)

ReceiveEvent(b) ==
  /\ Got(b, "event") /\ Fits(b, 3)
  /\ HandleRemoteEvent(b, Head(down[b]).intent)
  /\ down' = [down EXCEPT ![b] = Tail(@)]
  /\ UNCHANGED <<socketVars, outVars, work, leaving, boundVars, live, polling,
                 paused>>

\* The next event of a sync response.
ContinueSync(b) ==
  \E i \in work[b] :
    /\ live[b] /\ \A j \in work[b] : i.seq <= j.seq
    /\ HandleRemoteEvent(b, i)
    /\ work' = [work EXCEPT ![b] = @ \ {i}]
    /\ UNCHANGED <<socketVars, outVars, leaving, boundVars, live, polling,
                   paused, down>>

\* Mutant: guests that are offline already are passed over.
OnlineGuests(b, peer) ==
  {p \in Registered(b) : guest[b][p] = peer /\ presence[b][p] = "online"}
GuestsOf(b, peer) == {p \in Registered(b) : guest[b][p] = peer}

\* PEER_LEFT, up to its loop; the peer is forgotten.
ReceivePeerLeft(b) ==
  LET peer == Head(down[b]).peer IN
  /\ Got(b, "peer_left") /\ Fits(b, 2 * Cardinality(GuestsOf(b, peer)))
  /\ leaving' = [leaving EXCEPT ![b] = GuestsOf(b, peer)]
  /\ nodes' = [nodes EXCEPT ![b] = @ \ {peer}]
  /\ down' = [down EXCEPT ![b] = Tail(@)]
  /\ UNCHANGED <<brokerVars, socketVars, outVars, seen, work, boundVars, live,
                 polling, paused>>

\* One iteration of its loop.
PutOffline(b) ==
  \E p \in leaving[b] :
    /\ live[b]
    /\ Offline(b, log[b], p, TRUE)
    /\ leaving' = [leaving EXCEPT ![b] = @ \ {p}]
    /\ UNCHANGED <<socketVars, outVars, seen, nodes, work, boundVars, live,
                   polling, paused, down>>

-----------------------------------------------------------------------------
(* The process *)

OwnIntents(b) == {i \in {e.intent : e \in Range(log[b])} : FromHere(b, i)}

\* All that was in memory is gone.
Die(b) ==
  /\ live' = [live EXCEPT ![b] = FALSE]
  /\ presence' = [presence EXCEPT ![b] = [p \in Agents |-> "absent"]]
  /\ guest' = [guest EXCEPT ![b] = [p \in Agents |-> Nobody]]
  /\ conn' = [conn EXCEPT ![b] = "DISCONNECTED"]
  /\ open' = [open EXCEPT ![b] = FALSE]
  /\ retry' = [retry EXCEPT ![b] = FALSE]
  /\ polling' = [polling EXCEPT ![b] = FALSE]
  /\ flushing' = [flushing EXCEPT ![b] = FALSE]
  /\ paused' = [paused EXCEPT ![b] = FALSE]
  /\ cursor' = [cursor EXCEPT ![b] = 0]
  /\ upto' = [upto EXCEPT ![b] = 0]
  /\ buffer' = [buffer EXCEPT ![b] = <<>>]
  /\ seen' = [seen EXCEPT ![b] = <<>>]
  /\ nodes' = [nodes EXCEPT ![b] = {}]
  /\ work' = [work EXCEPT ![b] = {}]
  /\ leaving' = [leaving EXCEPT ![b] = {}]
  /\ lost' = lost \cup (OwnIntents(b) \ sent)
  /\ Pass(b, <<>>, IF open[b] THEN <<[type |-> "peer_left", peer |-> b]>>
                   ELSE <<>>)
  /\ UNCHANGED <<log, sent, locals>>

\* It crashes or is stopped, also in the middle of a handler.
BrokerDies(b) ==
  live[b] /\ faults < MaxFaults /\ faults' = faults + 1 /\ Die(b)

\* sendIntent throws intent_conflict out of the socket's message handler,
\* and the process exits on the uncaught exception.
Throw(b) ==
  /\ \/ Got(b, "event") /\ Conflict(b, Head(down[b]).intent)
     \/ live[b] /\ \E i \in work[b] : /\ \A j \in work[b] : i.seq <= j.seq
                                      /\ Conflict(b, i)
  /\ Die(b)
  /\ UNCHANGED faults

\* The broker starts again, and start() sets the cursor to the last event.
BrokerStarts(b) ==
  /\ ~live[b]
  /\ live' = [live EXCEPT ![b] = TRUE]
  /\ cursor' = [cursor EXCEPT ![b] = Len(log[b])]
  /\ upto' = [upto EXCEPT ![b] = Len(log[b])]
  /\ polling' = [polling EXCEPT ![b] = TRUE]
  /\ retry' = [retry EXCEPT ![b] = TRUE]
  /\ UNCHANGED <<brokerVars, conn, open, buffer, flushing, sent, lost, inVars,
                 boundVars, paused, down>>

-----------------------------------------------------------------------------
Handlers(b) ==
  \/ Poll(b) \/ ForwardNext(b) \/ FlushTimer(b) \/ PauseEnds(b)
  \/ ConnectOpens(b) \/ OnClose(b)
  \/ ReceiveHello(b) \/ ReceiveRateWarning(b) \/ ReceiveDraining(b)
  \/ ReceiveSyncRequest(b) \/ ReceiveSyncResponse(b) \/ ContinueSync(b)
  \/ ReceiveEvent(b) \/ ReceivePeerLeft(b) \/ PutOffline(b)

Next ==
  \E b \in Brokers :
    \/ Handlers(b) \/ Throw(b) \/ BrokerStarts(b)
    \/ \E p \in Active : Register(b, p) \/ Leave(b, p, TRUE) \/ Leave(b, p, FALSE)
    \/ \E p \in Active, t \in Targets : Talk(b, p, "sync", t)
    \/ \E p \in Active : Talk(b, p, "talk", {})
    \/ \E state \in {"CONNECTING", "DISCONNECTED"} : ConnectFails(b, state)
    \/ NodeIdTaken(b) \/ SocketDies(b) \/ BrokerDies(b)
    \/ \E type \in {"rate_warning", "draining"} : RelaySays(b, type)

Spec == Init /\ [][Next]_vars

\* Timers fire, messages and events are handled, a pause ends, a connection
\* is at last accepted, a relay that drains closes its sockets, and a broker that died is started again.
LiveSpec ==
  /\ Spec
  /\ \A b \in Brokers :
       /\ WF_vars(Poll(b)) /\ WF_vars(ForwardNext(b)) /\ WF_vars(FlushTimer(b))
       /\ WF_vars(PauseEnds(b)) /\ WF_vars(ConnectOpens(b)) /\ WF_vars(OnClose(b))
       /\ WF_vars(conn[b] = "DRAINING" /\ SocketDies(b))
       /\ WF_vars(ReceiveHello(b)) /\ WF_vars(ContinueSync(b))
       /\ WF_vars(PutOffline(b)) /\ WF_vars(Throw(b)) /\ WF_vars(BrokerStarts(b))

-----------------------------------------------------------------------------
(* Properties *)

\* However often an event comes, from its broker or with a sync response,
\* before and after restarts: no log has it twice.
AppliedOnce ==
  \A b \in Brokers : \A m, n \in DOMAIN log[b] :
    log[b][m].intent = log[b][n].intent => m = n

Received(b) ==
  {e.intent : e \in Range(log[b])} \cup Range(buffer[b]) \cup Range(seen[b])
    \cup work[b] \cup {m.intent : m \in {d \in Range(down[b]) : d.type = "event"}}
    \cup UNION {m.events : m \in {d \in Range(down[b]) : d.type = "sync_response"}}

\* Whatever is in a log, a buffer or on its way is on record at the broker it
\* names as its origin, at the place it names: nobody passes on as its own
\* what came from another.
OriginHasIt ==
  \A b \in Brokers : \A i \in Received(b) :
    i.seq \in DOMAIN log[i.origin] /\ log[i.origin][i.seq].intent = i

\* In one life of the adapter an event goes out once: what waits in the
\* buffer, and what the cursor has not reached, was not sent.
SentOnce ==
  \A b \in Brokers :
    /\ \A m, n \in DOMAIN buffer[b] : buffer[b][m] = buffer[b][n] => m = n
    /\ Range(buffer[b]) \cap sent = {}
    /\ \A i \in Range(buffer[b]) : i.seq <= cursor[b]
    /\ live[b] => \A i \in sent : i.origin = b => i.seq <= cursor[b]

\* The buffer keeps to its limit.
BufferBounded == \A b \in Brokers : Len(buffer[b]) <= MaxBuffer

\* While the relay's warning lasts, no event leaves, whatever timers were
\* armed before and even if the connection is made anew.
QuietWhilePaused ==
  [][\A b \in Brokers : paused[b] =>
       \A i \in sent' \ sent : i.origin # b]_vars

\* A guest is registered only while its peer is known; when the peer leaves,
\* nobody stays behind under its name.
GuestsHaveHosts ==
  \A b \in Brokers, p \in Agents :
    guest[b][p] # Nobody /\ p \notin leaving[b]
      => p \in Registered(b) /\ guest[b][p] \in nodes[b]

\* An event that the cursor has passed was sent, waits in the buffer, or is
\* one of those lost: to a full buffer, by a flush that found the socket
\* closed, or with the process.
Accounted ==
  \A b \in Brokers : \A n \in 1..Lesser(cursor[b], Len(log[b])) :
    FromHere(b, log[b][n].intent) =>
      log[b][n].intent \in sent \cup lost \cup Range(buffer[b])

\* Whatever breaks, is delayed or is warned of: again and again nothing waits
\* at a broker that runs, unless its adapter gave up for good.
BacklogDrains ==
  \A b \in Brokers :
    []<>(live[b] /\ polling[b] => buffer[b] = <<>> /\ cursor[b] = Len(log[b]))

\* Does not hold, "fail-open locally": what a relay or a peer does removes no local agent.
LocalContinues ==
  [][\A b \in Brokers : \A p \in Registered(b) :
       Home[p] = b /\ live'[b] /\ presence'[b][p] = "absent"
         => Leave(b, p, TRUE)]_vars

\* Does not hold: an event that is on record already is silently discarded.
DuplicatesDiscarded ==
  [][\A b \in Brokers : live[b] /\ ~live'[b] => faults' # faults]_vars
=============================================================================
