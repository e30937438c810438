-------------------------- MODULE SessionHooks_proofs --------------------------
(***************************************************************************)
(* What holds of one agent session, its realtime bridge and its hooks, for *)
(* every number of events, of dispatches at a time, of failures and faults *)
(* and for every tool: types, and how far a cursor can outrun the broker.  *)
(*                                                                         *)
(* The inductive invariant says of everything a process has read before an *)
(* await that it still is what the broker has published, and of every      *)
(* cursor read before an await that the broker has acknowledged or refused *)
(* it: all three only grow, so what a process has read keeps its worth,    *)
(* however late it uses it.                                                *)
(***************************************************************************)
EXTENDS SessionHooks, FiniteSetTheorems, TLAPS

-----------------------------------------------------------------------------
(* The inductive invariant.                                                *)

Known == SUBSET (1..published)

\* a cursor up to which the broker was asked to acknowledge, and did or refused
Passed == 0..acked \union 0..refused

KnownQueue == [items : Known, last : 0..published]
KnownAct ==
  [pc : {"free", "recover", "ack", "announce", "exec", "close"}, items : Known,
   last : 0..published, cur : Passed, prior : 0..(MaxFailures - 1)]
KnownHook ==
  [pc : {"none", "start", "startPoll", "startAck", "prompt", "queued", "queuedAck", "empty",
         "poll", "pollAck", "mirror", "stopAck"},
   items : Known, last : 0..published, cur : Passed, owed : 0..N]
KnownBridge ==
  [pc : {"off", "first", "busy", "poll", "connect", "open", "closed"}, base : KnownQueue]

\* only a runtime that failed counts failures
Counting == {r \in Runtime : r.is # "failed" => r.fails = 0}

BrokerKnows ==
  /\ published \in 0..N /\ acked \in 0..published /\ refused \in 0..published
  /\ wire \in Known
FilesKnow ==
  /\ queue \in KnownQueue /\ cursor \in Passed /\ runtime \in Counting /\ mirror \in 0..N
BridgeKnows ==
  /\ session \in Sessions /\ bridge \in KnownBridge /\ acts \in [Slots -> KnownAct]
HookKnows == hook \in KnownHook
RestKnows == seen \in Known /\ faults \in 0..MaxFaults

HooksInv == BrokerKnows /\ FilesKnow /\ BridgeKnows /\ HookKnows /\ RestKnows

-----------------------------------------------------------------------------
(* The operators.                                                          *)

\* A finite set of numbers that is not empty has a greatest element: of the sets of those
\* elements that are greater than a given one, the least is empty.
LEMMA MaxIs ==
  ASSUME NEW S \in SUBSET Int, IsFiniteSet(S), S # {}
  PROVE  Max(S) \in S /\ \A y \in S : y <= Max(S)
<1>. DEFINE above(x) == {y \in S : y > x}
            T == {above(x) : x \in S}
            R == StrictSubsetOrdering(S)
<1>1. PICK m \in T : \A t \in T : ~(<<t, m>> \in R)
  <2>1. T \subseteq SUBSET S
    OBVIOUS
  <2>2. T # {}
    <3>1. PICK x \in S : TRUE
      OBVIOUS
    <3>2. above(x) \in T
      OBVIOUS
    <3>. QED
      BY <3>2
  <2>. HIDE DEF T, R
  <2>3. IsWellFoundedOn(R, SUBSET S)
    BY FS_StrictSubsetOrderingWellFounded, FS_FiniteSubsetsOfFinite DEF R
  <2>. QED
    BY <2>1, <2>2, <2>3, WFMin
<1>2. PICK x \in S : m = above(x)
  OBVIOUS
<1>3. ASSUME NEW y \in above(x) PROVE FALSE
  <2>1. above(y) \in T
    BY <1>3
  <2>2. above(y) \subseteq m /\ above(y) # m /\ m \subseteq S
    <3>1. y \in S /\ y > x
      BY <1>3
    <3>2. \A z \in above(y) : z \in above(x)
      BY <3>1
    <3>3. y \in above(x) /\ y \notin above(y)
      BY <3>1
    <3>. QED
      BY <1>2, <3>2, <3>3
  <2>. QED
    BY <1>1, <2>1, <2>2 DEF StrictSubsetOrdering
<1>4. \A y \in S : x >= y
  BY <1>3
<1>. QED
  BY <1>4 DEF Max

\* The highest of a set of events is one of them, or 0, and none is higher.
LEMMA HighestIs ==
  ASSUME NEW p \in Nat, NEW S \in SUBSET (0..p)
  PROVE  /\ Highest(S) \in 0..p
         /\ S # {} => Highest(S) \in S
         /\ \A e \in S : e <= Highest(S)
<1>1. IsFiniteSet(S)
  <2>1. IsFiniteSet(0..p)
    BY FS_Interval
  <2>. QED
    BY <2>1, FS_Subset
<1>2. CASE S = {}
  BY <1>2 DEF Highest
<1>3. CASE S # {}
  <2>1. S \in SUBSET Int
    OBVIOUS
  <2>2. Max(S) \in S /\ \A y \in S : y <= Max(S)
    BY <1>1, <1>3, <2>1, MaxIs
  <2>. QED
    BY <1>3, <2>2 DEF Highest
<1>. QED
  BY <1>2, <1>3

\* So is the least of a set of events one of them.
LEMMA MinIs ==
  ASSUME NEW p \in Nat, NEW S \in SUBSET (1..p), S # {}
  PROVE  Min(S) \in S
<1>. DEFINE T == {-x : x \in S}
<1>1. T \in SUBSET Int /\ T # {}
  <2>1. PICK x \in S : TRUE
    OBVIOUS
  <2>2. -x \in T
    OBVIOUS
  <2>3. \A y \in T : y \in Int
    OBVIOUS
  <2>. QED
    BY <2>2, <2>3
<1>2. IsFiniteSet(T)
  <2>1. IsFiniteSet((-p)..0)
    BY FS_Interval
  <2>2. T \in SUBSET ((-p)..0)
    <3>1. \A y \in T : y \in (-p)..0
      OBVIOUS
    <3>. QED
      BY <3>1
  <2>. QED
    BY <2>1, <2>2, FS_Subset
<1>3. Max(T) \in T /\ \A y \in T : y <= Max(T)
  <2>. HIDE DEF T
  <2>. QED
    BY <1>1, <1>2, MaxIs
<1>4. PICK x \in S : Max(T) = -x
  BY <1>3
<1>5. \A y \in S : x <= y
  BY <1>3, <1>4
<1>. QED
  BY <1>5 DEF Min

\* What the broker has acknowledged only grows, and covers what it is told.
LEMMA AckedIs ==
  ASSUME BrokerKnows, NEW e \in 0..published
  PROVE  Acked(e) \in 0..published /\ acked <= Acked(e) /\ e <= Acked(e)
<1>1. {acked, e} \in SUBSET (0..published) /\ published \in Nat
  BY NType DEF BrokerKnows
<1>. QED
  BY <1>1, HighestIs DEF Acked

\* An answered acknowledgement, done or refused, covers what was asked for.
LEMMA AnsweredIs ==
  ASSUME BrokerKnows, NEW e \in 0..published, Answered(e), UNCHANGED <<published, wire>>,
         faults \in 0..MaxFaults
  PROVE  /\ BrokerKnows' /\ published <= published' /\ acked <= acked' /\ refused <= refused'
         /\ e \in Passed' /\ Passed \subseteq Passed' /\ faults' \in 0..MaxFaults
<1>1. published \in Nat /\ acked \in Nat /\ refused \in Nat /\ Known' = Known
  BY NType DEF BrokerKnows, Known
<1>2. CASE acked' = Acked(e) /\ UNCHANGED <<refused, faults>>
  <2>1. acked' \in 0..published /\ acked <= acked' /\ e <= acked'
    BY <1>2, AckedIs
  <2>2. BrokerKnows'
    BY <1>1, <1>2, <2>1 DEF BrokerKnows
  <2>. QED
    BY <1>1, <1>2, <2>1, <2>2 DEF Passed
<1>3. CASE /\ faults < MaxFaults /\ refused' = Highest({refused, e})
           /\ faults' = faults + 1 /\ UNCHANGED acked
  <2>1. {refused, e} \in SUBSET (0..published)
    BY DEF BrokerKnows
  <2>2. refused' \in 0..published /\ refused <= refused' /\ e <= refused'
    BY <1>1, <1>3, <2>1, HighestIs
  <2>3. BrokerKnows'
    BY <1>1, <1>3, <2>2 DEF BrokerKnows
  <2>4. faults' \in 0..MaxFaults
    BY <1>3, MaxFaultsType
  <2>. QED
    BY <1>1, <1>3, <2>2, <2>3, <2>4 DEF Passed
<1>. QED
  BY <1>2, <1>3 DEF Answered

\* Events that are queued behind others, and what an inbox has, are published.
LEMMA QueuedKnown ==
  ASSUME BrokerKnows, NEW q \in KnownQueue, NEW items \in Known
  PROVE  Queued(q, items) \in KnownQueue
<1>1. published \in Nat /\ q.items \in Known /\ q.last \in 0..published
  BY NType DEF BrokerKnows, KnownQueue
<1>2. items \union {q.last} \in SUBSET (0..published)
  <2>1. \A e \in items : e \in 1..published
    BY DEF Known
  <2>2. \A e \in items : e \in 0..published
    BY <1>1, <2>1
  <2>. QED
    BY <1>1, <2>2
<1>3. Highest(items \union {q.last}) \in 0..published
  BY <1>1, <1>2, HighestIs
<1>4. q.items \union items \in Known
  BY <1>1 DEF Known
<1>. QED
  BY <1>3, <1>4 DEF Queued, KnownQueue

LEMMA InboxKnown ==
  ASSUME BrokerKnows, NEW e \in Nat, NEW limit \in Nat
  PROVE  Inbox(e, limit) \in Known
BY NType DEF Inbox, Known, Events, BrokerKnows

LEMMA HighestKnown ==
  ASSUME BrokerKnows, NEW items \in Known
  PROVE  Highest(items) \in 0..published
<1>1. items \in SUBSET (0..published) /\ published \in Nat
  BY NType DEF BrokerKnows, Known
<1>. QED
  BY <1>1, HighestIs

\* A cursor that is the highest of what was acknowledged and of an older cursor is one
\* that the broker has passed, or was asked to.
LEMMA CursorKnown ==
  ASSUME BrokerKnows, NEW items \in Known, NEW c \in Passed, Answered(Highest(items)),
         UNCHANGED <<published, wire>>, faults \in 0..MaxFaults
  PROVE  Highest(items) \in Passed' /\ Highest({c} \union items) \in Passed'
<1>. DEFINE S == {c} \union items
<1>1. published \in Nat /\ acked \in 0..published /\ refused \in 0..published
  BY NType DEF BrokerKnows
<1>2. S \in SUBSET (0..published) /\ items \in SUBSET (0..published)
  BY <1>1 DEF Known, Passed
<1>3. Highest(S) \in S /\ Highest(items) \in 0..published
  BY <1>1, <1>2, HighestIs
<1>4. Highest(items) \in Passed' /\ Passed \subseteq Passed'
  BY <1>3, AnsweredIs
<1>5. CASE Highest(S) = c
  BY <1>4, <1>5
<1>6. CASE Highest(S) \in items
  <2>1. Highest(S) <= Highest(items)
    BY <1>1, <1>2, <1>6, HighestIs
  <2>2. Highest(S) \in Nat
    BY <1>1, <1>2, <1>6
  <2>3. acked' \in Nat /\ refused' \in Nat /\ Highest(items) \in Passed'
    <3>1. BrokerKnows'
      BY <1>3, AnsweredIs
    <3>. QED
      BY <1>4, <3>1, NType DEF BrokerKnows
  <2>4. \A h \in Nat : \A e \in Passed' : h <= e => h \in Passed'
    BY <2>3 DEF Passed
  <2>. QED
    BY <2>1, <2>2, <2>3, <2>4
<1>. QED
  BY <1>3, <1>4, <1>5, <1>6

\* A queue that was known stays so while the broker's counts grow, and likewise the
\* records of the calls, of the bridge and of the hook.
LEMMA KnownGrows ==
  ASSUME BrokerKnows, BrokerKnows', published <= published', acked <= acked',
         refused <= refused'
  PROVE  /\ Known \subseteq Known' /\ KnownQueue \subseteq KnownQueue'
         /\ KnownAct \subseteq KnownAct' /\ KnownHook \subseteq KnownHook'
         /\ KnownBridge \subseteq KnownBridge' /\ Passed \subseteq Passed'
         /\ 0..published \subseteq 0..published'
<1>1. /\ published \in Nat /\ acked \in Nat /\ published' \in Nat /\ acked' \in Nat
      /\ refused \in Nat /\ refused' \in Nat
  BY NType DEF BrokerKnows
<1>2. Passed \subseteq Passed' /\ 0..published \subseteq 0..published'
        /\ Known \subseteq Known'
  BY <1>1 DEF Known, Passed
<1>3. KnownQueue \subseteq KnownQueue'
  BY <1>2 DEF KnownQueue
<1>4. KnownAct \subseteq KnownAct'
  BY <1>2 DEF KnownAct
<1>5. KnownHook \subseteq KnownHook'
  BY <1>2 DEF KnownHook
<1>6. KnownBridge \subseteq KnownBridge'
  BY <1>3 DEF KnownBridge
<1>. QED
  BY <1>2, <1>3, <1>4, <1>5, <1>6

LEMMA FreeKnown ==
  ASSUME BrokerKnows
  PROVE  /\ Free \in KnownAct /\ [Free EXCEPT !.pc = "recover"] \in KnownAct
         /\ NoHook \in KnownHook /\ Drained(0) \in KnownQueue
<1>1. /\ 0 \in 0..published /\ 0 \in Passed /\ 0 \in 0..N /\ 0 \in 0..(MaxFailures - 1)
      /\ {} \in Known
  BY NType, MaxFailuresType DEF BrokerKnows, Known, Passed
<1>. QED
  BY <1>1 DEF Free, NoHook, Drained, KnownAct, KnownHook, KnownQueue

\* What a call of maybeAutoDispatchRealtimeQueue takes and makes of the runtime: it
\* takes work only while failures are below their limit.
LEMMA TakeKnown ==
  ASSUME BrokerKnows, cursor \in Passed, NEW q \in KnownQueue,
         NEW prior \in 0..(MaxFailures - 1)
  PROVE  Take(q, prior) \in KnownAct
BY FreeKnown DEF Take, KnownAct, KnownQueue

LEMMA StatesCount ==
  /\ State("idle") \in Counting /\ State("turn") \in Counting
  /\ [is |-> "dispatching", owned |-> TRUE, fails |-> 0, fresh |-> TRUE] \in Counting
BY MaxFailuresType DEF State, Counting, Runtime

LEMMA CalledKnown ==
  ASSUME BrokerKnows, FilesKnow, NEW q \in KnownQueue
  PROVE  Called(q).act \in KnownAct /\ Called(q).rt \in Counting
<1>1. Free \in KnownAct /\ [Free EXCEPT !.pc = "recover"] \in KnownAct
  BY FreeKnown
<1>2. runtime \in Counting /\ State("idle") \in Counting /\ cursor \in Passed
  BY StatesCount DEF FilesKnow
<1>3. CASE ~Dispatches \/ Exhausted \/ CoolingDown
  BY <1>1, <1>2, <1>3 DEF Called
<1>4. CASE ~(~Dispatches \/ Exhausted \/ CoolingDown) /\ ~Running
  <2>1. runtime.fails \in 0..MaxFailures /\ runtime.is \in {"idle", "failed"}
          /\ (runtime.is = "idle" => runtime.fails = 0)
          /\ ~(runtime.fails >= MaxFailures /\ runtime.is = "failed")
    BY <1>2, <1>4 DEF Counting, Runtime, Running, Exhausted
  <2>2. runtime.fails \in 0..(MaxFailures - 1)
    BY <2>1, MaxFailuresType
  <2>3. Take(q, runtime.fails) \in KnownAct
    BY <1>2, <2>2, TakeKnown
  <2>. QED
    BY <1>2, <1>4, <2>3 DEF Called
<1>5. CASE ~(~Dispatches \/ Exhausted \/ CoolingDown) /\ Running
  BY <1>1, <1>2, <1>5 DEF Called
<1>. QED
  BY <1>3, <1>4, <1>5

-----------------------------------------------------------------------------
(* The steps of the bridge.                                                *)

\* While the broker stays as it is, what was known stays known: a step must show only
\* what becomes of the files and the processes.
LEMMA BrokerStays ==
  ASSUME BrokerKnows, UNCHANGED broker
  PROVE  /\ BrokerKnows' /\ Known' = Known /\ KnownQueue' = KnownQueue /\ KnownAct' = KnownAct
         /\ KnownHook' = KnownHook /\ KnownBridge' = KnownBridge /\ Passed' = Passed
         /\ acked' = acked /\ published' = published /\ refused' = refused
<1>1. published' = published /\ acked' = acked /\ refused' = refused /\ wire' = wire
        /\ Passed' = Passed
  BY DEF broker, Passed
<1>2. Known' = Known
  BY <1>1 DEF Known
<1>3. KnownQueue' = KnownQueue
  BY <1>1, <1>2 DEF KnownQueue
<1>4. KnownAct' = KnownAct
  BY <1>1, <1>2 DEF KnownAct
<1>5. KnownHook' = KnownHook
  BY <1>1, <1>2 DEF KnownHook
<1>6. KnownBridge' = KnownBridge
  BY <1>1, <1>3 DEF KnownBridge
<1>. QED
  BY <1>1, <1>2, <1>3, <1>4, <1>5, <1>6 DEF BrokerKnows

\* A step in which the broker's counts grow keeps what it leaves alone.
LEMMA BrokerGrows ==
  ASSUME HooksInv, BrokerKnows', published <= published', acked <= acked',
         refused <= refused'
  PROVE  /\ UNCHANGED <<queue, cursor, runtime, mirror>> => FilesKnow'
         /\ UNCHANGED <<session, bridge, acts>> => BridgeKnows'
         /\ UNCHANGED hook => HookKnows'
         /\ UNCHANGED <<seen, faults>> => RestKnows'
<1>1. /\ Known \subseteq Known' /\ KnownQueue \subseteq KnownQueue'
      /\ KnownAct \subseteq KnownAct' /\ KnownHook \subseteq KnownHook'
      /\ KnownBridge \subseteq KnownBridge' /\ Passed \subseteq Passed'
  BY KnownGrows DEF HooksInv
<1>2. ASSUME UNCHANGED <<queue, cursor, runtime, mirror>> PROVE FilesKnow'
  <2>1. queue' \in KnownQueue' /\ cursor' \in Passed'
    BY <1>1, <1>2 DEF HooksInv, FilesKnow
  <2>2. runtime' \in Counting /\ mirror' \in 0..N
    BY <1>2 DEF HooksInv, FilesKnow
  <2>. QED
    BY <2>1, <2>2 DEF FilesKnow
<1>3. ASSUME UNCHANGED <<session, bridge, acts>> PROVE BridgeKnows'
  <2>1. acts \in [Slots -> KnownAct'] /\ bridge' \in KnownBridge'
    BY <1>1, <1>3 DEF HooksInv, BridgeKnows
  <2>. QED
    BY <1>3, <2>1 DEF HooksInv, BridgeKnows
<1>4. ASSUME UNCHANGED hook PROVE HookKnows'
  BY <1>1, <1>4 DEF HooksInv, HookKnows
<1>5. ASSUME UNCHANGED <<seen, faults>> PROVE RestKnows'
  BY <1>1, <1>5 DEF HooksInv, RestKnows
<1>. QED
  BY <1>2, <1>3, <1>4, <1>5

LEMMA PublishKnows ==
  ASSUME HooksInv, Publish, UNCHANGED hook
  PROVE  HooksInv'
<1>1. published \in 0..N /\ acked \in 0..published /\ refused \in 0..published
        /\ wire \in Known /\ published < N
  BY DEF HooksInv, BrokerKnows, Publish
<1>2. published' = published + 1 /\ acked' = acked /\ refused' = refused
  BY DEF Publish
<1>3. published' \in 0..N /\ acked' \in 0..published' /\ refused' \in 0..published'
  BY <1>1, <1>2, NType
<1>4. wire \in SUBSET (1..published) /\ published + 1 \in 1..published'
  BY <1>1, <1>2, NType DEF Known
<1>5. wire \in SUBSET (1..published') /\ wire \union {published + 1} \in SUBSET (1..published')
  BY <1>1, <1>2, <1>4, NType
<1>6. wire' \in Known'
  BY <1>5 DEF Publish, Known
<1>7. BrokerKnows' /\ published <= published' /\ acked <= acked' /\ refused <= refused'
  BY <1>1, <1>2, <1>3, <1>6, NType DEF BrokerKnows
<1>. QED
  BY <1>7, BrokerGrows DEF HooksInv, Publish, files

LEMMA AgesKnows ==
  ASSUME HooksInv, RuntimeAges, UNCHANGED hook
  PROVE  HooksInv'
<1>1. BrokerKnows' /\ published <= published' /\ acked <= acked' /\ refused <= refused'
        /\ cursor' \in Passed' /\ KnownQueue' = KnownQueue
  BY BrokerStays, NType DEF HooksInv, RuntimeAges, BrokerKnows, FilesKnow
<1>2. runtime' \in Counting
  BY DEF HooksInv, FilesKnow, RuntimeAges, Counting, Runtime
<1>3. FilesKnow'
  BY <1>1, <1>2 DEF HooksInv, FilesKnow, RuntimeAges
<1>. QED
  BY <1>1, <1>3, BrokerGrows DEF HooksInv, RuntimeAges

\* A call that moves from one await to the next leaves the other calls as they are.
LEMMA CallMoves ==
  ASSUME BridgeKnows, NEW s \in Slots, NEW a \in KnownAct, acts' = [acts EXCEPT ![s] = a],
         UNCHANGED broker, BrokerKnows, session' = session, bridge' \in KnownBridge
  PROVE  BridgeKnows'
<1>1. KnownAct' = KnownAct /\ KnownBridge' = KnownBridge
  BY BrokerStays
<1>2. acts' \in [Slots -> KnownAct]
  BY DEF BridgeKnows
<1>. QED
  BY <1>1, <1>2 DEF BridgeKnows

\* A step of a process that leaves the broker alone.
LEMMA ProcessKnows ==
  ASSUME HooksInv, UNCHANGED broker, queue' \in KnownQueue, cursor' \in Passed,
         runtime' \in Counting, mirror' \in 0..N, hook' \in KnownHook, seen' \in Known,
         faults' \in 0..MaxFaults, BridgeKnows'
  PROVE  HooksInv'
<1>1. /\ BrokerKnows' /\ Known' = Known /\ KnownQueue' = KnownQueue
      /\ KnownHook' = KnownHook /\ Passed' = Passed
  BY BrokerStays DEF HooksInv
<1>2. FilesKnow'
  BY <1>1 DEF FilesKnow
<1>. QED
  BY <1>1, <1>2 DEF HooksInv, HookKnows, RestKnows

LEMMA DispatchKnows ==
  ASSUME HooksInv, NEW s \in Slots, Dispatch(s), UNCHANGED hook
  PROVE  HooksInv'
<1>. DEFINE a == acts[s]
<1>1. a \in KnownAct /\ BrokerKnows /\ FilesKnow /\ BridgeKnows /\ bridge \in KnownBridge
  BY DEF HooksInv, BridgeKnows
<1>2. /\ queue \in KnownQueue /\ cursor \in Passed /\ runtime \in Counting
      /\ mirror \in 0..N /\ hook' \in KnownHook /\ seen \in Known /\ faults \in 0..MaxFaults
  BY DEF HooksInv, FilesKnow, HookKnows, RestKnows
<1>3. /\ a.items \in Known /\ a.last \in 0..published /\ a.cur \in Passed
      /\ a.prior \in 0..(MaxFailures - 1)
  BY <1>1 DEF KnownAct
<1>4. Highest(a.items) \in 0..published
  BY <1>1, <1>3, HighestKnown
<1>5. Free \in KnownAct
  BY <1>1, FreeKnown
<1>6. CASE Recovered(s)
  <2>1. Take(queue, 0) \in KnownAct
    BY <1>1, <1>2, TakeKnown, MaxFailuresType
  <2>2. BridgeKnows'
    BY <1>1, <1>6, <2>1, CallMoves DEF Recovered
  <2>. QED
    BY <1>2, <1>6, <2>2, ProcessKnows DEF Recovered, files
<1>7. CASE DispatchAcked(s)
  <2>1. Answered(Highest(a.items)) /\ UNCHANGED <<published, wire>>
    BY <1>7 DEF DispatchAcked
  <2>2. acked <= acked' /\ refused <= refused' /\ faults' \in 0..MaxFaults
    BY <1>1, <1>2, <1>4, <2>1, AnsweredIs
  <2>3. BrokerKnows' /\ published <= published'
    BY <1>1, <1>2, <1>4, <2>1, AnsweredIs
  <2>4. cursor' \in Passed'
    <3>1. Highest({a.cur} \union a.items) \in Passed'
      BY <1>1, <1>2, <1>3, <2>1, CursorKnown
    <3>. QED
      BY <1>7, <3>1 DEF DispatchAcked
  <2>5. /\ KnownQueue \subseteq KnownQueue' /\ KnownAct \subseteq KnownAct'
        /\ KnownBridge \subseteq KnownBridge' /\ Known \subseteq Known'
    BY <1>1, <2>2, <2>3, KnownGrows
  <2>6. Drained(a.last) \in KnownQueue
    <3>1. {} \in Known
      BY DEF Known
    <3>. QED
      BY <1>3, <3>1 DEF Drained, KnownQueue
  <2>7. FilesKnow'
    BY <1>2, <1>7, <2>4, <2>5, <2>6, StatesCount DEF DispatchAcked, FilesKnow
  <2>8. [a EXCEPT !.pc = "announce", !.last = 0, !.cur = 0] \in KnownAct
    <3>1. 0 \in 0..published /\ 0 \in Passed
      BY <1>1, NType DEF BrokerKnows, Passed
    <3>. QED
      BY <1>1, <3>1 DEF KnownAct
  <2>9. BridgeKnows'
    <3>1. acts' = [acts EXCEPT ![s] = [a EXCEPT !.pc = "announce", !.last = 0, !.cur = 0]]
      BY <1>7 DEF DispatchAcked
    <3>2. acts' \in [Slots -> KnownAct']
      <4>. HIDE DEF a
      <4>. QED
        BY <2>5, <2>8, <3>1 DEF HooksInv, BridgeKnows
    <3>. QED
      BY <1>1, <1>7, <2>5, <3>2 DEF BridgeKnows, DispatchAcked
  <2>10. RestKnows'
    BY <1>2, <1>7, <2>2, <2>5 DEF RestKnows, DispatchAcked
  <2>. QED
    BY <1>7, <2>2, <2>3, <2>7, <2>9, <2>10, BrokerGrows DEF HooksInv, DispatchAcked
<1>8. CASE DispatchFails(s)
  <2>1. acked' \in {acked, Acked(Highest(a.items))} /\ UNCHANGED <<published, refused, wire>>
    BY <1>8 DEF DispatchFails
  <2>2. acked' \in 0..published' /\ acked <= acked' /\ refused <= refused'
    BY <1>1, <1>4, <2>1, AckedIs, NType DEF BrokerKnows
  <2>3. BrokerKnows' /\ published <= published'
    BY <1>1, <2>1, <2>2, NType DEF BrokerKnows, Known
  <2>4. KnownAct \subseteq KnownAct' /\ KnownBridge \subseteq KnownBridge'
          /\ Known \subseteq Known'
    BY <1>1, <2>2, <2>3, KnownGrows
  <2>5. BridgeKnows'
    <3>1. acts' \in [Slots -> KnownAct']
      BY <1>5, <1>8, <2>4 DEF HooksInv, BridgeKnows, DispatchFails
    <3>. QED
      BY <1>1, <1>8, <2>4, <3>1 DEF BridgeKnows, DispatchFails
  <2>6. RestKnows'
    BY <1>2, <1>8, <2>4, MaxFaultsType DEF RestKnows, DispatchFails
  <2>. QED
    BY <1>8, <2>2, <2>3, <2>5, <2>6, BrokerGrows DEF HooksInv, DispatchFails, files
<1>9. CASE Spawned(s)
  <2>1. (IF Executes THEN [a EXCEPT !.pc = "exec"] ELSE Free) \in KnownAct
    BY <1>1, <1>5 DEF KnownAct
  <2>2. BridgeKnows'
    <3>. HIDE DEF a
    <3>1. acts' = [acts EXCEPT ![s] = IF Executes THEN [a EXCEPT !.pc = "exec"] ELSE Free]
      BY <1>9 DEF Spawned, a
    <3>. QED
      BY <1>1, <1>9, <2>1, <3>1, CallMoves DEF Spawned
  <2>3. mirror' \in 0..N
    BY <1>1, <1>2, <1>4, <1>9, NType DEF Spawned, BrokerKnows
  <2>4. seen' \in Known
    BY <1>2, <1>3, <1>9 DEF Spawned, Known
  <2>. QED
    BY <1>2, <1>9, <2>2, <2>3, <2>4, ProcessKnows DEF Spawned
<1>10. CASE Executed(s)
  <2>1. [a EXCEPT !.pc = "close", !.prior = 0] \in KnownAct
    <3>1. 0 \in 0..(MaxFailures - 1)
      BY MaxFailuresType
    <3>. QED
      BY <1>1, <3>1 DEF KnownAct
  <2>2. BridgeKnows'
    <3>. HIDE DEF a
    <3>1. acts' = [acts EXCEPT ![s] = [a EXCEPT !.pc = "close", !.prior = 0]]
      BY <1>10 DEF Executed, a
    <3>. QED
      BY <1>1, <1>10, <2>1, <3>1, CallMoves DEF Executed
  <2>. QED
    BY <1>2, <1>10, <2>2, StatesCount, ProcessKnows DEF Executed
<1>11. CASE ExecFailed(s)
  <2>1. BridgeKnows'
    BY <1>1, <1>5, <1>11, CallMoves DEF ExecFailed
  <2>2. queue' \in KnownQueue
    BY <1>1, <1>2, <1>3, <1>11, QueuedKnown DEF ExecFailed, Restored
  <2>3. runtime' \in Counting
    BY <1>3, <1>11, MaxFailuresType DEF ExecFailed, Counting, Runtime
  <2>. QED
    BY <1>2, <1>11, <2>1, <2>2, <2>3, ProcessKnows DEF ExecFailed
<1>12. CASE Closed(s)
  <2>1. Called(queue).act \in KnownAct /\ Called(queue).rt \in Counting
    BY <1>1, <1>2, CalledKnown
  <2>2. BridgeKnows' /\ runtime' \in Counting
    <3>1. CASE acts' = [acts EXCEPT ![s] = Called(queue).act] /\ runtime' = Called(queue).rt
      BY <1>1, <1>12, <2>1, <3>1, CallMoves DEF Closed
    <3>2. CASE acts' = [acts EXCEPT ![s] = Free] /\ UNCHANGED runtime
      BY <1>1, <1>2, <1>5, <1>12, <3>2, CallMoves DEF Closed
    <3>. QED
      BY <1>12, <3>1, <3>2 DEF Closed
  <2>. QED
    BY <1>2, <1>12, <2>2, ProcessKnows DEF Closed
<1>. QED
  BY <1>6, <1>7, <1>8, <1>9, <1>10, <1>11, <1>12 DEF Dispatch

\* The record of the bridge at a step that keeps no queue.
LEMMA AtKnown ==
  ASSUME BrokerKnows, NEW pc \in {"off", "first", "busy", "poll", "connect", "open", "closed"}
  PROVE  At(pc) \in KnownBridge
BY FreeKnown DEF At, KnownBridge

\* What a poll makes of the queue.
LEMMA SyncedKnown ==
  ASSUME BrokerKnows, queue \in KnownQueue, bridge \in KnownBridge
  PROVE  Synced \in KnownQueue
<1>1. bridge.base \in KnownQueue /\ bridge.base.last \in Nat /\ BridgePage \in Nat
  <2>1. bridge.base \in KnownQueue
    BY DEF KnownBridge
  <2>. QED
    BY <2>1, NType, PagesType DEF KnownQueue, BrokerKnows
<1>2. Inbox(bridge.base.last, BridgePage) \in Known
  BY <1>1, InboxKnown
<1>. QED
  BY <1>1, <1>2, QueuedKnown DEF Synced

LEMMA FirstSyncedKnows ==
  ASSUME HooksInv, NEW q \in KnownQueue, FirstSynced(q), UNCHANGED hook,
         faults' \in 0..MaxFaults
  PROVE  HooksInv'
<1>1. PICK s \in Slots :
        /\ queue' = q /\ acts' = [acts EXCEPT ![s] = Called(q).act]
        /\ runtime' = Called(q).rt /\ bridge' = At("busy")
        /\ UNCHANGED <<session, broker, cursor, mirror, seen>>
  BY DEF FirstSynced
<1>2. Called(q).act \in KnownAct /\ Called(q).rt \in Counting /\ At("busy") \in KnownBridge
  BY CalledKnown, AtKnown DEF HooksInv
<1>3. BridgeKnows'
  BY <1>1, <1>2, CallMoves DEF HooksInv
<1>. QED
  BY <1>1, <1>2, <1>3, ProcessKnows DEF HooksInv, FilesKnow, HookKnows, RestKnows

\* The steps that move the bridge from one await to the next.
LEMMA BridgeMoves ==
  ASSUME HooksInv, Begin \/ Reconnect \/ Poll \/ PollFails \/ Connect, UNCHANGED hook
  PROVE  HooksInv'
<1>1. /\ BrokerKnows /\ queue \in KnownQueue /\ bridge \in KnownBridge
      /\ acts \in [Slots -> KnownAct] /\ faults \in 0..MaxFaults
  BY DEF HooksInv, FilesKnow, BridgeKnows, RestKnows
<1>2. Synced \in KnownQueue
  BY <1>1, SyncedKnown
<1>3. UNCHANGED <<session, broker, acts, cursor, runtime, mirror, seen>>
  BY DEF Begin, Reconnect, Poll, PollFails, Connect, files
<1>4. queue' \in KnownQueue
  BY <1>1, <1>2 DEF Begin, Reconnect, Poll, PollFails, Connect, files
<1>5. faults' \in 0..MaxFaults
  BY <1>1, MaxFaultsType DEF Begin, Reconnect, Poll, PollFails, Connect
<1>6. bridge' \in KnownBridge
  <2>1. CASE Begin
    BY <1>1, <2>1 DEF Begin, KnownBridge
  <2>2. CASE Reconnect
    BY <1>1, <2>2 DEF Reconnect, KnownBridge
  <2>3. CASE Poll \/ PollFails \/ Connect
    BY <1>1, <2>3, AtKnown DEF Poll, PollFails, Connect
  <2>. QED
    BY <2>1, <2>2, <2>3
<1>7. KnownAct' = KnownAct /\ KnownBridge' = KnownBridge
  BY <1>1, <1>3, BrokerStays
<1>8. BridgeKnows'
  BY <1>1, <1>3, <1>6, <1>7 DEF HooksInv, BridgeKnows
<1>. QED
  BY <1>3, <1>4, <1>5, <1>8, ProcessKnows DEF HooksInv, FilesKnow, HookKnows, RestKnows

\* The steps that lose the socket, and with it what is on its way.
LEMMA SocketLost ==
  ASSUME HooksInv, Disconnect \/ Crash, UNCHANGED hook
  PROVE  HooksInv'
<1>1. /\ BrokerKnows /\ acts \in [Slots -> KnownAct] /\ faults \in 0..MaxFaults
      /\ runtime \in Counting
  BY DEF HooksInv, FilesKnow, BridgeKnows, RestKnows
<1>2. UNCHANGED <<published, acked, refused>> /\ wire' = {}
  BY DEF Disconnect, Crash
<1>3. BrokerKnows' /\ published <= published' /\ acked <= acked' /\ refused <= refused'
  BY <1>1, <1>2, NType DEF BrokerKnows, Known
<1>4. /\ KnownAct \subseteq KnownAct' /\ KnownBridge \subseteq KnownBridge'
      /\ KnownQueue \subseteq KnownQueue' /\ Known \subseteq Known' /\ Passed \subseteq Passed'
  BY <1>1, <1>3, KnownGrows
<1>5. acts' \in [Slots -> KnownAct']
  BY <1>1, <1>4, FreeKnown DEF Disconnect, Crash
<1>6. bridge' \in KnownBridge'
  BY <1>1, <1>4, AtKnown DEF Disconnect, Crash
<1>7. BridgeKnows'
  BY <1>5, <1>6 DEF HooksInv, BridgeKnows, Disconnect, Crash
<1>8. runtime' \in Counting
  BY <1>1 DEF Disconnect, Crash, files, Counting, Runtime
<1>9. FilesKnow'
  BY <1>2, <1>4, <1>8 DEF HooksInv, FilesKnow, Disconnect, Crash, files
<1>10. RestKnows'
  BY <1>1, <1>4, MaxFaultsType DEF HooksInv, RestKnows, Disconnect, Crash
<1>. QED
  BY <1>3, <1>7, <1>9, <1>10, BrokerGrows DEF HooksInv

LEMMA MessageKnows ==
  ASSUME HooksInv, Message, UNCHANGED hook
  PROVE  HooksInv'
<1>. DEFINE q == Queued(queue, {Min(wire)})
<1>1. PICK s \in Slots :
        /\ wire # {} /\ queue' = q /\ acts' = [acts EXCEPT ![s] = Called(q).act]
        /\ runtime' = Called(q).rt /\ wire' = wire \ {Min(wire)}
        /\ UNCHANGED <<session, published, acked, refused, bridge, cursor, mirror, seen, faults>>
  BY DEF Message
<1>2. Min(wire) \in wire /\ wire \in SUBSET (1..published) /\ published \in Nat
  <2>1. wire \in SUBSET (1..published) /\ published \in Nat
    BY NType DEF HooksInv, BrokerKnows, Known
  <2>. QED
    BY <1>1, <2>1, MinIs
<1>3. {Min(wire)} \in Known
  BY <1>2 DEF Known
<1>4. q \in KnownQueue
  BY <1>3, QueuedKnown DEF HooksInv, FilesKnow
<1>. HIDE DEF q
<1>5. Called(q).act \in KnownAct /\ Called(q).rt \in Counting
  BY <1>4, CalledKnown DEF HooksInv
<1>6. BrokerKnows' /\ published <= published' /\ acked <= acked' /\ refused <= refused'
  <2>1. published \in 0..N /\ acked \in 0..published /\ refused \in 0..published
    BY DEF HooksInv, BrokerKnows
  <2>2. wire' \in SUBSET (1..published)
    BY <1>1, <1>2
  <2>3. published' = published /\ acked' = acked /\ refused' = refused
    BY <1>1
  <2>4. wire' \in Known'
    BY <2>2, <2>3 DEF Known
  <2>. QED
    BY <2>1, <2>3, <2>4, NType DEF BrokerKnows
<1>7. KnownAct \subseteq KnownAct' /\ KnownBridge \subseteq KnownBridge'
        /\ KnownQueue \subseteq KnownQueue' /\ Passed \subseteq Passed'
  BY <1>6, KnownGrows DEF HooksInv
<1>8. acts' \in [Slots -> KnownAct']
  BY <1>1, <1>5, <1>7 DEF HooksInv, BridgeKnows
<1>9. BridgeKnows'
  BY <1>1, <1>7, <1>8 DEF HooksInv, BridgeKnows
<1>10. FilesKnow'
  BY <1>1, <1>4, <1>5, <1>7 DEF HooksInv, FilesKnow
<1>. QED
  BY <1>1, <1>6, <1>9, <1>10, BrokerGrows DEF HooksInv

LEMMA BridgeKeeps ==
  ASSUME HooksInv, BridgeNext, UNCHANGED hook
  PROVE  HooksInv'
<1>1. CASE Publish
  BY <1>1, PublishKnows
<1>2. CASE RuntimeAges
  BY <1>2, AgesKnows
<1>3. CASE Begin \/ Reconnect \/ Poll \/ PollFails \/ Connect
  BY <1>3, BridgeMoves
<1>4. CASE FirstPoll
  <2>1. Synced \in KnownQueue
    BY SyncedKnown DEF HooksInv, FilesKnow, BridgeKnows
  <2>. QED
    BY <1>4, <2>1, FirstSyncedKnows DEF FirstPoll, HooksInv, RestKnows
<1>5. CASE FirstPollFails
  <2>1. faults' \in 0..MaxFaults /\ queue \in KnownQueue
    BY <1>5, MaxFaultsType DEF FirstPollFails, HooksInv, RestKnows, FilesKnow
  <2>. QED
    BY <1>5, <2>1, FirstSyncedKnows DEF FirstPollFails
<1>6. CASE Disconnect \/ Crash
  BY <1>6, SocketLost
<1>7. CASE Message
  BY <1>7, MessageKnows
<1>8. CASE \E s \in Slots : Dispatch(s)
  BY <1>8, DispatchKnows
<1>. QED
  BY <1>1, <1>2, <1>3, <1>4, <1>5, <1>6, <1>7, <1>8 DEF BridgeNext

-----------------------------------------------------------------------------
(* The steps of the hooks.                                                 *)

\* A hook that leaves the broker and the bridge alone.
LEMMA HookMoves ==
  ASSUME HooksInv, UNCHANGED <<session, broker, bridge, acts, faults, cursor>>,
         hook' \in KnownHook, runtime' \in Counting, mirror' \in 0..N, queue' = queue,
         seen' \in Known
  PROVE  HooksInv'
<1>1. KnownAct' = KnownAct /\ KnownBridge' = KnownBridge
  BY BrokerStays DEF HooksInv
<1>2. BridgeKnows'
  BY <1>1 DEF HooksInv, BridgeKnows
<1>. QED
  BY <1>2, ProcessKnows DEF HooksInv, FilesKnow, RestKnows

\* A hook that acknowledges what it has put before the agent, and saves the cursor:
\* behind what it acknowledges, or behind that and the cursor that it has read.
LEMMA HookAcksKnows ==
  ASSUME HooksInv, NEW next, HookAcks(next),
         next \in {Highest(hook.items), Highest({hook.cur} \union hook.items)},
         queue' \in KnownQueue, runtime' \in Counting
  PROVE  HooksInv'
<1>1. /\ BrokerKnows /\ hook.items \in Known /\ hook.cur \in Passed /\ mirror \in 0..N
      /\ faults \in 0..MaxFaults
  BY DEF HooksInv, HookKnows, KnownHook, FilesKnow, RestKnows
<1>2. Highest(hook.items) \in 0..published
  BY <1>1, HighestKnown
<1>3. Answered(Highest(hook.items)) /\ UNCHANGED <<published, wire>>
  BY DEF HookAcks
<1>4. /\ BrokerKnows' /\ published <= published' /\ acked <= acked' /\ refused <= refused'
      /\ faults' \in 0..MaxFaults
  BY <1>1, <1>2, <1>3, AnsweredIs
<1>5. cursor' \in Passed'
  BY <1>1, <1>3, CursorKnown DEF HookAcks
<1>6. KnownQueue \subseteq KnownQueue' /\ Known \subseteq Known'
  BY <1>1, <1>4, KnownGrows
<1>7. mirror' \in 0..N
  BY <1>1, NType DEF HookAcks, TakenUp
<1>8. FilesKnow'
  BY <1>5, <1>6, <1>7 DEF FilesKnow
<1>9. HookKnows'
  <2>1. NoHook \in KnownHook /\ KnownHook \subseteq KnownHook'
    BY <1>1, <1>4, FreeKnown, KnownGrows
  <2>. QED
    BY <2>1 DEF HookAcks, HookKnows
<1>10. RestKnows'
  BY <1>1, <1>4, <1>6 DEF HooksInv, RestKnows, HookAcks, Known
<1>. QED
  BY <1>4, <1>8, <1>9, <1>10, BrokerGrows DEF HooksInv, HookAcks

\* The queue that a hook saves.
LEMMA HookDrains ==
  ASSUME HooksInv
  PROVE  Drained(hook.last) \in KnownQueue
<1>1. hook.last \in 0..published /\ {} \in Known
  BY DEF HooksInv, HookKnows, KnownHook, Known
<1>. QED
  BY <1>1 DEF Drained, KnownQueue

\* What a hook reads when it begins, and what it polls.
LEMMA HookReads ==
  ASSUME HooksInv
  PROVE  /\ NoHook \in KnownHook /\ Inbox(hook.cur, HookPage) \in Known
         /\ Leading(Inbox(hook.cur, HookPage)) \in Known
         /\ hook \in KnownHook /\ cursor \in Passed /\ queue.items \in Known
         /\ queue.last \in 0..published /\ mirror \in 0..N /\ runtime \in Counting
         /\ seen \in Known /\ queue \in KnownQueue
<1>1. hook.cur \in Nat /\ HookPage \in Nat
  BY NType, PagesType DEF HooksInv, HookKnows, KnownHook, BrokerKnows, Passed
<1>2. Inbox(hook.cur, HookPage) \in Known /\ NoHook \in KnownHook
  BY <1>1, InboxKnown, FreeKnown DEF HooksInv
<1>3. Leading(Inbox(hook.cur, HookPage)) \in Known
  BY <1>2 DEF Leading, Known
<1>. QED
  BY <1>2, <1>3 DEF HooksInv, HookKnows, FilesKnow, KnownQueue, RestKnows

LEMMA StartKnows ==
  ASSUME HooksInv, NEW t, NEW acks \in BOOLEAN, Start(t, acks)
  PROVE  HooksInv'
<1>1. /\ NoHook \in KnownHook /\ Inbox(hook.cur, HookPage) \in Known
      /\ Leading(Inbox(hook.cur, HookPage)) \in Known
      /\ hook \in KnownHook /\ cursor \in Passed /\ mirror \in 0..N /\ runtime \in Counting
      /\ seen \in Known /\ queue \in KnownQueue
  BY HookReads
<1>2. CASE /\ hook' = [NoHook EXCEPT !.pc = "start", !.cur = cursor]
           /\ UNCHANGED bridgeVars
  <2>1. hook' \in KnownHook
    BY <1>1, <1>2 DEF KnownHook
  <2>. QED
    BY <1>1, <1>2, <2>1, HookMoves DEF bridgeVars, files
<1>3. CASE /\ runtime' = State("idle")
           /\ hook' = [hook EXCEPT !.pc = "startPoll"]
           /\ UNCHANGED <<session, broker, bridge, acts, queue, cursor, mirror, seen, faults>>
  <2>1. hook' \in KnownHook
    BY <1>1, <1>3 DEF KnownHook
  <2>. QED
    BY <1>1, <1>3, <2>1, StatesCount, HookMoves
<1>4. CASE /\ LET items == Inbox(hook.cur, HookPage) IN
              /\ seen' = seen \union items
              /\ hook' = IF acks /\ Leading(items) # {}
                           THEN [NoHook EXCEPT !.pc = "startAck", !.items = Leading(items)]
                           ELSE NoHook
           /\ UNCHANGED <<session, broker, bridge, acts, files, faults>>
  <2>1. [NoHook EXCEPT !.pc = "startAck", !.items = Leading(Inbox(hook.cur, HookPage))]
          \in KnownHook
    BY <1>1 DEF KnownHook
  <2>2. hook' \in KnownHook
    BY <1>1, <1>4, <2>1
  <2>3. seen' \in Known
    BY <1>1, <1>4 DEF Known
  <2>. QED
    BY <1>1, <1>4, <2>2, <2>3, HookMoves DEF files
<1>5. CASE /\ HookAcks(Highest(hook.items))
           /\ UNCHANGED <<queue, runtime>>
  BY <1>1, <1>5, HookDrains, HookAcksKnows
<1>. QED
  BY <1>2, <1>3, <1>4, <1>5 DEF Start

LEMMA PolledKnows ==
  ASSUME HooksInv, NEW t, Polled(t)
  PROVE  HooksInv'
<1>1. /\ NoHook \in KnownHook /\ Inbox(hook.cur, HookPage) \in Known /\ mirror \in 0..N
      /\ runtime \in Counting /\ seen \in Known /\ queue \in KnownQueue
  BY HookReads
<1>2. CASE /\ LET items == Inbox(hook.cur, HookPage) IN
              hook' = IF items = {} THEN NoHook
                      ELSE [NoHook EXCEPT !.pc = "pollAck", !.items = items]
           /\ UNCHANGED bridgeVars
  <2>1. [NoHook EXCEPT !.pc = "pollAck", !.items = Inbox(hook.cur, HookPage)] \in KnownHook
    BY <1>1 DEF KnownHook
  <2>. QED
    BY <1>1, <1>2, <2>1, HookMoves DEF bridgeVars, files
<1>3. CASE /\ HookAcks(Highest(hook.items))
           /\ UNCHANGED <<queue, runtime>>
  BY <1>1, <1>3, HookDrains, HookAcksKnows
<1>. QED
  BY <1>2, <1>3 DEF Polled

LEMMA SubmitKnows ==
  ASSUME HooksInv, NEW t, NEW announces \in BOOLEAN, Submit(t, announces)
  PROVE  HooksInv'
<1>1. /\ NoHook \in KnownHook /\ hook \in KnownHook /\ cursor \in Passed
      /\ queue.items \in Known /\ queue.last \in 0..published /\ mirror \in 0..N
      /\ runtime \in Counting /\ seen \in Known /\ queue \in KnownQueue
  BY HookReads
<1>2. CASE SubmitBegins(t)
  <2>1. hook' \in KnownHook
    BY <1>1, <1>2 DEF KnownHook, SubmitBegins
  <2>. QED
    BY <1>1, <1>2, <2>1, HookMoves DEF SubmitBegins, bridgeVars, files
<1>3. CASE /\ hook' = IF queue.items = {} THEN [hook EXCEPT !.pc = "empty"]
                      ELSE [hook EXCEPT !.pc = "queued", !.items = queue.items,
                                        !.last = queue.last]
           /\ UNCHANGED bridgeVars
  <2>1. [hook EXCEPT !.pc = "empty"] \in KnownHook
    BY <1>1 DEF KnownHook
  <2>2. [hook EXCEPT !.pc = "queued", !.items = queue.items, !.last = queue.last] \in KnownHook
    BY <1>1 DEF KnownHook
  <2>. QED
    BY <1>1, <1>3, <2>1, <2>2, HookMoves DEF bridgeVars, files
<1>4. CASE /\ runtime' = IF announces THEN State("turn") ELSE runtime
           /\ hook' = [hook EXCEPT !.pc = "queuedAck"]
           /\ UNCHANGED <<session, broker, bridge, acts, queue, cursor, mirror, seen, faults>>
  <2>1. hook' \in KnownHook
    BY <1>1, <1>4 DEF KnownHook
  <2>. QED
    BY <1>1, <1>4, <2>1, StatesCount, HookMoves
<1>5. CASE /\ HookAcks(Highest({hook.cur} \union hook.items))
           /\ queue' = Drained(hook.last)
           /\ runtime' = IF announces THEN runtime ELSE State("turn")
  BY <1>1, <1>5, StatesCount, HookDrains, HookAcksKnows
<1>6. CASE /\ runtime' = State("turn")
           /\ hook' = [hook EXCEPT !.pc = "poll"]
           /\ UNCHANGED <<session, broker, bridge, acts, queue, cursor, mirror, seen, faults>>
  <2>1. hook' \in KnownHook
    BY <1>1, <1>6 DEF KnownHook
  <2>. QED
    BY <1>1, <1>6, <2>1, StatesCount, HookMoves
<1>7. CASE Polled(t)
  BY <1>7, PolledKnows
<1>. QED
  BY <1>2, <1>3, <1>4, <1>5, <1>6, <1>7 DEF Submit

LEMMA OpencodeKnows ==
  ASSUME HooksInv, OpencodeToolExecute
  PROVE  HooksInv'
<1>1. /\ NoHook \in KnownHook /\ cursor \in Passed /\ mirror \in 0..N
      /\ runtime \in Counting /\ seen \in Known /\ queue \in KnownQueue
  BY HookReads
<1>2. CASE /\ hook' = [NoHook EXCEPT !.pc = "poll", !.cur = cursor]
           /\ UNCHANGED bridgeVars
  <2>1. hook' \in KnownHook
    BY <1>1, <1>2 DEF KnownHook
  <2>. QED
    BY <1>1, <1>2, <2>1, HookMoves DEF bridgeVars, files
<1>3. CASE Polled("opencode")
  BY <1>3, PolledKnows
<1>. QED
  BY <1>2, <1>3 DEF OpencodeToolExecute

LEMMA StopKnows ==
  ASSUME HooksInv, NEW t, NEW takes \in BOOLEAN, Stop(t, takes)
  PROVE  HooksInv'
<1>1. /\ NoHook \in KnownHook /\ hook \in KnownHook /\ cursor \in Passed
      /\ queue.items \in Known /\ queue.last \in 0..published /\ mirror \in 0..N
      /\ runtime \in Counting /\ seen \in Known /\ queue \in KnownQueue
  BY HookReads
<1>2. CASE TurnEnds(t, takes)
  <2>1. [pc |-> "mirror", items |-> queue.items, last |-> queue.last, cur |-> cursor,
         owed |-> mirror] \in KnownHook
    BY <1>1 DEF KnownHook
  <2>2. [NoHook EXCEPT !.pc = "mirror", !.owed = mirror] \in KnownHook
    BY <1>1 DEF KnownHook
  <2>3. hook' \in KnownHook
    BY <1>2, <2>1, <2>2 DEF TurnEnds
  <2>. QED
    BY <1>1, <1>2, <2>3, HookMoves DEF TurnEnds, bridgeVars, files
<1>3. CASE /\ ReplyMirrored
           /\ IF hook.items \intersect Actionable # {}
                THEN hook' = [hook EXCEPT !.pc = "stopAck"] /\ UNCHANGED runtime
                ELSE hook' = NoHook /\ runtime' = State("idle")
           /\ UNCHANGED <<session, broker, bridge, acts, queue, cursor, seen, faults>>
  <2>1. [hook EXCEPT !.pc = "stopAck"] \in KnownHook
    BY <1>1 DEF KnownHook
  <2>2. hook' \in KnownHook /\ runtime' \in Counting
    BY <1>1, <1>3, <2>1, StatesCount
  <2>3. mirror' \in 0..N
    BY <1>1, <1>3, NType DEF ReplyMirrored
  <2>. QED
    BY <1>1, <1>3, <2>2, <2>3, HookMoves
<1>4. CASE /\ HookAcks(Highest({hook.cur} \union hook.items))
           /\ queue' = Drained(hook.last)
           /\ runtime' = State("turn")
  BY <1>1, <1>4, StatesCount, HookDrains, HookAcksKnows
<1>. QED
  BY <1>2, <1>3, <1>4 DEF Stop

LEMMA HookFailsKnows ==
  ASSUME HooksInv, HookFails
  PROVE  HooksInv'
<1>1. BrokerKnows /\ hook.items \in Known /\ seen \in Known /\ faults \in 0..MaxFaults
  BY DEF HooksInv, HookKnows, KnownHook, RestKnows
<1>2. Highest(hook.items) \in 0..published
  BY <1>1, HighestKnown
<1>3. acked' \in {acked, Acked(Highest(hook.items))} /\ UNCHANGED <<published, refused, wire>>
  BY DEF HookFails
<1>4. acked' \in 0..published' /\ acked <= acked' /\ refused <= refused'
  BY <1>1, <1>2, <1>3, AckedIs, NType DEF BrokerKnows
<1>5. BrokerKnows' /\ published <= published'
  BY <1>1, <1>3, <1>4, NType DEF BrokerKnows, Known
<1>6. HookKnows'
  <2>1. NoHook \in KnownHook /\ KnownHook \subseteq KnownHook'
    BY <1>1, <1>4, <1>5, FreeKnown, KnownGrows
  <2>. QED
    BY <2>1 DEF HookFails, HookKnows
<1>7. RestKnows'
  <2>1. Known \subseteq Known'
    BY <1>1, <1>4, <1>5, KnownGrows
  <2>. QED
    BY <1>1, <2>1, MaxFaultsType DEF RestKnows, HookFails
<1>. QED
  BY <1>4, <1>5, <1>6, <1>7, BrokerGrows DEF HooksInv, HookFails, files

-----------------------------------------------------------------------------
(* The theorems.                                                           *)

LEMMA HooksInit == Init => HooksInv
<1>. SUFFICES ASSUME Init PROVE HooksInv
  OBVIOUS
<1>1. /\ session \in Sessions /\ published = 0 /\ acked = 0 /\ refused = 0 /\ wire = {}
      /\ bridge = At("off")
      /\ acts = [s \in Slots |-> Free] /\ queue = Drained(0) /\ cursor = 0
      /\ runtime = State("idle") /\ mirror = 0 /\ seen = {} /\ faults = 0 /\ hook = NoHook
  BY DEF Init, BridgeInit
<1>2. BrokerKnows
  BY <1>1, NType DEF BrokerKnows, Known
<1>3. FilesKnow
  BY <1>1, <1>2, FreeKnown, StatesCount, NType DEF FilesKnow, Passed
<1>4. BridgeKnows
  BY <1>1, <1>2, FreeKnown, AtKnown DEF BridgeKnows
<1>5. HookKnows
  BY <1>1, <1>2, FreeKnown DEF HookKnows
<1>6. RestKnows
  BY <1>1, MaxFaultsType DEF RestKnows, Known
<1>. QED
  BY <1>2, <1>3, <1>4, <1>5, <1>6 DEF HooksInv

LEMMA HooksStep == HooksInv /\ [Next]_vars => HooksInv'
<1>. SUFFICES ASSUME HooksInv, [Next]_vars PROVE HooksInv'
  OBVIOUS
<1>1. CASE BridgeNext /\ UNCHANGED hook
  BY <1>1, BridgeKeeps
<1>2. CASE HookStarts
  BY <1>2, StartKnows
     DEF HookStarts, ClaudeStart, CodexStart, XiaokStart, QoderStart, AgyPreToolUse
<1>3. CASE HookSubmits
  BY <1>3, SubmitKnows, OpencodeKnows
     DEF HookSubmits, ClaudeSubmit, CodexSubmit, XiaokSubmit, QoderSubmit, AgyPostToolUse
<1>4. CASE HookStops
  BY <1>4, StopKnows DEF HookStops, ClaudeStop, CodexStop, XiaokStop, QoderStop, AgyStop
<1>5. CASE HookFails
  BY <1>5, HookFailsKnows
<1>6. CASE UNCHANGED vars
  BY <1>6, HookMoves DEF vars, bridgeVars, files, HooksInv, FilesKnow, HookKnows, RestKnows
<1>. QED
  BY <1>1, <1>2, <1>3, <1>4, <1>5, <1>6 DEF Next

LEMMA SpecKnows == Spec => []HooksInv
BY HooksInit, HooksStep, PTL DEF Spec

\* Whatever happens, the files and the processes of a session hold values of their kinds.
\* In particular the failures of its dispatches are counted up to their limit and not
\* beyond, however many calls of maybeAutoDispatchRealtimeQueue fail side by side.
THEOREM SessionTyped == Spec => []TypeOK
<1>1. HooksInv => TypeOK
  <2>. SUFFICES ASSUME HooksInv PROVE TypeOK
    OBVIOUS
  <2>1. published \in 0..N /\ acked \in 0..published /\ refused \in 0..published
          /\ wire \subseteq 1..published
    BY DEF HooksInv, BrokerKnows, Known
  <2>2. KnownQueue \subseteq Queue
    BY <2>1, NType DEF KnownQueue, Queue, Known, Events
  <2>3. queue \in Queue /\ cursor \in 0..N /\ runtime \in Runtime /\ mirror \in 0..N
    BY <2>1, <2>2, NType DEF HooksInv, FilesKnow, Counting, Passed
  <2>4. /\ session \in Sessions /\ bridge.base \in Queue
        /\ bridge.pc \in {"off", "first", "busy", "poll", "connect", "open", "closed"}
    BY <2>2 DEF HooksInv, BridgeKnows, KnownBridge
  <2>5. \A s \in Slots :
          /\ acts[s].pc \in {"free", "recover", "ack", "announce", "exec", "close"}
          /\ acts[s].items \subseteq 1..published /\ acts[s].prior \in 0..(MaxFailures - 1)
    <3>. SUFFICES ASSUME NEW s \in Slots
                  PROVE  /\ acts[s].pc \in
                              {"free", "recover", "ack", "announce", "exec", "close"}
                         /\ acts[s].items \subseteq 1..published
                         /\ acts[s].prior \in 0..(MaxFailures - 1)
      OBVIOUS
    <3>1. acts[s] \in KnownAct
      BY DEF HooksInv, BridgeKnows
    <3>. QED
      BY <3>1 DEF KnownAct, Known
  <2>6. seen \subseteq 1..published /\ faults \in 0..MaxFaults
    BY DEF HooksInv, RestKnows, Known
  <2>. QED
    BY <2>1, <2>3, <2>4, <2>5, <2>6 DEF TypeOK
<1>. QED
  BY <1>1, SpecKnows, PTL

\* Whoever fails or writes it late, the cursor file is ahead of what the broker has
\* acknowledged only as far as an acknowledgement that the broker refused: a dispatch of the
\* bridge and the hooks all write the highest of a cursor they read before an await and of
\* what they asked to have acknowledged, and write nothing when the call throws.
THEOREM CursorBehindBroker == Spec => []CursorWithinAcked
<1>1. HooksInv => CursorWithinAcked
  BY NType DEF HooksInv, FilesKnow, BrokerKnows, Passed, CursorWithinAcked
<1>. QED
  BY <1>1, SpecKnows, PTL
=============================================================================
