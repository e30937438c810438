---------------------------- MODULE Relay_proofs ----------------------------
(***************************************************************************)
(* Proofs about Relay for any brokers, agents, limits and bounds.          *)
(*                                                                         *)
(* A log is only appended to, one entry or two at a time (LogStep), so     *)
(* what is on record stays there.  ReceivedStep says once, for every       *)
(* action, that whatever is in a log, a buffer, a seen window, a handler's *)
(* hands or on its way was there before or was appended by its origin;     *)
(* OriginHasIt and AppliedOnce follow.  OutStep says what a step may do to *)
(* cursor, buffer and sent; BufferBounded follows from it, and with        *)
(* PollUnpaused (no poll runs under back-pressure) and OwnBuffer (a buffer *)
(* holds only what is from here) also QuietWhilePaused.  SentOnce needs    *)
(* that what was sent is on record (SentRecorded), since a broker that     *)
(* starts again puts its cursor at the end of its log; Accounted needs     *)
(* that a broker which is down has sent or lost all it had.                *)
(***************************************************************************)
EXTENDS Relay, SequenceTheorems, TLAPS

-----------------------------------------------------------------------------
(* Helpers *)

LEMMA MessageParts ==
  ASSUME NEW m \in Messages
  PROVE  /\ m.type = "event" => m.intent \in Intents
         /\ m.type = "peer_left" => m.peer \in Brokers
         /\ m.type = "sync_response" => m.events \in SUBSET Intents
BY DEF Messages

LEMMA EntryParts ==
  ASSUME NEW e \in Entries
  PROVE  e.intent \in Intents /\ e.to \in SUBSET Agents
BY DEF Entries

LEMMA IntentParts ==
  ASSUME NEW i \in Intents
  PROVE  /\ i.origin \in Brokers /\ i.seq \in Nat \ {0} /\ i.who \in Agents
         /\ i.targets \in SUBSET Agents
         /\ \A b \in Brokers : [i EXCEPT !.origin = b] \in Intents
BY DEF Intents

LEMMA Firsts ==
  ASSUME NEW S, NEW s \in Seq(S), NEW n \in Nat
  PROVE  /\ First(s, n) \in Seq(S)
         /\ Len(First(s, n)) = Lesser(n, Len(s))
         /\ \A k \in 1..Lesser(n, Len(s)) : First(s, n)[k] = s[k]
<1>1. Len(s) \in Nat /\ Lesser(n, Len(s)) \in Nat /\ Lesser(n, Len(s)) <= Len(s)
  BY DEF Lesser
<1>2. \A k \in 1..Lesser(n, Len(s)) : s[k] \in S
  BY <1>1, ElementOfSeq
<1>. QED
  BY <1>1, <1>2, SubSeqProperties DEF First

LEMMA Lefts ==
  ASSUME NEW b \in Brokers, NEW S, buffer[b] \in Seq(S), NEW n \in Nat
  PROVE  /\ Left(b, n) \in Seq(S)
         /\ Len(Left(b, n)) = IF n <= Len(buffer[b]) THEN Len(buffer[b]) - n ELSE 0
         /\ \A k \in 1..Len(buffer[b]) - n : Left(b, n)[k] = buffer[b][n + k]
<1>1. Len(buffer[b]) \in Nat
  OBVIOUS
<1>2. \A k \in n + 1..Len(buffer[b]) : buffer[b][k] \in S
  BY <1>1, ElementOfSeq
<1>. QED
  BY <1>1, <1>2, SubSeqProperties DEF Left

LEMMA Elements ==
  ASSUME NEW S, NEW s \in Seq(S)
  PROVE  Range(s) \subseteq S
BY RangeOfSeq

LEMMA EventsType ==
  ASSUME NEW s \in Seq(Intents)
  PROVE  /\ Events(s) \in Seq(Messages)
         /\ Len(Events(s)) = Len(s)
         /\ \A n \in 1..Len(s) : Events(s)[n] = Event(s[n])
<1>1. DOMAIN s = 1..Len(s) /\ Len(s) \in Nat
  OBVIOUS
<1>2. \A n \in 1..Len(s) : s[n] \in Intents /\ Event(s[n]) \in Messages
  BY ElementOfSeq DEF Event, Messages
<1>3. Events(s) \in [1..Len(s) -> Messages]
  BY <1>1, <1>2 DEF Events
<1>. QED
  BY <1>1, <1>3 DEF Events

-----------------------------------------------------------------------------
(* Types *)

\* The running poll and the cursor stay within the log.
InLog == \A b \in Brokers : cursor[b] <= Len(log[b]) /\ upto[b] <= Len(log[b])
TypeInv == TypeOK /\ InLog

LEMMA OwnType ==
  ASSUME NEW b \in Brokers, NEW l \in Seq(Entries), NEW p \in Agents,
         NEW kind \in {"talk", "sync", "removed", "presence"},
         NEW status \in {"online", "offline"}, NEW targets \in SUBSET Agents
  PROVE  Own(b, l, kind, p, status, targets) \in Intents
BY DEF Own, Intents

LEMMA NewsType ==
  ASSUME NEW b \in Brokers, NEW l \in Seq(Entries), NEW p \in Agents,
         NEW status \in {"online", "offline"}, NEW all \in SUBSET Agents
  PROVE  News(b, l, p, status, all) \in Seq(Entries)
<1>. DEFINE e == [intent |-> Own(b, l, "presence", p, status, {}), to |-> all \ {p}]
<1>1. e \in Entries
  BY OwnType DEF Entries
<1>2. Append(l, e) \in Seq(Entries)
  BY <1>1
<1>. QED
  BY <1>2 DEF News

LEMMA OnlineType ==
  ASSUME TypeOK, NEW b \in Brokers, NEW l \in Seq(Entries), NEW p \in Agents,
         NEW origin \in Brokers \cup {Nobody}, Online(b, l, p, origin)
  PROVE  /\ log' \in [Brokers -> Seq(Entries)]
         /\ presence' \in [Brokers -> [Agents -> {"absent", "online", "offline"}]]
         /\ guest' \in [Brokers -> [Agents -> Brokers \cup {Nobody}]]
<1>1. News(b, l, p, "online", Registered(b) \cup {p}) \in Seq(Entries)
  BY NewsType DEF Registered
<1>. QED
  BY <1>1, SMTT(20) DEF Online, TypeOK

LEMMA OfflineType ==
  ASSUME TypeOK, NEW b \in Brokers, NEW l \in Seq(Entries), NEW p \in Agents,
         NEW prune \in BOOLEAN, Offline(b, l, p, prune)
  PROVE  /\ log' \in [Brokers -> Seq(Entries)]
         /\ presence' \in [Brokers -> [Agents -> {"absent", "online", "offline"}]]
         /\ guest' \in [Brokers -> [Agents -> Brokers \cup {Nobody}]]
<1>. DEFINE told == News(b, l, p, "offline", Registered(b))
            gone == [intent |-> Own(b, told, "removed", p, "offline", {}),
                     to |-> Registered(b)]
<1>1. told \in Seq(Entries)
  BY NewsType DEF Registered
<1>2. gone \in Entries
  BY <1>1, OwnType DEF Entries, Registered
<1>3. Append(told, gone) \in Seq(Entries)
  BY <1>1, <1>2
<1>4. log' \in [Brokers -> Seq(Entries)]
  BY <1>1, <1>3 DEF Offline, TypeOK
<1>. QED
  BY <1>4, SMTT(20) DEF Offline, TypeOK

LEMMA PassType ==
  ASSUME TypeOK, NEW b \in Brokers, NEW rest \in Seq(Messages),
         NEW msgs \in Seq(Messages), Pass(b, rest, msgs)
  PROVE  down' \in [Brokers -> Seq(Messages)]
BY DEF Pass, TypeOK

LEMMA FlushType ==
  ASSUME TypeOK, NEW b \in Brokers, NEW rest \in Seq(Messages),
         NEW more \in Seq(Messages), FlushBuffer(b, rest, more)
  PROVE  /\ buffer' \in [Brokers -> Seq(Intents)]
         /\ flushing' \in [Brokers -> BOOLEAN]
         /\ down' \in [Brokers -> Seq(Messages)]
         /\ sent' \subseteq Intents /\ lost' \subseteq Intents
<1>. DEFINE batch == First(buffer[b], FlushBatch)
            left  == Left(b, Len(batch))
<1>1. FlushBatch \in Nat /\ buffer[b] \in Seq(Intents)
  BY LimitsType DEF TypeOK
<1>2. batch \in Seq(Intents) /\ Range(batch) \subseteq Intents
  BY <1>1, Firsts, Elements
<1>3. left \in Seq(Intents)
  BY <1>1, <1>2, Lefts
<1>4. Events(batch) \in Seq(Messages) /\ Events(batch) \o more \in Seq(Messages)
  BY <1>2, EventsType, ConcatProperties
<1>5. /\ First(batch, 1) \in Seq(Intents)
      /\ PutBack(b, batch) \in Seq(Intents)
  BY <1>2, <1>3, Firsts DEF PutBack
<1>6. Range(SubSeq(batch, 2, Len(batch))) \subseteq Intents
  <2>1. \A k \in 2..Len(batch) : batch[k] \in Intents
    BY <1>2, ElementOfSeq
  <2>2. Len(batch) \in Int
    BY <1>2
  <2>3. SubSeq(batch, 2, Len(batch)) \in Seq(Intents)
    BY <2>1, <2>2, SubSeqProperties
  <2>. QED
    BY <2>3, Elements
<1>7. CASE Paused(b)
  BY <1>7, PassType DEF FlushBuffer, TypeOK
<1>8. CASE ~Paused(b) /\ open[b]
  <2>1. Pass(b, rest, Events(batch) \o more)
    BY <1>8 DEF FlushBuffer
  <2>2. down' \in [Brokers -> Seq(Messages)]
    BY <2>1, <1>4, PassType
  <2>3. /\ buffer' = [buffer EXCEPT ![b] = left]
        /\ flushing' = [flushing EXCEPT ![b] = FlushAgain(b, left)]
        /\ sent' = sent \cup Range(batch) /\ lost' = lost
    BY <1>8 DEF FlushBuffer
  <2>4. FlushAgain(b, left) \in BOOLEAN
    BY DEF FlushAgain
  <2>. QED
    BY <1>2, <1>3, <2>2, <2>3, <2>4 DEF TypeOK
<1>9. CASE ~Paused(b) /\ ~open[b]
  <2>1. /\ buffer' = [buffer EXCEPT ![b] = PutBack(b, batch)]
        /\ flushing' = [flushing EXCEPT ![b] = FALSE]
        /\ lost' = lost \cup Range(SubSeq(batch, 2, Len(batch)))
        /\ UNCHANGED <<sent, down>>
    BY <1>9 DEF FlushBuffer
  <2>2. /\ buffer \in [Brokers -> Seq(Intents)] /\ flushing \in [Brokers -> BOOLEAN]
        /\ down \in [Brokers -> Seq(Messages)] /\ sent \subseteq Intents /\ lost \subseteq Intents
    BY DEF TypeOK
  <2>. HIDE DEF batch
  <2>3. buffer' \in [Brokers -> Seq(Intents)] /\ flushing' \in [Brokers -> BOOLEAN]
    BY <2>1, <2>2, <1>5
  <2>. QED
    BY <2>1, <2>2, <2>3, <1>6
<1>. QED
  BY <1>7, <1>8, <1>9

LEMMA RecordType ==
  ASSUME TypeOK, NEW b \in Brokers, NEW i \in Intents
  PROVE  Record(b, i) \in Seq(Entries)
<1>1. Recipients(b, i) \in SUBSET Agents
  BY DEF Recipients, Registered, Intents
<1>2. [intent |-> i, to |-> Recipients(b, i)] \in Entries
  BY <1>1 DEF Entries
<1>3. log[b] \in Seq(Entries)
  BY DEF TypeOK
<1>. QED
  BY <1>2, <1>3 DEF Record

LEMMA RememberType ==
  ASSUME NEW s \in Seq(Intents), NEW i \in Intents
  PROVE  /\ Remember(s, i) \in Seq(Intents)
         /\ Range(Remember(s, i)) \subseteq Range(s) \cup {i}
<1>. DEFINE t == Append(s, i)
            m == Len(t) - SeenKept + 1
<1>1. /\ t \in Seq(Intents) /\ Len(t) = Len(s) + 1 /\ Len(s) \in Nat
      /\ \A k \in 1..Len(s) : t[k] = s[k]
      /\ t[Len(s) + 1] = i
  BY AppendProperties
<1>2. Range(t) = Range(s) \cup {i}
  BY <1>1 DEF Range
<1>3. CASE Len(t) > SeenWindow
  <2>1. m \in 1..Len(t) + 1
    BY <1>1, <1>3, LimitsType
  <2>2. \A k \in m..Len(t) : t[k] \in Intents
    BY <1>1, <2>1, ElementOfSeq
  <2>3. /\ SubSeq(t, m, Len(t)) \in Seq(Intents)
        /\ Len(SubSeq(t, m, Len(t))) = IF m <= Len(t) THEN Len(t) - m + 1 ELSE 0
        /\ \A k \in 1..Len(t) - m + 1 : SubSeq(t, m, Len(t))[k] = t[m + k - 1]
    BY <1>1, <2>1, <2>2, SubSeqProperties, SMTT(20)
  <2>4. Range(SubSeq(t, m, Len(t))) \subseteq Range(t)
    <3>1. ASSUME NEW k \in 1..Len(SubSeq(t, m, Len(t)))
          PROVE  SubSeq(t, m, Len(t))[k] \in Range(t)
      <4>1. k \in 1..Len(t) - m + 1 /\ m + k - 1 \in DOMAIN t
        BY <1>1, <2>1, <2>3
      <4>. QED
        BY <2>3, <4>1 DEF Range
    <3>2. DOMAIN SubSeq(t, m, Len(t)) = 1..Len(SubSeq(t, m, Len(t)))
      BY <2>3, LenProperties
    <3>. QED
      BY <3>1, <3>2 DEF Range
  <2>. QED
    BY <1>2, <1>3, <2>3, <2>4 DEF Remember
<1>4. CASE ~(Len(t) > SeenWindow)
  BY <1>1, <1>2, <1>4 DEF Remember
<1>. QED
  BY <1>3, <1>4

LEMMA HandleType ==
  ASSUME TypeOK, NEW b \in Brokers, NEW i \in Intents, HandleRemoteEvent(b, i)
  PROVE  /\ log' \in [Brokers -> Seq(Entries)]
         /\ presence' \in [Brokers -> [Agents -> {"absent", "online", "offline"}]]
         /\ guest' \in [Brokers -> [Agents -> Brokers \cup {Nobody}]]
         /\ seen' \in [Brokers -> Seq(Intents)]
         /\ nodes' \in [Brokers -> SUBSET Brokers]
<1>1. Record(b, i) \in Seq(Entries)
  BY RecordType
<1>2. i.origin \in Brokers /\ i.who \in Agents
  BY DEF Intents
<1>3. Remember(seen[b], i) \in Seq(Intents)
  BY RememberType DEF TypeOK
<1>4. seen' \in [Brokers -> Seq(Intents)] /\ nodes' \in [Brokers -> SUBSET Brokers]
  <2>1. \/ /\ seen' = [seen EXCEPT ![b] = Remember(@, i)]
           /\ nodes' = [nodes EXCEPT ![b] = @ \cup {i.origin}]
        \/ UNCHANGED <<seen, nodes>>
    BY DEF HandleRemoteEvent
  <2>2. /\ seen \in [Brokers -> Seq(Intents)]
        /\ nodes \in [Brokers -> SUBSET Brokers]
    BY DEF TypeOK
  <2>3. nodes[b] \cup {i.origin} \in SUBSET Brokers
    BY <2>2, <1>2
  <2>. QED
    <3>1. seen' \in [Brokers -> Seq(Intents)]
      BY <2>1, <2>2, <1>3
    <3>2. nodes' \in [Brokers -> SUBSET Brokers]
      BY <2>1, <2>2, <2>3
    <3>. QED
      BY <3>1, <3>2
<1>5. CASE UNCHANGED brokerVars
  BY <1>4, <1>5 DEF brokerVars, TypeOK
<1>6. CASE log' = [log EXCEPT ![b] = Record(b, i)] /\ UNCHANGED <<presence, guest>>
  BY <1>1, <1>4, <1>6 DEF TypeOK
<1>7. CASE Online(b, Record(b, i), i.who, i.origin)
  BY <1>1, <1>2, <1>4, <1>7, OnlineType
<1>8. CASE Offline(b, Record(b, i), i.who, guest[b][i.who] # Nobody)
  BY <1>1, <1>2, <1>4, <1>8, OfflineType
<1>. QED
  BY <1>5, <1>6, <1>7, <1>8 DEF HandleRemoteEvent

\* What Got gives: the message, and the rest of the queue.
LEMMA GotType ==
  ASSUME TypeOK, NEW b \in Brokers, NEW type, Got(b, type)
  PROVE  /\ Head(down[b]) \in Messages /\ Head(down[b]).type = type
         /\ Tail(down[b]) \in Seq(Messages)
BY DEF Got, TypeOK

\* What a broker, its agents and its relay may do, Next's quantifiers inside.
Moves(b) ==
  \/ Handlers(b) \/ Throw(b) \/ BrokerDies(b) \/ BrokerStarts(b)
  \/ NodeIdTaken(b) \/ SocketDies(b)
  \/ \E p \in Active, forGood \in BOOLEAN : Leave(b, p, forGood)
  \/ \E p \in Active, kind \in {"talk", "sync"}, t \in SUBSET Agents :
       Talk(b, p, kind, t)
  \/ \E p \in Active : Register(b, p)
  \/ \E state \in {"CONNECTING", "DISCONNECTED"} : ConnectFails(b, state)
  \/ \E type \in {"rate_warning", "draining"} : RelaySays(b, type)

LEMMA NextCases == Next => \E b \in Brokers : Moves(b)
<1>. SUFFICES ASSUME Next PROVE \E b \in Brokers : Moves(b)
  OBVIOUS
<1>1. \A t \in Targets : t \in SUBSET Agents
  BY EarlyType
<1>2. /\ "talk" \in {"talk", "sync"} /\ "sync" \in {"talk", "sync"}
      /\ {} \in SUBSET Agents /\ TRUE \in BOOLEAN /\ FALSE \in BOOLEAN
  OBVIOUS
<1>. QED
  BY <1>1, <1>2 DEF Next, Moves

LEMMA DieType ==
  ASSUME TypeOK, NEW b \in Brokers, Die(b), faults' \in Nat
  PROVE  TypeOK'
<1>1. down' \in [Brokers -> Seq(Messages)]
  <2>1. [type |-> "peer_left", peer |-> b] \in Messages
    BY DEF Messages
  <2>2. <<[type |-> "peer_left", peer |-> b]>> \in Seq(Messages)
    BY <2>1
  <2>3. <<>> \in Seq(Messages)
    OBVIOUS
  <2>4. PICK msgs \in Seq(Messages) : Pass(b, <<>>, msgs)
    BY <2>2, <2>3 DEF Die
  <2>. QED
    BY <2>3, <2>4, PassType
<1>2. OwnIntents(b) \subseteq Intents
  <2>1. Range(log[b]) \subseteq Entries
    BY Elements DEF TypeOK
  <2>2. {e.intent : e \in Range(log[b])} \subseteq Intents
    BY <2>1, EntryParts
  <2>3. OwnIntents(b) \subseteq {e.intent : e \in Range(log[b])}
    BY DEF OwnIntents
  <2>. QED
    BY <2>2, <2>3
<1>3. /\ presence' \in [Brokers -> [Agents -> {"absent", "online", "offline"}]]
      /\ guest' \in [Brokers -> [Agents -> Brokers \cup {Nobody}]]
  BY DEF Die, TypeOK
<1>4. /\ buffer' \in [Brokers -> Seq(Intents)]
      /\ seen' \in [Brokers -> Seq(Intents)]
  BY DEF Die, TypeOK
<1>5. /\ log' \in [Brokers -> Seq(Entries)] /\ locals' \in Nat
      /\ sent' \subseteq Intents /\ lost' \subseteq Intents
  BY <1>2 DEF Die, TypeOK
<1>. QED
  BY <1>1, <1>3, <1>4, <1>5 DEF Die, TypeOK

LEMMA TypeStep == TypeInv /\ [Next]_vars => TypeOK'
<1>. SUFFICES ASSUME TypeOK, InLog, [Next]_vars PROVE TypeOK'
  BY DEF TypeInv
<1>. USE DEF brokerVars, socketVars, outVars, inVars, boundVars
<1>1. ASSUME NEW b \in Brokers, NEW p \in Active, Register(b, p) PROVE TypeOK'
  <2>1. p \in Agents /\ log[b] \in Seq(Entries)
    BY EarlyType DEF TypeOK
  <2>. QED
    BY <1>1, <2>1, OnlineType DEF Register, ByAgent, TypeOK
<1>2. ASSUME NEW b \in Brokers, NEW p \in Active, NEW forGood \in BOOLEAN,
             Leave(b, p, forGood)
      PROVE  TypeOK'
  <2>1. p \in Agents /\ log[b] \in Seq(Entries)
    BY EarlyType DEF TypeOK
  <2>. QED
    BY <1>2, <2>1, OfflineType, SMTT(20) DEF Leave, ByAgent, TypeOK
<1>3. ASSUME NEW b \in Brokers, NEW p \in Active, NEW kind \in {"talk", "sync"},
             NEW t \in SUBSET Agents, Talk(b, p, kind, t)
      PROVE  TypeOK'
  <2>. DEFINE e == [intent |-> Own(b, log[b], kind, p, "online", t),
                    to |-> (IF t = {} THEN Registered(b) ELSE t) \ {p}]
  <2>1. p \in Agents /\ log[b] \in Seq(Entries)
    BY EarlyType DEF TypeOK
  <2>2. e \in Entries
    BY <2>1, OwnType DEF Entries, Registered
  <2>3. Append(log[b], e) \in Seq(Entries)
    BY <2>1, <2>2
  <2>4. log' = [log EXCEPT ![b] = Append(log[b], e)]
    BY <1>3 DEF Talk
  <2>5. log' \in [Brokers -> Seq(Entries)]
    BY <2>3, <2>4 DEF TypeOK
  <2>. QED
    BY <1>3, <2>5 DEF Talk, ByAgent, TypeOK
<1>4. ASSUME NEW b \in Brokers, Poll(b) PROVE TypeOK'
  <2>1. Lesser(cursor[b] + PollLimit, Len(log[b])) \in Nat
    BY LimitsType, SMTT(20) DEF Lesser, TypeOK
  <2>. QED
    BY <1>4, <2>1 DEF Poll, TypeOK
<1>5. ASSUME NEW b \in Brokers, ForwardNext(b) PROVE TypeOK'
  <2>. DEFINE n == cursor[b] + 1
              i == Envelope(b, n)
  <2>1. n \in 1..Len(log[b]) /\ log[b] \in Seq(Entries) /\ n \in Nat
    BY <1>5 DEF ForwardNext, InLog, TypeOK
  <2>2. i \in Intents
    BY <2>1, ElementOfSeq, EntryParts, IntentParts DEF Envelope
  <2>3. Event(i) \in Messages
    BY <2>2 DEF Event, Messages
  <2>4. down' \in [Brokers -> Seq(Messages)]
    <3>1. down[b] \in Seq(Messages) /\ <<Event(i)>> \in Seq(Messages)
      BY <2>3 DEF TypeOK
    <3>2. down' = down \/ Pass(b, down[b], <<Event(i)>>)
      BY <1>5 DEF ForwardNext
    <3>. QED
      BY <3>1, <3>2, PassType DEF TypeOK
  <2>5. buffer' = buffer \/ buffer' = [buffer EXCEPT ![b] = Append(@, i)]
    BY <1>5 DEF ForwardNext
  <2>6. buffer' \in [Brokers -> Seq(Intents)]
    <3>1. buffer[b] \in Seq(Intents) /\ buffer \in [Brokers -> Seq(Intents)]
      BY DEF TypeOK
    <3>2. Append(buffer[b], i) \in Seq(Intents)
      BY <2>2, <3>1
    <3>. QED
      BY <2>5, <3>1, <3>2
  <2>7. sent' \subseteq Intents /\ lost' \subseteq Intents
    BY <1>5, <2>2 DEF ForwardNext, TypeOK
  <2>. QED
    BY <1>5, <2>1, <2>4, <2>6, <2>7 DEF ForwardNext, TypeOK
<1>6. ASSUME NEW b \in Brokers, FlushTimer(b) PROVE TypeOK'
  <2>1. down[b] \in Seq(Messages) /\ <<>> \in Seq(Messages)
    BY DEF TypeOK
  <2>2. FlushBuffer(b, down[b], <<>>) /\ UNCHANGED <<cursor, upto>>
    BY <1>6 DEF FlushTimer, FlushBuffer
  <2>. QED
    BY <1>6, <2>1, <2>2, FlushType DEF FlushTimer, TypeOK
<1>7. ASSUME NEW b \in Brokers, PauseEnds(b) PROVE TypeOK'
  BY <1>7 DEF PauseEnds, TypeOK
<1>8. ASSUME NEW b \in Brokers, ConnectOpens(b) PROVE TypeOK'
  <2>1. <<[type |-> "hello"]>> \in Seq(Messages)
    BY DEF Messages
  <2>2. down' \in [Brokers -> Seq(Messages)]
    BY <1>8, <2>1 DEF ConnectOpens, TypeOK
  <2>. QED
    BY <1>8, <2>2 DEF ConnectOpens, TypeOK
<1>9. ASSUME NEW b \in Brokers, NEW state \in {"CONNECTING", "DISCONNECTED"},
             ConnectFails(b, state)
      PROVE  TypeOK'
  BY <1>9 DEF ConnectFails, TypeOK
<1>10. ASSUME NEW b \in Brokers, NodeIdTaken(b) PROVE TypeOK'
  BY <1>10 DEF NodeIdTaken, TypeOK
<1>11. ASSUME NEW b \in Brokers, SocketDies(b) PROVE TypeOK'
  <2>1. [type |-> "peer_left", peer |-> b] \in Messages
    BY DEF Messages
  <2>2. <<[type |-> "peer_left", peer |-> b]>> \in Seq(Messages) /\ <<>> \in Seq(Messages)
    BY <2>1
  <2>3. down' \in [Brokers -> Seq(Messages)]
    BY <1>11, <2>2, PassType DEF SocketDies
  <2>4. faults' \in Nat
    BY <1>11 DEF SocketDies, TypeOK
  <2>. QED
    BY <1>11, <2>3, <2>4 DEF SocketDies, TypeOK
<1>12. ASSUME NEW b \in Brokers, OnClose(b) PROVE TypeOK'
  BY <1>12 DEF OnClose, TypeOK
<1>13. ASSUME NEW b \in Brokers, NEW type \in {"rate_warning", "draining"},
              RelaySays(b, type)
       PROVE  TypeOK'
  <2>1. [type |-> type] \in Messages
    BY DEF Messages
  <2>2. down' \in [Brokers -> Seq(Messages)]
    BY <1>13, <2>1 DEF RelaySays, TypeOK
  <2>. QED
    BY <1>13, <2>2 DEF RelaySays, TypeOK
<1>14. ASSUME NEW b \in Brokers, ReceiveHello(b) PROVE TypeOK'
  <2>1. [type |-> "sync_request"] \in Messages
    BY DEF Messages
  <2>2. <<[type |-> "sync_request"]>> \in Seq(Messages)
    BY <2>1
  <2>3. Tail(down[b]) \in Seq(Messages)
    BY <1>14, GotType DEF ReceiveHello
  <2>4. /\ FlushBuffer(b, Tail(down[b]), <<[type |-> "sync_request"]>>)
        /\ UNCHANGED <<cursor, upto>>
    BY <1>14 DEF ReceiveHello, FlushBuffer
  <2>5. /\ buffer' \in [Brokers -> Seq(Intents)]
        /\ flushing' \in [Brokers -> BOOLEAN]
        /\ down' \in [Brokers -> Seq(Messages)]
        /\ sent' \subseteq Intents /\ lost' \subseteq Intents
    BY <2>2, <2>3, <2>4, FlushType
  <2>. QED
    BY <1>14, <2>4, <2>5 DEF ReceiveHello, TypeOK
<1>15. ASSUME NEW b \in Brokers, ReceiveRateWarning(b) PROVE TypeOK'
  BY <1>15, GotType DEF ReceiveRateWarning, TypeOK
<1>16. ASSUME NEW b \in Brokers, ReceiveDraining(b) PROVE TypeOK'
  BY <1>16, GotType DEF ReceiveDraining, TypeOK
<1>17. ASSUME NEW b \in Brokers, ReceiveSyncRequest(b) PROVE TypeOK'
  <2>1. PICK events \in SUBSET Intents :
          Pass(b, Tail(down[b]), <<[type |-> "sync_response", events |-> events]>>)
    <3>. DEFINE scanned == First(log[b], SyncScan)
                mine    == {i \in {e.intent : e \in Range(scanned)} : FromHere(b, i)}
    <3>1. scanned \in Seq(Entries)
      BY Firsts, LimitsType DEF TypeOK
    <3>2. \A e \in Range(scanned) : e.intent \in Intents
      BY <3>1, Elements DEF Entries
    <3>3. mine \subseteq Intents
      BY <3>2
    <3>. QED
      BY <1>17, <3>3 DEF ReceiveSyncRequest
  <2>2. [type |-> "sync_response", events |-> events] \in Messages
    BY DEF Messages
  <2>3. <<[type |-> "sync_response", events |-> events]>> \in Seq(Messages)
    BY <2>2
  <2>4. Tail(down[b]) \in Seq(Messages)
    BY <1>17, GotType DEF ReceiveSyncRequest
  <2>5. down' \in [Brokers -> Seq(Messages)]
    BY <2>1, <2>3, <2>4, PassType
  <2>. QED
    BY <1>17, <2>5 DEF ReceiveSyncRequest, TypeOK
<1>18. ASSUME NEW b \in Brokers, ReceiveSyncResponse(b) PROVE TypeOK'
  <2>1. Head(down[b]).events \in SUBSET Intents /\ Tail(down[b]) \in Seq(Messages)
    BY <1>18, GotType, MessageParts DEF ReceiveSyncResponse
  <2>. QED
    BY <1>18, <2>1 DEF ReceiveSyncResponse, TypeOK
<1>19. ASSUME NEW b \in Brokers, ContinueSync(b) PROVE TypeOK'
  <2>1. PICK i \in work[b] :
          /\ HandleRemoteEvent(b, i)
          /\ work' = [work EXCEPT ![b] = @ \ {i}]
          /\ UNCHANGED <<socketVars, outVars, leaving, boundVars, live, polling,
                         paused, down>>
    BY <1>19 DEF ContinueSync
  <2>2. i \in Intents
    BY DEF TypeOK
  <2>. QED
    BY <2>1, <2>2, HandleType DEF TypeOK
<1>20. ASSUME NEW b \in Brokers, ReceiveEvent(b) PROVE TypeOK'
  <2>1. Head(down[b]).intent \in Intents /\ Tail(down[b]) \in Seq(Messages)
    BY <1>20, GotType, MessageParts DEF ReceiveEvent
  <2>. QED
    BY <1>20, <2>1, HandleType DEF ReceiveEvent, TypeOK
<1>21. ASSUME NEW b \in Brokers, ReceivePeerLeft(b) PROVE TypeOK'
  <2>1. Tail(down[b]) \in Seq(Messages)
    BY <1>21, GotType DEF ReceivePeerLeft
  <2>2. GuestsOf(b, Head(down[b]).peer) \subseteq Agents
    BY DEF GuestsOf, Registered
  <2>. QED
    BY <1>21, <2>1, <2>2 DEF ReceivePeerLeft, TypeOK
<1>22. ASSUME NEW b \in Brokers, PutOffline(b) PROVE TypeOK'
  <2>1. PICK p \in leaving[b] :
          /\ Offline(b, log[b], p, TRUE)
          /\ leaving' = [leaving EXCEPT ![b] = @ \ {p}]
          /\ UNCHANGED <<socketVars, outVars, seen, nodes, work, boundVars, live,
                         polling, paused, down>>
    BY <1>22 DEF PutOffline
  <2>2. p \in Agents /\ log[b] \in Seq(Entries)
    BY DEF TypeOK
  <2>. QED
    BY <2>1, <2>2, OfflineType DEF TypeOK
<1>23. ASSUME NEW b \in Brokers, BrokerDies(b) \/ Throw(b) PROVE TypeOK'
  <2>1. Die(b) /\ faults' \in Nat
    BY <1>23 DEF BrokerDies, Throw, TypeOK
  <2>. QED
    BY <2>1, DieType
<1>24. ASSUME NEW b \in Brokers, BrokerStarts(b) PROVE TypeOK'
  <2>1. Len(log[b]) \in Nat
    BY DEF TypeOK
  <2>. QED
    BY <1>24, <2>1 DEF BrokerStarts, TypeOK
<1>25. CASE UNCHANGED vars
  BY <1>25 DEF vars, TypeOK
<1>26. ASSUME NEW b \in Brokers, Handlers(b) PROVE TypeOK'
  BY <1>26, <1>4, <1>5, <1>6, <1>7, <1>8, <1>12, <1>14, <1>15, <1>16, <1>17,
     <1>18, <1>19, <1>20, <1>21, <1>22 DEF Handlers
<1>27. ASSUME Next PROVE TypeOK'
  <2>1. PICK b \in Brokers : Moves(b)
    BY <1>27, NextCases
  <2>. QED
    BY <2>1, <1>1, <1>2, <1>3, <1>9, <1>10, <1>11, <1>13, <1>23, <1>24, <1>26
       DEF Moves
<1>. QED
  BY <1>25, <1>27

-----------------------------------------------------------------------------
(* How logs grow *)

\* Log k extends log l of b by events of b's own.
Extends(b, l, k) ==
  /\ Len(l) <= Len(k)
  /\ \A n \in 1..Len(l) : k[n] = l[n]
  /\ \A n \in Len(l) + 1..Len(k) : k[n].intent.origin = b /\ k[n].intent.seq = n

\* What b's running or next handler may put into its log.
Incoming(b) ==
  work[b] \cup {m.intent : m \in {d \in Range(down[b]) : d.type = "event"}}

LEMMA ExtendsSame ==
  ASSUME NEW b, NEW l \in Seq(Entries)
  PROVE  Extends(b, l, l)
BY DEF Extends

LEMMA ExtendsAgain ==
  ASSUME NEW b, NEW j \in Seq(Entries), NEW l \in Seq(Entries), NEW k \in Seq(Entries),
         Extends(b, j, l), Extends(b, l, k)
  PROVE  Extends(b, j, k)
<1>1. Len(j) \in Nat /\ Len(l) \in Nat /\ Len(k) \in Nat
  OBVIOUS
<1>2. \A n \in Len(j) + 1..Len(k) : k[n].intent.origin = b /\ k[n].intent.seq = n
  <2>. TAKE n \in Len(j) + 1..Len(k)
  <2>1. CASE n \in Len(j) + 1..Len(l)
    BY <1>1, <2>1 DEF Extends
  <2>2. CASE n \in Len(l) + 1..Len(k)
    BY <2>2 DEF Extends
  <2>. QED
    BY <1>1, <2>1, <2>2
<1>. QED
  BY <1>1, <1>2, SMTT(20) DEF Extends

LEMMA ExtendsByOne ==
  ASSUME NEW b \in Brokers, NEW l \in Seq(Entries), NEW p \in Agents,
         NEW kind \in {"talk", "sync", "removed", "presence"},
         NEW status \in {"online", "offline"}, NEW targets \in SUBSET Agents,
         NEW to \in SUBSET Agents
  PROVE  LET e == [intent |-> Own(b, l, kind, p, status, targets), to |-> to]
         IN  Append(l, e) \in Seq(Entries) /\ Extends(b, l, Append(l, e))
<1>. DEFINE e == [intent |-> Own(b, l, kind, p, status, targets), to |-> to]
<1>1. e \in Entries
  BY OwnType DEF Entries
<1>2. e.intent.origin = b /\ e.intent.seq = Len(l) + 1
  BY DEF Own
<1>3. /\ Append(l, e) \in Seq(Entries) /\ Len(Append(l, e)) = Len(l) + 1
      /\ \A n \in 1..Len(l) : Append(l, e)[n] = l[n]
      /\ Append(l, e)[Len(l) + 1] = e
  BY <1>1, AppendProperties
<1>4. Len(l) \in Nat /\ \A n \in Len(l) + 1..Len(l) + 1 : n = Len(l) + 1
  OBVIOUS
<1>. QED
  BY <1>2, <1>3, <1>4 DEF Extends

LEMMA NewsExtends ==
  ASSUME NEW b \in Brokers, NEW l \in Seq(Entries), NEW p \in Agents,
         NEW status \in {"online", "offline"}, NEW all \in SUBSET Agents
  PROVE  Extends(b, l, News(b, l, p, status, all))
<1>. DEFINE e == [intent |-> Own(b, l, "presence", p, status, {}), to |-> all \ {p}]
<1>1. Extends(b, l, Append(l, e))
  BY ExtendsByOne
<1>2. News(b, l, p, status, all) \in {l, Append(l, e)}
  BY DEF News
<1>. QED
  BY <1>1, <1>2, ExtendsSame

LEMMA OnlineExtends ==
  ASSUME TypeOK, NEW b \in Brokers, NEW l \in Seq(Entries), NEW p \in Agents,
         NEW origin, Online(b, l, p, origin)
  PROVE  \E k \in Seq(Entries) :
           log' = [log EXCEPT ![b] = k] /\ Extends(b, l, k)
<1>1. Registered(b) \cup {p} \in SUBSET Agents
  BY DEF Registered
<1>. QED
  BY <1>1, NewsType, NewsExtends DEF Online

LEMMA OfflineExtends ==
  ASSUME TypeOK, NEW b \in Brokers, NEW l \in Seq(Entries), NEW p \in Agents,
         NEW prune \in BOOLEAN, Offline(b, l, p, prune)
  PROVE  \E k \in Seq(Entries) :
           log' = [log EXCEPT ![b] = k] /\ Extends(b, l, k)
<1>. DEFINE told == News(b, l, p, "offline", Registered(b))
            gone == [intent |-> Own(b, told, "removed", p, "offline", {}),
                     to |-> Registered(b)]
<1>1. Registered(b) \in SUBSET Agents
  BY DEF Registered
<1>2. told \in Seq(Entries) /\ Extends(b, l, told)
  BY <1>1, NewsType, NewsExtends
<1>3. Append(told, gone) \in Seq(Entries) /\ Extends(b, told, Append(told, gone))
  BY <1>1, <1>2, ExtendsByOne
<1>4. Extends(b, l, Append(told, gone))
  BY <1>2, <1>3, ExtendsAgain
<1>5. \/ log' = [log EXCEPT ![b] = told]
      \/ log' = [log EXCEPT ![b] = Append(told, gone)]
  BY DEF Offline
<1>. QED
  BY <1>2, <1>3, <1>4, <1>5

LEMMA HandleExtends ==
  ASSUME TypeOK, NEW b \in Brokers, NEW i \in Intents, HandleRemoteEvent(b, i)
  PROVE  /\ log' \in [Brokers -> Seq(Entries)]
         /\ \A c \in Brokers \ {b} : log'[c] = log[c]
         /\ Extends(b, log[b], log'[b]) \/ Extends(b, Record(b, i), log'[b])
<1>1. log \in [Brokers -> Seq(Entries)] /\ log[b] \in Seq(Entries)
      /\ Record(b, i) \in Seq(Entries)
  BY RecordType DEF TypeOK
<1>2. i.who \in Agents
  BY IntentParts
<1>3. CASE UNCHANGED brokerVars
  BY <1>1, <1>3, ExtendsSame DEF brokerVars
<1>4. CASE log' = [log EXCEPT ![b] = Record(b, i)]
  BY <1>1, <1>4, ExtendsSame
<1>5. CASE Online(b, Record(b, i), i.who, i.origin)
  BY <1>1, <1>2, <1>5, OnlineExtends
<1>6. CASE Offline(b, Record(b, i), i.who, guest[b][i.who] # Nobody)
  <2>. DEFINE prune == guest[b][i.who] # Nobody
  <2>1. prune \in BOOLEAN /\ Offline(b, Record(b, i), i.who, prune)
    BY <1>6
  <2>. HIDE DEF prune
  <2>2. PICK k \in Seq(Entries) :
          log' = [log EXCEPT ![b] = k] /\ Extends(b, Record(b, i), k)
    BY <1>1, <1>2, <2>1, OfflineExtends
  <2>. QED
    BY <1>1, <2>2
<1>. QED
  BY <1>3, <1>4, <1>5, <1>6 DEF HandleRemoteEvent

LEMMA LogStep ==
  ASSUME TypeOK, [Next]_vars, NEW c \in Brokers
  PROVE  \/ Extends(c, log[c], log'[c])
         \/ \E i \in Incoming(c) : i \in Intents /\ Extends(c, Record(c, i), log'[c])
<1>. DEFINE Goal == \/ Extends(c, log[c], log'[c])
                    \/ \E i \in Incoming(c) :
                         i \in Intents /\ Extends(c, Record(c, i), log'[c])
<1>. USE DEF brokerVars
<1>1. log \in [Brokers -> Seq(Entries)] /\ log[c] \in Seq(Entries)
  BY DEF TypeOK
<1>2. CASE log' = log
  BY <1>1, <1>2, ExtendsSame
<1>3. ASSUME NEW b \in Brokers, NEW k \in Seq(Entries),
             log' = [log EXCEPT ![b] = k], Extends(b, log[b], k)
      PROVE  Goal
  BY <1>1, <1>3, ExtendsSame
<1>4. ASSUME NEW b \in Brokers, NEW p \in Active, Register(b, p) PROVE Goal
  BY <1>1, <1>3, <1>4, OnlineExtends, EarlyType DEF Register
<1>5. ASSUME NEW b \in Brokers, NEW p \in Active, NEW forGood \in BOOLEAN,
             Leave(b, p, forGood)
      PROVE  Goal
  BY <1>1, <1>3, <1>5, OfflineExtends, EarlyType DEF Leave
<1>6. ASSUME NEW b \in Brokers, NEW p \in Active, NEW kind \in {"talk", "sync"},
             NEW t \in SUBSET Agents, Talk(b, p, kind, t)
      PROVE  Goal
  <2>. DEFINE to == (IF t = {} THEN Registered(b) ELSE t) \ {p}
              e == [intent |-> Own(b, log[b], kind, p, "online", t), to |-> to]
  <2>1. to \in SUBSET Agents /\ p \in Agents
    BY EarlyType DEF Registered
  <2>2. log' = [log EXCEPT ![b] = Append(log[b], e)]
    BY <1>6 DEF Talk
  <2>3. /\ Append(log[b], e) \in Seq(Entries)
        /\ Extends(b, log[b], Append(log[b], e))
    BY <1>1, <2>1, ExtendsByOne
  <2>. QED
    BY <1>3, <2>2, <2>3
<1>7. ASSUME NEW b \in Brokers, ReceiveEvent(b) PROVE Goal
  <2>. DEFINE i == Head(down[b]).intent
  <2>1. i \in Intents /\ HandleRemoteEvent(b, i)
    BY <1>7, GotType, MessageParts DEF ReceiveEvent
  <2>2. i \in Incoming(b)
    <3>1. down[b] \in Seq(Messages) /\ down[b] # <<>> /\ Head(down[b]).type = "event"
      BY <1>7 DEF ReceiveEvent, Got, TypeOK
    <3>2. Head(down[b]) \in Range(down[b])
      BY <3>1 DEF Range
    <3>. QED
      BY <3>1, <3>2 DEF Incoming
  <2>. QED
    BY <1>1, <2>1, <2>2, HandleExtends, ExtendsSame
<1>8. ASSUME NEW b \in Brokers, ContinueSync(b) PROVE Goal
  <2>1. PICK i \in work[b] : HandleRemoteEvent(b, i)
    BY <1>8 DEF ContinueSync
  <2>2. i \in Intents /\ i \in Incoming(b)
    BY DEF TypeOK, Incoming
  <2>. QED
    BY <1>1, <2>1, <2>2, HandleExtends, ExtendsSame
<1>9. ASSUME NEW b \in Brokers, PutOffline(b) PROVE Goal
  <2>1. PICK p \in leaving[b] : Offline(b, log[b], p, TRUE)
    BY <1>9 DEF PutOffline
  <2>2. p \in Agents
    BY DEF TypeOK
  <2>. QED
    BY <1>1, <1>3, <2>1, <2>2, OfflineExtends
<1>10. ASSUME NEW b \in Brokers, Handlers(b) PROVE Goal
  <2>1. log' = log \/ ReceiveEvent(b) \/ ContinueSync(b) \/ PutOffline(b)
    BY <1>10 DEF Handlers, Poll, ForwardNext, FlushTimer, PauseEnds, ConnectOpens,
       OnClose, ReceiveHello, ReceiveRateWarning, ReceiveDraining,
       ReceiveSyncRequest, ReceiveSyncResponse, ReceivePeerLeft
  <2>. QED
    BY <2>1, <1>2, <1>7, <1>8, <1>9
<1>11. ASSUME NEW b \in Brokers, Moves(b) PROVE Goal
  <2>1. \/ log' = log \/ Handlers(b)
        \/ \E p \in Active, forGood \in BOOLEAN : Leave(b, p, forGood)
        \/ \E p \in Active, kind \in {"talk", "sync"}, t \in SUBSET Agents :
             Talk(b, p, kind, t)
        \/ \E p \in Active : Register(b, p)
    BY <1>11 DEF Moves, Throw, BrokerDies, Die, BrokerStarts, NodeIdTaken,
       SocketDies, ConnectFails, RelaySays
  <2>. QED
    BY <2>1, <1>2, <1>4, <1>5, <1>6, <1>10
<1>12. CASE UNCHANGED vars
  BY <1>2, <1>12 DEF vars
<1>. QED
  BY <1>11, <1>12, NextCases

\* Nothing that is in a log changes its place or goes away.
LEMMA LogKept ==
  ASSUME TypeOK, TypeOK', [Next]_vars, NEW c \in Brokers
  PROVE  /\ Len(log[c]) <= Len(log'[c])
         /\ \A n \in 1..Len(log[c]) : log'[c][n] = log[c][n]
<1>1. log[c] \in Seq(Entries) /\ log'[c] \in Seq(Entries)
  BY DEF TypeOK
<1>2. ASSUME NEW i \in Intents
      PROVE  /\ Record(c, i) \in Seq(Entries)
             /\ Len(log[c]) <= Len(Record(c, i))
             /\ \A n \in 1..Len(log[c]) : Record(c, i)[n] = log[c][n]
  <2>1. Record(c, i) \in Seq(Entries)
    BY RecordType
  <2>2. [intent |-> i, to |-> Recipients(c, i)] \in Entries
    BY DEF Entries, Recipients, Registered, Intents
  <2>. QED
    BY <1>1, <2>1, <2>2, AppendProperties DEF Record
<1>3. Len(log[c]) \in Nat /\ Len(log'[c]) \in Nat
  BY <1>1
<1>4. CASE Extends(c, log[c], log'[c])
  BY <1>4 DEF Extends
<1>5. ASSUME NEW i \in Intents, Extends(c, Record(c, i), log'[c])
      PROVE  /\ Len(log[c]) <= Len(log'[c])
             /\ \A n \in 1..Len(log[c]) : log'[c][n] = log[c][n]
  <2>1. Len(Record(c, i)) \in Nat
    BY <1>2
  <2>. QED
    BY <1>2, <1>3, <1>5, <2>1 DEF Extends
<1>. QED
  BY <1>4, <1>5, LogStep

LEMMA CursorStep ==
  ASSUME TypeInv, [Next]_vars, NEW c \in Brokers
  PROVE  cursor'[c] <= Len(log[c]) /\ upto'[c] <= Len(log[c])
<1>. USE DEF outVars
<1>1. /\ Len(log[c]) \in Nat /\ cursor \in [Brokers -> Nat] /\ upto \in [Brokers -> Nat]
      /\ cursor[c] <= Len(log[c]) /\ upto[c] <= Len(log[c])
  BY DEF TypeInv, TypeOK, InLog
<1>2. CASE UNCHANGED <<cursor, upto>>
  BY <1>1, <1>2
<1>3. ASSUME NEW b \in Brokers, Poll(b)
      PROVE  cursor'[c] <= Len(log[c]) /\ upto'[c] <= Len(log[c])
  <2>1. Lesser(cursor[b] + PollLimit, Len(log[b])) <= Len(log[b])
    BY LimitsType DEF Lesser, TypeInv, TypeOK
  <2>. QED
    BY <1>1, <1>3, <2>1 DEF Poll
<1>4. ASSUME NEW b \in Brokers, ForwardNext(b)
      PROVE  cursor'[c] <= Len(log[c]) /\ upto'[c] <= Len(log[c])
  <2>1. /\ cursor[b] + 1 <= upto[b] /\ upto' = upto
        /\ cursor' = [cursor EXCEPT ![b] = cursor[b] + 1]
    BY <1>4 DEF ForwardNext
  <2>. QED
    BY <1>1, <2>1
<1>5. ASSUME NEW b \in Brokers, Die(b)
      PROVE  cursor'[c] <= Len(log[c]) /\ upto'[c] <= Len(log[c])
  BY <1>1, <1>5 DEF Die
<1>6. ASSUME NEW b \in Brokers, BrokerStarts(b)
      PROVE  cursor'[c] <= Len(log[c]) /\ upto'[c] <= Len(log[c])
  BY <1>1, <1>6 DEF BrokerStarts
<1>7. ASSUME NEW b \in Brokers, Handlers(b)
      PROVE  UNCHANGED <<cursor, upto>> \/ Poll(b) \/ ForwardNext(b)
  BY <1>7 DEF Handlers, FlushTimer, FlushBuffer, PauseEnds, ConnectOpens,
     OnClose, ReceiveHello, ReceiveRateWarning, ReceiveDraining,
     ReceiveSyncRequest, ReceiveSyncResponse, ContinueSync, ReceiveEvent,
     ReceivePeerLeft, PutOffline
<1>8. ASSUME NEW b \in Brokers, Moves(b)
      PROVE  UNCHANGED <<cursor, upto>> \/ Handlers(b) \/ Die(b) \/ BrokerStarts(b)
  BY <1>8 DEF Moves, Throw, BrokerDies, NodeIdTaken, SocketDies, ConnectFails,
     RelaySays, Register, Leave, Talk, ByAgent
<1>9. CASE UNCHANGED vars
  BY <1>2, <1>9 DEF vars
<1>. QED
  BY <1>2, <1>3, <1>4, <1>5, <1>6, <1>7, <1>8, <1>9, NextCases

LEMMA TypeInit == Init => TypeInv
BY BoundsType DEF Init, TypeInv, TypeOK, InLog

LEMMA TypeInvStep == TypeInv /\ [Next]_vars => TypeInv'
<1>. SUFFICES ASSUME TypeInv, [Next]_vars PROVE TypeInv'
  OBVIOUS
<1>1. TypeOK /\ TypeOK'
  BY TypeStep DEF TypeInv
<1>2. ASSUME NEW c \in Brokers
      PROVE  cursor'[c] <= Len(log'[c]) /\ upto'[c] <= Len(log'[c])
  <2>1. /\ cursor'[c] \in Nat /\ upto'[c] \in Nat
        /\ Len(log[c]) \in Nat /\ Len(log'[c]) \in Nat
    BY <1>1 DEF TypeOK
  <2>. QED
    BY <1>1, <2>1, CursorStep, LogKept
<1>. QED
  BY <1>1, <1>2 DEF TypeInv, InLog

LEMMA TypeInvariant == Spec => []TypeInv
BY TypeInit, TypeInvStep, PTL DEF Spec

\* All variables keep their types, for any brokers, agents and limits.
THEOREM TypeCorrect == Spec => []TypeOK
<1>1. TypeInv => TypeOK
  BY DEF TypeInv
<1>. QED
  BY <1>1, TypeInvariant, PTL

-----------------------------------------------------------------------------
(* The way out *)

Batch(b) == First(buffer[b], FlushBatch)

\* flushBuffer that sends, and that finds the socket closed.
FlushSends(b) ==
  /\ ~paused[b]
  /\ buffer' = [buffer EXCEPT ![b] = Left(b, Len(Batch(b)))]
  /\ sent' = sent \cup Range(Batch(b))
  /\ UNCHANGED <<cursor, lost>>
FlushGivesUp(b) ==
  /\ buffer' = [buffer EXCEPT ![b] = PutBack(b, Batch(b))]
  /\ lost' = lost \cup Range(SubSeq(Batch(b), 2, Len(Batch(b))))
  /\ UNCHANGED <<cursor, sent>>

\* What a step does to the cursor, the buffer and the record of what was sent.
LEMMA OutStep ==
  ASSUME [Next]_vars
  PROVE  \/ UNCHANGED <<cursor, buffer, sent, lost, live>>
         \/ \E b \in Brokers :
              \/ ForwardNext(b)
              \/ (FlushSends(b) \/ FlushGivesUp(b)) /\ UNCHANGED live
              \/ Die(b) \/ BrokerStarts(b)
<1>. DEFINE Kept == UNCHANGED <<cursor, buffer, sent, lost, live>>
<1>. USE DEF outVars
<1>1. ASSUME NEW b \in Brokers, NEW rest, NEW more, FlushBuffer(b, rest, more)
      PROVE  UNCHANGED <<cursor, buffer, sent, lost>> \/ FlushSends(b) \/ FlushGivesUp(b)
  BY <1>1 DEF FlushBuffer, FlushSends, FlushGivesUp, Batch, Paused
<1>2. ASSUME NEW b \in Brokers, FlushTimer(b)
      PROVE  Kept \/ ((FlushSends(b) \/ FlushGivesUp(b)) /\ UNCHANGED live)
  <2>1. FlushBuffer(b, down[b], <<>>) /\ UNCHANGED live
    BY <1>2 DEF FlushTimer
  <2>. QED
    BY <2>1, <1>1
<1>3. ASSUME NEW b \in Brokers, ReceiveHello(b)
      PROVE  Kept \/ ((FlushSends(b) \/ FlushGivesUp(b)) /\ UNCHANGED live)
  <2>1. /\ FlushBuffer(b, Tail(down[b]), <<[type |-> "sync_request"]>>)
        /\ UNCHANGED live
    BY <1>3 DEF ReceiveHello
  <2>. QED
    BY <2>1, <1>1
<1>4. ASSUME NEW b \in Brokers, Handlers(b)
      PROVE  Kept \/ ForwardNext(b) \/ FlushTimer(b) \/ ReceiveHello(b)
  BY <1>4 DEF Handlers, Poll, PauseEnds, ConnectOpens, OnClose,
     ReceiveRateWarning, ReceiveDraining, ReceiveSyncRequest,
     ReceiveSyncResponse, ContinueSync, ReceiveEvent, ReceivePeerLeft, PutOffline
<1>5. ASSUME NEW b \in Brokers, Moves(b)
      PROVE  Kept \/ Handlers(b) \/ Die(b) \/ BrokerStarts(b)
  BY <1>5 DEF Moves, Throw, BrokerDies, NodeIdTaken, SocketDies, ConnectFails,
     RelaySays, Register, Leave, Talk, ByAgent
<1>6. CASE UNCHANGED vars
  BY <1>6 DEF vars
<1>. QED
  BY <1>2, <1>3, <1>4, <1>5, <1>6, NextCases

LEMMA BatchParts ==
  ASSUME TypeOK, NEW b \in Brokers
  PROVE  /\ buffer[b] \in Seq(Intents) /\ Len(buffer[b]) \in Nat
         /\ Batch(b) \in Seq(Intents) /\ Len(Batch(b)) \in 0..Len(buffer[b])
         /\ \A k \in 1..Len(Batch(b)) : Batch(b)[k] = buffer[b][k]
         /\ Left(b, Len(Batch(b))) \in Seq(Intents)
         /\ Len(Left(b, Len(Batch(b)))) = Len(buffer[b]) - Len(Batch(b))
         /\ \A k \in 1..Len(buffer[b]) - Len(Batch(b)) :
              Left(b, Len(Batch(b)))[k] = buffer[b][Len(Batch(b)) + k]
<1>1. buffer[b] \in Seq(Intents) /\ Len(buffer[b]) \in Nat /\ FlushBatch \in Nat
  BY LimitsType DEF TypeOK
<1>2. Lesser(FlushBatch, Len(buffer[b])) \in 0..Len(buffer[b])
  BY <1>1 DEF Lesser
<1>3. /\ Batch(b) \in Seq(Intents) /\ Len(Batch(b)) \in 0..Len(buffer[b])
      /\ \A k \in 1..Len(Batch(b)) : Batch(b)[k] = buffer[b][k]
  BY <1>1, <1>2, Firsts DEF Batch
<1>4. Len(Batch(b)) \in Nat
  BY <1>3
<1>5. /\ Left(b, Len(Batch(b))) \in Seq(Intents)
      /\ Len(Left(b, Len(Batch(b)))) =
           IF Len(Batch(b)) <= Len(buffer[b]) THEN Len(buffer[b]) - Len(Batch(b)) ELSE 0
      /\ \A k \in 1..Len(buffer[b]) - Len(Batch(b)) :
           Left(b, Len(Batch(b)))[k] = buffer[b][Len(Batch(b)) + k]
  BY <1>1, <1>4, Lefts
<1>. QED
  BY <1>1, <1>3, <1>5

LEMMA PutBackParts ==
  ASSUME TypeOK, NEW b \in Brokers
  PROVE  /\ PutBack(b, Batch(b)) \in Seq(Intents)
         /\ Len(PutBack(b, Batch(b))) <= Len(buffer[b])
         /\ Range(PutBack(b, Batch(b))) \subseteq Range(buffer[b])
         /\ \A k \in 1..Len(PutBack(b, Batch(b))) :
              PutBack(b, Batch(b))[k] =
                IF k = 1 /\ Len(Batch(b)) > 0 THEN buffer[b][1]
                ELSE IF Len(Batch(b)) > 0 THEN buffer[b][Len(Batch(b)) + k - 1]
                ELSE buffer[b][k]
<1>. DEFINE left == Left(b, Len(Batch(b)))
            one  == First(Batch(b), 1)
            m == Len(Batch(b))
            size == Len(buffer[b])
<1>1. /\ m \in 0..size /\ size \in Nat /\ Len(left) = size - m
      /\ left \in Seq(Intents)
      /\ \A k \in 1..m : Batch(b)[k] = buffer[b][k]
      /\ \A k \in 1..size - m : left[k] = buffer[b][m + k]
  BY BatchParts
<1>2. /\ one \in Seq(Intents) /\ Len(one) = Lesser(1, m)
      /\ \A k \in 1..Lesser(1, m) : one[k] = Batch(b)[k]
  BY BatchParts, Firsts
<1>3. /\ PutBack(b, Batch(b)) \in Seq(Intents)
      /\ Len(PutBack(b, Batch(b))) = Len(one) + Len(left)
      /\ \A k \in 1..Len(one) + Len(left) : PutBack(b, Batch(b))[k] =
           IF k <= Len(one) THEN one[k] ELSE left[k - Len(one)]
  BY <1>1, <1>2, ConcatProperties DEF PutBack
<1>. HIDE DEF left, one, m, size
<1>4. Len(one) = IF m > 0 THEN 1 ELSE 0
  BY <1>1, <1>2 DEF Lesser
<1>5. Len(PutBack(b, Batch(b))) <= size
  BY <1>1, <1>3, <1>4
<1>6. ASSUME NEW k \in 1..Len(PutBack(b, Batch(b)))
      PROVE  PutBack(b, Batch(b))[k] =
               IF k = 1 /\ m > 0 THEN buffer[b][1]
               ELSE IF m > 0 THEN buffer[b][m + k - 1] ELSE buffer[b][k]
  <2>1. CASE m = 0
    <3>1. k \in 1..size - m /\ k - Len(one) = k /\ m + k = k
      BY <2>1, <1>1, <1>3, <1>4
    <3>2. PutBack(b, Batch(b))[k] = left[k]
      BY <2>1, <3>1, <1>1, <1>3, <1>4
    <3>. QED
      BY <2>1, <3>1, <3>2, <1>1
  <2>2. CASE m > 0 /\ k = 1
    <3>1. PutBack(b, Batch(b))[1] = one[1] /\ 1 \in 1..m /\ 1 \in 1..Lesser(1, m)
      BY <2>2, <1>1, <1>2, <1>3, <1>4 DEF Lesser
    <3>. QED
      BY <2>2, <3>1, <1>1, <1>2
  <2>3. CASE m > 0 /\ k # 1
    <3>1. k - 1 \in 1..size - m /\ m + (k - 1) = m + k - 1
      BY <2>3, <1>1, <1>3, <1>4
    <3>2. PutBack(b, Batch(b))[k] = left[k - 1]
      BY <2>3, <1>1, <1>3, <1>4
    <3>3. left[k - 1] = buffer[b][m + (k - 1)]
      BY <3>1, <1>1
    <3>. QED
      BY <2>3, <3>1, <3>2, <3>3
  <2>. QED
    BY <2>1, <2>2, <2>3, <1>1
<1>7. Range(PutBack(b, Batch(b))) \subseteq Range(buffer[b])
  <2>1. /\ DOMAIN buffer[b] = 1..size
        /\ DOMAIN PutBack(b, Batch(b)) = 1..Len(PutBack(b, Batch(b)))
    BY <1>3, BatchParts, LenProperties DEF size
  <2>2. ASSUME NEW k \in 1..Len(PutBack(b, Batch(b)))
        PROVE  PutBack(b, Batch(b))[k] \in Range(buffer[b])
    <3>1. \E j \in 1..size : PutBack(b, Batch(b))[k] = buffer[b][j]
      <4>1. CASE m = 0
        BY <4>1, <1>1, <1>5, <1>6
      <4>2. CASE m > 0 /\ k = 1
        BY <4>2, <1>1, <1>6
      <4>3. CASE m > 0 /\ k # 1
        <5>1. m + k - 1 \in 1..size
          BY <4>3, <1>1, <1>3, <1>4
        <5>. QED
          BY <4>3, <5>1, <1>6
      <4>. QED
        BY <1>1, <4>1, <4>2, <4>3
    <3>. QED
      BY <2>1, <3>1 DEF Range
  <2>. QED
    BY <2>1, <2>2 DEF Range
<1>. QED
  BY <1>3, <1>5, <1>6, <1>7 DEF m, size

LEMMA PutBackLength ==
  ASSUME TypeOK, NEW b \in Brokers
  PROVE  Len(PutBack(b, Batch(b))) =
           IF Len(Batch(b)) > 0 THEN Len(buffer[b]) - Len(Batch(b)) + 1
           ELSE Len(buffer[b])
<1>. DEFINE left == Left(b, Len(Batch(b)))
            one  == First(Batch(b), 1)
            back == PutBack(b, Batch(b))
            m    == Len(Batch(b))
            size == Len(buffer[b])
<1>1. /\ m \in 0..size /\ size \in Nat
      /\ left \in Seq(Intents) /\ Len(left) = size - m
  BY BatchParts
<1>2. one \in Seq(Intents) /\ Len(one) = Lesser(1, m)
  BY BatchParts, Firsts
<1>3. Len(back) = Len(one) + Len(left)
  BY <1>1, <1>2, ConcatProperties DEF PutBack
<1>. HIDE DEF left, one, back, m, size
<1>4. Len(one) = IF m > 0 THEN 1 ELSE 0
  BY <1>1, <1>2 DEF Lesser
<1>5. Len(back) = IF m > 0 THEN size - m + 1 ELSE size
  BY <1>1, <1>3, <1>4
<1>. QED
  BY <1>5 DEF back, m, size

LEMMA BoundedStep == TypeInv /\ BufferBounded /\ [Next]_vars => BufferBounded'
<1>. SUFFICES ASSUME TypeOK, BufferBounded, [Next]_vars, NEW c \in Brokers
     PROVE  Len(buffer'[c]) <= MaxBuffer
  BY DEF TypeInv, BufferBounded
<1>. USE DEF outVars
<1>1. /\ Len(buffer[c]) <= MaxBuffer /\ Len(buffer[c]) \in Nat /\ MaxBuffer \in Nat
      /\ buffer \in [Brokers -> Seq(Intents)]
  BY LimitsType DEF BufferBounded, TypeOK
<1>2. CASE buffer' = buffer
  BY <1>1, <1>2
<1>3. ASSUME NEW b \in Brokers, ForwardNext(b) PROVE Len(buffer'[c]) <= MaxBuffer
  <2>1. \/ buffer' = buffer
        \/ /\ Len(buffer[b]) < MaxBuffer
           /\ buffer' = [buffer EXCEPT ![b] = Append(@, Envelope(b, cursor[b] + 1))]
    BY <1>3 DEF ForwardNext, RoomInBuffer
  <2>2. Len(Append(buffer[b], Envelope(b, cursor[b] + 1))) = Len(buffer[b]) + 1
    BY <1>1
  <2>. QED
    BY <1>1, <2>1, <2>2
<1>4. ASSUME NEW b \in Brokers, FlushSends(b) \/ FlushGivesUp(b)
      PROVE  Len(buffer'[c]) <= MaxBuffer
  <2>1. /\ Len(Left(b, Len(Batch(b)))) <= Len(buffer[b])
        /\ Len(PutBack(b, Batch(b))) <= Len(buffer[b])
    BY BatchParts, PutBackParts
  <2>2. /\ Len(Left(b, Len(Batch(b)))) \in Nat
        /\ Len(PutBack(b, Batch(b))) \in Nat
    BY BatchParts, PutBackParts
  <2>3. \/ buffer' = [buffer EXCEPT ![b] = Left(b, Len(Batch(b)))]
        \/ buffer' = [buffer EXCEPT ![b] = PutBack(b, Batch(b))]
    BY <1>4 DEF FlushSends, FlushGivesUp
  <2>. QED
    BY <1>1, <2>1, <2>2, <2>3
<1>5. ASSUME NEW b \in Brokers, Die(b) PROVE Len(buffer'[c]) <= MaxBuffer
  BY <1>1, <1>5 DEF Die
<1>6. ASSUME NEW b \in Brokers, BrokerStarts(b) PROVE buffer' = buffer
  BY <1>6 DEF BrokerStarts
<1>. QED
  BY <1>2, <1>3, <1>4, <1>5, <1>6, OutStep

\* The outbound buffer keeps to its limit, whatever polls and flushes do.
THEOREM Bounded == Spec => []BufferBounded
<1>1. Init => BufferBounded
  BY LimitsType DEF Init, BufferBounded
<1>. QED
  BY <1>1, TypeInvariant, BoundedStep, PTL DEF Spec

-----------------------------------------------------------------------------
(* What is received *)

Recorded(i) ==
  i.seq \in DOMAIN log[i.origin] /\ log[i.origin][i.seq].intent = i

\* What m carries was received before, or is on record where it is sent.
Carried(m) ==
  /\ m.type = "event" => \E d \in Brokers : m.intent \in Received(d)
  /\ m.type = "sync_response" => \E d \in Brokers : m.events \subseteq Received(d)

LEMMA Carry ==
  ASSUME NEW c \in Brokers, NEW m \in Range(down[c])
  PROVE  Carried(m)
BY DEF Carried, Received

LEMMA PassCarries ==
  ASSUME TypeOK, NEW b \in Brokers, NEW rest \in Seq(Messages),
         NEW msgs \in Seq(Messages), Pass(b, rest, msgs),
         \A m \in Range(rest) \cup Range(msgs) : Carried(m)
  PROVE  \A c \in Brokers : \A m \in Range(down'[c]) : Carried(m)
<1>. TAKE c \in Brokers
<1>1. down'[c] \in {rest, down[c], down[c] \o msgs}
  BY DEF Pass
<1>2. Range(down[c] \o msgs) = Range(down[c]) \cup Range(msgs)
  BY RangeConcatenation DEF TypeOK
<1>. QED
  BY <1>1, <1>2, Carry

LEMMA TailRange ==
  ASSUME NEW S, NEW s \in Seq(S), s # <<>>
  PROVE  Range(Tail(s)) \subseteq Range(s) /\ Head(s) \in Range(s)
<1>1. /\ DOMAIN s = 1..Len(s) /\ Len(s) \in Nat \ {0}
      /\ DOMAIN Tail(s) = 1..Len(s) - 1
      /\ \A n \in 1..Len(s) - 1 : Tail(s)[n] = s[n + 1]
      /\ Head(s) = s[1]
  OBVIOUS
<1>2. \A n \in 1..Len(s) - 1 : n + 1 \in DOMAIN s
  BY <1>1
<1>. QED
  BY <1>1, <1>2 DEF Range

LEMMA OneMessage ==
  ASSUME NEW m
  PROVE  Range(<<m>>) = {m} /\ Range(<<>>) = {}
BY DEF Range

LEMMA AppendRange ==
  ASSUME NEW S, NEW s \in Seq(S), NEW e \in S
  PROVE  Range(Append(s, e)) = Range(s) \cup {e}
<1>1. Append(s, e) = s \o <<e>> /\ <<e>> \in Seq(S)
  BY AppendIsConcat
<1>2. Range(s \o <<e>>) = Range(s) \cup Range(<<e>>)
  BY <1>1, RangeConcatenation, SMTT(20)
<1>3. Range(<<e>>) = {e}
  BY OneMessage
<1>. QED
  BY <1>1, <1>2, <1>3

LEMMA FlushCarries ==
  ASSUME TypeOK, NEW b \in Brokers, NEW rest \in Seq(Messages),
         NEW more \in Seq(Messages), FlushBuffer(b, rest, more),
         \A m \in Range(rest) \cup Range(more) : Carried(m)
  PROVE  \A c \in Brokers : \A m \in Range(down'[c]) : Carried(m)
<1>1. Batch(b) \in Seq(Intents) /\ Range(Batch(b)) \subseteq Range(buffer[b])
  <2>1. /\ DOMAIN Batch(b) = 1..Len(Batch(b)) /\ DOMAIN buffer[b] = 1..Len(buffer[b])
    BY BatchParts, LenProperties
  <2>. QED
    BY <2>1, BatchParts DEF Range
<1>2. \A m \in Range(Events(Batch(b))) : Carried(m)
  <2>. TAKE m \in Range(Events(Batch(b)))
  <2>1. PICK n \in DOMAIN Batch(b) : m = Event(Batch(b)[n])
    BY DEF Events, Range
  <2>2. Batch(b)[n] \in Received(b)
    BY <1>1, <2>1 DEF Range, Received
  <2>. QED
    BY <2>1, <2>2 DEF Event, Carried
<1>3. /\ Events(Batch(b)) \in Seq(Messages)
      /\ Events(Batch(b)) \o more \in Seq(Messages)
      /\ Range(Events(Batch(b)) \o more) = Range(Events(Batch(b))) \cup Range(more)
  BY <1>1, EventsType, ConcatProperties, RangeConcatenation
<1>4. CASE down' = down
  BY <1>4, Carry
<1>5. CASE Pass(b, rest, more)
  BY <1>5, PassCarries
<1>6. CASE Pass(b, rest, Events(Batch(b)) \o more)
  BY <1>2, <1>3, <1>6, PassCarries
<1>. QED
  BY <1>4, <1>5, <1>6 DEF FlushBuffer, Batch

\* The event that the poll forwards next.
LEMMA Forwarded ==
  ASSUME TypeInv, NEW b \in Brokers, ForwardNext(b)
  PROVE  LET n == cursor[b] + 1
             i == log[b][n].intent
         IN  /\ n \in DOMAIN log[b] /\ log[b][n] \in Entries
             /\ i \in Intents /\ i \in Received(b)
             /\ FromHere(b, i) => Envelope(b, n) = i /\ i.origin = b
<1>. DEFINE n == cursor[b] + 1
            i == log[b][n].intent
<1>1. n \in 1..Len(log[b]) /\ log[b] \in Seq(Entries)
  BY DEF ForwardNext, TypeInv, InLog, TypeOK
<1>2. n \in DOMAIN log[b] /\ log[b][n] \in Entries
  BY <1>1, ElementOfSeq, LenProperties
<1>3. i \in Intents /\ i \in Received(b)
  BY <1>2, EntryParts DEF Received, Range
<1>4. FromHere(b, i) => Envelope(b, n) = i /\ i.origin = b
  BY <1>3 DEF FromHere, Envelope, Intents
<1>. QED
  BY <1>2, <1>3, <1>4

LEMMA DieCarries ==
  ASSUME TypeOK, NEW b \in Brokers, Die(b)
  PROVE  \A c \in Brokers : \A m \in Range(down'[c]) : Carried(m)
<1>. DEFINE left == [type |-> "peer_left", peer |-> b]
<1>1. left \in Messages /\ Carried(left)
  BY DEF Messages, Carried
<1>2. <<left>> \in Seq(Messages) /\ <<>> \in Seq(Messages)
  BY <1>1
<1>3. Pass(b, <<>>, <<left>>) \/ Pass(b, <<>>, <<>>)
  BY DEF Die
<1>4. Range(<<left>>) = {left} /\ Range(<<>>) = {}
  BY OneMessage
<1>5. CASE Pass(b, <<>>, <<left>>)
  <2>1. \A m \in Range(<<>>) \cup Range(<<left>>) : Carried(m)
    BY <1>1, <1>4
  <2>. QED
    BY <1>2, <1>5, <2>1, PassCarries
<1>6. CASE Pass(b, <<>>, <<>>)
  <2>1. \A m \in Range(<<>>) \cup Range(<<>>) : Carried(m)
    BY <1>4
  <2>. QED
    BY <1>2, <1>6, <2>1, PassCarries
<1>. QED
  BY <1>3, <1>5, <1>6

LEMMA DownStep ==
  ASSUME TypeInv, [Next]_vars
  PROVE  \A c \in Brokers : \A m \in Range(down'[c]) : Carried(m)
<1>. DEFINE Goal == \A c \in Brokers : \A m \in Range(down'[c]) : Carried(m)
<1>1. TypeOK /\ down \in [Brokers -> Seq(Messages)]
  BY DEF TypeInv, TypeOK
<1>2. CASE down' = down
  BY <1>2, Carry
<1>3. ASSUME NEW b \in Brokers, NEW type, Got(b, type)
      PROVE  /\ Tail(down[b]) \in Seq(Messages)
             /\ \A m \in Range(Tail(down[b])) : Carried(m)
  BY <1>1, <1>3, GotType, TailRange, Carry DEF Got
<1>4. ASSUME NEW b \in Brokers, NEW type, Got(b, type),
             down' = [down EXCEPT ![b] = Tail(@)]
      PROVE  Goal
  BY <1>1, <1>3, <1>4, Carry
<1>5. ASSUME NEW type \in {"hello", "sync_request", "rate_warning", "draining"}
      PROVE  /\ [type |-> type] \in Messages /\ Carried([type |-> type])
             /\ <<[type |-> type]>> \in Seq(Messages)
             /\ \A m \in Range(<<[type |-> type]>>) : Carried(m)
  <2>1. [type |-> type] \in Messages /\ Carried([type |-> type])
    BY DEF Messages, Carried
  <2>. QED
    BY <2>1, OneMessage
<1>6. ASSUME NEW b \in Brokers, ForwardNext(b) PROVE Goal
  <2>. DEFINE n == cursor[b] + 1
              i == Envelope(b, n)
  <2>1. CASE Pass(b, down[b], <<Event(i)>>) /\ FromHere(b, log[b][n].intent)
    <3>1. i \in Intents /\ i \in Received(b)
      BY <1>6, <2>1, Forwarded
    <3>2. Event(i) \in Messages /\ Carried(Event(i))
      BY <3>1 DEF Event, Messages, Carried
    <3>3. <<Event(i)>> \in Seq(Messages) /\ Range(<<Event(i)>>) = {Event(i)}
      BY <3>2, OneMessage
    <3>. QED
      BY <1>1, <2>1, <3>2, <3>3, PassCarries, Carry
  <2>. QED
    BY <1>2, <1>6, <2>1 DEF ForwardNext
<1>7. ASSUME NEW b \in Brokers, FlushTimer(b) PROVE Goal
  <2>1. FlushBuffer(b, down[b], <<>>) /\ <<>> \in Seq(Messages)
    BY <1>7 DEF FlushTimer
  <2>. QED
    BY <1>1, <2>1, FlushCarries, Carry, OneMessage
<1>8. ASSUME NEW b \in Brokers, ReceiveHello(b) PROVE Goal
  <2>1. /\ FlushBuffer(b, Tail(down[b]), <<[type |-> "sync_request"]>>)
        /\ Got(b, "hello")
    BY <1>8 DEF ReceiveHello
  <2>. QED
    BY <1>1, <1>3, <1>5, <2>1, FlushCarries
<1>9. ASSUME NEW b \in Brokers, ConnectOpens(b) PROVE Goal
  <2>1. down' = [down EXCEPT ![b] = <<[type |-> "hello"]>>]
    BY <1>9 DEF ConnectOpens
  <2>. QED
    BY <1>1, <1>5, <2>1, Carry
<1>10. ASSUME NEW b \in Brokers, ReceiveSyncRequest(b) PROVE Goal
  <2>. DEFINE scanned == First(log[b], SyncScan)
              mine == {i \in {e.intent : e \in Range(scanned)} : FromHere(b, i)}
  <2>1. PICK events \in SUBSET mine :
          Pass(b, Tail(down[b]), <<[type |-> "sync_response", events |-> events]>>)
    BY <1>10 DEF ReceiveSyncRequest
  <2>. DEFINE answer == [type |-> "sync_response", events |-> events]
  <2>2. scanned \in Seq(Entries) /\ Range(scanned) \subseteq Range(log[b])
    <3>1. log[b] \in Seq(Entries) /\ SyncScan \in Nat
      BY <1>1, LimitsType DEF TypeOK
    <3>2. /\ scanned \in Seq(Entries) /\ Len(scanned) = Lesser(SyncScan, Len(log[b]))
          /\ \A k \in 1..Lesser(SyncScan, Len(log[b])) : scanned[k] = log[b][k]
      BY <3>1, Firsts
    <3>3. Lesser(SyncScan, Len(log[b])) \in 0..Len(log[b])
      BY <3>1 DEF Lesser
    <3>4. DOMAIN scanned = 1..Len(scanned) /\ DOMAIN log[b] = 1..Len(log[b])
      BY <3>1, <3>2, LenProperties
    <3>. QED
      BY <3>2, <3>3, <3>4 DEF Range
  <2>3. events \subseteq {e.intent : e \in Range(log[b])}
    BY <2>2
  <2>4. Range(log[b]) \subseteq Entries
    BY <1>1, Elements DEF TypeOK
  <2>5. {e.intent : e \in Range(log[b])} \subseteq Intents
    BY <2>4, EntryParts
  <2>6. answer \in Messages
    BY <2>3, <2>5 DEF Messages
  <2>7. Carried(answer)
    BY <2>3 DEF Carried, Received
  <2>8. <<answer>> \in Seq(Messages) /\ Range(<<answer>>) = {answer}
    BY <2>6, OneMessage
  <2>9. Got(b, "sync_request")
    BY <1>10 DEF ReceiveSyncRequest
  <2>. QED
    BY <1>1, <1>3, <2>1, <2>7, <2>8, <2>9, PassCarries
<1>11. ASSUME NEW b \in Brokers, Handlers(b) PROVE Goal
  <2>1. \/ down' = down
        \/ ForwardNext(b) \/ FlushTimer(b) \/ ReceiveHello(b) \/ ConnectOpens(b)
        \/ ReceiveSyncRequest(b)
        \/ down' = [down EXCEPT ![b] = Tail(@)] /\ \E type : Got(b, type)
    BY <1>11 DEF Handlers, Poll, PauseEnds, OnClose, ReceiveRateWarning,
       ReceiveDraining, ReceiveSyncResponse, ContinueSync, ReceiveEvent,
       ReceivePeerLeft, PutOffline
  <2>. QED
    BY <2>1, <1>2, <1>4, <1>6, <1>7, <1>8, <1>9, <1>10
<1>12. ASSUME NEW b \in Brokers, SocketDies(b) PROVE Goal
  <2>. DEFINE gone == [type |-> "peer_left", peer |-> b]
  <2>1. gone \in Messages /\ Carried(gone) /\ Pass(b, <<>>, <<gone>>)
    BY <1>12 DEF Messages, Carried, SocketDies
  <2>2. <<gone>> \in Seq(Messages) /\ <<>> \in Seq(Messages)
    BY <2>1
  <2>3. \A m \in Range(<<>>) \cup Range(<<gone>>) : Carried(m)
    <3>1. Range(<<gone>>) = {gone} /\ Range(<<>>) = {}
      BY OneMessage
    <3>. QED
      BY <2>1, <3>1
  <2>. QED
    BY <1>1, <2>1, <2>2, <2>3, PassCarries
<1>13. ASSUME NEW b \in Brokers, NEW type \in {"rate_warning", "draining"},
              RelaySays(b, type)
       PROVE  Goal
  <2>1. /\ down' = [down EXCEPT ![b] = Append(@, [type |-> type])]
        /\ [type |-> type] \in Messages /\ Carried([type |-> type])
    BY <1>5, <1>13 DEF RelaySays
  <2>2. down[b] \in Seq(Messages)
    BY <1>1
  <2>3. Range(Append(down[b], [type |-> type])) = Range(down[b]) \cup {[type |-> type]}
    BY <2>1, <2>2, AppendRange
  <2>. QED
    BY <1>1, <2>1, <2>3, Carry
<1>14. ASSUME NEW b \in Brokers, Moves(b) PROVE Goal
  <2>1. \/ down' = down
        \/ Handlers(b) \/ Die(b) \/ SocketDies(b)
        \/ \E type \in {"rate_warning", "draining"} : RelaySays(b, type)
    BY <1>14 DEF Moves, Throw, BrokerDies, BrokerStarts, NodeIdTaken,
       ConnectFails, Register, Leave, Talk, ByAgent
  <2>. QED
    BY <1>1, <1>2, <1>11, <1>12, <1>13, <2>1, DieCarries
<1>15. CASE UNCHANGED vars
  BY <1>2, <1>15 DEF vars
<1>. QED
  BY <1>14, <1>15, NextCases

LEMMA LeftRange ==
  ASSUME TypeOK, NEW b \in Brokers
  PROVE  /\ Range(Left(b, Len(Batch(b)))) \subseteq Range(buffer[b])
         /\ Range(Batch(b)) \subseteq Range(buffer[b])
<1>. DEFINE left == Left(b, Len(Batch(b)))
            m == Len(Batch(b))
<1>1. /\ DOMAIN left = 1..Len(left) /\ DOMAIN buffer[b] = 1..Len(buffer[b])
      /\ DOMAIN Batch(b) = 1..m
  BY BatchParts, LenProperties
<1>2. \A k \in DOMAIN left : m + k \in DOMAIN buffer[b] /\ left[k] = buffer[b][m + k]
  BY <1>1, BatchParts
<1>3. \A k \in DOMAIN Batch(b) : k \in DOMAIN buffer[b] /\ Batch(b)[k] = buffer[b][k]
  BY <1>1, BatchParts
<1>. QED
  BY <1>2, <1>3 DEF Range

\* Only handlers of events change what is seen, and a death.
LEMMA SeenStep ==
  ASSUME TypeOK, [Next]_vars
  PROVE  \/ UNCHANGED <<seen>>
         \/ \E b \in Brokers : Die(b)
         \/ \E b \in Brokers : \E y \in Incoming(b) :
              y \in Intents /\ HandleRemoteEvent(b, y)
<1>. USE DEF inVars
<1>1. ASSUME NEW b \in Brokers, ReceiveEvent(b)
      PROVE  \E y \in Incoming(b) : y \in Intents /\ HandleRemoteEvent(b, y)
  <2>1. /\ down[b] \in Seq(Messages) /\ down[b] # <<>>
        /\ Head(down[b]) \in Messages /\ Head(down[b]).type = "event"
        /\ HandleRemoteEvent(b, Head(down[b]).intent)
    BY <1>1, GotType DEF ReceiveEvent, Got, TypeOK
  <2>2. Head(down[b]) \in Range(down[b])
    BY <2>1, TailRange
  <2>. QED
    BY <2>1, <2>2, MessageParts DEF Incoming
<1>2. ASSUME NEW b \in Brokers, ContinueSync(b)
      PROVE  \E y \in Incoming(b) : y \in Intents /\ HandleRemoteEvent(b, y)
  BY <1>2 DEF ContinueSync, Incoming, TypeOK
<1>3. ASSUME NEW b \in Brokers, Handlers(b)
      PROVE  UNCHANGED <<seen>> \/ ReceiveEvent(b) \/ ContinueSync(b)
  BY <1>3 DEF Handlers, Poll, ForwardNext, FlushTimer, PauseEnds, ConnectOpens,
     OnClose, ReceiveHello, ReceiveRateWarning, ReceiveDraining,
     ReceiveSyncRequest, ReceiveSyncResponse, ReceivePeerLeft, PutOffline
<1>4. ASSUME NEW b \in Brokers, Moves(b)
      PROVE  UNCHANGED <<seen>> \/ Handlers(b) \/ Die(b)
  BY <1>4 DEF Moves, Throw, BrokerDies, BrokerStarts, NodeIdTaken, SocketDies,
     ConnectFails, RelaySays, Register, Leave, Talk, ByAgent
<1>5. CASE UNCHANGED vars
  BY <1>5 DEF vars, inVars
<1>. QED
  BY <1>1, <1>2, <1>3, <1>4, <1>5, NextCases

LEMMA WorkStep ==
  ASSUME TypeOK, [Next]_vars, NEW c \in Brokers
  PROVE  work'[c] \subseteq Received(c)
<1>. USE DEF inVars
<1>1. work \in [Brokers -> SUBSET Intents] /\ work[c] \subseteq Received(c)
  BY DEF TypeOK, Received
<1>2. ASSUME NEW b \in Brokers, ReceiveSyncResponse(b)
      PROVE  work'[c] \subseteq Received(c)
  <2>1. /\ down[b] \in Seq(Messages) /\ down[b] # <<>>
        /\ Head(down[b]).type = "sync_response"
        /\ work' = [work EXCEPT ![b] = Head(down[b]).events]
    BY <1>2 DEF ReceiveSyncResponse, Got, TypeOK
  <2>2. Head(down[b]) \in Range(down[b])
    BY <2>1, TailRange
  <2>3. Head(down[b]).events \subseteq Received(b)
    BY <2>1, <2>2 DEF Received
  <2>. QED
    BY <1>1, <2>1, <2>3
<1>3. ASSUME NEW b \in Brokers, Handlers(b)
      PROVE  UNCHANGED <<work>> \/ ReceiveSyncResponse(b)
             \/ \E i : work' = [work EXCEPT ![b] = @ \ {i}]
  BY <1>3 DEF Handlers, Poll, ForwardNext, FlushTimer, PauseEnds, ConnectOpens,
     OnClose, ReceiveHello, ReceiveRateWarning, ReceiveDraining,
     ReceiveSyncRequest, ContinueSync, ReceiveEvent, ReceivePeerLeft, PutOffline
<1>4. ASSUME NEW b \in Brokers, Moves(b)
      PROVE  UNCHANGED <<work>> \/ Handlers(b) \/ work' = [work EXCEPT ![b] = {}]
  BY <1>4 DEF Moves, Throw, BrokerDies, Die, BrokerStarts, NodeIdTaken, SocketDies,
     ConnectFails, RelaySays, Register, Leave, Talk, ByAgent
<1>5. CASE UNCHANGED vars
  BY <1>1, <1>5 DEF vars
<1>. QED
  BY <1>1, <1>2, <1>3, <1>4, <1>5, NextCases

\* What is received after a step was received before it, somewhere, or is the
\* broker's own and new in its log.
LEMMA ReceivedStep ==
  ASSUME TypeInv, TypeOK', [Next]_vars, NEW c \in Brokers, NEW i \in Received(c)'
  PROVE  \/ \E d \in Brokers : i \in Received(d)
         \/ /\ i.origin = c /\ i.seq \in DOMAIN log'[c]
            /\ log'[c][i.seq].intent = i
<1>. DEFINE Old(x) == \E d \in Brokers : x \in Received(d)
            New(x) == /\ x.origin = c /\ x.seq \in DOMAIN log'[c]
                      /\ log'[c][x.seq].intent = x
<1>. USE DEF outVars, inVars
<1>1. /\ TypeOK /\ log[c] \in Seq(Entries) /\ log'[c] \in Seq(Entries)
      /\ buffer \in [Brokers -> Seq(Intents)] /\ seen \in [Brokers -> Seq(Intents)]
      /\ work \in [Brokers -> SUBSET Intents] /\ down \in [Brokers -> Seq(Messages)]
  BY DEF TypeInv, TypeOK
<1>2. \A b \in Brokers : Incoming(b) \subseteq Received(b)
  BY DEF Incoming, Received
<1>3. ASSUME NEW e \in Range(log'[c]) PROVE Old(e.intent) \/ New(e.intent)
  <2>1. PICK n \in 1..Len(log'[c]) : e = log'[c][n]
    <3>1. DOMAIN log'[c] = 1..Len(log'[c])
      BY <1>1, LenProperties
    <3>. QED
      BY <1>3, <3>1 DEF Range
  <2>2. ASSUME NEW l \in Seq(Entries), Extends(c, l, log'[c]), n \in 1..Len(l)
        PROVE  e \in Range(l)
    BY <2>1, <2>2 DEF Extends, Range
  <2>3. ASSUME NEW l \in Seq(Entries), Extends(c, l, log'[c]), n \notin 1..Len(l)
        PROVE  New(e.intent)
    <3>1. n \in Len(l) + 1..Len(log'[c])
      BY <1>1, <2>3
    <3>. QED
      BY <1>1, <2>1, <2>3, <3>1 DEF Extends
  <2>4. CASE Extends(c, log[c], log'[c])
    <3>1. e \in Range(log[c]) => Old(e.intent)
      BY DEF Received
    <3>. QED
      BY <1>1, <2>2, <2>3, <2>4, <3>1
  <2>5. ASSUME NEW x \in Incoming(c), x \in Intents, Extends(c, Record(c, x), log'[c])
        PROVE  Old(e.intent) \/ New(e.intent)
    <3>1. Record(c, x) \in Seq(Entries)
      BY <1>1, <2>5, RecordType
    <3>2. Range(Record(c, x)) \subseteq
            Range(log[c]) \cup {[intent |-> x, to |-> Recipients(c, x)]}
      <4>1. [intent |-> x, to |-> Recipients(c, x)] \in Entries
        BY <2>5 DEF Entries, Recipients, Registered, Intents
      <4>. QED
        BY <1>1, <4>1, AppendRange DEF Record
    <3>3. ASSUME e \in Range(Record(c, x)) PROVE Old(e.intent)
      <4>1. e \in Range(log[c]) \/ e.intent = x
        BY <3>2, <3>3
      <4>2. x \in Received(c)
        BY <1>2
      <4>3. e \in Range(log[c]) => e.intent \in Received(c)
        BY DEF Received
      <4>. QED
        BY <4>1, <4>2, <4>3
    <3>. QED
      BY <2>2, <2>3, <2>5, <3>1, <3>3
  <2>. QED
    BY <1>1, <2>4, <2>5, LogStep
<1>4. ASSUME NEW x \in Range(buffer'[c]) PROVE Old(x)
  <2>1. CASE buffer' = buffer
    BY <1>4, <2>1 DEF Received
  <2>2. ASSUME NEW b \in Brokers, ForwardNext(b) PROVE Old(x)
    <3>. DEFINE n == cursor[b] + 1
    <3>1. \/ buffer' = buffer
          \/ /\ FromHere(b, log[b][n].intent)
             /\ buffer' = [buffer EXCEPT ![b] = Append(@, Envelope(b, n))]
      BY <2>2 DEF ForwardNext
    <3>2. CASE /\ FromHere(b, log[b][n].intent)
               /\ buffer' = [buffer EXCEPT ![b] = Append(@, Envelope(b, n))]
      <4>1. Envelope(b, n) \in Intents /\ Envelope(b, n) \in Received(b)
        BY <2>2, <3>2, Forwarded
      <4>2. Range(Append(buffer[b], Envelope(b, n))) =
              Range(buffer[b]) \cup {Envelope(b, n)}
        BY <1>1, <4>1, AppendRange
      <4>3. x \in Range(buffer[c]) \/ x = Envelope(b, n)
        BY <1>1, <1>4, <3>2, <4>2
      <4>. QED
        BY <4>1, <4>3 DEF Received
    <3>. QED
      BY <2>1, <3>1, <3>2
  <2>3. ASSUME NEW b \in Brokers, FlushSends(b) \/ FlushGivesUp(b) PROVE Old(x)
    <3>1. Range(Left(b, Len(Batch(b)))) \subseteq Range(buffer[b])
      BY <1>1, LeftRange
    <3>2. Range(PutBack(b, Batch(b))) \subseteq Range(buffer[b])
      BY <1>1, PutBackParts
    <3>3. \/ buffer' = [buffer EXCEPT ![b] = Left(b, Len(Batch(b)))]
          \/ buffer' = [buffer EXCEPT ![b] = PutBack(b, Batch(b))]
      BY <2>3 DEF FlushSends, FlushGivesUp
    <3>4. x \in Range(buffer[c])
      BY <1>1, <1>4, <3>1, <3>2, <3>3
    <3>. QED
      BY <3>4 DEF Received
  <2>4. ASSUME NEW b \in Brokers, Die(b) PROVE Old(x)
    <3>1. buffer' = [buffer EXCEPT ![b] = <<>>]
      BY <2>4 DEF Die
    <3>2. x \in Range(buffer[c])
      BY <1>1, <1>4, <3>1 DEF Range
    <3>. QED
      BY <3>2 DEF Received
  <2>5. ASSUME NEW b \in Brokers, BrokerStarts(b) PROVE buffer' = buffer
    BY <2>5 DEF BrokerStarts
  <2>. QED
    BY <2>1, <2>2, <2>3, <2>4, <2>5, OutStep
<1>5. ASSUME NEW x \in Range(seen'[c]) PROVE Old(x)
  <2>1. CASE seen' = seen
    BY <1>5, <2>1 DEF Received
  <2>2. ASSUME NEW b \in Brokers, NEW y \in Incoming(b), y \in Intents,
               HandleRemoteEvent(b, y)
        PROVE  Old(x)
    <3>1. seen' = seen \/ seen' = [seen EXCEPT ![b] = Remember(@, y)]
      BY <2>2 DEF HandleRemoteEvent
    <3>2. Range(Remember(seen[b], y)) \subseteq Range(seen[b]) \cup {y}
      BY <1>1, <2>2, RememberType
    <3>3. x \in Range(seen[c]) \/ (b = c /\ x = y)
      BY <1>1, <1>5, <3>1, <3>2
    <3>. QED
      BY <1>2, <2>2, <3>3 DEF Received
  <2>3. ASSUME NEW b \in Brokers, Die(b) PROVE Old(x)
    <3>1. seen' = [seen EXCEPT ![b] = <<>>]
      BY <2>3 DEF Die
    <3>2. x \in Range(seen[c])
      BY <1>1, <1>5, <3>1 DEF Range
    <3>. QED
      BY <3>2 DEF Received
  <2>. QED
    BY <1>1, <2>1, <2>2, <2>3, SeenStep
<1>6. ASSUME NEW x \in work'[c] PROVE Old(x)
  BY <1>6, <1>1, WorkStep DEF Received
<1>7. ASSUME NEW m \in Range(down'[c])
      PROVE  /\ m.type = "event" => Old(m.intent)
             /\ m.type = "sync_response" => \A x \in m.events : Old(x)
  BY <1>7, DownStep DEF Carried
<1>. QED
  BY <1>3, <1>4, <1>5, <1>6, <1>7 DEF Received

LEMMA RecordedKept ==
  ASSUME TypeOK, TypeOK', [Next]_vars, NEW i, i.origin \in Brokers, Recorded(i)
  PROVE  Recorded(i)'
<1>1. /\ log[i.origin] \in Seq(Entries) /\ log'[i.origin] \in Seq(Entries)
      /\ DOMAIN log[i.origin] = 1..Len(log[i.origin])
      /\ DOMAIN log'[i.origin] = 1..Len(log'[i.origin])
      /\ Len(log[i.origin]) \in Nat /\ Len(log'[i.origin]) \in Nat
  <2>1. log[i.origin] \in Seq(Entries) /\ log'[i.origin] \in Seq(Entries)
    BY DEF TypeOK
  <2>. QED
    BY <2>1, LenProperties
<1>2. /\ Len(log[i.origin]) <= Len(log'[i.origin])
      /\ \A n \in 1..Len(log[i.origin]) : log'[i.origin][n] = log[i.origin][n]
  BY LogKept
<1>. QED
  BY <1>1, <1>2 DEF Recorded

LEMMA ReceivedType ==
  ASSUME TypeOK, NEW b \in Brokers
  PROVE  Received(b) \subseteq Intents
<1>1. /\ Range(log[b]) \subseteq Entries /\ Range(buffer[b]) \subseteq Intents
      /\ Range(seen[b]) \subseteq Intents /\ work[b] \subseteq Intents
      /\ Range(down[b]) \subseteq Messages
  BY Elements DEF TypeOK
<1>2. {e.intent : e \in Range(log[b])} \subseteq Intents
  BY <1>1, EntryParts
<1>3. /\ {m.intent : m \in {d \in Range(down[b]) : d.type = "event"}} \subseteq Intents
      /\ UNION {m.events : m \in {d \in Range(down[b]) : d.type = "sync_response"}}
           \subseteq Intents
  BY <1>1, MessageParts
<1>. QED
  BY <1>1, <1>2, <1>3 DEF Received

LEMMA OriginStep ==
  TypeInv /\ TypeOK' /\ OriginHasIt /\ [Next]_vars => OriginHasIt'
<1>. SUFFICES ASSUME TypeInv, TypeOK', OriginHasIt, [Next]_vars,
                     NEW c \in Brokers, NEW i \in Received(c)'
     PROVE  Recorded(i)'
  BY DEF OriginHasIt, Recorded
<1>1. TypeOK
  BY DEF TypeInv
<1>2. ASSUME NEW d \in Brokers, i \in Received(d) PROVE Recorded(i)'
  <2>1. i.origin \in Brokers
    BY <1>1, <1>2, ReceivedType, IntentParts
  <2>2. Recorded(i)
    BY <1>2 DEF OriginHasIt, Recorded
  <2>. QED
    BY <1>1, <2>1, <2>2, RecordedKept
<1>3. CASE /\ i.origin = c /\ i.seq \in DOMAIN log'[c]
           /\ log'[c][i.seq].intent = i
  BY <1>3 DEF Recorded
<1>. QED
  BY <1>2, <1>3, ReceivedStep

LEMMA AppliedStep ==
  TypeInv /\ TypeOK' /\ OriginHasIt /\ AppliedOnce /\ [Next]_vars => AppliedOnce'
<1>. SUFFICES ASSUME TypeInv, TypeOK', OriginHasIt, AppliedOnce, [Next]_vars,
                     NEW c \in Brokers
     PROVE  \A m, n \in DOMAIN log'[c] : log'[c][m].intent = log'[c][n].intent => m = n
  BY DEF AppliedOnce
<1>. DEFINE k == log'[c]
            Distinct(l) == \A m, n \in 1..Len(l) : l[m].intent = l[n].intent => m = n
            \* The events of l are on record at their origins.
            Known(l) == \A n \in 1..Len(l) : Recorded(l[n].intent)
<1>1. /\ TypeOK /\ log[c] \in Seq(Entries) /\ k \in Seq(Entries)
      /\ DOMAIN log[c] = 1..Len(log[c]) /\ DOMAIN k = 1..Len(k)
      /\ Len(log[c]) \in Nat /\ Len(k) \in Nat
  <2>1. TypeOK /\ log[c] \in Seq(Entries) /\ k \in Seq(Entries)
    BY DEF TypeInv, TypeOK
  <2>. QED
    BY <2>1, LenProperties
<1>2. ASSUME NEW i \in Received(c) PROVE Recorded(i)
  BY <1>2 DEF OriginHasIt, Recorded
<1>3. Distinct(log[c])
  BY <1>1 DEF AppliedOnce
<1>4. Known(log[c])
  <2>1. \A n \in 1..Len(log[c]) : log[c][n].intent \in Received(c)
    BY <1>1 DEF Received, Range
  <2>. QED
    BY <1>2, <2>1
<1>5. ASSUME NEW l \in Seq(Entries), Len(log[c]) <= Len(l), Distinct(l), Known(l),
             Extends(c, l, k), NEW m \in 1..Len(k), NEW n \in 1..Len(k),
             k[m].intent = k[n].intent, m < n
      PROVE  FALSE
  <2>1. Len(l) \in Nat
    BY <1>5
  <2>2. CASE n <= Len(l)
    <3>1. m \in 1..Len(l) /\ n \in 1..Len(l)
      BY <1>5, <2>1, <2>2
    <3>. QED
      BY <1>5, <3>1 DEF Extends
  <2>3. CASE n > Len(l) /\ m > Len(l)
    <3>1. m \in Len(l) + 1..Len(k) /\ n \in Len(l) + 1..Len(k)
      BY <1>1, <1>5, <2>1, <2>3
    <3>. QED
      BY <1>5, <3>1 DEF Extends
  <2>4. CASE n > Len(l) /\ m <= Len(l)
    <3>1. m \in 1..Len(l) /\ n \in Len(l) + 1..Len(k)
      BY <1>1, <1>5, <2>1, <2>4
    <3>2. k[n].intent.origin = c /\ k[n].intent.seq = n /\ k[m] = l[m]
      BY <1>5, <3>1 DEF Extends
    <3>3. Recorded(k[n].intent)
      BY <1>5, <3>1, <3>2
    <3>4. n \in DOMAIN log[c]
      BY <3>2, <3>3 DEF Recorded
    <3>. QED
      BY <1>1, <1>5, <2>1, <2>4, <3>4
  <2>. QED
    BY <1>5, <2>1, <2>2, <2>3, <2>4
<1>6. ASSUME NEW l \in Seq(Entries), Len(log[c]) <= Len(l), Distinct(l), Known(l),
             Extends(c, l, k)
      PROVE  Distinct(k)
  <2>1. \A m, n \in 1..Len(k) : k[m].intent = k[n].intent => ~(m < n)
    BY <1>5, <1>6
  <2>. QED
    BY <1>1, <2>1
<1>7. ASSUME NEW i \in Incoming(c), i \in Intents
      PROVE  LET l == Record(c, i)
             IN  l \in Seq(Entries) /\ Len(log[c]) <= Len(l) /\ Distinct(l) /\ Known(l)
  <2>. DEFINE e == [intent |-> i, to |-> Recipients(c, i)]
  <2>1. Recorded(i)
    BY <1>2 DEF Incoming, Received
  <2>2. CASE \E x \in Range(log[c]) : x.intent = i
    <3>1. Record(c, i) = log[c]
      BY <2>2 DEF Record
    <3>2. Len(log[c]) <= Len(log[c])
      BY <1>1
    <3>. QED
      BY <1>1, <1>3, <1>4, <3>1, <3>2
  <2>3. CASE ~\E x \in Range(log[c]) : x.intent = i
    <3>1. Record(c, i) = Append(log[c], e)
      BY <2>3 DEF Record
    <3>2. e \in Entries /\ e.intent = i
      BY <1>7 DEF Entries, Recipients, Registered, Intents
    <3>3. /\ Append(log[c], e) \in Seq(Entries)
          /\ Len(Append(log[c], e)) = Len(log[c]) + 1
          /\ \A n \in 1..Len(log[c]) : Append(log[c], e)[n] = log[c][n]
          /\ Append(log[c], e)[Len(log[c]) + 1] = e
      BY <1>1, <3>2, AppendProperties
    <3>4. \A n \in 1..Len(log[c]) : log[c][n].intent # i
      BY <1>1, <2>3 DEF Range
    <3>. HIDE DEF e
    <3>5. \A n \in 1..Len(log[c]) + 1 : n \in 1..Len(log[c]) \/ n = Len(log[c]) + 1
      BY <1>1
    <3>6. Distinct(Append(log[c], e))
      BY <1>3, <3>2, <3>3, <3>4, <3>5
    <3>7. Known(Append(log[c], e))
      BY <1>4, <2>1, <3>2, <3>3, <3>5
    <3>. QED
      BY <1>1, <3>1, <3>3, <3>6, <3>7
  <2>. QED
    BY <2>2, <2>3
<1>8. Distinct(k)
  <2>1. CASE Extends(c, log[c], k)
    <3>1. Len(log[c]) <= Len(log[c]) /\ log[c] \in Seq(Entries)
      BY <1>1
    <3>. HIDE DEF Distinct, Known, k
    <3>. QED
      BY <1>3, <1>4, <1>6, <2>1, <3>1
  <2>2. ASSUME NEW i \in Incoming(c), i \in Intents, Extends(c, Record(c, i), k)
        PROVE  Distinct(k)
    BY <1>6, <1>7, <2>2
  <2>. QED
    BY <1>1, <2>1, <2>2, LogStep
<1>. QED
  BY <1>1, <1>8

LEMMA HistoryInvariant == Spec => [](TypeInv /\ OriginHasIt /\ AppliedOnce)
<1>1. Init => OriginHasIt /\ AppliedOnce
  BY DEF Init, OriginHasIt, AppliedOnce, Received, Range
<1>2. TypeInv /\ [Next]_vars => TypeOK'
  BY TypeStep
<1>. QED
  BY <1>1, <1>2, TypeInit, TypeInvStep, OriginStep, AppliedStep, PTL DEF Spec

\* Nobody passes on as its own what came from another, however events travel.
THEOREM OriginsHaveIt == Spec => []OriginHasIt
BY HistoryInvariant, PTL

\* No log has an event twice, however often it comes.
THEOREM AppliedAtMostOnce == Spec => []AppliedOnce
BY HistoryInvariant, PTL

-----------------------------------------------------------------------------
(* Back-pressure *)

\* A poll that is under way began without a pause, and what is buffered is
\* the broker's own.
PollUnpaused == \A b \in Brokers : cursor[b] < upto[b] => ~paused[b]
OwnBuffer == \A b \in Brokers : \A i \in Range(buffer[b]) : i.origin = b

LEMMA PollUnpausedStep == TypeInv /\ PollUnpaused /\ [Next]_vars => PollUnpaused'
<1>. SUFFICES ASSUME TypeInv, PollUnpaused, [Next]_vars, NEW c \in Brokers,
                     cursor'[c] < upto'[c]
     PROVE  ~paused'[c]
  BY DEF PollUnpaused
<1>. USE DEF outVars
<1>1. /\ cursor \in [Brokers -> Nat] /\ upto \in [Brokers -> Nat]
      /\ paused \in [Brokers -> BOOLEAN] /\ (cursor[c] < upto[c] => ~paused[c])
      /\ Len(log[c]) \in Nat
  BY DEF TypeInv, TypeOK, PollUnpaused
<1>2. CASE UNCHANGED <<cursor, upto, paused>>
  BY <1>1, <1>2
<1>3. ASSUME NEW b \in Brokers, Poll(b) PROVE ~paused'[c]
  <2>1. /\ ~paused[b] /\ paused' = paused /\ cursor' = cursor
        /\ \E n : upto' = [upto EXCEPT ![b] = n]
    BY <1>3 DEF Poll
  <2>. QED
    BY <1>1, <2>1
<1>4. ASSUME NEW b \in Brokers, ForwardNext(b) PROVE ~paused'[c]
  <2>1. /\ paused' = paused /\ upto' = upto /\ cursor[b] + 1 <= upto[b]
        /\ cursor' = [cursor EXCEPT ![b] = cursor[b] + 1]
    BY <1>4 DEF ForwardNext
  <2>. QED
    BY <1>1, <2>1
<1>5. ASSUME NEW b \in Brokers, PauseEnds(b) PROVE ~paused'[c]
  BY <1>1, <1>5 DEF PauseEnds
<1>6. ASSUME NEW b \in Brokers, ReceiveRateWarning(b) PROVE ~paused'[c]
  <2>1. /\ cursor[b] >= upto[b] /\ UNCHANGED <<cursor, upto>>
        /\ paused' = [paused EXCEPT ![b] = TRUE]
    BY <1>6 DEF ReceiveRateWarning, Got, Idle
  <2>. QED
    BY <1>1, <2>1
<1>7. ASSUME NEW b \in Brokers, Die(b) PROVE ~paused'[c]
  BY <1>1, <1>7 DEF Die
<1>8. ASSUME NEW b \in Brokers, BrokerStarts(b) PROVE ~paused'[c]
  <2>1. /\ cursor' = [cursor EXCEPT ![b] = Len(log[b])] /\ paused' = paused
        /\ upto' = [upto EXCEPT ![b] = Len(log[b])]
    BY <1>8 DEF BrokerStarts
  <2>. QED
    BY <1>1, <2>1
<1>9. ASSUME NEW b \in Brokers, Handlers(b)
      PROVE  \/ UNCHANGED <<cursor, upto, paused>> \/ Poll(b) \/ ForwardNext(b)
             \/ PauseEnds(b) \/ ReceiveRateWarning(b)
  BY <1>9 DEF Handlers, FlushTimer, FlushBuffer, ConnectOpens,
     OnClose, ReceiveHello, ReceiveDraining, ReceiveSyncRequest,
     ReceiveSyncResponse, ContinueSync, ReceiveEvent, ReceivePeerLeft, PutOffline
<1>10. ASSUME NEW b \in Brokers, Moves(b)
       PROVE  \/ UNCHANGED <<cursor, upto, paused>> \/ Handlers(b)
              \/ Die(b) \/ BrokerStarts(b)
  BY <1>10 DEF Moves, Throw, BrokerDies, NodeIdTaken, SocketDies, ConnectFails,
     RelaySays, Register, Leave, Talk, ByAgent
<1>11. CASE UNCHANGED vars
  BY <1>2, <1>11 DEF vars
<1>. QED
  BY <1>2, <1>3, <1>4, <1>5, <1>6, <1>7, <1>8, <1>9, <1>10, <1>11, NextCases

LEMMA OwnBufferStep == TypeInv /\ OwnBuffer /\ [Next]_vars => OwnBuffer'
<1>. SUFFICES ASSUME TypeInv, OwnBuffer, [Next]_vars, NEW c \in Brokers,
                     NEW i \in Range(buffer'[c])
     PROVE  i.origin = c
  BY DEF OwnBuffer
<1>1. TypeOK /\ buffer \in [Brokers -> Seq(Intents)]
  BY DEF TypeInv, TypeOK
<1>2. ASSUME i \in Range(buffer[c]) PROVE i.origin = c
  BY <1>2 DEF OwnBuffer
<1>3. ASSUME NEW b \in Brokers, ForwardNext(b) PROVE i.origin = c
  <2>. DEFINE e == Envelope(b, cursor[b] + 1)
  <2>1. CASE buffer' = buffer
    BY <1>2, <2>1
  <2>2. CASE /\ FromHere(b, log[b][cursor[b] + 1].intent)
             /\ buffer' = [buffer EXCEPT ![b] = Append(@, e)]
    <3>1. e \in Intents /\ e.origin = b
      BY <1>3, <2>2, Forwarded
    <3>2. Range(Append(buffer[b], e)) = Range(buffer[b]) \cup {e}
      BY <1>1, <3>1, AppendRange
    <3>3. i \in Range(buffer[c]) \/ (b = c /\ i = e)
      BY <1>1, <2>2, <3>2
    <3>. QED
      BY <1>2, <3>1, <3>3
  <2>. QED
    BY <1>3, <2>1, <2>2 DEF ForwardNext
<1>4. ASSUME NEW b \in Brokers, FlushSends(b) \/ FlushGivesUp(b)
      PROVE  i \in Range(buffer[c])
  BY <1>1, <1>4, LeftRange, PutBackParts DEF FlushSends, FlushGivesUp
<1>5. ASSUME NEW b \in Brokers, Die(b) PROVE i \in Range(buffer[c])
  <2>1. buffer' = [buffer EXCEPT ![b] = <<>>]
    BY <1>5 DEF Die
  <2>. QED
    BY <1>1, <2>1, OneMessage
<1>6. ASSUME NEW b \in Brokers, BrokerStarts(b) PROVE i \in Range(buffer[c])
  BY <1>6 DEF BrokerStarts
<1>. QED
  BY <1>2, <1>3, <1>4, <1>5, <1>6, OutStep

LEMMA QuietStep ==
  TypeInv /\ PollUnpaused /\ OwnBuffer /\ [Next]_vars =>
    \A b \in Brokers : paused[b] => \A i \in sent' \ sent : i.origin # b
<1>. SUFFICES ASSUME TypeInv, PollUnpaused, OwnBuffer, [Next]_vars,
                     NEW c \in Brokers, paused[c], NEW i \in sent' \ sent
     PROVE  i.origin # c
  OBVIOUS
<1>1. ASSUME NEW b \in Brokers, ForwardNext(b) PROVE i.origin # c
  <2>1. /\ FromHere(b, log[b][cursor[b] + 1].intent)
        /\ i = Envelope(b, cursor[b] + 1) /\ cursor[b] + 1 <= upto[b]
    BY <1>1 DEF ForwardNext
  <2>2. i.origin = b
    BY <1>1, <2>1, Forwarded
  <2>3. cursor[b] < upto[b]
    BY <2>1 DEF TypeInv, TypeOK
  <2>. QED
    BY <2>2, <2>3 DEF PollUnpaused
<1>2. ASSUME NEW b \in Brokers, FlushSends(b) PROVE i.origin # c
  <2>1. i \in Range(buffer[b]) /\ ~paused[b]
    BY <1>2, LeftRange DEF FlushSends, TypeInv
  <2>. QED
    BY <2>1 DEF OwnBuffer
<1>3. ASSUME NEW b \in Brokers, FlushGivesUp(b) \/ Die(b) \/ BrokerStarts(b)
      PROVE  FALSE
  BY <1>3 DEF FlushGivesUp, Die, BrokerStarts
<1>. QED
  BY <1>1, <1>2, <1>3, OutStep

\* While a warning lasts nothing of the broker's own is sent.
THEOREM Quiet == Spec => QuietWhilePaused
<1>1. Init => PollUnpaused /\ OwnBuffer
  BY OneMessage DEF Init, PollUnpaused, OwnBuffer
<1>2. Spec => [](TypeInv /\ PollUnpaused /\ OwnBuffer)
  BY <1>1, TypeInit, TypeInvStep, PollUnpausedStep, OwnBufferStep, PTL DEF Spec
<1>3. TypeInv /\ PollUnpaused /\ OwnBuffer /\ [Next]_vars =>
        [\A b \in Brokers : paused[b] =>
           \A i \in sent' \ sent : i.origin # b]_vars
  BY QuietStep
<1>. QED
  BY <1>2, <1>3, PTL DEF Spec, QuietWhilePaused

-----------------------------------------------------------------------------
(* Guests *)

\* The parts of GuestsHaveHosts, for one guest.
Hosted(b, p) ==
  guest[b][p] # Nobody /\ p \notin leaving[b]
    => p \in Registered(b) /\ guest[b][p] \in nodes[b]

\* An agent that is registered becomes a guest of origin, if of anybody.
LEMMA OnlineHosts ==
  ASSUME TypeOK, GuestsHaveHosts, NEW b \in Brokers, NEW l, NEW p \in Agents,
         NEW origin \in Brokers \cup {Nobody}, Online(b, l, p, origin),
         leaving' = leaving, nodes' \in [Brokers -> SUBSET Brokers],
         \A c \in Brokers : nodes[c] \subseteq nodes'[c],
         origin \in nodes'[b] \cup {Nobody},
         NEW c \in Brokers, NEW q \in Agents
  PROVE  Hosted(c, q)'
<1>1. /\ presence \in [Brokers -> [Agents -> {"absent", "online", "offline"}]]
      /\ guest \in [Brokers -> [Agents -> Brokers \cup {Nobody}]]
      /\ presence' = [presence EXCEPT ![b][p] = "online"]
      /\ guest' = [guest EXCEPT ![b][p] = IF origin = Nobody THEN guest[b][p] ELSE origin]
  BY DEF TypeOK, Online
<1>2. Hosted(c, q)
  BY DEF GuestsHaveHosts, Hosted
<1>3. CASE c = b /\ q = p
  BY <1>1, <1>2, <1>3 DEF Hosted, Registered
<1>4. CASE ~(c = b /\ q = p)
  <2>1. presence'[c][q] = presence[c][q] /\ guest'[c][q] = guest[c][q]
    BY <1>1, <1>4
  <2>. QED
    BY <1>2, <2>1 DEF Hosted, Registered
<1>. QED
  BY <1>3, <1>4

\* An agent that is put offline stays registered or stops being a guest.
LEMMA OfflineHosts ==
  ASSUME TypeOK, GuestsHaveHosts, NEW b \in Brokers, NEW l, NEW p \in Agents,
         NEW prune \in BOOLEAN, Offline(b, l, p, prune),
         \A c \in Brokers : leaving[c] \ {p} \subseteq leaving'[c],
         \A c \in Brokers \ {b} : leaving'[c] = leaving[c],
         leaving'[b] = leaving[b] \/ prune,
         \A c \in Brokers : nodes[c] \subseteq nodes'[c],
         NEW c \in Brokers, NEW q \in Agents
  PROVE  Hosted(c, q)'
<1>1. /\ presence \in [Brokers -> [Agents -> {"absent", "online", "offline"}]]
      /\ guest \in [Brokers -> [Agents -> Brokers \cup {Nobody}]]
      /\ presence' = [presence EXCEPT ![b][p] =
           IF p \notin Registered(b) THEN presence[b][p]
           ELSE IF prune THEN "absent" ELSE "offline"]
      /\ guest' = [guest EXCEPT ![b][p] = IF prune THEN Nobody ELSE guest[b][p]]
  BY DEF TypeOK, Offline
<1>2. Hosted(c, q)
  BY DEF GuestsHaveHosts, Hosted
<1>3. CASE c = b /\ q = p
  BY <1>1, <1>2, <1>3 DEF Hosted, Registered
<1>4. CASE ~(c = b /\ q = p)
  <2>1. presence'[c][q] = presence[c][q] /\ guest'[c][q] = guest[c][q]
    BY <1>1, <1>4
  <2>2. q \in leaving[c] => q \in leaving'[c]
    BY <1>4
  <2>. QED
    BY <1>2, <2>1, <2>2 DEF Hosted, Registered
<1>. QED
  BY <1>3, <1>4

LEMMA HandleHosts ==
  ASSUME TypeOK, GuestsHaveHosts, NEW b \in Brokers, NEW i \in Intents,
         HandleRemoteEvent(b, i), leaving' = leaving,
         NEW c \in Brokers, NEW q \in Agents
  PROVE  Hosted(c, q)'
<1>1. i.who \in Agents /\ i.origin \in Brokers
  BY IntentParts
<1>2. /\ nodes \in [Brokers -> SUBSET Brokers]
      /\ \/ Fresh(b, i) /\ nodes' = [nodes EXCEPT ![b] = @ \cup {i.origin}]
         \/ ~Fresh(b, i) /\ UNCHANGED brokerVars /\ UNCHANGED nodes
  BY DEF HandleRemoteEvent, TypeOK
<1>3. \A d \in Brokers : nodes[d] \subseteq nodes'[d]
  BY <1>2
<1>4. CASE UNCHANGED <<presence, guest>>
  BY <1>3, <1>4 DEF GuestsHaveHosts, Hosted, Registered
<1>5. CASE Fresh(b, i) /\ Online(b, Record(b, i), i.who, i.origin)
  <2>1. i.origin \in nodes'[b] /\ nodes' \in [Brokers -> SUBSET Brokers]
    BY <1>1, <1>2, <1>5
  <2>. QED
    BY <1>1, <1>3, <1>5, <2>1, OnlineHosts
<1>6. CASE Offline(b, Record(b, i), i.who, guest[b][i.who] # Nobody)
  BY <1>1, <1>3, <1>6, OfflineHosts
<1>. QED
  BY <1>2, <1>4, <1>5, <1>6 DEF HandleRemoteEvent, brokerVars

LEMMA GuestsStep == TypeInv /\ GuestsHaveHosts /\ [Next]_vars => GuestsHaveHosts'
<1>. SUFFICES ASSUME TypeOK, GuestsHaveHosts, [Next]_vars,
                     NEW c \in Brokers, NEW q \in Agents
     PROVE  Hosted(c, q)'
  BY DEF TypeInv, GuestsHaveHosts, Hosted
<1>. USE DEF brokerVars, inVars
<1>1. Hosted(c, q)
  BY DEF GuestsHaveHosts, Hosted
<1>2. CASE UNCHANGED <<presence, guest, nodes, leaving>>
  BY <1>1, <1>2 DEF Hosted, Registered
<1>3. ASSUME NEW b \in Brokers, NEW p \in Active, Register(b, p)
      PROVE  Hosted(c, q)'
  <2>1. /\ Online(b, log[b], p, Nobody) /\ UNCHANGED <<nodes, leaving>>
        /\ nodes \in [Brokers -> SUBSET Brokers] /\ p \in Agents
    BY <1>3, EarlyType DEF Register, ByAgent, TypeOK
  <2>. QED
    BY <2>1, OnlineHosts
<1>4. ASSUME NEW b \in Brokers, NEW p \in Active, NEW forGood \in BOOLEAN,
             Leave(b, p, forGood)
      PROVE  Hosted(c, q)'
  <2>1. /\ Offline(b, log[b], p, forGood) /\ UNCHANGED <<nodes, leaving>>
        /\ p \in Agents
    BY <1>4, EarlyType DEF Leave, ByAgent
  <2>. QED
    BY <2>1, OfflineHosts
<1>5. ASSUME NEW b \in Brokers, ReceiveEvent(b) PROVE Hosted(c, q)'
  <2>1. /\ HandleRemoteEvent(b, Head(down[b]).intent) /\ UNCHANGED leaving
        /\ Head(down[b]).intent \in Intents
    BY <1>5, GotType, MessageParts DEF ReceiveEvent
  <2>. QED
    BY <2>1, HandleHosts
<1>6. ASSUME NEW b \in Brokers, ContinueSync(b) PROVE Hosted(c, q)'
  <2>1. PICK i \in work[b] : HandleRemoteEvent(b, i) /\ UNCHANGED leaving
    BY <1>6 DEF ContinueSync
  <2>2. i \in Intents
    BY DEF TypeOK
  <2>. QED
    BY <2>1, <2>2, HandleHosts
<1>7. ASSUME NEW b \in Brokers, PutOffline(b) PROVE Hosted(c, q)'
  <2>1. PICK p \in leaving[b] :
          /\ Offline(b, log[b], p, TRUE) /\ UNCHANGED nodes
          /\ leaving' = [leaving EXCEPT ![b] = leaving[b] \ {p}]
    BY <1>7 DEF PutOffline
  <2>2. p \in Agents /\ leaving \in [Brokers -> SUBSET Agents]
    BY DEF TypeOK
  <2>3. /\ \A d \in Brokers : leaving[d] \ {p} \subseteq leaving'[d]
        /\ \A d \in Brokers \ {b} : leaving'[d] = leaving[d]
    BY <2>1, <2>2
  <2>. QED
    BY <2>1, <2>2, <2>3, OfflineHosts
<1>8. ASSUME NEW b \in Brokers, ReceivePeerLeft(b) PROVE Hosted(c, q)'
  <2>. DEFINE peer == Head(down[b]).peer
  <2>1. /\ leaving[b] = {} /\ UNCHANGED <<presence, guest>>
        /\ leaving' = [leaving EXCEPT ![b] = GuestsOf(b, peer)]
        /\ nodes' = [nodes EXCEPT ![b] = @ \ {peer}]
    BY <1>8 DEF ReceivePeerLeft, Got, Idle
  <2>2. /\ leaving \in [Brokers -> SUBSET Agents]
        /\ nodes \in [Brokers -> SUBSET Brokers]
    BY DEF TypeOK
  <2>. QED
    BY <1>1, <2>1, <2>2 DEF Hosted, Registered, GuestsOf
<1>9. ASSUME NEW b \in Brokers, Die(b) PROVE Hosted(c, q)'
  <2>1. /\ presence' = [presence EXCEPT ![b] = [p \in Agents |-> "absent"]]
        /\ guest' = [guest EXCEPT ![b] = [p \in Agents |-> Nobody]]
        /\ nodes' = [nodes EXCEPT ![b] = {}] /\ leaving' = [leaving EXCEPT ![b] = {}]
    BY <1>9 DEF Die
  <2>2. /\ presence \in [Brokers -> [Agents -> {"absent", "online", "offline"}]]
        /\ guest \in [Brokers -> [Agents -> Brokers \cup {Nobody}]]
        /\ leaving \in [Brokers -> SUBSET Agents]
        /\ nodes \in [Brokers -> SUBSET Brokers]
    BY DEF TypeOK
  <2>. QED
    BY <1>1, <2>1, <2>2 DEF Hosted, Registered
<1>10. ASSUME NEW b \in Brokers, Handlers(b)
       PROVE  \/ UNCHANGED <<presence, guest, nodes, leaving>>
              \/ ReceiveEvent(b) \/ ContinueSync(b) \/ PutOffline(b)
              \/ ReceivePeerLeft(b)
  BY <1>10 DEF Handlers, Poll, ForwardNext, FlushTimer, PauseEnds, ConnectOpens,
     OnClose, ReceiveHello, ReceiveRateWarning, ReceiveDraining,
     ReceiveSyncRequest, ReceiveSyncResponse
<1>11. ASSUME NEW b \in Brokers, Moves(b)
       PROVE  \/ UNCHANGED <<presence, guest, nodes, leaving>>
              \/ Handlers(b) \/ Die(b)
              \/ \E p \in Active, forGood \in BOOLEAN : Leave(b, p, forGood)
              \/ \E p \in Active : Register(b, p)
  BY <1>11 DEF Moves, Throw, BrokerDies, BrokerStarts, NodeIdTaken, SocketDies,
     ConnectFails, RelaySays, Talk, ByAgent
<1>12. CASE UNCHANGED vars
  BY <1>2, <1>12 DEF vars
<1>. QED
  BY <1>2, <1>3, <1>4, <1>5, <1>6, <1>7, <1>8, <1>9, <1>10, <1>11, <1>12,
     NextCases

\* Guests are registered only while their peer is known, and leave with it.
THEOREM Guests == Spec => []GuestsHaveHosts
<1>1. Init => GuestsHaveHosts
  BY DEF Init, GuestsHaveHosts
<1>. QED
  BY <1>1, TypeInvariant, GuestsStep, PTL DEF Spec

-----------------------------------------------------------------------------
(* What goes out, goes out once *)

SentRecorded == \A i \in sent : Recorded(i)
OutInv == SentOnce /\ SentRecorded

\* The event that the poll forwards is the one at the place it names.
LEMMA ForwardedInPlace ==
  ASSUME TypeInv, OriginHasIt, AppliedOnce, NEW b \in Brokers, ForwardNext(b),
         FromHere(b, log[b][cursor[b] + 1].intent)
  PROVE  LET i == Envelope(b, cursor[b] + 1)
         IN  /\ i \in Intents /\ i.origin = b /\ i.seq = cursor[b] + 1
             /\ Recorded(i)
<1>. DEFINE n == cursor[b] + 1
            i == Envelope(b, n)
<1>1. /\ n \in DOMAIN log[b] /\ i = log[b][n].intent
      /\ i \in Intents /\ i \in Received(b) /\ i.origin = b
  BY Forwarded
<1>2. Recorded(i)
  BY <1>1 DEF OriginHasIt, Recorded
<1>3. i.seq \in DOMAIN log[b] /\ log[b][i.seq].intent = log[b][n].intent
  BY <1>1, <1>2 DEF Recorded
<1>. HIDE DEF n, i
<1>4. i.seq = n
  BY <1>1, <1>3 DEF AppliedOnce
<1>. QED
  BY <1>1, <1>2, <1>4 DEF n, i

\* An event at a place that the log has.
LEMMA InPlace ==
  ASSUME TypeOK, NEW i \in Intents, Recorded(i)
  PROVE  i.seq <= Len(log[i.origin])
<1>1. log[i.origin] \in Seq(Entries)
  BY IntentParts DEF TypeOK
<1>. QED
  BY <1>1, LenProperties DEF Recorded

LEMMA SentRecordedStep ==
  TypeInv /\ TypeOK' /\ OriginHasIt /\ AppliedOnce /\ SentRecorded /\ [Next]_vars
    => SentRecorded'
<1>. SUFFICES ASSUME TypeInv, TypeOK', OriginHasIt, AppliedOnce, SentRecorded,
                     [Next]_vars, NEW i \in sent'
     PROVE  Recorded(i)'
  BY DEF SentRecorded
<1>1. TypeOK /\ i \in Intents /\ i.origin \in Brokers
  BY IntentParts DEF TypeInv, TypeOK
<1>2. ASSUME Recorded(i) PROVE Recorded(i)'
  BY <1>1, <1>2, RecordedKept
<1>3. CASE i \in sent
  BY <1>2, <1>3 DEF SentRecorded
<1>4. ASSUME NEW b \in Brokers, ForwardNext(b), i \notin sent PROVE Recorded(i)
  <2>1. /\ FromHere(b, log[b][cursor[b] + 1].intent)
        /\ i = Envelope(b, cursor[b] + 1)
    BY <1>4 DEF ForwardNext
  <2>. QED
    BY <1>4, <2>1, ForwardedInPlace
<1>5. ASSUME NEW b \in Brokers, FlushSends(b), i \notin sent PROVE Recorded(i)
  <2>1. i \in Received(b)
    BY <1>1, <1>5, LeftRange DEF FlushSends, Received
  <2>. QED
    BY <2>1 DEF OriginHasIt, Recorded
<1>6. ASSUME NEW b \in Brokers, FlushGivesUp(b) \/ Die(b) \/ BrokerStarts(b)
      PROVE  i \in sent
  BY <1>6 DEF FlushGivesUp, Die, BrokerStarts
<1>. QED
  BY <1>2, <1>3, <1>4, <1>5, <1>6, OutStep

\* The parts of SentOnce, for one broker.
BufferDistinct(c) ==
  \A m, n \in DOMAIN buffer[c] : buffer[c][m] = buffer[c][n] => m = n
BufferUnsent(c) == Range(buffer[c]) \cap sent = {}
BufferPassed(c) == \A i \in Range(buffer[c]) : i.seq <= cursor[c]
SentPassed(c) == live[c] => \A i \in sent : i.origin = c => i.seq <= cursor[c]

LEMMA SentParts ==
  SentOnce <=> \A c \in Brokers : /\ BufferDistinct(c) /\ BufferUnsent(c)
                                   /\ BufferPassed(c) /\ SentPassed(c)
BY DEF SentOnce, BufferDistinct, BufferUnsent, BufferPassed, SentPassed

LEMMA ForwardOnce ==
  ASSUME TypeInv, OriginHasIt, AppliedOnce, OwnBuffer, SentOnce,
         NEW b \in Brokers, ForwardNext(b), NEW c \in Brokers
  PROVE  BufferDistinct(c)' /\ BufferUnsent(c)' /\ BufferPassed(c)' /\ SentPassed(c)'
<1>. DEFINE n == cursor[b] + 1
            i == Envelope(b, n)
<1>1. /\ buffer \in [Brokers -> Seq(Intents)] /\ cursor \in [Brokers -> Nat]
      /\ sent \subseteq Intents /\ live[b]
      /\ live' = live /\ cursor' = [cursor EXCEPT ![b] = n]
  BY DEF TypeInv, TypeOK, ForwardNext
<1>2. BufferDistinct(c) /\ BufferUnsent(c) /\ BufferPassed(c) /\ SentPassed(c)
  BY SentParts
<1>3. \A d \in Brokers : cursor[d] <= cursor'[d] /\ cursor'[d] \in Nat
  BY <1>1
<1>4. \A j \in Intents : j.seq \in Nat
  BY IntentParts
<1>5. Range(buffer[c]) \subseteq Intents
  BY <1>1, Elements
<1>6. BufferPassed(c)' \/ buffer'[c] # buffer[c]
  BY <1>2, <1>3, <1>4, <1>5, <1>1 DEF BufferPassed
<1>7. ASSUME sent' = sent PROVE SentPassed(c)'
  BY <1>1, <1>2, <1>3, <1>4, <1>7 DEF SentPassed
<1>8. CASE UNCHANGED <<buffer, sent>>
  BY <1>2, <1>6, <1>7, <1>8 DEF BufferDistinct, BufferUnsent
<1>9. ASSUME FromHere(b, log[b][n].intent)
      PROVE  /\ i \in Intents /\ i.origin = b /\ i.seq = n
             /\ i \notin sent /\ i \notin Range(buffer[c])
  <2>1. i \in Intents /\ i.origin = b /\ i.seq = n
    BY <1>9, ForwardedInPlace
  <2>2. ~(n <= cursor[b])
    BY <1>1
  <2>3. i \notin sent
    BY <1>1, <2>1, <2>2 DEF SentOnce
  <2>4. i \notin Range(buffer[c])
    BY <2>1, <2>2 DEF OwnBuffer, SentOnce
  <2>. QED
    BY <2>1, <2>3, <2>4
<1>. HIDE DEF i
<1>10. CASE /\ FromHere(b, log[b][n].intent) /\ UNCHANGED buffer
            /\ sent' = sent \cup {i}
  <2>1. BufferUnsent(c)'
    BY <1>2, <1>9, <1>10 DEF BufferUnsent
  <2>2. SentPassed(c)'
    BY <1>1, <1>2, <1>3, <1>4, <1>9, <1>10 DEF SentPassed
  <2>. QED
    BY <1>2, <1>6, <1>10, <2>1, <2>2 DEF BufferDistinct
<1>11. CASE /\ FromHere(b, log[b][n].intent) /\ UNCHANGED sent /\ c = b
            /\ buffer' = [buffer EXCEPT ![b] = Append(@, i)]
  <2>1. /\ buffer'[b] = Append(buffer[b], i)
        /\ buffer[b] \in Seq(Intents) /\ i \in Intents
    BY <1>1, <1>9, <1>11
  <2>2. Range(buffer'[b]) = Range(buffer[b]) \cup {i}
    BY <2>1, AppendRange
  <2>3. BufferUnsent(c)'
    BY <1>2, <1>9, <1>11, <2>2 DEF BufferUnsent
  <2>4. BufferPassed(c)'
    <3>1. cursor'[b] = n /\ cursor[b] <= n /\ n \in Nat /\ cursor[b] \in Nat
      BY <1>1
    <3>2. \A j \in Range(buffer[b]) : j.seq <= n
      <4>. TAKE j \in Range(buffer[b])
      <4>1. j.seq <= cursor[b] /\ j.seq \in Nat
        BY <1>2, <1>4, <1>5, <1>11 DEF BufferPassed
      <4>. QED
        BY <3>1, <4>1
    <3>. QED
      BY <1>9, <1>11, <2>2, <3>1, <3>2 DEF BufferPassed
  <2>5. BufferDistinct(c)'
    <3>1. /\ DOMAIN buffer[b] = 1..Len(buffer[b]) /\ Len(buffer[b]) \in Nat
          /\ DOMAIN buffer'[b] = 1..Len(buffer[b]) + 1
          /\ \A m \in 1..Len(buffer[b]) : buffer'[b][m] = buffer[b][m]
          /\ buffer'[b][Len(buffer[b]) + 1] = i
      BY <2>1, AppendProperties, LenProperties
    <3>2. \A m \in 1..Len(buffer[b]) : buffer[b][m] # i
      BY <1>9, <1>11, <3>1 DEF Range
    <3>. QED
      BY <1>2, <1>11, <3>1, <3>2 DEF BufferDistinct
  <2>. QED
    BY <1>7, <1>11, <2>3, <2>4, <2>5
<1>12. CASE /\ FromHere(b, log[b][n].intent) /\ UNCHANGED sent /\ c # b
            /\ buffer' = [buffer EXCEPT ![b] = Append(@, i)]
  <2>1. buffer'[c] = buffer[c]
    BY <1>1, <1>12
  <2>. QED
    BY <1>2, <1>6, <1>7, <1>12, <2>1 DEF BufferDistinct, BufferUnsent
<1>. QED
  BY <1>8, <1>10, <1>11, <1>12 DEF ForwardNext, i

LEMMA FlushOnce ==
  ASSUME TypeInv, OwnBuffer, SentOnce, NEW b \in Brokers,
         FlushSends(b) \/ FlushGivesUp(b), UNCHANGED live, NEW c \in Brokers
  PROVE  BufferDistinct(c)' /\ BufferUnsent(c)' /\ BufferPassed(c)' /\ SentPassed(c)'
<1>. DEFINE m == Len(Batch(b))
            size == Len(buffer[b])
<1>1. /\ TypeOK /\ buffer \in [Brokers -> Seq(Intents)] /\ cursor' = cursor
      /\ DOMAIN buffer[b] = 1..size
  <2>1. TypeOK /\ buffer \in [Brokers -> Seq(Intents)] /\ cursor' = cursor
    BY DEF TypeInv, TypeOK, FlushSends, FlushGivesUp
  <2>. QED
    BY <2>1, LenProperties
<1>2. BufferDistinct(c) /\ BufferUnsent(c) /\ BufferPassed(c) /\ SentPassed(c)
  BY SentParts
<1>3. Range(Batch(b)) \subseteq Range(buffer[b])
  BY <1>1, LeftRange
<1>4. CASE FlushSends(b)
  <2>. DEFINE left == Left(b, m)
  <2>1. /\ buffer' = [buffer EXCEPT ![b] = left]
        /\ sent' = sent \cup Range(Batch(b))
    BY <1>4 DEF FlushSends
  <2>2. /\ left \in Seq(Intents) /\ DOMAIN left = 1..size - m
        /\ m \in 0..size /\ size \in Nat /\ DOMAIN Batch(b) = 1..m
        /\ \A k \in 1..size - m : left[k] = buffer[b][m + k]
        /\ \A k \in 1..m : Batch(b)[k] = buffer[b][k]
    BY <1>1, BatchParts, LenProperties
  <2>3. Range(left) \subseteq Range(buffer[b])
    BY <1>1, LeftRange
  <2>4. \A j \in DOMAIN buffer[b] : \A k \in DOMAIN buffer[b] :
          buffer[b][j] = buffer[b][k] => j = k
    BY DEF SentOnce
  <2>. HIDE DEF left, m, size
  <2>5. \A k \in 1..size - m : m + k \in 1..size /\ ~(m + k \in 1..m)
    BY <2>2
  <2>6. Range(left) \cap Range(Batch(b)) = {}
    <3>1. \A k \in 1..m : k \in 1..size
      BY <2>2
    <3>2. \A k \in 1..size - m : \A j \in 1..m : left[k] # Batch(b)[j]
      <4>. TAKE k \in 1..size - m
      <4>. TAKE j \in 1..m
      <4>1. m + k \in DOMAIN buffer[b] /\ j \in DOMAIN buffer[b] /\ m + k # j
        BY <1>1, <2>5, <3>1 DEF size
      <4>2. left[k] = buffer[b][m + k] /\ Batch(b)[j] = buffer[b][j]
        BY <2>2
      <4>. QED
        BY <2>4, <4>1, <4>2
    <3>. QED
      BY <2>2, <3>2 DEF Range
  <2>7. SentPassed(c)'
    <3>1. \A i \in Range(Batch(b)) : i.origin = b /\ i.seq <= cursor[b]
      BY <1>3 DEF OwnBuffer, SentOnce
    <3>. QED
      BY <1>1, <1>2, <2>1, <3>1 DEF SentPassed
  <2>8. CASE c = b
    <3>1. buffer'[c] = left
      BY <1>1, <2>1, <2>8
    <3>2. BufferDistinct(c)'
      <4>1. \A j, k \in 1..size - m : left[j] = left[k] => m + j = m + k
        BY <1>1, <2>2, <2>4, <2>5
      <4>2. \A j, k \in 1..size - m : m + j = m + k => j = k
        BY <2>2
      <4>. QED
        BY <2>2, <3>1, <4>1, <4>2 DEF BufferDistinct
    <3>3. BufferUnsent(c)'
      BY <1>2, <2>1, <2>3, <2>6, <2>8, <3>1 DEF BufferUnsent
    <3>4. BufferPassed(c)'
      BY <1>1, <1>2, <2>3, <2>8, <3>1 DEF BufferPassed
    <3>. QED
      BY <2>7, <3>2, <3>3, <3>4
  <2>9. CASE c # b
    <3>1. buffer'[c] = buffer[c]
      BY <1>1, <2>1, <2>9
    <3>2. Range(buffer[c]) \cap Range(Batch(b)) = {}
      BY <1>3, <2>9 DEF OwnBuffer
    <3>. QED
      BY <1>1, <1>2, <2>1, <2>7, <3>1, <3>2
      DEF BufferDistinct, BufferUnsent, BufferPassed
  <2>. QED
    BY <2>8, <2>9
<1>5. CASE FlushGivesUp(b)
  <2>. DEFINE back == PutBack(b, Batch(b))
  <2>1. buffer' = [buffer EXCEPT ![b] = back] /\ sent' = sent
    BY <1>5 DEF FlushGivesUp
  <2>2. /\ back \in Seq(Intents) /\ Range(back) \subseteq Range(buffer[b])
        /\ DOMAIN back = 1..Len(back) /\ Len(back) \in Nat
        /\ \A k \in 1..Len(back) : back[k] =
             IF k = 1 /\ m > 0 THEN buffer[b][1]
             ELSE IF m > 0 THEN buffer[b][m + k - 1] ELSE buffer[b][k]
    BY <1>1, PutBackParts, LenProperties
  <2>3. Len(back) = IF m > 0 THEN size - m + 1 ELSE size
    BY <1>1, PutBackLength
  <2>4. m \in 0..size /\ size \in Nat
    BY <1>1, BatchParts
  <2>5. \A j \in 1..size : \A k \in 1..size : buffer[b][j] = buffer[b][k] => j = k
    BY <1>1 DEF SentOnce
  <2>. HIDE DEF back, m, size
  <2>6. \A j, k \in DOMAIN back : back[j] = back[k] => j = k
    <3>1. CASE m = 0
      BY <3>1, <2>2, <2>3, <2>4, <2>5
    <3>2. CASE m > 0
      <4>. DEFINE place(k) == IF k = 1 THEN 1 ELSE m + k - 1
      <4>1. \A k \in 1..Len(back) : place(k) \in 1..size /\ back[k] = buffer[b][place(k)]
        BY <3>2, <2>2, <2>3, <2>4
      <4>2. \A j, k \in 1..Len(back) : place(j) = place(k) => j = k
        BY <3>2, <2>2, <2>4
      <4>. HIDE DEF place
      <4>. QED
        BY <4>1, <4>2, <2>2, <2>5
    <3>. QED
      BY <3>1, <3>2, <2>4
  <2>7. CASE c = b
    <3>1. buffer'[c] = back
      BY <1>1, <2>1, <2>7
    <3>. QED
      BY <1>1, <1>2, <2>1, <2>2, <2>6, <2>7, <3>1
      DEF BufferDistinct, BufferUnsent, BufferPassed, SentPassed
  <2>8. CASE c # b
    <3>1. buffer'[c] = buffer[c]
      BY <1>1, <2>1, <2>8
    <3>. QED
      BY <1>1, <1>2, <2>1, <3>1
      DEF BufferDistinct, BufferUnsent, BufferPassed, SentPassed
  <2>. QED
    BY <2>7, <2>8
<1>. QED
  BY <1>4, <1>5

LEMMA SentOnceStep ==
  TypeInv /\ OriginHasIt /\ AppliedOnce /\ OwnBuffer /\ OutInv /\ [Next]_vars
    => SentOnce'
<1>. SUFFICES ASSUME TypeInv, OriginHasIt, AppliedOnce, OwnBuffer, SentOnce,
                     SentRecorded, [Next]_vars, NEW c \in Brokers
     PROVE  BufferDistinct(c)' /\ BufferUnsent(c)' /\ BufferPassed(c)' /\ SentPassed(c)'
  BY SentParts DEF OutInv, SentOnce, BufferDistinct, BufferUnsent, BufferPassed,
     SentPassed
<1>1. /\ TypeOK /\ buffer \in [Brokers -> Seq(Intents)] /\ cursor \in [Brokers -> Nat]
      /\ live \in [Brokers -> BOOLEAN] /\ sent \subseteq Intents
  BY DEF TypeInv, TypeOK
<1>2. BufferDistinct(c) /\ BufferUnsent(c) /\ BufferPassed(c) /\ SentPassed(c)
  BY SentParts
<1>3. CASE UNCHANGED <<cursor, buffer, sent, lost, live>>
  BY <1>2, <1>3 DEF BufferDistinct, BufferUnsent, BufferPassed, SentPassed
<1>4. ASSUME NEW b \in Brokers, Die(b)
      PROVE  BufferDistinct(c)' /\ BufferUnsent(c)' /\ BufferPassed(c)' /\ SentPassed(c)'
  <2>1. /\ buffer' = [buffer EXCEPT ![b] = <<>>] /\ cursor' = [cursor EXCEPT ![b] = 0]
        /\ live' = [live EXCEPT ![b] = FALSE] /\ sent' = sent
    BY <1>4 DEF Die
  <2>2. CASE c = b
    <3>1. buffer'[c] = <<>> /\ live'[c] = FALSE
      BY <1>1, <2>1, <2>2
    <3>2. Range(buffer'[c]) = {}
      BY <3>1, OneMessage
    <3>3. DOMAIN buffer'[c] = {}
      BY <3>1
    <3>. QED
      BY <3>1, <3>2, <3>3 DEF BufferDistinct, BufferUnsent, BufferPassed, SentPassed
  <2>3. CASE c # b
    BY <1>1, <1>2, <2>1, <2>3
    DEF BufferDistinct, BufferUnsent, BufferPassed, SentPassed
  <2>. QED
    BY <2>2, <2>3
<1>5. ASSUME NEW b \in Brokers, BrokerStarts(b)
      PROVE  BufferDistinct(c)' /\ BufferUnsent(c)' /\ BufferPassed(c)' /\ SentPassed(c)'
  <2>1. /\ buffer' = buffer /\ cursor' = [cursor EXCEPT ![b] = Len(log[b])]
        /\ live' = [live EXCEPT ![b] = TRUE] /\ sent' = sent
    BY <1>5 DEF BrokerStarts
  <2>2. \A i \in sent : i.seq <= Len(log[i.origin])
    BY <1>1, InPlace DEF SentRecorded
  <2>3. \A i \in Range(buffer[b]) : i.seq <= Len(log[b])
    <3>. TAKE i \in Range(buffer[b])
    <3>1. i \in Received(b) /\ i.origin = b /\ i \in Intents
      BY <1>1, ReceivedType DEF Received, OwnBuffer
    <3>2. Recorded(i)
      BY <3>1 DEF OriginHasIt, Recorded
    <3>. QED
      BY <1>1, <3>1, <3>2, InPlace
  <2>. QED
    BY <1>1, <1>2, <2>1, <2>2, <2>3
    DEF BufferDistinct, BufferUnsent, BufferPassed, SentPassed
<1>. QED
  BY <1>3, <1>4, <1>5, ForwardOnce, FlushOnce, OutStep

LEMMA OutInvariant ==
  Spec => [](TypeInv /\ OriginHasIt /\ AppliedOnce /\ OwnBuffer /\ OutInv)
<1>1. Init => OwnBuffer /\ OutInv
  <2>. SUFFICES ASSUME Init PROVE OwnBuffer /\ OutInv
    OBVIOUS
  <2>1. sent = {} /\ \A b \in Brokers : buffer[b] = <<>>
    BY DEF Init
  <2>2. DOMAIN <<>> = {} /\ \A b \in Brokers : DOMAIN buffer[b] = {}
    BY <2>1
  <2>3. \A b \in Brokers : Range(buffer[b]) = {}
    BY <2>1, OneMessage
  <2>. QED
    BY <2>1, <2>2, <2>3 DEF OwnBuffer, OutInv, SentOnce, SentRecorded
<1>2. TypeInv /\ [Next]_vars => TypeOK'
  BY TypeStep
<1>3. SentOnce' /\ SentRecorded' => OutInv'
  BY DEF OutInv
<1>4. OutInv => SentRecorded
  BY DEF OutInv
<1>. QED
  BY <1>1, <1>2, <1>3, <1>4, HistoryInvariant, TypeInvariant, OwnBufferStep,
     SentOnceStep, SentRecordedStep, PTL DEF Spec

\* In one life of an adapter an event goes out once.
THEOREM SentAtMostOnce == Spec => []SentOnce
<1>1. OutInv => SentOnce
  BY DEF OutInv
<1>. QED
  BY <1>1, OutInvariant, PTL

-----------------------------------------------------------------------------
(* What becomes of an event *)

\* What b accounts for; a broker that is down has nothing in memory.
Account(b) == sent \cup lost \cup Range(buffer[b])
DeadAccounted == \A b \in Brokers : ~live[b] => OwnIntents(b) \subseteq sent \cup lost
AccountInv == Accounted /\ DeadAccounted

\* Nobody writes to the log of a broker that is down.
LEMMA DeadLog ==
  ASSUME TypeOK, [Next]_vars, NEW c \in Brokers, ~live[c]
  PROVE  log'[c] = log[c]
<1>. USE DEF brokerVars
<1>1. log \in [Brokers -> Seq(Entries)]
  BY DEF TypeOK
<1>2. ASSUME NEW b \in Brokers, NEW l, NEW k, b # c, log' = [log EXCEPT ![b] = k]
      PROVE  log'[c] = log[c]
  BY <1>1, <1>2
<1>3. ASSUME NEW b \in Brokers, NEW i, HandleRemoteEvent(b, i), b # c
      PROVE  log'[c] = log[c]
  BY <1>1, <1>3 DEF HandleRemoteEvent, Online, Offline
<1>4. ASSUME NEW b \in Brokers, Handlers(b), b # c
      PROVE  log'[c] = log[c]
  <2>1. \/ log' = log \/ \E i : HandleRemoteEvent(b, i)
        \/ \E p : Offline(b, log[b], p, TRUE)
    BY <1>4 DEF Handlers, Poll, ForwardNext, FlushTimer, PauseEnds, ConnectOpens,
       OnClose, ReceiveHello, ReceiveRateWarning, ReceiveDraining,
       ReceiveSyncRequest, ReceiveSyncResponse, ContinueSync, ReceiveEvent,
       ReceivePeerLeft, PutOffline
  <2>2. ASSUME NEW p, Offline(b, log[b], p, TRUE) PROVE log'[c] = log[c]
    BY <1>1, <1>4, <2>2 DEF Offline
  <2>. QED
    BY <1>3, <1>4, <2>1, <2>2
<1>5. ~Handlers(c)
  BY DEF Handlers, Poll, ForwardNext, FlushTimer, PauseEnds, ConnectOpens,
     OnClose, ReceiveHello, ReceiveRateWarning, ReceiveDraining,
     ReceiveSyncRequest, ReceiveSyncResponse, ContinueSync, ReceiveEvent,
     ReceivePeerLeft, PutOffline, Got, Idle
<1>6. ASSUME NEW b \in Brokers, Moves(b) PROVE log'[c] = log[c]
  <2>1. \/ log' = log \/ Handlers(b)
        \/ b # c /\ \E k : log' = [log EXCEPT ![b] = k]
    BY <1>6 DEF Moves, Throw, BrokerDies, Die, BrokerStarts, NodeIdTaken,
       SocketDies, ConnectFails, RelaySays, Register, Leave, Talk, ByAgent, Idle,
       Online, Offline
  <2>. QED
    BY <1>2, <1>4, <1>5, <2>1
<1>7. CASE UNCHANGED vars
  BY <1>7 DEF vars
<1>. QED
  BY <1>6, <1>7, NextCases

\* A flush takes nothing out of the account.
LEMMA FlushAccounts ==
  ASSUME TypeOK, NEW b \in Brokers, FlushSends(b) \/ FlushGivesUp(b),
         NEW c \in Brokers
  PROVE  Account(c) \subseteq Account(c)'
<1>. DEFINE m == Len(Batch(b))
            size == Len(buffer[b])
            left == Left(b, m)
            back == PutBack(b, Batch(b))
            rest == SubSeq(Batch(b), 2, m)
<1>1. /\ buffer \in [Brokers -> Seq(Intents)]
      /\ m \in 0..size /\ size \in Nat /\ DOMAIN buffer[b] = 1..size
      /\ Batch(b) \in Seq(Intents) /\ DOMAIN Batch(b) = 1..m
      /\ left \in Seq(Intents) /\ DOMAIN left = 1..size - m
      /\ \A k \in 1..m : Batch(b)[k] = buffer[b][k]
      /\ \A k \in 1..size - m : left[k] = buffer[b][m + k]
  <2>1. /\ buffer \in [Brokers -> Seq(Intents)] /\ buffer[b] \in Seq(Intents)
        /\ Batch(b) \in Seq(Intents) /\ left \in Seq(Intents)
        /\ Len(left) = size - m
        /\ m \in 0..size /\ size \in Nat
        /\ \A k \in 1..m : Batch(b)[k] = buffer[b][k]
        /\ \A k \in 1..size - m : left[k] = buffer[b][m + k]
    BY BatchParts DEF TypeOK
  <2>2. /\ DOMAIN buffer[b] = 1..size /\ DOMAIN Batch(b) = 1..m
        /\ DOMAIN left = 1..size - m
    BY <2>1, LenProperties
  <2>. QED
    BY <2>1, <2>2
<1>2. sent \cup lost \subseteq sent' \cup lost'
  BY DEF FlushSends, FlushGivesUp
<1>3. CASE FlushSends(b)
  <2>1. buffer' = [buffer EXCEPT ![b] = left] /\ sent' = sent \cup Range(Batch(b))
    BY <1>3 DEF FlushSends
  <2>. HIDE DEF m, size, left
  <2>2. \A k \in 1..size : k \in 1..m \/ (k - m \in 1..size - m /\ m + (k - m) = k)
    BY <1>1
  <2>3. \A k \in 1..size : buffer[b][k] \in Range(Batch(b)) \cup Range(left)
    <3>. TAKE k \in 1..size
    <3>1. CASE k \in 1..m
      BY <1>1, <3>1 DEF Range
    <3>2. CASE k - m \in 1..size - m /\ m + (k - m) = k
      <4>1. left[k - m] = buffer[b][k]
        BY <1>1, <3>2
      <4>. QED
        BY <1>1, <3>2, <4>1 DEF Range
    <3>. QED
      BY <2>2, <3>1, <3>2
  <2>4. Range(buffer[b]) \subseteq Range(Batch(b)) \cup Range(left)
    BY <1>1, <2>3 DEF Range
  <2>5. buffer'[c] = IF c = b THEN left ELSE buffer[c]
    BY <1>1, <2>1
  <2>. QED
    BY <1>2, <2>1, <2>4, <2>5 DEF Account
<1>4. CASE FlushGivesUp(b)
  <2>1. buffer' = [buffer EXCEPT ![b] = back] /\ lost' = lost \cup Range(rest)
    BY <1>4 DEF FlushGivesUp
  <2>2. /\ DOMAIN back = 1..IF m > 0 THEN size - m + 1 ELSE size
        /\ \A k \in DOMAIN back : back[k] =
             IF k = 1 /\ m > 0 THEN buffer[b][1]
             ELSE IF m > 0 THEN buffer[b][m + k - 1] ELSE buffer[b][k]
    <3>1. /\ back \in Seq(Intents)
          /\ Len(back) = IF m > 0 THEN size - m + 1 ELSE size
          /\ \A k \in 1..Len(back) : back[k] =
               IF k = 1 /\ m > 0 THEN buffer[b][1]
               ELSE IF m > 0 THEN buffer[b][m + k - 1] ELSE buffer[b][k]
      BY PutBackParts, PutBackLength
    <3>. HIDE DEF back, m, size
    <3>. QED
      BY <3>1, LenProperties
  <2>3. m > 0 => /\ DOMAIN rest = 1..m - 1
                 /\ \A k \in 1..m - 1 : rest[k] = Batch(b)[k + 1]
    <3>1. \A k \in 2..m : Batch(b)[k] \in Intents
      BY <1>1, ElementOfSeq
    <3>2. m \in Nat
      BY <1>1
    <3>. HIDE DEF m
    <3>. QED
      BY <3>1, <3>2, SubSeqProperties DEF rest
  <2>. HIDE DEF m, size, back, rest
  <2>4. \A k \in 1..size : buffer[b][k] \in Range(back) \cup Range(rest)
    <3>. TAKE k \in 1..size
    <3>1. CASE m = 0
      <4>1. k \in DOMAIN back /\ back[k] = buffer[b][k]
        BY <2>2, <3>1
      <4>. QED
        BY <4>1 DEF Range
    <3>2. CASE m > 0 /\ k = 1
      <4>1. 1 \in DOMAIN back /\ back[1] = buffer[b][1]
        BY <1>1, <2>2, <3>2
      <4>. QED
        BY <3>2, <4>1 DEF Range
    <3>3. CASE m > 0 /\ k \in 2..m
      <4>1. k - 1 \in 1..m - 1 /\ (k - 1) + 1 = k /\ k \in 1..m
        BY <1>1, <3>3
      <4>2. k - 1 \in DOMAIN rest /\ rest[k - 1] = buffer[b][k]
        BY <1>1, <2>3, <3>3, <4>1
      <4>. QED
        BY <4>2 DEF Range
    <3>4. CASE m > 0 /\ k > m
      <4>1. /\ k - m + 1 \in 1..size - m + 1 /\ k - m + 1 # 1
            /\ m + (k - m + 1) - 1 = k
        BY <1>1, <3>4
      <4>2. k - m + 1 \in DOMAIN back /\ back[k - m + 1] = buffer[b][k]
        BY <2>2, <3>4, <4>1
      <4>. QED
        BY <4>2 DEF Range
    <3>. QED
      BY <1>1, <3>1, <3>2, <3>3, <3>4
  <2>5. Range(buffer[b]) \subseteq Range(back) \cup Range(rest)
    BY <1>1, <2>4 DEF Range
  <2>6. buffer'[c] = IF c = b THEN back ELSE buffer[c]
    BY <1>1, <2>1
  <2>. QED
    BY <1>2, <2>1, <2>5, <2>6 DEF Account
<1>. QED
  BY <1>3, <1>4

\* Only the end of the process takes out of the account what it adds to lost.
LEMMA AccountGrows ==
  ASSUME TypeInv, [Next]_vars, NEW c \in Brokers
  PROVE  sent \cup lost \subseteq sent' \cup lost'
         /\ (Account(c) \subseteq Account(c)' \/ Die(c))
<1>1. TypeOK /\ buffer \in [Brokers -> Seq(Intents)]
  BY DEF TypeInv, TypeOK
<1>2. CASE UNCHANGED <<cursor, buffer, sent, lost, live>>
  BY <1>2 DEF Account
<1>3. ASSUME NEW b \in Brokers, ForwardNext(b)
      PROVE  /\ sent \cup lost \subseteq sent' \cup lost'
             /\ Account(c) \subseteq Account(c)'
  <2>. DEFINE i == Envelope(b, cursor[b] + 1)
  <2>1. sent \cup lost \subseteq sent' \cup lost'
    BY <1>3 DEF ForwardNext
  <2>2. CASE buffer' = buffer
    BY <2>1, <2>2 DEF Account
  <2>3. CASE /\ FromHere(b, log[b][cursor[b] + 1].intent)
             /\ buffer' = [buffer EXCEPT ![b] = Append(@, i)]
    <3>1. i \in Intents
      BY <1>3, <2>3, Forwarded
    <3>2. Range(Append(buffer[b], i)) = Range(buffer[b]) \cup {i}
      BY <1>1, <3>1, AppendRange
    <3>3. Range(buffer[c]) \subseteq Range(buffer'[c])
      BY <1>1, <2>3, <3>2
    <3>. QED
      BY <2>1, <3>3 DEF Account
  <2>. QED
    BY <1>3, <2>2, <2>3, <2>1 DEF ForwardNext
<1>4. ASSUME NEW b \in Brokers, FlushSends(b) \/ FlushGivesUp(b)
      PROVE  /\ sent \cup lost \subseteq sent' \cup lost'
             /\ Account(c) \subseteq Account(c)'
  <2>1. sent \cup lost \subseteq sent' \cup lost'
    BY <1>4 DEF FlushSends, FlushGivesUp
  <2>. QED
    BY <1>1, <1>4, <2>1, FlushAccounts
<1>5. ASSUME NEW b \in Brokers, Die(b)
      PROVE  /\ sent \cup lost \subseteq sent' \cup lost'
             /\ Account(c) \subseteq Account(c)' \/ Die(c)
  <2>1. /\ sent' = sent /\ lost \subseteq lost'
        /\ buffer' = [buffer EXCEPT ![b] = <<>>]
    BY <1>5 DEF Die
  <2>2. c # b => buffer'[c] = buffer[c]
    BY <1>1, <2>1
  <2>. QED
    BY <1>5, <2>1, <2>2 DEF Account
<1>6. ASSUME NEW b \in Brokers, BrokerStarts(b) PROVE UNCHANGED <<buffer, sent, lost>>
  BY <1>6 DEF BrokerStarts
<1>. QED
  BY <1>2, <1>3, <1>4, <1>5, <1>6, OutStep DEF Account

LEMMA DeadAccountedStep ==
  TypeInv /\ DeadAccounted /\ [Next]_vars => DeadAccounted'
<1>. SUFFICES ASSUME TypeInv, DeadAccounted, [Next]_vars, NEW c \in Brokers,
                     ~live'[c]
     PROVE  OwnIntents(c)' \subseteq sent' \cup lost'
  BY DEF DeadAccounted
<1>1. TypeOK /\ live \in [Brokers -> BOOLEAN]
  BY DEF TypeInv, TypeOK
<1>2. CASE ~live[c]
  <2>1. log'[c] = log[c]
    BY <1>1, <1>2, DeadLog
  <2>2. OwnIntents(c)' = OwnIntents(c)
    BY <2>1 DEF OwnIntents, FromHere
  <2>. QED
    BY <1>2, <2>2, AccountGrows DEF DeadAccounted
<1>3. CASE live[c]
  <2>1. ASSUME NEW b \in Brokers, Die(b) PROVE b = c
    BY <1>1, <1>3, <2>1 DEF Die
  <2>2. ASSUME NEW b \in Brokers, BrokerStarts(b) PROVE FALSE
    BY <1>1, <1>3, <2>2 DEF BrokerStarts
  <2>3. ASSUME NEW b \in Brokers, ForwardNext(b) PROVE FALSE
    BY <1>3, <2>3 DEF ForwardNext
  <2>4. Die(c)
    BY <1>3, <2>1, <2>2, <2>3, OutStep
  <2>5. /\ log' = log /\ sent' = sent
        /\ lost' = lost \cup (OwnIntents(c) \ sent)
    BY <2>4 DEF Die
  <2>6. OwnIntents(c)' = OwnIntents(c)
    BY <2>5 DEF OwnIntents, FromHere
  <2>. QED
    BY <2>5, <2>6
<1>. QED
  BY <1>2, <1>3

LEMMA AccountedStep ==
  TypeInv /\ TypeOK' /\ AccountInv /\ [Next]_vars => Accounted'
<1>. SUFFICES ASSUME TypeInv, TypeOK', Accounted, DeadAccounted, [Next]_vars,
                     NEW c \in Brokers,
                     NEW n \in 1..Lesser(cursor'[c], Len(log'[c])),
                     FromHere(c, log'[c][n].intent)
     PROVE  log'[c][n].intent \in Account(c)'
  BY DEF AccountInv, Accounted, Account, FromHere
<1>1. /\ TypeOK /\ cursor \in [Brokers -> Nat] /\ live \in [Brokers -> BOOLEAN]
      /\ cursor[c] <= Len(log[c]) /\ cursor'[c] <= Len(log[c])
      /\ log[c] \in Seq(Entries) /\ log'[c] \in Seq(Entries)
      /\ cursor'[c] \in Nat
  BY CursorStep DEF TypeInv, TypeOK, InLog
<1>2. /\ Len(log[c]) \in Nat /\ Len(log'[c]) \in Nat
      /\ DOMAIN log[c] = 1..Len(log[c])
  BY <1>1, LenProperties
<1>3. n \in 1..cursor'[c] /\ n \in 1..Len(log[c]) /\ log'[c][n] = log[c][n]
  <2>1. n \in 1..cursor'[c] /\ n \in 1..Len(log[c])
    BY <1>1, <1>2 DEF Lesser
  <2>. QED
    BY <1>1, <2>1, LogKept
<1>4. ASSUME n <= cursor[c] PROVE log[c][n].intent \in Account(c)
  <2>1. n \in 1..Lesser(cursor[c], Len(log[c]))
    BY <1>1, <1>2, <1>3, <1>4 DEF Lesser
  <2>. QED
    BY <1>3, <2>1 DEF Accounted, Account
<1>5. Account(c) \subseteq Account(c)' \/ Die(c)
  BY AccountGrows
<1>6. ~Die(c)
  <2>1. ASSUME Die(c) PROVE cursor'[c] = 0
    BY <1>1, <2>1 DEF Die
  <2>. QED
    BY <1>1, <1>3, <2>1
<1>7. CASE n <= cursor[c]
  BY <1>3, <1>4, <1>5, <1>6, <1>7
<1>8. CASE n > cursor[c] /\ ForwardNext(c)
  <2>1. n = cursor[c] + 1
    <3>1. cursor'[c] = cursor[c] + 1
      BY <1>1, <1>8 DEF ForwardNext
    <3>. QED
      BY <1>1, <1>3, <1>8, <3>1
  <2>2. /\ FromHere(c, log[c][n].intent) /\ Envelope(c, n) = log[c][n].intent
        /\ Envelope(c, n) \in Intents
    BY <1>3, <1>8, <2>1, Forwarded
  <2>3. \/ sent' = sent \cup {Envelope(c, n)} \/ lost' = lost \cup {Envelope(c, n)}
        \/ buffer' = [buffer EXCEPT ![c] = Append(@, Envelope(c, n))]
    BY <1>8, <2>1, <2>2 DEF ForwardNext
  <2>4. CASE buffer' = [buffer EXCEPT ![c] = Append(@, Envelope(c, n))]
    <3>1. /\ buffer[c] \in Seq(Intents)
          /\ buffer'[c] = Append(buffer[c], Envelope(c, n))
      BY <1>1, <2>4 DEF TypeOK
    <3>2. Envelope(c, n) \in Range(buffer'[c])
      BY <2>2, <3>1, AppendRange
    <3>. QED
      BY <1>3, <2>2, <3>2 DEF Account
  <2>. QED
    BY <1>3, <2>2, <2>3, <2>4 DEF Account
<1>9. CASE n > cursor[c] /\ BrokerStarts(c)
  <2>1. ~live[c]
    BY <1>9 DEF BrokerStarts
  <2>2. log[c][n].intent \in OwnIntents(c)
    BY <1>2, <1>3 DEF OwnIntents, Range
  <2>. QED
    BY <1>3, <1>5, <1>6, <2>1, <2>2 DEF DeadAccounted, Account
<1>10. n <= cursor[c] \/ ForwardNext(c) \/ BrokerStarts(c)
  <2>1. ASSUME NEW b \in Brokers, b # c, ForwardNext(b) \/ Die(b) \/ BrokerStarts(b)
        PROVE  cursor'[c] = cursor[c]
    BY <1>1, <2>1 DEF ForwardNext, Die, BrokerStarts
  <2>2. ASSUME NEW b \in Brokers, FlushSends(b) \/ FlushGivesUp(b)
        PROVE  cursor'[c] = cursor[c]
    BY <2>2 DEF FlushSends, FlushGivesUp
  <2>3. \/ cursor'[c] = cursor[c] \/ ForwardNext(c) \/ BrokerStarts(c)
    BY <1>6, <2>1, <2>2, OutStep
  <2>. QED
    BY <1>1, <1>3, <2>3
<1>. QED
  BY <1>1, <1>3, <1>7, <1>8, <1>9, <1>10

\* Of an event that the cursor has passed it is known where it is, or that it
\* is lost.
THEOREM EveryEventAccounted == Spec => []Accounted
<1>1. Init => AccountInv
  BY DEF Init, AccountInv, Accounted, DeadAccounted, Lesser
<1>2. TypeInv /\ [Next]_vars => TypeOK'
  BY TypeStep
<1>3. /\ AccountInv => Accounted /\ DeadAccounted
      /\ Accounted' /\ DeadAccounted' => AccountInv'
  BY DEF AccountInv
<1>. QED
  BY <1>1, <1>2, <1>3, TypeInvariant, DeadAccountedStep, AccountedStep, PTL
  DEF Spec
=============================================================================
