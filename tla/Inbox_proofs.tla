---------------------------- MODULE Inbox_proofs ----------------------------
(***************************************************************************)
(* Proofs about Inbox for any intents, participants, page size and         *)
(* history of the database.                                                *)
(*                                                                         *)
(* The invariants of the store and of the readers are inductive only       *)
(* together with ReaderInv: a batch has no gaps, so a reader that stands   *)
(* at an event has finished everything before it.                          *)
(***************************************************************************)
EXTENDS Inbox, FiniteSetTheorems, TLAPS

-----------------------------------------------------------------------------
(* Pages *)

\* A page of the inbox has no gap: with an event it holds every older one
\* that the reader has not passed.
LEMMA PageHasNoGap ==
  ASSUME TypeOK, NEW p \in Participants,
         NEW m \in ReadInbox(p), NEW n \in rows[p] \ discarded[p],
         n > at[p], n <= m
  PROVE  n \in ReadInbox(p)
<1>. DEFINE open == {x \in rows[p] \ discarded[p] : x > at[p]}
            older(x) == {y \in open : y < x}
<1>1. m \in open /\ n \in open /\ open \subseteq Ids
  BY DEF TypeOK, ReadInbox
<1>2. IsFiniteSet(Ids)
  <2>1. Len(log) \in Int
    BY DEF TypeOK
  <2>. QED
    BY <2>1, FS_Interval DEF Ids
<1>3. older(m) \subseteq Ids /\ IsFiniteSet(older(m))
  BY <1>1, <1>2, FS_Subset
<1>4. older(n) \subseteq older(m)
  <2>1. m \in Int /\ n \in Int /\ \A x \in open : x \in Int
    BY <1>1 DEF Ids
  <2>. QED
    BY <2>1
<1>5. IsFiniteSet(older(n)) /\ Cardinality(older(n)) <= Cardinality(older(m))
  BY <1>3, <1>4, FS_Subset
<1>6. Cardinality(older(n)) \in Nat /\ Cardinality(older(m)) \in Nat
  BY <1>3, <1>5, FS_CardinalityType
<1>7. Cardinality(older(m)) < Limit
  BY DEF ReadInbox
<1>8. Cardinality(older(n)) < Limit
  BY <1>5, <1>6, <1>7, LimitType
<1>. QED
  BY <1>1, <1>8 DEF ReadInbox

-----------------------------------------------------------------------------
(* Types *)

LEMMA TypeInit == Init => TypeOK
<1>. SUFFICES ASSUME Init PROVE TypeOK
  OBVIOUS
<1>. DEFINE Unreceipted == [intent : Intents, content : Contents,
                            to : SUBSET Participants, receipt : {FALSE}]
<1>1. PICK old \in 0..Legacy :
        /\ log \in [1..old -> Unreceipted]
        /\ rows \in [Participants -> SUBSET (1..old)]
  BY DEF Init
<1>2. log \in Seq(Event) /\ Len(log) = old
  <2>1. Unreceipted \subseteq Event
    BY DEF Event
  <2>. HIDE DEF Unreceipted
  <2>2. log \in [1..old -> Event]
    BY <1>1, <2>1
  <2>3. old \in Nat
    BY LegacyType
  <2>. QED
    BY <2>2, <2>3
<1>3. rows \in [Participants -> SUBSET Ids]
  BY <1>1, <1>2 DEF Ids
<1>. QED
  BY <1>2, <1>3 DEF Init, TypeOK

\* The rows that an append or a retry leaves behind.
LEMMA RowsForType ==
  ASSUME TypeOK, NEW to \in SUBSET Participants, NEW n \in Ids',
         Ids \subseteq Ids'
  PROVE  RowsFor(to, n) \in [Participants -> SUBSET Ids']
<1>. QED
  BY DEF RowsFor, TypeOK

LEMMA TypeStep == TypeOK /\ [Next]_vars => TypeOK'
<1>. SUFFICES ASSUME TypeOK, [Next]_vars PROVE TypeOK'
  OBVIOUS
<1>1. ASSUME NEW i \in Intents, NEW c \in Contents,
             NEW to \in SUBSET Participants, AppendNew(i, c, to)
      PROVE  TypeOK'
  <2>1. log' \in Seq(Event) /\ Len(log') = Len(log) + 1 /\ Len(log) \in Nat
    BY <1>1 DEF AppendNew, TypeOK, Event
  <2>2. Len(log) + 1 \in Ids' /\ Ids \subseteq Ids'
    BY <2>1 DEF Ids
  <2>3. rows' \in [Participants -> SUBSET Ids']
    <3>1. rows' = RowsFor(to, Len(log) + 1)
      BY <1>1 DEF AppendNew
    <3>. QED
      BY <2>2, <3>1, RowsForType
  <2>. QED
    BY <1>1, <2>1, <2>2, <2>3 DEF AppendNew, TypeOK, readerVars
<1>2. ASSUME NEW i \in Intents, NEW c \in Contents,
             NEW to \in SUBSET Participants, AppendDuplicate(i, c, to)
      PROVE  TypeOK'
  <2>1. log' = log /\ Len(log) \in Nat /\ Ids' = Ids
    BY <1>2 DEF AppendDuplicate, TypeOK, Ids
  <2>2. PICK n \in Ids : rows' = RowsFor(to, n)
    BY <1>2 DEF AppendDuplicate, EventsOf
  <2>3. rows' \in [Participants -> SUBSET Ids']
    BY <2>1, <2>2, RowsForType
  <2>. QED
    BY <1>2, <2>1, <2>3 DEF AppendDuplicate, TypeOK, readerVars
<1>3. ASSUME NEW p \in Participants, DiscardInbox(p) PROVE TypeOK'
  BY <1>3 DEF DiscardInbox, TypeOK, Ids, readerVars
<1>4. ASSUME NEW p \in Participants, Poll(p) PROVE TypeOK'
  <2>1. ReadInbox(p) \subseteq Ids
    BY DEF ReadInbox, TypeOK
  <2>. QED
    BY <1>4, <2>1 DEF Poll, TypeOK, Ids, storeVars
<1>5. ASSUME NEW p \in Participants, Finish(p) PROVE TypeOK'
  BY <1>5 DEF Finish, TypeOK, Ids, storeVars
<1>6. ASSUME NEW p \in Participants, Acknowledge(p) PROVE TypeOK'
  BY <1>6 DEF Acknowledge, AckInbox, CursorAfter, TypeOK, Ids, readerVars
<1>7. ASSUME NEW p \in Participants, NEW n \in {0} \cup Ids, Restart(p, n)
      PROVE  TypeOK'
  BY <1>7 DEF Restart, TypeOK, Ids, storeVars
<1>8. CASE UNCHANGED vars
  BY <1>8 DEF vars, storeVars, readerVars, TypeOK, Ids
<1>. QED
  BY <1>1, <1>2, <1>3, <1>4, <1>5, <1>6, <1>7, <1>8 DEF Next, AppendIntent

\* The log is a sequence of events, the inboxes name events of the log.
THEOREM TypeCorrect == Spec => []TypeOK
<1>. QED
  BY TypeInit, TypeStep, PTL DEF Spec

-----------------------------------------------------------------------------
(* The inductive invariant *)

\* A reader has finished every row up to its cursor, and its batch has no
\* gap, except for rows that were thrown away.
ReaderInv ==
  \A p \in Participants :
    /\ at[p] <= Len(log)
    /\ batch[p] \subseteq rows[p]
    /\ \A m \in batch[p] : m > at[p]
    /\ \A n \in rows[p] : n <= at[p] => n \in done[p] \cup discarded[p]
    /\ \A n \in rows[p], m \in batch[p] :
         n <= m => n \in batch[p] \cup done[p] \cup discarded[p]

InboxInv ==
  TypeOK /\ OneEventPerIntent /\ CursorOwned /\ AckedWasDone /\ ReaderInv

LEMMA InboxInit == Init => InboxInv
<1>. SUFFICES ASSUME Init PROVE InboxInv
  OBVIOUS
<1>1. TypeOK
  BY TypeInit
<1>2. Len(log) \in Nat /\ \A n \in Ids : n > 0 /\ log[n].receipt = FALSE
  <2>1. PICK old \in 0..Legacy :
          log \in [1..old -> [intent : Intents, content : Contents,
                              to : SUBSET Participants, receipt : {FALSE}]]
    BY DEF Init
  <2>2. Ids = 1..old /\ old \in Nat
    BY <1>1, <2>1, LegacyType DEF TypeOK, Ids
  <2>3. \A n \in 1..old : log[n].receipt = FALSE
    BY <2>1
  <2>. QED
    BY <1>1, <2>2, <2>3 DEF TypeOK
<1>3. OneEventPerIntent
  BY <1>2 DEF Init, OneEventPerIntent
<1>4. CursorOwned /\ AckedWasDone
  BY <1>2 DEF Init, CursorOwned, AckedWasDone
<1>5. ReaderInv
  BY <1>1, <1>2 DEF Init, ReaderInv, TypeOK
<1>. QED
  BY <1>1, <1>3, <1>4, <1>5 DEF InboxInv

\* A retry that is accepted finds all its rows: the store does not change.
LEMMA RetryChangesNothing ==
  ASSUME TypeOK, OneEventPerIntent,
         NEW i \in Intents, NEW c \in Contents,
         NEW to \in SUBSET Participants, AppendDuplicate(i, c, to)
  PROVE  UNCHANGED vars
<1>1. PICK n \in EventsOf(i) : SameIntent(n, c, to) /\ rows' = RowsFor(to, n)
  BY DEF AppendDuplicate
<1>2. n \in Ids /\ log[n].receipt /\ log[n].to = to
  BY <1>1 DEF EventsOf, SameIntent
<1>3. \A p \in to : rows[p] \cup {n} = rows[p]
  BY <1>2 DEF OneEventPerIntent
<1>4. RowsFor(to, n) = rows
  BY <1>3 DEF RowsFor, TypeOK
<1>. QED
  BY <1>1, <1>4 DEF AppendDuplicate, vars, storeVars

\* A new event is in the inboxes of its recipients only, behind all others.
LEMMA NewEvent ==
  ASSUME InboxInv, NEW i \in Intents, NEW c \in Contents,
         NEW to \in SUBSET Participants, AppendNew(i, c, to)
  PROVE  /\ Len(log) \in Nat
         /\ Len(log') = Len(log) + 1
         /\ Ids' = Ids \cup {Len(log) + 1}
         /\ Len(log) + 1 \notin Ids
         /\ \A n \in Ids : log'[n] = log[n] /\ log[n].intent # i
         /\ log'[Len(log) + 1].intent = i
         /\ log'[Len(log) + 1].to = to
         /\ \A p \in Participants :
              /\ rows[p] \subseteq Ids
              /\ rows[p] \subseteq rows'[p]
              /\ rows'[p] \subseteq rows[p] \cup {Len(log) + 1}
              /\ Len(log) + 1 \in rows'[p] <=> p \in to
         /\ UNCHANGED <<discarded, cursor, at, batch, done>>
<1>1. Len(log) \in Nat /\ Len(log') = Len(log) + 1
  BY DEF InboxInv, TypeOK, AppendNew
<1>2. /\ \A n \in Ids : log'[n] = log[n]
      /\ log'[Len(log) + 1].intent = i
      /\ log'[Len(log) + 1].to = to
  BY <1>1 DEF InboxInv, TypeOK, AppendNew, Ids
<1>3. \A n \in Ids : log[n].intent # i
  BY DEF AppendNew, EventsOf
<1>4. Ids' = Ids \cup {Len(log) + 1} /\ Len(log) + 1 \notin Ids
  BY <1>1 DEF Ids
<1>5. \A p \in Participants : rows[p] \subseteq Ids
  BY DEF InboxInv, TypeOK
<1>6. \A p \in Participants :
        /\ rows[p] \subseteq rows'[p]
        /\ rows'[p] \subseteq rows[p] \cup {Len(log) + 1}
        /\ Len(log) + 1 \in rows'[p] <=> p \in to
  BY <1>4, <1>5 DEF AppendNew, RowsFor
<1>. QED
  BY <1>1, <1>2, <1>3, <1>4, <1>5, <1>6 DEF AppendNew, readerVars

LEMMA InboxStep == InboxInv /\ [Next]_vars => InboxInv'
<1>. SUFFICES ASSUME InboxInv, [Next]_vars PROVE InboxInv'
  OBVIOUS
<1>0. TypeOK /\ TypeOK'
  BY TypeStep DEF InboxInv
<1>1. ASSUME NEW i \in Intents, NEW c \in Contents,
             NEW to \in SUBSET Participants, AppendNew(i, c, to)
      PROVE  InboxInv'
  <2>. DEFINE new == Len(log) + 1
  <2>1. \A n \in Ids : n < new /\ n \in Nat
    BY <1>1, NewEvent DEF Ids
  <2>2. OneEventPerIntent'
    <3>1. \A m, n \in Ids' : log'[m].intent = log'[n].intent => m = n
      BY <1>1, NewEvent DEF OneEventPerIntent, InboxInv
    <3>2. \A n \in Ids', p \in Participants :
            /\ n \in rows'[p] => p \in log'[n].to
            /\ log'[n].receipt /\ p \in log'[n].to => n \in rows'[p]
      <4>. TAKE n \in Ids', p \in Participants
      <4>1. CASE n = new
        BY <1>1, <4>1, NewEvent
      <4>2. CASE n \in Ids
        <5>1. log'[n] = log[n] /\ n # new /\ (n \in rows'[p] <=> n \in rows[p])
          BY <1>1, <4>2, NewEvent
        <5>. QED
          BY <4>2, <5>1 DEF OneEventPerIntent, InboxInv
      <4>. QED
        BY <1>1, <4>1, <4>2, NewEvent
    <3>. QED
      BY <3>1, <3>2 DEF OneEventPerIntent
  <2>3. CursorOwned'
    BY <1>1, NewEvent DEF CursorOwned, InboxInv
  <2>4. \A p \in Participants : cursor[p] < new /\ cursor[p] \in Nat
    BY <1>0, <1>1, <2>1, NewEvent DEF CursorOwned, InboxInv, TypeOK
  <2>5. AckedWasDone'
    BY <1>1, <2>1, <2>4, NewEvent DEF AckedWasDone, InboxInv
  <2>6. ReaderInv'
    <3>. SUFFICES ASSUME NEW p \in Participants
                  PROVE  /\ at[p] <= Len(log')
                         /\ batch[p] \subseteq rows'[p]
                         /\ \A m \in batch[p] : m > at[p]
                         /\ \A n \in rows'[p] :
                              n <= at[p] => n \in done[p] \cup discarded[p]
                         /\ \A n \in rows'[p], m \in batch[p] :
                              n <= m => n \in batch[p] \cup done[p]
                                              \cup discarded[p]
      BY <1>1, NewEvent DEF ReaderInv
    <3>1. /\ at[p] \in Nat
          /\ at[p] < new
          /\ \A m \in batch[p] : m < new /\ m \in Nat
      BY <1>0, <1>1, <2>1, NewEvent DEF ReaderInv, InboxInv, TypeOK
    <3>2. \A n \in rows'[p] : n \in rows[p] \/ n = new
      BY <1>1, NewEvent
    <3>3. new \in Nat /\ at[p] <= Len(log')
      BY <1>1, <3>1, NewEvent
    <3>4. batch[p] \subseteq rows'[p]
      BY <1>1, NewEvent DEF ReaderInv, InboxInv
    <3>. QED
      BY <3>1, <3>2, <3>3, <3>4 DEF ReaderInv, InboxInv
  <2>. QED
    BY <1>0, <2>2, <2>3, <2>5, <2>6 DEF InboxInv
<1>2. CASE UNCHANGED vars
  BY <1>0, <1>2 DEF InboxInv, OneEventPerIntent, CursorOwned, AckedWasDone,
                    ReaderInv, Ids, vars, storeVars, readerVars
<1>3. ASSUME NEW i \in Intents, NEW c \in Contents,
             NEW to \in SUBSET Participants, AppendDuplicate(i, c, to)
      PROVE  InboxInv'
  BY <1>0, <1>2, <1>3, RetryChangesNothing DEF InboxInv
<1>4. ASSUME UNCHANGED <<log, rows, cursor>> PROVE OneEventPerIntent' /\ CursorOwned'
  BY <1>4 DEF InboxInv, OneEventPerIntent, CursorOwned, Ids
<1>5. ASSUME NEW p \in Participants, DiscardInbox(p) PROVE InboxInv'
  <2>1. \A q \in Participants : discarded[q] \subseteq discarded'[q]
    BY <1>0, <1>5 DEF DiscardInbox, TypeOK, InboxInv, Ids
  <2>2. AckedWasDone'
    BY <1>5, <2>1 DEF DiscardInbox, readerVars, AckedWasDone, InboxInv, Ids
  <2>3. ReaderInv'
    BY <1>5, <2>1 DEF DiscardInbox, readerVars, ReaderInv, InboxInv
  <2>. QED
    BY <1>0, <1>4, <1>5, <2>2, <2>3 DEF DiscardInbox, InboxInv
<1>6. ASSUME NEW p \in Participants, Poll(p) PROVE InboxInv'
  <2>1. AckedWasDone'
    BY <1>6 DEF Poll, storeVars, AckedWasDone, InboxInv, Ids
  <2>2. /\ ReadInbox(p) \subseteq rows[p]
        /\ \A m \in ReadInbox(p) : m > at[p]
    BY DEF ReadInbox
  <2>3. ASSUME NEW n \in rows[p], NEW m \in ReadInbox(p), n <= m
        PROVE  n \in ReadInbox(p) \cup done[p] \cup discarded[p]
    <3>1. n \in Nat /\ at[p] \in Nat
      BY <1>0 DEF TypeOK, Ids
    <3>2. CASE n <= at[p]
      BY <3>2 DEF ReaderInv, InboxInv
    <3>3. CASE n > at[p] /\ n \notin discarded[p]
      BY <1>0, <2>3, <3>3, PageHasNoGap
    <3>. QED
      BY <3>1, <3>2, <3>3
  <2>4. batch' = [batch EXCEPT ![p] = ReadInbox(p)]
    BY <1>6 DEF Poll
  <2>5. ReaderInv'
    BY <1>0, <1>6, <2>2, <2>3, <2>4 DEF Poll, storeVars, ReaderInv, InboxInv, TypeOK
  <2>. QED
    BY <1>0, <1>4, <1>6, <2>1, <2>5 DEF Poll, storeVars, InboxInv
<1>7. ASSUME NEW p \in Participants, Finish(p) PROVE InboxInv'
  <2>1. /\ \A q \in Participants : done[q] \subseteq done'[q]
        /\ done'[p] = done[p] \cup batch[p]
        /\ batch'[p] = {}
        /\ \A q \in Participants \ {p} : batch'[q] = batch[q] /\ at'[q] = at[q]
    BY <1>0, <1>7 DEF Finish, TypeOK
  <2>2. AckedWasDone'
    BY <1>7, <2>1 DEF Finish, storeVars, AckedWasDone, InboxInv, Ids
  <2>3. PICK n \in batch[p] : (\A m \in batch[p] : m <= n) /\ at'[p] = n
    BY <1>0, <1>7 DEF Finish, TypeOK
  <2>4. n \in Ids /\ Len(log) \in Nat /\ Len(log') = Len(log)
    BY <1>0, <1>7 DEF Finish, storeVars, TypeOK
  <2>5. at'[p] <= Len(log')
    BY <2>3, <2>4 DEF Ids
  <2>6. \A x \in rows[p] : x <= at'[p] => x \in done'[p] \cup discarded[p]
    BY <2>1, <2>3 DEF ReaderInv, InboxInv
  <2>7. ReaderInv'
    BY <1>7, <2>1, <2>5, <2>6 DEF Finish, storeVars, ReaderInv, InboxInv
  <2>. QED
    BY <1>0, <1>4, <1>7, <2>2, <2>7 DEF Finish, storeVars, InboxInv
<1>8. ASSUME NEW p \in Participants, Acknowledge(p) PROVE InboxInv'
  <2>1. /\ \A q \in Participants \ {p} : cursor'[q] = cursor[q]
        /\ cursor'[p] = CursorAfter(p, at[p])
        /\ UNCHANGED <<log, rows, discarded, at, batch, done>>
        /\ Owns(p, at[p])
    BY <1>0, <1>8 DEF Acknowledge, AckInbox, TypeOK, readerVars
  <2>2. \/ cursor'[p] = cursor[p]
        \/ cursor'[p] = at[p] /\ at[p] \in rows[p]
    BY <1>0, <2>1 DEF CursorAfter, Owns, TypeOK
  <2>3. OneEventPerIntent' /\ ReaderInv'
    BY <2>1 DEF OneEventPerIntent, ReaderInv, InboxInv, Ids
  <2>4. CursorOwned'
    BY <2>1, <2>2 DEF CursorOwned, InboxInv
  <2>5. AckedWasDone'
    BY <2>1, <2>2 DEF AckedWasDone, ReaderInv, InboxInv, Ids
  <2>. QED
    BY <1>0, <2>3, <2>4, <2>5 DEF InboxInv
<1>9. ASSUME NEW p \in Participants, NEW n \in {0} \cup Ids, Restart(p, n)
      PROVE  InboxInv'
  <2>1. AckedWasDone'
    BY <1>9 DEF Restart, storeVars, AckedWasDone, InboxInv, Ids
  <2>2. /\ \A q \in Participants \ {p} : batch'[q] = batch[q] /\ at'[q] = at[q]
        /\ batch'[p] = {}
        /\ at'[p] = n /\ n <= at[p]
        /\ UNCHANGED <<log, rows, discarded, done>>
    BY <1>0, <1>9 DEF Restart, storeVars, TypeOK
  <2>3. n \in Nat /\ at[p] \in Nat /\ rows[p] \subseteq Nat /\ Len(log) \in Nat
    BY <1>0 DEF TypeOK, Ids
  <2>4. ReaderInv'
    BY <2>2, <2>3 DEF ReaderInv, InboxInv
  <2>. QED
    BY <1>0, <1>4, <1>9, <2>1, <2>4 DEF Restart, storeVars, InboxInv
<1>. QED
  BY <1>1, <1>2, <1>3, <1>5, <1>6, <1>7, <1>8, <1>9 DEF Next, AppendIntent

LEMMA InboxInvHolds == Spec => []InboxInv
<1>. QED
  BY InboxInit, InboxStep, PTL DEF Spec
-----------------------------------------------------------------------------
(* The properties *)

\* However often a sender retries, and with whatever recipients, an intent is
\* one event in the inboxes of the recipients of its receipt.
THEOREM IntentIsOneEvent == Spec => []OneEventPerIntent
<1>. QED
  BY InboxInvHolds, PTL DEF InboxInv

\* A participant's cursor stands on an event of its own inbox.
THEOREM CursorIsOwned == Spec => []CursorOwned
<1>. QED
  BY InboxInvHolds, PTL DEF InboxInv

\* At-least-once delivery: what an acknowledgement covers was finished by
\* the reader, whatever the page size, the retries and the restarts.
THEOREM AcknowledgedWasDone == Spec => []AckedWasDone
<1>. QED
  BY InboxInvHolds, PTL DEF InboxInv

\* What a step does to the cursors and the thrown away rows.
LEMMA ForwardStep ==
  InboxInv /\ [Next]_vars =>
    \A p \in Participants :
      cursor'[p] >= cursor[p] /\ discarded[p] \subseteq discarded'[p]
<1>. SUFFICES ASSUME InboxInv, [Next]_vars
              PROVE  \A q \in Participants :
                       /\ cursor'[q] >= cursor[q]
                       /\ discarded[q] \subseteq discarded'[q]
  OBVIOUS
<1>0. TypeOK /\ \A q \in Participants : cursor[q] \in Nat
  BY DEF InboxInv, TypeOK
<1>1. ASSUME UNCHANGED <<discarded, cursor>>
      PROVE  \A q \in Participants :
               /\ cursor'[q] >= cursor[q]
               /\ discarded[q] \subseteq discarded'[q]
  BY <1>0, <1>1
<1>2. ASSUME NEW p \in Participants, DiscardInbox(p)
      PROVE  \A q \in Participants :
               /\ cursor'[q] >= cursor[q]
               /\ discarded[q] \subseteq discarded'[q]
  BY <1>0, <1>2 DEF DiscardInbox, TypeOK
<1>3. ASSUME NEW p \in Participants, Acknowledge(p)
      PROVE  \A q \in Participants :
               /\ cursor'[q] >= cursor[q]
               /\ discarded[q] \subseteq discarded'[q]
  <2>1. at[p] \in Nat
    BY <1>0 DEF TypeOK
  <2>. QED
    BY <1>0, <1>3, <2>1 DEF Acknowledge, AckInbox, CursorAfter, TypeOK
<1>. QED
  BY <1>1, <1>2, <1>3
  DEF Next, AppendIntent, AppendNew, AppendDuplicate, Poll, Finish, Restart,
      vars, storeVars, readerVars

\* A cursor never goes back, also when a restarted reader acknowledges an
\* old event, and a thrown away inbox stays thrown away.
THEOREM CursorsMoveForward == Spec => Forward
<1>. QED
  BY InboxInvHolds, ForwardStep, PTL DEF Spec, Forward

LEMMA RowsStep ==
  InboxInv /\ [Next]_vars =>
    \A p \in Participants : \A n \in rows'[p] \ rows[p] :
      n > cursor[p] /\ n > at[p]
<1>. SUFFICES ASSUME InboxInv, [Next]_vars, NEW p \in Participants,
                     NEW n \in rows'[p] \ rows[p]
              PROVE  n > cursor[p] /\ n > at[p]
  OBVIOUS
<1>1. \E i \in Intents, c \in Contents, to \in SUBSET Participants :
        AppendNew(i, c, to)
  <2>1. rows' # rows
    OBVIOUS
  <2>2. ASSUME NEW i \in Intents, NEW c \in Contents,
               NEW to \in SUBSET Participants, AppendDuplicate(i, c, to)
        PROVE  FALSE
    BY <2>1, <2>2, RetryChangesNothing DEF InboxInv, vars, storeVars
  <2>. QED
    BY <2>1, <2>2
    DEF Next, AppendIntent, DiscardInbox, Poll, Finish, Acknowledge, AckInbox,
        Restart, vars, storeVars, readerVars
<1>2. PICK i \in Intents, c \in Contents, to \in SUBSET Participants :
        AppendNew(i, c, to)
  BY <1>1
<1>3. n = Len(log) + 1 /\ Len(log) \in Nat
  BY <1>2, NewEvent
<1>4. cursor[p] \in Nat /\ at[p] \in Nat
  BY DEF InboxInv, TypeOK
<1>5. cursor[p] <= Len(log)
  BY <1>3, <1>4 DEF InboxInv, CursorOwned, TypeOK, Ids
<1>6. at[p] <= Len(log)
  BY DEF InboxInv, ReaderInv
<1>. QED
  BY <1>3, <1>4, <1>5, <1>6

\* No row is ever written where its participant no longer looks.
THEOREM RowsAppearAhead == Spec => NoRowBehindCursor
<1>. QED
  BY InboxInvHolds, RowsStep, PTL DEF Spec, NoRowBehindCursor

-----------------------------------------------------------------------------
(* Refinement *)

LEMMA MailboxInitially == Init => Abstract!MailboxInit
<1>. SUFFICES ASSUME Init PROVE Abstract!MailboxInit
  OBVIOUS
<1>1. TypeOK /\ Len(log) \in Nat
  BY TypeInit DEF TypeOK
<1>2. Posted \subseteq Intents
  BY DEF Posted
<1>3. Open \in [Participants -> SUBSET (1..Len(log))]
  BY <1>1 DEF TypeOK, Ids, Open
<1>. QED
  BY <1>1, <1>2, <1>3 DEF Abstract!MailboxInit

LEMMA MailboxStep ==
  InboxInv /\ [Next]_vars => [Abstract!MailboxNext]_(Abstract!mailboxVars)
<1>. SUFFICES ASSUME InboxInv, [Next]_vars
              PROVE  \/ Abstract!MailboxNext
                     \/ UNCHANGED <<Posted, Len(log), Open>>
  BY DEF Abstract!mailboxVars
<1>0. TypeOK
  BY DEF InboxInv
<1>1. ASSUME NEW i \in Intents, NEW c \in Contents,
             NEW to \in SUBSET Participants, AppendNew(i, c, to)
      PROVE  Abstract!Post(i, to)
  <2>. DEFINE new == Len(log) + 1
  <2>1. i \notin Posted /\ EventsOf(i) = {}
    BY <1>1 DEF Posted, AppendNew
  <2>2. Posted' = Posted \cup {i}
    <3>1. \A n \in Ids : log'[n].intent = log[n].intent
      BY <1>1, NewEvent
    <3>2. \A j \in Intents :
            (\E n \in Ids' : log'[n].intent = j)
              <=> (\E n \in Ids : log[n].intent = j) \/ j = i
      BY <1>1, <3>1, NewEvent
    <3>. QED
      BY <3>2 DEF Posted, EventsOf
  <2>3. Len(log') = Len(log) + 1
    BY <1>1, NewEvent
  <2>4. ASSUME NEW p \in Participants
        PROVE  Open'[p] = IF p \in to THEN Open[p] \cup {Len(log')} ELSE Open[p]
    <3>1. new > cursor[p] /\ new \notin discarded[p] /\ new \notin Open[p]
      <4>1. new \notin Ids /\ discarded[p] \subseteq Ids /\ rows[p] \subseteq Ids
        BY <1>0, <1>1, NewEvent DEF TypeOK
      <4>2. cursor[p] \in Nat /\ cursor[p] <= Len(log) /\ Len(log) \in Nat
        BY <1>0 DEF InboxInv, CursorOwned, TypeOK, Ids
      <4>. QED
        BY <4>1, <4>2 DEF Open
    <3>2. rows'[p] = IF p \in to THEN rows[p] \cup {new} ELSE rows[p]
      BY <1>1 DEF AppendNew, RowsFor
    <3>3. Open'[p] = {n \in rows'[p] : n \notin discarded[p] /\ n > cursor[p]}
      BY <1>1, NewEvent DEF Open
    <3>4. Open[p] = {n \in rows[p] : n \notin discarded[p] /\ n > cursor[p]}
      BY DEF Open
    <3>. QED
      BY <2>3, <3>1, <3>2, <3>3, <3>4
  <2>5. Open' = [p \in Participants |->
                  IF p \in to THEN Open[p] \cup {Len(log')} ELSE Open[p]]
    BY <2>4 DEF Open
  <2>. QED
    BY <2>1, <2>2, <2>3, <2>5 DEF Abstract!Post
<1>2. ASSUME UNCHANGED <<log, rows, discarded, cursor>>
      PROVE  UNCHANGED <<Posted, Len(log), Open>>
  BY <1>2 DEF Posted, EventsOf, Ids, Open
<1>3. ASSUME NEW i \in Intents, NEW c \in Contents,
             NEW to \in SUBSET Participants, AppendDuplicate(i, c, to)
      PROVE  UNCHANGED <<log, rows, discarded, cursor>>
  BY <1>0, <1>3, RetryChangesNothing DEF InboxInv, vars, storeVars
<1>4. ASSUME NEW p \in Participants, DiscardInbox(p)
      PROVE  Abstract!ThrowAway(p)
  <2>1. Open' = [Open EXCEPT ![p] = {}]
    <3>1. /\ discarded'[p] = discarded[p] \cup rows[p]
          /\ \A q \in Participants \ {p} : discarded'[q] = discarded[q]
          /\ UNCHANGED <<rows, cursor>>
      BY <1>0, <1>4 DEF DiscardInbox, TypeOK
    <3>. QED
      BY <3>1 DEF Open
  <2>2. UNCHANGED <<Posted, Len(log)>>
    BY <1>4 DEF DiscardInbox, Posted, EventsOf, Ids
  <2>. QED
    BY <2>1, <2>2 DEF Abstract!ThrowAway
<1>5. ASSUME NEW p \in Participants, Acknowledge(p)
      PROVE  \/ \E n \in Open[p] : Abstract!Settle(p, n)
             \/ UNCHANGED <<Posted, Len(log), Open>>
  <2>. DEFINE n == at[p]
  <2>1. /\ cursor' = [cursor EXCEPT ![p] = CursorAfter(p, n)]
        /\ UNCHANGED <<log, rows, discarded>>
        /\ n <= cursor[p] \/ n \in rows[p] \ discarded[p]
    BY <1>5 DEF Acknowledge, AckInbox, Owns
  <2>2. n \in Nat /\ cursor[p] \in Nat /\ \A m \in rows[p] : m \in Nat
    BY <1>0 DEF TypeOK, Ids
  <2>3. UNCHANGED <<Posted, Len(log)>>
    BY <2>1 DEF Posted, EventsOf, Ids
  <2>4. CASE n <= cursor[p]
    <3>1. cursor' = cursor
      BY <1>0, <2>1, <2>2, <2>4 DEF CursorAfter, TypeOK
    <3>. QED
      BY <2>1, <3>1, <1>2
  <2>5. CASE n > cursor[p]
    <3>1. n \in Open[p]
      BY <2>1, <2>2, <2>5 DEF Open
    <3>2. cursor' = [cursor EXCEPT ![p] = n]
      BY <2>1, <2>5 DEF CursorAfter
    <3>3. cursor'[p] = n /\ \A q \in Participants \ {p} : cursor'[q] = cursor[q]
      BY <1>0, <3>2 DEF TypeOK
    <3>4. Open'[p] = {m \in Open[p] : m > n}
      <4>1. Open'[p] = {m \in rows[p] : m \notin discarded[p] /\ m > n}
        BY <2>1, <3>3 DEF Open
      <4>2. Open[p] = {m \in rows[p] : m \notin discarded[p] /\ m > cursor[p]}
        BY DEF Open
      <4>. QED
        BY <2>2, <2>5, <4>1, <4>2
    <3>5. \A q \in Participants \ {p} : Open'[q] = Open[q]
      BY <2>1, <3>3 DEF Open
    <3>6. Open' = [Open EXCEPT ![p] = {m \in @ : m > n}]
      BY <3>4, <3>5 DEF Open
    <3>. QED
      BY <2>3, <3>1, <3>6 DEF Abstract!Settle
  <2>. QED
    BY <2>2, <2>4, <2>5
<1>. QED
  BY <1>1, <1>2, <1>3, <1>4, <1>5
  DEF Abstract!MailboxNext, Next, AppendIntent, Poll, Finish, Restart,
      vars, storeVars

\* The event store with its retries, pages, cursors and restarting readers
\* behaves as the mailbox a participant is promised.
THEOREM KeepsPromise == Spec => Promise
<1>1. Spec => Abstract!MailboxInit /\ [][Abstract!MailboxNext]_(Abstract!mailboxVars)
  BY MailboxInitially, MailboxStep, InboxInvHolds, PTL DEF Spec
<1>. QED
  BY <1>1 DEF Promise, Abstract!MailboxSpec

=============================================================================
