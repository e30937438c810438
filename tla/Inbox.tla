------------------------------- MODULE Inbox -------------------------------
(***************************************************************************)
(* The durable core of message delivery: the event log, the receipt of     *)
(* each intent, the inbox rows and the cursor of each participant          *)
(* (src/store/event-store.js), and the clients that read and acknowledge.  *)
(*                                                                         *)
(* Each store method is one SQLite transaction of the single-threaded      *)
(* broker, so one action.  Event n of the log has event_id n: the key is   *)
(* AUTOINCREMENT and a refused append rolls its row back.                  *)
(*                                                                         *)
(* Events written before the receipts table was introduced have none       *)
(* (Legacy); their inboxes may be incomplete.  A sender resends an intent  *)
(* whose answer it lost, possibly to other recipients: recipients are      *)
(* resolved anew from the roster at each call.                             *)
(*                                                                         *)
(* A reader polls one participant's inbox behind its own cursor and        *)
(* acknowledges the last event of what it processed; it may be restarted   *)
(* between the two and then starts from an older cursor.                   *)
(***************************************************************************)
EXTENDS Integers, Sequences, FiniteSets

CONSTANTS
  Intents,       \* intent ids
  Contents,      \* what canonicalJson tells apart
  Participants,
  Limit,         \* page size of readInbox
  Legacy,        \* bound: events older than the receipts
  MaxRestarts    \* bound: restarts of readers

ASSUME LimitType == Limit \in Nat \ {0}
ASSUME LegacyType == Legacy \in Nat
ASSUME RestartsType == MaxRestarts \in Nat

VARIABLES
  log,        \* events: [intent, content, to, receipt]
  rows,       \* inbox_entries of each participant
  discarded,  \* of those, the ones with discarded_at
  cursor,     \* participant_cursors
  at,         \* cursor of the participant's reader
  batch,      \* events the reader has read and not finished
  done,       \* history: events the reader finished
  restarts

storeVars  == <<log, rows, discarded, cursor>>
readerVars == <<at, batch, done, restarts>>
vars == <<storeVars, readerVars>>

Event == [intent : Intents, content : Contents, to : SUBSET Participants,
          receipt : BOOLEAN]
Ids == 1..Len(log)

TypeOK ==
  /\ log \in Seq(Event)
  /\ rows \in [Participants -> SUBSET Ids]
  /\ discarded \in [Participants -> SUBSET Ids]
  /\ cursor \in [Participants -> Nat]
  /\ at \in [Participants -> Nat]
  /\ batch \in [Participants -> SUBSET Ids]
  /\ done \in [Participants -> SUBSET Ids]
  /\ restarts \in Nat

\* A database that was migrated: its events have rows for some of their
\* recipients, and no receipts.
Init ==
  /\ \E old \in 0..Legacy :
       /\ log \in [1..old -> [intent : Intents, content : Contents,
                              to : SUBSET Participants, receipt : {FALSE}]]
       /\ rows \in [Participants -> SUBSET (1..old)]
  /\ \A m, n \in Ids : log[m].intent = log[n].intent => m = n
  /\ \A p \in Participants : \A n \in rows[p] : p \in log[n].to
  /\ discarded = [p \in Participants |-> {}]
  /\ cursor = [p \in Participants |-> 0]
  /\ at = [p \in Participants |-> 0]
  /\ batch = [p \in Participants |-> {}]
  /\ done = [p \in Participants |-> {}]
  /\ restarts = 0

EventsOf(i) == {n \in Ids : log[n].intent = i}

-----------------------------------------------------------------------------
(* The store *)

\* Mutant: a retry is compared by its content only.
SameContent(n, c, to) == log[n].receipt /\ log[n].content = c

\* A retry is the same intent only if its content and its set of recipients
\* are those of the receipt; an event without receipt proves neither.
SameIntent(n, c, to) ==
  log[n].receipt /\ log[n].content = c /\ log[n].to = to

\* INSERT OR IGNORE of one row for each recipient.
RowsFor(to, n) ==
  [p \in Participants |-> IF p \in to THEN rows[p] \cup {n} ELSE rows[p]]

AppendNew(i, c, to) ==
  /\ EventsOf(i) = {}
  /\ log' = Append(log, [intent |-> i, content |-> c, to |-> to,
                         receipt |-> TRUE])
  /\ rows' = RowsFor(to, Len(log) + 1)
  /\ UNCHANGED <<discarded, cursor, readerVars>>

\* Any other retry is refused: intent_conflict, intent_recipients_unconfirmed.
AppendDuplicate(i, c, to) ==
  /\ \E n \in EventsOf(i) :
       /\ SameIntent(n, c, to)
       /\ rows' = RowsFor(to, n)
  /\ UNCHANGED <<log, discarded, cursor, readerVars>>

AppendIntent(i, c, to) == AppendNew(i, c, to) \/ AppendDuplicate(i, c, to)

\* Only an event of its own inbox moves a participant's cursor forward.
Owns(p, n) == n <= cursor[p] \/ n \in rows[p] \ discarded[p]

CursorAfter(p, n) == IF n > cursor[p] THEN n ELSE cursor[p]

\* ackInbox; the acked_at mark of a row is a function of the cursor.
AckInbox(p, n) ==
  /\ Owns(p, n)
  /\ cursor' = [cursor EXCEPT ![p] = CursorAfter(p, n)]
  /\ UNCHANGED <<log, rows, discarded>>

\* discardInbox, when the broker prunes a participant.
DiscardInbox(p) ==
  /\ discarded' = [discarded EXCEPT ![p] = @ \cup rows[p]]
  /\ UNCHANGED <<log, rows, cursor, readerVars>>

-----------------------------------------------------------------------------
(* Readers *)

\* Mutant: the newest events come first.
NewestFirst(p) ==
  {n \in rows[p] \ discarded[p] :
     n > at[p] /\ Cardinality({m \in rows[p] \ discarded[p] : m > n}) < Limit}

\* readInbox: the oldest Limit rows behind the reader's cursor.
ReadInbox(p) ==
  LET open == {n \in rows[p] \ discarded[p] : n > at[p]}
  IN  {n \in open : Cardinality({m \in open : m < n}) < Limit}

Poll(p) ==
  /\ batch[p] = {}
  /\ ReadInbox(p) # {}
  /\ batch' = [batch EXCEPT ![p] = ReadInbox(p)]
  /\ UNCHANGED <<storeVars, at, done, restarts>>

\* The reader has worked through its batch and moves its cursor.
Finish(p) ==
  /\ \E n \in batch[p] :
       /\ \A m \in batch[p] : m <= n
       /\ at' = [at EXCEPT ![p] = n]
  /\ done' = [done EXCEPT ![p] = @ \cup batch[p]]
  /\ batch' = [batch EXCEPT ![p] = {}]
  /\ UNCHANGED <<storeVars, restarts>>

\* It acknowledges where its cursor is.
Acknowledge(p) ==
  /\ at[p] > 0
  /\ AckInbox(p, at[p])
  /\ UNCHANGED readerVars

\* A restarted reader starts from a cursor it had before.
Restart(p, n) ==
  /\ restarts < MaxRestarts
  /\ n <= at[p]
  /\ restarts' = restarts + 1
  /\ at' = [at EXCEPT ![p] = n]
  /\ batch' = [batch EXCEPT ![p] = {}]
  /\ UNCHANGED <<storeVars, done>>

Next ==
  \/ \E i \in Intents, c \in Contents, to \in SUBSET Participants :
        AppendIntent(i, c, to)
  \/ \E p \in Participants : DiscardInbox(p)
  \/ \E p \in Participants : Poll(p)
  \/ \E p \in Participants : Finish(p)
  \/ \E p \in Participants : Acknowledge(p)
  \/ \E p \in Participants, n \in {0} \cup Ids : Restart(p, n)

Spec == Init /\ [][Next]_vars

\* Readers poll on a timer and finish what they read.
LiveSpec ==
  Spec /\ \A p \in Participants : WF_vars(Poll(p)) /\ WF_vars(Finish(p))

-----------------------------------------------------------------------------
(* Safety *)

\* However often a sender retries, and whatever the roster says by then, an
\* intent is one event, in the inboxes of the recipients of its receipt and
\* of nobody else.
OneEventPerIntent ==
  /\ \A m, n \in Ids : log[m].intent = log[n].intent => m = n
  /\ \A n \in Ids, p \in Participants :
       /\ n \in rows[p] => p \in log[n].to
       /\ log[n].receipt /\ p \in log[n].to => n \in rows[p]

\* A cursor stands on an event of its own participant.
CursorOwned == \A p \in Participants : cursor[p] # 0 => cursor[p] \in rows[p]

\* At-least-once: no event is acknowledged, by it or by an acknowledgement of
\* a later one, before the reader finished it, unless the inbox was thrown
\* away.
AckedWasDone ==
  \A p \in Participants, n \in Ids :
    n \in rows[p] /\ n <= cursor[p] => n \in done[p] \cup discarded[p]

\* No row ever appears behind the cursor of its participant or of the reader
\* that passed there, where nobody would look for it.
NoRowBehindCursor ==
  [][\A p \in Participants : \A n \in rows'[p] \ rows[p] :
       n > cursor[p] /\ n > at[p]]_vars

\* A cursor never goes back, and a thrown away inbox stays so.
Forward ==
  [][\A p \in Participants :
       cursor'[p] >= cursor[p] /\ discarded[p] \subseteq discarded'[p]]_vars

\* Every event in an inbox is finished by its reader or thrown away, if the
\* reader is not restarted for ever.
Delivered ==
  \A p \in Participants : \A n \in 1..(Cardinality(Intents)) :
    (n \in Ids /\ n \in rows[p]) ~> (n \in done[p] \cup discarded[p])

-----------------------------------------------------------------------------
(* The promise of Mailbox *)

\* A participant still has to settle the rows that were neither thrown away
\* nor passed by its cursor.
Open == [p \in Participants |->
           {n \in rows[p] : n \notin discarded[p] /\ n > cursor[p]}]
Posted == {i \in Intents : EventsOf(i) # {}}

Abstract == INSTANCE Mailbox WITH posted <- Posted, last <- Len(log),
                                  mail <- Open

\* The log, the receipts, the rows and the cursors together behave as the
\* mailbox a participant is promised.
Promise == Abstract!MailboxSpec
=============================================================================
