------------------------------ MODULE Mailbox ------------------------------
(***************************************************************************)
(* What the broker promises a participant about its mail: an intent enters *)
(* the mailboxes of its recipients at one moment, behind everything that   *)
(* is there, and at most once ever; it leaves only when the participant    *)
(* settles it or its whole mailbox is thrown away.                         *)
(***************************************************************************)
EXTENDS Integers

CONSTANTS Intents, Participants

VARIABLES
  posted,   \* intents that were ever posted
  last,     \* number of the last letter
  mail      \* letters each participant still has to settle

mailboxVars == <<posted, last, mail>>

MailboxInit ==
  /\ posted \subseteq Intents
  /\ last \in Nat
  /\ mail \in [Participants -> SUBSET (1..last)]

\* One letter, in all mailboxes at once.
Post(i, to) ==
  /\ i \notin posted
  /\ posted' = posted \cup {i}
  /\ last' = last + 1
  /\ mail' = [p \in Participants |->
                IF p \in to THEN mail[p] \cup {last'} ELSE mail[p]]

\* A participant settles a letter and everything older.
Settle(p, n) ==
  /\ n \in mail[p]
  /\ mail' = [mail EXCEPT ![p] = {m \in @ : m > n}]
  /\ UNCHANGED <<posted, last>>

ThrowAway(p) ==
  /\ mail' = [mail EXCEPT ![p] = {}]
  /\ UNCHANGED <<posted, last>>

MailboxNext ==
  \/ \E i \in Intents, to \in SUBSET Participants : Post(i, to)
  \/ \E p \in Participants : ThrowAway(p) \/ \E n \in mail[p] : Settle(p, n)

MailboxSpec == MailboxInit /\ [][MailboxNext]_mailboxVars
=============================================================================
