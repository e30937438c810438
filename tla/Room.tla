-------------------------------- MODULE Room --------------------------------
(***************************************************************************)
(* One collaboration room of the broker: its lifecycle, its members, the   *)
(* messages of its transcript and the wakes they oblige agents to answer   *)
(* (src/room/service.js over src/room/store.js).                           *)
(*                                                                         *)
(* The broker is one single-threaded process over a synchronous SQLite     *)
(* file.  A service method without an await is one action.  The exceptions *)
(* are the two places where another step can fall inside a method:         *)
(*   - finalizeMemberRemovals awaits the blocker check of each agent, so   *)
(*     it is one action that reads the pending members and one action per  *)
(*     answer (variable todo);                                             *)
(*   - settleArchiveGrace and deleteRoom write several times outside one   *)
(*     transaction, so a crash can fall between two writes (variables call *)
(*     and torn).  No handler runs between those writes, only a crash.     *)
(*                                                                         *)
(* The room is one that never enabled the workspace protocol: no workspace *)
(* claim and no disclosure lease guards it.  Client messages are named by  *)
(* their idempotency key, the reply to a wake by the wake it answers       *)
(* (its key in the code is "wake:" and the claim token, one per wake).     *)
(* Revisions are left out: a call whose expected revision mismatches is    *)
(* refused and changes nothing, and a match adds no effect.                *)
(***************************************************************************)
EXTENDS Integers, FiniteSets

CONSTANTS
  Users,        \* human members
  Agents,       \* logical agents
  System,       \* the kswarm or desktop service as a message sender
  Keys,         \* idempotency keys of client messages
  Requests,     \* request ids of cancelDiscussion
  Finalizers,   \* concurrent calls of finalizeMemberRemovals
  Changes,      \* the member changes owners ask for
  Nothing,      \* no delivery is half settled
  MaxAgents,    \* ROOM_MAX_ACTIVE_AGENT_MEMBERS
  Grace,        \* ROOM_WAKE_CLAIM_GRACE_MS, in clock ticks
  MaxCrashes    \* bound: crashes of the broker process

Change == [add : SUBSET Agents, remove : SUBSET Agents,
           addUsers : SUBSET Users, removeUsers : SUBSET Users,
           promote : SUBSET Users, demote : SUBSET Users]

ASSUME SendersDistinct ==
  /\ Users \cap Agents = {}
  /\ System \notin Users \cup Agents
ASSUME ChangesType ==
  /\ Changes \subseteq Change
  /\ \A c \in Changes : c.promote \cap c.demote = {}
ASSUME BoundsType ==
  /\ MaxAgents \in Nat
  /\ Grace \in Nat
  /\ MaxCrashes \in Nat
ASSUME NothingIsNoDelivery == Nothing \notin Keys \X Agents

VARIABLES
  status,     \* rooms.status, "none" before the room exists
  deleted,    \* rooms.deleted_at is set
  epoch,      \* rooms.discussion_epoch
  lastSeq,    \* room_sequences.last_sequence
  user,       \* user rows of room_members: absent, or the role (always active)
  agent,      \* agent rows of room_members: absent, or the status
  msg,        \* room_messages by idempotency key; seq = 0: not sent
  wake,       \* wake_status of the delivery of a message to an agent
  left,       \* ticks until claim_lease_until of a claimed delivery, else 0
  reply,      \* room_sequence of the reply to a wake, 0: none
  audits,     \* rows of room_execution_audit for a wake
  cancelled,  \* request ids recorded as discussion-cancel
  departed,   \* history: users whose removal was acknowledged, not re-added
  call,       \* multi-write method running in the process
  torn,       \* delivery that method set to failed and did not audit yet
  todo,       \* agents each running finalizeMemberRemovals still awaits
  crashes

roomVars   == <<status, deleted, epoch, lastSeq, cancelled>>
memberVars == <<user, agent, departed>>
wakeVars   == <<wake, left, reply, audits>>
processVars == <<call, torn, todo, crashes>>
vars == <<roomVars, memberVars, msg, wakeVars, processVars>>

RoomStatus   == {"none", "active", "archiving", "archived"}
UserStatus   == {"absent", "member", "owner"}
AgentStatus  == {"absent", "active", "pending_removal", "removed"}
WakeStatus   == {"none", "not_requested", "pending", "claimed",
                 "completed", "failed", "cancelled"}
Sources      == {"none", "user", "agent", "system"}
Message      == [source : Sources, to : SUBSET Agents, epoch : Nat, seq : Nat]
NoMessage    == [source |-> "none", to |-> {}, epoch |-> 0, seq |-> 0]

TypeOK ==
  /\ status \in RoomStatus
  /\ deleted \in BOOLEAN
  /\ epoch \in Nat
  /\ lastSeq \in Nat
  /\ user \in [Users -> UserStatus]
  /\ agent \in [Agents -> AgentStatus]
  /\ msg \in [Keys -> Message]
  /\ wake \in [Keys -> [Agents -> WakeStatus]]
  /\ left \in [Keys -> [Agents -> Int]]
  /\ reply \in [Keys -> [Agents -> Nat]]
  /\ audits \in [Keys -> [Agents -> Nat]]
  /\ cancelled \subseteq Requests
  /\ departed \subseteq Users
  /\ call \in {"idle", "settle", "delete"}
  /\ torn \in (Keys \X Agents) \cup {Nothing}
  /\ todo \in [Finalizers -> SUBSET Agents]
  /\ crashes \in Nat

Sent(k)      == msg[k].seq > 0
Idle         == call = "idle"
Exists       == status # "none" /\ ~deleted           \* requireRoom
Owner(u)     == user[u] = "owner"                     \* requireActiveOwner
ActiveAgents == {a \in Agents : agent[a] = "active"}

Init ==
  /\ status = "none" /\ deleted = FALSE
  /\ epoch = 0 /\ lastSeq = 0
  /\ user = [u \in Users |-> "absent"]
  /\ agent = [a \in Agents |-> "absent"]
  /\ msg = [k \in Keys |-> NoMessage]
  /\ wake = [k \in Keys |-> [a \in Agents |-> "none"]]
  /\ left = [k \in Keys |-> [a \in Agents |-> 0]]
  /\ reply = [k \in Keys |-> [a \in Agents |-> 0]]
  /\ audits = [k \in Keys |-> [a \in Agents |-> 0]]
  /\ cancelled = {} /\ departed = {}
  /\ call = "idle" /\ torn = Nothing
  /\ todo = [f \in Finalizers |-> {}]
  /\ crashes = 0

-----------------------------------------------------------------------------
(* Lifecycle *)

\* A user creates the room and owns it; a retry with the same request key
\* finds the room and changes nothing.
CreateRoom(u, members) ==
  /\ Idle
  /\ status = "none"
  /\ Cardinality(members) <= MaxAgents
  /\ status' = "active"
  /\ user' = [user EXCEPT ![u] = "owner"]
  /\ agent' = [a \in Agents |-> IF a \in members THEN "active" ELSE "absent"]
  /\ UNCHANGED <<deleted, epoch, lastSeq, cancelled, departed, msg,
                 wakeVars, processVars>>

\* Every wake nobody claimed yet is cancelled.
CancelPending ==
  [k \in Keys |-> [a \in Agents |->
     IF wake[k][a] = "pending" THEN "cancelled" ELSE wake[k][a]]]

ArchiveTransaction ==
  /\ status' = "archiving"
  /\ epoch' = epoch + 1
  /\ wake' = CancelPending

ArchiveRoom(u) ==
  /\ Idle
  /\ Exists /\ Owner(u)
  /\ status = "active"
  /\ ArchiveTransaction
  /\ UNCHANGED <<deleted, lastSeq, cancelled, memberVars, msg,
                 left, reply, audits, processVars>>

\* Mutant: a claim holds the archive open whatever its lease says.
LeaseRunsForever(k, a) == wake[k][a] = "claimed"

\* settleArchiveGrace waits while a claimed wake's lease runs.
LeaseRuns(k, a) == wake[k][a] = "claimed" /\ left[k][a] > 0
Unsettled == \E k \in Keys, a \in Agents : LeaseRuns(k, a)
Claimed   == {d \in Keys \X Agents : wake[d[1]][d[2]] = "claimed"}

SettleArchiveGrace ==
  /\ Idle
  /\ Exists
  /\ status = "archiving"
  /\ call' = "settle"
  /\ UNCHANGED <<roomVars, memberVars, msg, wakeVars, torn, todo, crashes>>

\* deleteRoom archives an active room, then settles, then deletes.
DeleteRoom(u) ==
  /\ Idle
  /\ Exists /\ Owner(u)
  /\ \/ /\ status = "active"
        /\ ArchiveTransaction
     \/ /\ status # "active"
        /\ UNCHANGED <<status, epoch, wake>>
  /\ call' = "delete"
  /\ UNCHANGED <<deleted, lastSeq, cancelled, memberVars, msg,
                 left, reply, audits, torn, todo, crashes>>

\* The writes of settleArchiveGrace, in the order of the code: for each
\* claimed delivery the status, then the audit row, and the room last.
Settling == call # "idle" /\ status = "archiving" /\ ~Unsettled

SettleFail(k, a) ==
  /\ Settling
  /\ torn = Nothing
  /\ wake[k][a] = "claimed"
  /\ wake' = [wake EXCEPT ![k][a] = "failed"]
  /\ left' = [left EXCEPT ![k][a] = 0]
  /\ torn' = <<k, a>>
  /\ UNCHANGED <<roomVars, memberVars, msg, reply, audits, call, todo, crashes>>

SettleAudit(k, a) ==
  /\ Settling
  /\ torn = <<k, a>>
  /\ audits' = [audits EXCEPT ![k][a] = @ + 1]
  /\ torn' = Nothing
  /\ UNCHANGED <<roomVars, memberVars, msg, wake, left, reply,
                 call, todo, crashes>>

\* Mutant: the room is archived before its expired claims are settled.
NoClaimLeftUnchecked == TRUE
NoClaimLeft == Claimed = {}

SettleArchive ==
  /\ Settling
  /\ torn = Nothing
  /\ NoClaimLeft
  /\ status' = "archived"
  /\ UNCHANGED <<deleted, epoch, lastSeq, cancelled, memberVars, msg,
                 wakeVars, processVars>>

\* The method returns.  deleteRoom first deletes a room that is archived
\* with no claimed wake, and else answers room_delete_pending.
MayDelete == status = "archived" /\ Claimed = {}

CallReturns ==
  /\ call # "idle"
  /\ torn = Nothing
  /\ status = "archiving" => Unsettled
  /\ deleted' = (deleted \/ (call = "delete" /\ MayDelete))
  /\ call' = "idle"
  /\ UNCHANGED <<status, epoch, lastSeq, cancelled, memberVars, msg,
                 wakeVars, torn, todo, crashes>>

-----------------------------------------------------------------------------
(* Members *)

\* Mutant: demotions are not counted.
KeepsOwnerIgnoringDemotion(c) ==
  \E u \in Users : Owner(u) /\ u \notin c.removeUsers

\* No change may leave the room without an owner.
KeepsOwner(c) ==
  \E u \in Users : Owner(u) /\ u \notin c.removeUsers \cup c.demote

ProjectedAgents(c) ==
  Cardinality((ActiveAgents \ c.remove) \cup (c.add \ ActiveAgents))

AgentAfter(c, a) ==
  LET added == IF a \in c.add THEN "active" ELSE agent[a]
  IN  IF a \in c.remove /\ added = "active" THEN "pending_removal" ELSE added

\* The code applies addUserIds and the role changes; it never applies
\* removeUserIds.
UserAfter(c, u) ==
  LET added == IF u \in c.addUsers /\ user[u] = "absent" THEN "member"
               ELSE user[u]
  IN  IF added = "absent" THEN "absent"
      ELSE IF u \in c.promote THEN "owner"
      ELSE IF u \in c.demote THEN "member"
      ELSE added

UpdateRoomMembers(u, c) ==
  /\ Idle
  /\ Exists /\ Owner(u)
  /\ status = "active"
  /\ KeepsOwner(c)
  /\ ProjectedAgents(c) <= MaxAgents
  /\ agent' = [a \in Agents |-> AgentAfter(c, a)]
  /\ user' = [v \in Users |-> UserAfter(c, v)]
  /\ departed' = (departed \ c.addUsers) \cup (c.removeUsers \ c.addUsers)
  /\ UNCHANGED <<roomVars, msg, wakeVars, processVars>>

\* finalizeMemberRemovals reads the pending members once ...
FinalizeMemberRemovals(f) ==
  /\ Idle
  /\ Exists
  /\ todo[f] = {}
  /\ todo' = [todo EXCEPT ![f] = {a \in Agents : agent[a] = "pending_removal"}]
  /\ UNCHANGED <<roomVars, memberVars, msg, wakeVars, call, torn, crashes>>

\* ... and applies the answer of each blocker check to the row as it is when
\* the answer arrives, whatever the row says by then.
BlockerCheckAnswered(f, a, blocked) ==
  /\ Idle
  /\ a \in todo[f]
  /\ agent' = [agent EXCEPT ![a] = IF blocked THEN "active" ELSE "removed"]
  /\ todo' = [todo EXCEPT ![f] = @ \ {a}]
  /\ UNCHANGED <<roomVars, user, departed, msg, wakeVars, call, torn, crashes>>

-----------------------------------------------------------------------------
(* Messages *)

SourceOf(s) == IF s = System THEN "system"
               ELSE IF s \in Users THEN "user" ELSE "agent"

MayPost(s) ==
  \/ s = System
  \/ s \in Users /\ user[s] # "absent"
  \/ s \in Agents /\ agent[s] = "active"

\* Mutant: rows are replaced instead of kept (INSERT OR REPLACE).
DeliveriesReplaced(k, to) ==
  [a \in Agents |->
     IF agent[a] # "active" THEN wake[k][a]
     ELSE IF a \in to THEN "pending" ELSE "not_requested"]

\* buildDeliveries over the members active now: one row each, pending for the
\* agents the message addresses, and INSERT OR IGNORE keeps the rows there.
DeliveriesOf(k, to) ==
  [a \in Agents |->
     IF wake[k][a] # "none" \/ agent[a] # "active" THEN wake[k][a]
     ELSE IF a \in to THEN "pending" ELSE "not_requested"]

\* Messages of users and of the system open a new discussion epoch.
AdvancesEpoch(s) == SourceOf(s) # "agent"
\* Mutant: a new turn stays in the epoch of the one before.
EpochUnchanged(s) == epoch
EpochFor(s) == IF AdvancesEpoch(s) THEN epoch + 1 ELSE epoch

PostMessage(s, k, to) ==
  /\ Idle
  /\ Exists /\ MayPost(s)
  /\ ~Sent(k)
  /\ status = "active"
  /\ epoch' = EpochFor(s)
  /\ lastSeq' = lastSeq + 1
  /\ msg' = [msg EXCEPT ![k] = [source |-> SourceOf(s), to |-> to,
                                epoch |-> epoch', seq |-> lastSeq']]
  /\ wake' = [wake EXCEPT ![k] = DeliveriesOf(k, to)]
  /\ UNCHANGED <<status, deleted, cancelled, memberVars,
                 left, reply, audits, processVars>>

\* A duplicate key answers room_message_duplicate, after it filled in the
\* delivery rows that are missing.  It does not ask for an active room.
RepostMessage(s, k) ==
  /\ Idle
  /\ Exists /\ MayPost(s)
  /\ Sent(k)
  /\ wake' = [wake EXCEPT ![k] = DeliveriesOf(k, msg[k].to)]
  /\ UNCHANGED <<roomVars, memberVars, msg, left, reply, audits, processVars>>

SendRoomMessage(s, k, to) == PostMessage(s, k, to) \/ RepostMessage(s, k)

\* A scheduled task of a member wakes one active agent, as the system.
SendScheduledRoomWake(u, k, a) ==
  /\ MayPost(u) /\ MayPost(a)
  /\ SendRoomMessage(System, k, {a})

\* A team discussion is a message under a fresh key to every agent.
StartTeamDiscussion(u, k) == PostMessage(u, k, Agents)

\* The owner cancels the discussion, once per request id.
CancelDiscussion(u, r) ==
  /\ Idle
  /\ Exists /\ Owner(u)
  /\ status = "active"
  /\ r \notin cancelled
  /\ epoch' = epoch + 1
  /\ lastSeq' = lastSeq + 1
  /\ cancelled' = cancelled \cup {r}
  /\ wake' = CancelPending
  /\ UNCHANGED <<status, deleted, memberVars, msg, left, reply, audits,
                 processVars>>

-----------------------------------------------------------------------------
(* Wakes *)

ClaimWake(k, a) ==
  /\ Idle
  /\ Exists
  /\ agent[a] = "active"
  /\ status = "active"
  /\ wake[k][a] = "pending"
  /\ wake' = [wake EXCEPT ![k][a] = "claimed"]
  /\ left' = [left EXCEPT ![k][a] = Grace]
  /\ UNCHANGED <<roomVars, memberVars, msg, reply, audits, processVars>>

\* completeWake distinguishes an execution in an active room by an active
\* member from one that only has the lease of its claim left.
ActiveExecution(a) == status = "active" /\ agent[a] = "active"
\* Mutant: the epoch of the claim is not compared.
NeverStale(k, a)   == FALSE
StaleEpoch(k, a)   == ActiveExecution(a) /\ msg[k].epoch # epoch
GraceExpired(k, a) == ~ActiveExecution(a) /\ left[k][a] < 0

CompleteWake(k, a) ==
  /\ Idle
  /\ Exists
  /\ wake[k][a] = "claimed"
  /\ ~StaleEpoch(k, a) /\ ~GraceExpired(k, a)
  /\ lastSeq' = lastSeq + 1
  /\ reply' = [reply EXCEPT ![k][a] = lastSeq']
  /\ wake' = [wake EXCEPT ![k][a] = "completed"]
  /\ left' = [left EXCEPT ![k][a] = 0]
  /\ UNCHANGED <<status, deleted, epoch, cancelled, memberVars, msg, audits,
                 processVars>>

\* A late reply settles the wake as failed, with one audit row.
RejectWake(k, a) ==
  /\ Idle
  /\ Exists
  /\ wake[k][a] = "claimed"
  /\ StaleEpoch(k, a) \/ GraceExpired(k, a)
  /\ wake' = [wake EXCEPT ![k][a] = "failed"]
  /\ left' = [left EXCEPT ![k][a] = 0]
  /\ audits' = [audits EXCEPT ![k][a] = @ + 1]
  /\ UNCHANGED <<roomVars, memberVars, msg, reply, processVars>>

-----------------------------------------------------------------------------
(* Environment *)

\* Time passes for every lease; a lease one tick overdue stays overdue.
Tick ==
  /\ \E d \in Claimed : left[d[1]][d[2]] >= 0
  /\ left' = [k \in Keys |-> [a \in Agents |->
                IF wake[k][a] = "claimed" /\ left[k][a] >= 0
                THEN left[k][a] - 1 ELSE left[k][a]]]
  /\ UNCHANGED <<roomVars, memberVars, msg, wake, reply, audits, processVars>>

\* The process stops: the committed rows stay, the running methods are gone.
Crash ==
  /\ crashes < MaxCrashes
  /\ crashes' = crashes + 1
  /\ call' = "idle"
  /\ torn' = Nothing
  /\ todo' = [f \in Finalizers |-> {}]
  /\ UNCHANGED <<roomVars, memberVars, msg, wakeVars>>

-----------------------------------------------------------------------------

Senders == Users \cup Agents \cup {System}

CallStep ==
  \/ \E k \in Keys, a \in Agents : SettleFail(k, a) \/ SettleAudit(k, a)
  \/ SettleArchive
  \/ CallReturns

Next ==
  \/ \E u \in Users, members \in SUBSET Agents : CreateRoom(u, members)
  \/ \E u \in Users : ArchiveRoom(u)
  \/ \E u \in Users : DeleteRoom(u)
  \/ SettleArchiveGrace
  \/ CallStep
  \/ \E u \in Users, c \in Changes : UpdateRoomMembers(u, c)
  \/ \E f \in Finalizers : FinalizeMemberRemovals(f)
  \/ \E f \in Finalizers, a \in Agents, b \in BOOLEAN :
        BlockerCheckAnswered(f, a, b)
  \/ \E s \in Senders, k \in Keys, to \in SUBSET Agents :
        SendRoomMessage(s, k, to)
  \/ \E u \in Users, k \in Keys, a \in Agents : SendScheduledRoomWake(u, k, a)
  \/ \E u \in Users, k \in Keys : StartTeamDiscussion(u, k)
  \/ \E u \in Users, r \in Requests : CancelDiscussion(u, r)
  \/ \E k \in Keys, a \in Agents : ClaimWake(k, a)
  \/ \E k \in Keys, a \in Agents : CompleteWake(k, a)
  \/ \E k \in Keys, a \in Agents : RejectWake(k, a)
  \/ Tick
  \/ Crash

Spec == Init /\ [][Next]_vars

\* The caller that deletes a room in settlement retries until it is answered.
RetryDelete == status # "active" /\ \E u \in Users : DeleteRoom(u)

\* The event loop finishes a running method, the clock advances, and the
\* retrying caller is served again and again.
LiveSpec ==
  /\ Spec
  /\ WF_vars(CallStep)
  /\ WF_vars(Tick)
  /\ SF_vars(RetryDelete)

-----------------------------------------------------------------------------
(* Safety *)

\* No claimed wake outlives the settlement of an archived room, although
\* settlement may be cut by a crash and resumed by a later call.
ArchivedIsSettled == status = "archived" => Claimed = {}

\* deleteRoom runs archive, settlement and deletion as separate
\* transactions; only a settled room is ever deleted.
DeletedIsArchived == deleted => status = "archived"

\* Changes of several owners never leave a room nobody can administer.
ActiveRoomHasOwner == status # "none" => \E u \in Users : Owner(u)

\* A wake has a reply in the transcript exactly when it completed: no reply
\* is lost, and no wake that failed or was cancelled has one.
RepliesMatchWakes ==
  \A k \in Keys, a \in Agents : reply[k][a] > 0 <=> wake[k][a] = "completed"

\* An execution is audited at most once, and only if its wake failed, also
\* when settlement, a late reply and a crash race for it.
AuditedOnce ==
  \A k \in Keys, a \in Agents :
    /\ audits[k][a] <= 1
    /\ audits[k][a] = 1 => wake[k][a] = "failed"

\* Failed wakes without an audit row, apart from the one being settled.
Unaudited ==
  {d \in Keys \X Agents :
     wake[d[1]][d[2]] = "failed" /\ audits[d[1]][d[2]] = 0 /\ d # torn}

\* Every failed wake has its audit row, except that each crash may lose one:
\* the settlement writes status and audit in two transactions.
FailuresAudited == Cardinality(Unaudited) <= crashes

\* The transcript is a strict sequence in which epochs never go back, every
\* message of a user or of the system opens a new one, and a reply comes
\* after the message it answers.
TranscriptOrdered ==
  /\ \A j, k \in Keys : Sent(j) /\ Sent(k) /\ msg[j].seq < msg[k].seq =>
       /\ msg[j].epoch <= msg[k].epoch
       /\ msg[k].source # "agent" => msg[j].epoch < msg[k].epoch
  /\ \A j, k \in Keys : Sent(j) /\ msg[j].seq = msg[k].seq => j = k
  /\ \A j, k \in Keys, a \in Agents : reply[k][a] > 0 =>
       /\ reply[k][a] # msg[j].seq
       /\ msg[k].seq < reply[k][a] /\ reply[k][a] <= lastSeq
  /\ \A k \in Keys : msg[k].seq <= lastSeq /\ msg[k].epoch <= epoch

-----------------------------------------------------------------------------
(* Action properties *)

Moves == {<<"none", "not_requested">>, <<"none", "pending">>,
          <<"pending", "claimed">>, <<"pending", "cancelled">>,
          <<"claimed", "completed">>, <<"claimed", "failed">>}

\* An obligation is claimed at most once and settled at most once, whatever
\* retries, archiving, cancellation, membership changes and crashes do.
WakeLifecycle ==
  [][\A k \in Keys, a \in Agents :
       wake'[k][a] = wake[k][a] \/ <<wake[k][a], wake'[k][a]>> \in Moves]_vars

\* A user or system message in the transcript after message k.
LaterTurn(k) ==
  \E j \in Keys : msg[j].source # "agent" /\ msg[j].seq > msg[k].seq

\* A reply overtaken by a later turn lands only in the grace window of an
\* execution whose room is archiving or whose agent is being removed.
NoLateReply ==
  [][\A k \in Keys, a \in Agents :
       reply[k][a] = 0 /\ reply'[k][a] > 0 /\ LaterTurn(k) =>
         ~ActiveExecution(a) /\ left[k][a] >= 0]_vars

\* Nothing is appended to the transcript of an archived room: no claim, no
\* reply and no publisher survives the settlement.
ArchivedTranscriptFrozen ==
  [][status = "archived" => lastSeq' = lastSeq /\ msg' = msg]_vars

-----------------------------------------------------------------------------
(* Liveness *)

\* A room being archived is deleted in the end if its owner keeps asking:
\* no claim holds it open beyond its lease.
ArchiveSettles == (status = "archiving") ~> deleted

-----------------------------------------------------------------------------
(* What tests and comments say of the program, and the program does not do. *)

\* Does not hold, "self-removal succeeds once another active owner exists": a user whose
\* removal was acknowledged is no member any more.
DepartedUsersAreGone == \A u \in departed : user[u] = "absent"

\* Does not hold, "backfill any obligation lost to a torn write": a retry gives no agent an
\* obligation the message did not create when it was committed.
RetryRestoresOnlyLost ==
  [][\A k \in Keys, a \in Agents :
       Sent(k) /\ wake[k][a] = "none" => wake'[k][a] # "pending"]_vars

=============================================================================
