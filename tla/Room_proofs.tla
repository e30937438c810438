----------------------------- MODULE Room_proofs -----------------------------
(***************************************************************************)
(* Proofs about Room for any users, agents, keys, limits and lease length. *)
(*                                                                         *)
(* TypeOK is inductive alone.  The other invariants follow from one        *)
(* inductive invariant, RoomInv: what one step may do to one wake is       *)
(* stated once (WakeMove, lemma WakeMoves) and the invariants about wakes, *)
(* replies and audits are read off it.                                     *)
(***************************************************************************)
EXTENDS Room, FiniteSetTheorems, TLAPS

-----------------------------------------------------------------------------
(* Types *)

LEMMA TypeInit == Init => TypeOK
<1>. SUFFICES ASSUME Init PROVE TypeOK
  OBVIOUS
<1>. USE DEF Init
<1>1. status \in RoomStatus /\ deleted \in BOOLEAN /\ epoch \in Nat /\ lastSeq \in Nat
  BY DEF RoomStatus
<1>2. user \in [Users -> UserStatus] /\ agent \in [Agents -> AgentStatus]
  BY DEF UserStatus, AgentStatus
<1>3. msg \in [Keys -> Message]
  BY DEF Message, NoMessage, Sources
<1>4. wake \in [Keys -> [Agents -> WakeStatus]]
  BY DEF WakeStatus
<1>5. /\ left \in [Keys -> [Agents -> Int]]
      /\ reply \in [Keys -> [Agents -> Nat]]
      /\ audits \in [Keys -> [Agents -> Nat]]
  OBVIOUS
<1>6. cancelled \subseteq Requests /\ departed \subseteq Users
  OBVIOUS
<1>7. /\ call \in {"idle", "settle", "delete"}
      /\ torn \in (Keys \X Agents) \cup {Nothing}
      /\ todo \in [Finalizers -> SUBSET Agents]
      /\ crashes \in Nat
  OBVIOUS
<1>. QED
  BY <1>1, <1>2, <1>3, <1>4, <1>5, <1>6, <1>7 DEF TypeOK

LEMMA TypeStep == TypeOK /\ [Next]_vars => TypeOK'
<1>. SUFFICES ASSUME TypeOK, [Next]_vars PROVE TypeOK'
  OBVIOUS
<1>. USE DEF TypeOK, RoomStatus, UserStatus, AgentStatus, WakeStatus, Message,
             Sources, roomVars, memberVars, wakeVars, processVars
<1>1. ASSUME NEW u \in Users, NEW members \in SUBSET Agents,
             CreateRoom(u, members)
      PROVE  TypeOK'
  BY <1>1 DEF CreateRoom
<1>2. ASSUME NEW u \in Users, ArchiveRoom(u) PROVE TypeOK'
  BY <1>2 DEF ArchiveRoom, ArchiveTransaction, CancelPending
<1>3. ASSUME NEW u \in Users, DeleteRoom(u) PROVE TypeOK'
  BY <1>3 DEF DeleteRoom, ArchiveTransaction, CancelPending
<1>4. CASE SettleArchiveGrace
  BY <1>4 DEF SettleArchiveGrace
<1>5. ASSUME NEW k \in Keys, NEW a \in Agents, SettleFail(k, a) PROVE TypeOK'
  BY <1>5 DEF SettleFail
<1>6. ASSUME NEW k \in Keys, NEW a \in Agents, SettleAudit(k, a) PROVE TypeOK'
  BY <1>6 DEF SettleAudit
<1>7. CASE SettleArchive
  BY <1>7 DEF SettleArchive
<1>8. CASE CallReturns
  BY <1>8 DEF CallReturns
<1>9. ASSUME NEW u \in Users, NEW c \in Changes, UpdateRoomMembers(u, c)
      PROVE  TypeOK'
  BY <1>9, ChangesType DEF UpdateRoomMembers, AgentAfter, UserAfter, Change
<1>10. ASSUME NEW f \in Finalizers, FinalizeMemberRemovals(f) PROVE TypeOK'
  BY <1>10 DEF FinalizeMemberRemovals
<1>11. ASSUME NEW f \in Finalizers, NEW a \in Agents, NEW b \in BOOLEAN,
              BlockerCheckAnswered(f, a, b)
       PROVE  TypeOK'
  BY <1>11 DEF BlockerCheckAnswered
<1>12. ASSUME NEW s \in Senders, NEW k \in Keys, NEW to \in SUBSET Agents,
              PostMessage(s, k, to)
       PROVE  TypeOK'
  BY <1>12 DEF PostMessage, DeliveriesOf, EpochFor, SourceOf
<1>13. ASSUME NEW s \in Senders, NEW k \in Keys, RepostMessage(s, k)
       PROVE  TypeOK'
  BY <1>13 DEF RepostMessage, DeliveriesOf
<1>14. ASSUME NEW u \in Users, NEW r \in Requests, CancelDiscussion(u, r)
       PROVE  TypeOK'
  BY <1>14 DEF CancelDiscussion, CancelPending
<1>15. ASSUME NEW k \in Keys, NEW a \in Agents, ClaimWake(k, a) PROVE TypeOK'
  BY <1>15, BoundsType DEF ClaimWake
<1>16. ASSUME NEW k \in Keys, NEW a \in Agents, CompleteWake(k, a) PROVE TypeOK'
  BY <1>16 DEF CompleteWake
<1>17. ASSUME NEW k \in Keys, NEW a \in Agents, RejectWake(k, a) PROVE TypeOK'
  BY <1>17 DEF RejectWake
<1>18. CASE Tick
  BY <1>18 DEF Tick
<1>19. CASE Crash
  BY <1>19 DEF Crash
<1>20. CASE UNCHANGED vars
  BY <1>20 DEF vars
<1>. HIDE DEF TypeOK
<1>. QED
  BY <1>1, <1>2, <1>3, <1>4, <1>5, <1>6, <1>7, <1>8, <1>9, <1>10, <1>11, <1>12,
     <1>13, <1>14, <1>15, <1>16, <1>17, <1>18, <1>19, <1>20
  DEF Next, CallStep, SendRoomMessage, SendScheduledRoomWake,
      StartTeamDiscussion, Senders

\* The state of a room stays within its schema under every sequence of calls,
\* blocker answers, settlement writes and crashes.
THEOREM TypeCorrect == Spec => []TypeOK
BY TypeInit, TypeStep, PTL DEF Spec

-----------------------------------------------------------------------------
(* What one step does to one wake *)

\* Nothing happens to the wake, its reply and its audit rows.
Rests(k, a) ==
  wake'[k][a] = wake[k][a] /\ reply'[k][a] = reply[k][a]
  /\ audits'[k][a] = audits[k][a]

\* A delivery row is inserted for a message in the transcript.
Inserted(k, a) ==
  /\ wake[k][a] = "none" /\ wake'[k][a] \in {"not_requested", "pending"}
  /\ msg'[k].seq > 0
  /\ reply'[k][a] = reply[k][a] /\ audits'[k][a] = audits[k][a]

TakenUp(k, a) ==
  /\ wake[k][a] = "pending" /\ wake'[k][a] = "claimed"
  /\ status' = "active"
  /\ reply'[k][a] = reply[k][a] /\ audits'[k][a] = audits[k][a]

CalledOff(k, a) ==
  /\ wake[k][a] = "pending" /\ wake'[k][a] = "cancelled"
  /\ reply'[k][a] = reply[k][a] /\ audits'[k][a] = audits[k][a]

Answered(k, a) ==
  /\ wake[k][a] = "claimed" /\ wake'[k][a] = "completed"
  /\ reply'[k][a] = lastSeq + 1 /\ audits'[k][a] = audits[k][a]

Refused(k, a) ==
  /\ wake[k][a] = "claimed" /\ wake'[k][a] = "failed"
  /\ reply'[k][a] = reply[k][a] /\ audits'[k][a] = audits[k][a] + 1

\* The two writes of settleArchiveGrace.
Failed(k, a) ==
  /\ wake[k][a] = "claimed" /\ wake'[k][a] = "failed"
  /\ reply'[k][a] = reply[k][a] /\ audits'[k][a] = audits[k][a]
  /\ torn' = <<k, a>> /\ call' # "idle"

Audited(k, a) ==
  /\ wake'[k][a] = wake[k][a] /\ reply'[k][a] = reply[k][a]
  /\ torn = <<k, a>> /\ torn' = Nothing
  /\ audits'[k][a] = audits[k][a] + 1

WakeMove(k, a) ==
  \/ Rests(k, a) \/ Inserted(k, a) \/ TakenUp(k, a) \/ CalledOff(k, a)
  \/ Answered(k, a) \/ Refused(k, a) \/ Failed(k, a) \/ Audited(k, a)

LEMMA WakeMoves ==
  ASSUME TypeOK, [Next]_vars, NEW k \in Keys, NEW a \in Agents
  PROVE  WakeMove(k, a)
<1>. USE DEF TypeOK, WakeMove, roomVars, memberVars, wakeVars, processVars
<1>1. ASSUME wakeVars' = wakeVars PROVE WakeMove(k, a)
  BY <1>1 DEF Rests
<1>2. ASSUME NEW u \in Users, ArchiveRoom(u) PROVE WakeMove(k, a)
  BY <1>2 DEF ArchiveRoom, ArchiveTransaction, CancelPending, Rests, CalledOff
<1>3. ASSUME NEW u \in Users, DeleteRoom(u) PROVE WakeMove(k, a)
  BY <1>3 DEF DeleteRoom, ArchiveTransaction, CancelPending, Rests, CalledOff
<1>4. ASSUME NEW j \in Keys, NEW b \in Agents, SettleFail(j, b)
      PROVE  WakeMove(k, a)
  BY <1>4 DEF SettleFail, Settling, Rests, Failed
<1>5. ASSUME NEW j \in Keys, NEW b \in Agents, SettleAudit(j, b)
      PROVE  WakeMove(k, a)
  BY <1>5 DEF SettleAudit, Rests, Audited
<1>6. ASSUME NEW s \in Senders, NEW j \in Keys, NEW to \in SUBSET Agents,
             PostMessage(s, j, to)
      PROVE  WakeMove(k, a)
  BY <1>6 DEF PostMessage, DeliveriesOf, Rests, Inserted
<1>7. ASSUME NEW s \in Senders, NEW j \in Keys, RepostMessage(s, j)
      PROVE  WakeMove(k, a)
  BY <1>7 DEF RepostMessage, DeliveriesOf, Sent, Rests, Inserted
<1>8. ASSUME NEW u \in Users, NEW r \in Requests, CancelDiscussion(u, r)
      PROVE  WakeMove(k, a)
  BY <1>8 DEF CancelDiscussion, CancelPending, Rests, CalledOff
<1>9. ASSUME NEW j \in Keys, NEW b \in Agents, ClaimWake(j, b)
      PROVE  WakeMove(k, a)
  BY <1>9 DEF ClaimWake, Rests, TakenUp
<1>10. ASSUME NEW j \in Keys, NEW b \in Agents, CompleteWake(j, b)
       PROVE  WakeMove(k, a)
  BY <1>10 DEF CompleteWake, Rests, Answered
<1>11. ASSUME NEW j \in Keys, NEW b \in Agents, RejectWake(j, b)
       PROVE  WakeMove(k, a)
  BY <1>11 DEF RejectWake, Rests, Refused
<1>12. CASE Tick
  BY <1>12 DEF Tick, Rests
<1>. HIDE DEF TypeOK, WakeMove
<1>. QED
  BY <1>1, <1>2, <1>3, <1>4, <1>5, <1>6, <1>7, <1>8, <1>9, <1>10, <1>11, <1>12
  DEF Next, CallStep, SendRoomMessage, SendScheduledRoomWake,
      StartTeamDiscussion, Senders, vars, CreateRoom, SettleArchiveGrace,
      SettleArchive, CallReturns, UpdateRoomMembers, FinalizeMemberRemovals,
      BlockerCheckAnswered, Crash

-----------------------------------------------------------------------------
(* Wakes, replies and audits *)

\* Only messages of the transcript have delivery rows.
WakesOfSent == \A k \in Keys, a \in Agents : wake[k][a] # "none" => Sent(k)

\* A half settled delivery belongs to the method that runs, is failed, and
\* has no audit row.
TornUnaudited ==
  \A k \in Keys, a \in Agents :
    torn = <<k, a>> => /\ call # "idle"
                       /\ wake[k][a] = "failed"
                       /\ audits[k][a] = 0

WakeInv == WakesOfSent /\ RepliesMatchWakes /\ AuditedOnce /\ TornUnaudited

LEMMA MessagesStaySent ==
  ASSUME TypeOK, [Next]_vars, NEW k \in Keys, Sent(k)
  PROVE  Sent(k)' /\ msg'[k] = msg[k]
<1>1. ASSUME NEW s \in Senders, NEW j \in Keys, NEW to \in SUBSET Agents,
             PostMessage(s, j, to)
      PROVE  msg'[k] = msg[k]
  BY <1>1 DEF PostMessage, TypeOK
<1>2. msg'[k] = msg[k]
  BY <1>1 DEF Next, CallStep, SendRoomMessage, SendScheduledRoomWake,
     StartTeamDiscussion, Senders, vars, CreateRoom, SettleArchiveGrace,
     SettleArchive, CallReturns, UpdateRoomMembers, FinalizeMemberRemovals,
     BlockerCheckAnswered, Crash, Tick, ArchiveRoom, DeleteRoom, SettleFail,
     SettleAudit, RepostMessage, CancelDiscussion, ClaimWake, CompleteWake,
     RejectWake
<1>. QED
  BY <1>2 DEF Sent

\* torn is cleared when the method ends, and set only while one runs.
LEMMA TornSteps ==
  ASSUME TypeOK, [Next]_vars, NEW k \in Keys, NEW a \in Agents,
         torn' = <<k, a>>
  PROVE  \/ torn = <<k, a>> /\ call' = call /\ Rests(k, a)
         \/ torn = <<k, a>> /\ call = "idle"
         \/ Failed(k, a)
<1>. USE DEF TypeOK, roomVars, memberVars, wakeVars, processVars
<1>1. ASSUME NEW j \in Keys, NEW b \in Agents, SettleFail(j, b)
      PROVE  Failed(k, a)
  BY <1>1 DEF SettleFail, Settling, Failed
<1>2. ASSUME NEW j \in Keys, NEW b \in Agents, SettleAudit(j, b)
      PROVE  FALSE
  BY <1>2, NothingIsNoDelivery DEF SettleAudit
<1>3. CASE Crash
  BY <1>3, NothingIsNoDelivery DEF Crash
<1>4. CASE CallReturns
  BY <1>4, NothingIsNoDelivery DEF CallReturns
<1>5. CASE SettleArchive
  BY <1>5, NothingIsNoDelivery DEF SettleArchive
<1>6. CASE Tick
  BY <1>6 DEF Tick, Rests
<1>7. CASE UNCHANGED vars
  BY <1>7 DEF vars, Rests
<1>8. CASE call = "idle" /\ torn' = torn
  BY <1>8
<1>. HIDE DEF TypeOK
<1>. QED
  BY <1>1, <1>2, <1>3, <1>4, <1>5, <1>6, <1>7, <1>8
  DEF Next, CallStep, SendRoomMessage, SendScheduledRoomWake,
      StartTeamDiscussion, Senders, CreateRoom, SettleArchiveGrace,
      UpdateRoomMembers, FinalizeMemberRemovals, BlockerCheckAnswered,
      ArchiveRoom, DeleteRoom, PostMessage, RepostMessage, CancelDiscussion,
      ClaimWake, CompleteWake, RejectWake, Idle

LEMMA WakeInvInit == Init => WakeInv
BY NothingIsNoDelivery
DEF Init, WakeInv, WakesOfSent, RepliesMatchWakes, AuditedOnce, TornUnaudited

LEMMA WakeInvStep == TypeOK /\ TypeOK' /\ WakeInv /\ [Next]_vars => WakeInv'
<1>. SUFFICES ASSUME TypeOK, TypeOK', WakeInv, [Next]_vars,
                     NEW k \in Keys, NEW a \in Agents
              PROVE  /\ wake'[k][a] # "none" => Sent(k)'
                     /\ reply'[k][a] > 0 <=> wake'[k][a] = "completed"
                     /\ audits'[k][a] <= 1
                     /\ audits'[k][a] = 1 => wake'[k][a] = "failed"
                     /\ torn' = <<k, a>> => /\ call' # "idle"
                                            /\ wake'[k][a] = "failed"
                                            /\ audits'[k][a] = 0
  BY DEF WakeInv, WakesOfSent, RepliesMatchWakes, AuditedOnce, TornUnaudited
<1>1. /\ wake[k][a] # "none" => Sent(k)
      /\ reply[k][a] > 0 <=> wake[k][a] = "completed"
      /\ audits[k][a] <= 1
      /\ audits[k][a] = 1 => wake[k][a] = "failed"
      /\ torn = <<k, a>> => /\ call # "idle"
                            /\ wake[k][a] = "failed"
                            /\ audits[k][a] = 0
  BY DEF WakeInv, WakesOfSent, RepliesMatchWakes, AuditedOnce, TornUnaudited
<1>2. /\ audits[k][a] \in Nat /\ audits'[k][a] \in Nat
      /\ reply[k][a] \in Nat /\ lastSeq \in Nat
  BY DEF TypeOK
<1>3. WakeMove(k, a)
  BY WakeMoves
<1>4. wake'[k][a] # "none" => Sent(k)'
  BY <1>1, <1>3, MessagesStaySent
  DEF WakeMove, Rests, Inserted, TakenUp, CalledOff, Answered, Refused, Failed,
      Audited, Sent
<1>5. /\ reply'[k][a] > 0 <=> wake'[k][a] = "completed"
      /\ audits'[k][a] <= 1
      /\ audits'[k][a] = 1 => wake'[k][a] = "failed"
  BY <1>1, <1>2, <1>3
  DEF WakeMove, Rests, Inserted, TakenUp, CalledOff, Answered, Refused, Failed,
      Audited
<1>6. ASSUME torn' = <<k, a>>
      PROVE  call' # "idle" /\ wake'[k][a] = "failed" /\ audits'[k][a] = 0
  BY <1>1, <1>2, <1>6, TornSteps DEF Rests, Failed
<1>. QED
  BY <1>4, <1>5, <1>6

\* A reply is in the transcript exactly when its wake completed.
THEOREM RepliesMatch == Spec => []RepliesMatchWakes
<1>. TypeOK /\ WakeInv /\ [Next]_vars => (TypeOK /\ WakeInv)'
  BY TypeStep, WakeInvStep
<1>. QED
  BY TypeInit, WakeInvInit, PTL DEF Spec, WakeInv

\* No execution is audited twice, nor one that did not fail.
THEOREM Audits == Spec => []AuditedOnce
<1>. TypeOK /\ WakeInv /\ [Next]_vars => (TypeOK /\ WakeInv)'
  BY TypeStep, WakeInvStep
<1>. QED
  BY TypeInit, WakeInvInit, PTL DEF Spec, WakeInv

\* A wake is claimed once and settled once.
THEOREM Lifecycle == Spec => WakeLifecycle
<1>1. TypeOK /\ [Next]_vars =>
        [\A k \in Keys, a \in Agents :
           wake'[k][a] = wake[k][a] \/ <<wake[k][a], wake'[k][a]>> \in Moves]_vars
  <2>. SUFFICES ASSUME TypeOK, [Next]_vars, NEW k \in Keys, NEW a \in Agents
                PROVE  \/ wake'[k][a] = wake[k][a]
                       \/ <<wake[k][a], wake'[k][a]>> \in Moves
    OBVIOUS
  <2>. QED
    BY WakeMoves
    DEF WakeMove, Rests, Inserted, TakenUp, CalledOff, Answered, Refused,
        Failed, Audited, Moves
<1>. QED
  BY <1>1, TypeInit, TypeStep, PTL DEF Spec, WakeLifecycle

-----------------------------------------------------------------------------
(* Archiving and deletion *)

LEMMA NoClaims ==
  Claimed = {} <=> \A k \in Keys, a \in Agents : wake[k][a] # "claimed"
<1>1. \A k \in Keys, a \in Agents :
        wake[k][a] = "claimed" => <<k, a>> \in Claimed
  BY DEF Claimed
<1>2. \A d \in Claimed : d[1] \in Keys /\ d[2] \in Agents
                         /\ wake[d[1]][d[2]] = "claimed"
  BY DEF Claimed
<1>. QED
  BY <1>1, <1>2

\* The room is archived by settlement alone, and stays so.
LEMMA StatusSteps ==
  ASSUME [Next]_vars
  PROVE  /\ status' = "archived" => \/ status = "archived"
                                    \/ Claimed = {} /\ wake' = wake
         /\ status = "archived" => status' = "archived"
         /\ deleted' => deleted \/ status' = "archived"
<1>1. CASE SettleArchive
  BY <1>1 DEF SettleArchive, Settling, NoClaimLeft, wakeVars
<1>2. CASE CallReturns
  BY <1>2 DEF CallReturns, MayDelete
<1>3. ASSUME NEW u \in Users, ArchiveRoom(u) \/ DeleteRoom(u)
      PROVE  /\ status' = "archived" => status = "archived"
             /\ status = "archived" => status' = "archived"
             /\ deleted' = deleted
  BY <1>3 DEF ArchiveRoom, DeleteRoom, ArchiveTransaction
<1>4. ASSUME NEW u \in Users, NEW members \in SUBSET Agents,
             CreateRoom(u, members)
      PROVE  status = "none" /\ status' = "active" /\ deleted' = deleted
  BY <1>4 DEF CreateRoom
<1>5. CASE status' = status /\ deleted' = deleted
  BY <1>5
<1>. QED
  BY <1>1, <1>2, <1>3, <1>4, <1>5
  DEF Next, CallStep, SendRoomMessage, SendScheduledRoomWake,
      StartTeamDiscussion, Senders, vars, roomVars, SettleArchiveGrace,
      UpdateRoomMembers, FinalizeMemberRemovals, BlockerCheckAnswered, Crash,
      Tick, SettleFail, SettleAudit, PostMessage, RepostMessage,
      CancelDiscussion, ClaimWake, CompleteWake, RejectWake

LEMMA SettledStep ==
  TypeOK /\ ArchivedIsSettled /\ [Next]_vars => ArchivedIsSettled'
<1>. SUFFICES ASSUME TypeOK, ArchivedIsSettled, [Next]_vars,
                     status' = "archived"
              PROVE  Claimed' = {}
  BY DEF ArchivedIsSettled
<1>1. \A k \in Keys, a \in Agents : wake[k][a] # "claimed"
  BY StatusSteps, NoClaims DEF ArchivedIsSettled
<1>2. \A k \in Keys, a \in Agents : wake'[k][a] # "claimed"
  BY <1>1, WakeMoves
  DEF WakeMove, Rests, Inserted, TakenUp, CalledOff, Answered, Refused,
      Failed, Audited
<1>3. (\A k \in Keys, a \in Agents : wake'[k][a] # "claimed")
        => Claimed' = {}
  BY DEF Claimed
<1>. QED
  BY <1>2, <1>3

\* No claimed wake outlives the settlement of an archived room.
THEOREM Settled == Spec => []ArchivedIsSettled
<1>1. Init => ArchivedIsSettled
  BY DEF Init, ArchivedIsSettled
<1>. QED
  BY <1>1, TypeInit, TypeStep, SettledStep, PTL DEF Spec

\* Only an archived, and so a settled, room is deleted.
THEOREM DeletedArchived == Spec => []DeletedIsArchived
<1>1. Init => DeletedIsArchived
  BY DEF Init, DeletedIsArchived
<1>2. DeletedIsArchived /\ [Next]_vars => DeletedIsArchived'
  BY StatusSteps DEF DeletedIsArchived
<1>. QED
  BY <1>1, <1>2, PTL DEF Spec

\* Nothing is appended to the transcript of an archived room.
THEOREM TranscriptFrozen == Spec => ArchivedTranscriptFrozen
<1>1. ArchivedIsSettled /\ [Next]_vars =>
        [status = "archived" => lastSeq' = lastSeq /\ msg' = msg]_vars
  <2>. SUFFICES ASSUME ArchivedIsSettled, Next, status = "archived"
                PROVE  lastSeq' = lastSeq /\ msg' = msg
    OBVIOUS
  <2>1. ASSUME NEW k \in Keys, NEW a \in Agents PROVE ~CompleteWake(k, a)
    BY NoClaims DEF CompleteWake, ArchivedIsSettled
  <2>2. ASSUME NEW s, NEW k \in Keys, NEW to PROVE ~PostMessage(s, k, to)
    BY DEF PostMessage
  <2>3. ASSUME NEW u, NEW r PROVE ~CancelDiscussion(u, r)
    BY DEF CancelDiscussion
  <2>4. ASSUME NEW u, NEW members PROVE ~CreateRoom(u, members)
    BY DEF CreateRoom
  <2>. QED
    BY <2>1, <2>2, <2>3, <2>4
    DEF Next, CallStep, SendRoomMessage, SendScheduledRoomWake,
        StartTeamDiscussion, Senders, roomVars, ArchiveRoom, DeleteRoom,
        SettleArchiveGrace, SettleArchive, CallReturns, UpdateRoomMembers,
        FinalizeMemberRemovals, BlockerCheckAnswered, Crash, Tick, SettleFail,
        SettleAudit, RepostMessage, ClaimWake, RejectWake
<1>. QED
  BY <1>1, Settled, PTL DEF Spec, ArchivedTranscriptFrozen

-----------------------------------------------------------------------------
(* Members *)

LEMMA OwnerStep ==
  TypeOK /\ ActiveRoomHasOwner /\ [Next]_vars => ActiveRoomHasOwner'
<1>. SUFFICES ASSUME TypeOK, ActiveRoomHasOwner, [Next]_vars, status' # "none"
              PROVE  \E u \in Users : user'[u] = "owner"
  BY DEF ActiveRoomHasOwner, Owner
<1>1. ASSUME NEW u \in Users, NEW members \in SUBSET Agents,
             CreateRoom(u, members)
      PROVE  user'[u] = "owner"
  BY <1>1 DEF CreateRoom, TypeOK
<1>2. ASSUME NEW u \in Users, NEW c \in Changes, UpdateRoomMembers(u, c)
      PROVE  \E v \in Users : user'[v] = "owner"
  <2>1. PICK v \in Users : user[v] = "owner" /\ v \notin c.demote
    BY <1>2 DEF UpdateRoomMembers, KeepsOwner, Owner
  <2>2. user'[v] = UserAfter(c, v)
    BY <1>2 DEF UpdateRoomMembers
  <2>. QED
    BY <2>1, <2>2 DEF UserAfter
<1>3. CASE user' = user /\ status # "none"
  BY <1>3 DEF ActiveRoomHasOwner, Owner
<1>4. CASE user' = user /\ status' = status
  BY <1>4 DEF ActiveRoomHasOwner, Owner
<1>. QED
  BY <1>1, <1>2, <1>3, <1>4
  DEF Next, CallStep, SendRoomMessage, SendScheduledRoomWake,
      StartTeamDiscussion, Senders, vars, roomVars, memberVars,
      SettleArchiveGrace, SettleArchive, CallReturns, FinalizeMemberRemovals,
      BlockerCheckAnswered, Crash, Tick, SettleFail, SettleAudit, ArchiveRoom,
      DeleteRoom, PostMessage, RepostMessage, CancelDiscussion, ClaimWake,
      CompleteWake, RejectWake, Exists, Settling

\* Whatever owners ask for, together or in turn, an owner is left.
THEOREM OwnerLeft == Spec => []ActiveRoomHasOwner
<1>1. Init => ActiveRoomHasOwner
  BY DEF Init, ActiveRoomHasOwner
<1>. QED
  BY <1>1, TypeInit, TypeStep, OwnerStep, PTL DEF Spec

-----------------------------------------------------------------------------
(* The transcript *)

\* What one step appends.
Posted(k) ==
  /\ msg[k].seq = 0 /\ lastSeq' = lastSeq + 1 /\ reply' = reply
  /\ \E m \in Message :
       /\ msg' = [msg EXCEPT ![k] = m]
       /\ m.seq = lastSeq'
       /\ m.epoch = epoch'
       /\ m.source # "agent" => epoch' = epoch + 1
       /\ epoch' \in {epoch, epoch + 1}

Replied(k, a) ==
  /\ msg' = msg /\ epoch' = epoch /\ lastSeq' = lastSeq + 1
  /\ reply' = [reply EXCEPT ![k][a] = lastSeq']
  /\ wake[k][a] = "claimed"

NothingSaid ==
  /\ msg' = msg /\ reply' = reply
  /\ lastSeq' \in {lastSeq, lastSeq + 1}
  /\ epoch' \in {epoch, epoch + 1}

LEMMA TranscriptSteps ==
  ASSUME TypeOK, [Next]_vars
  PROVE  \/ \E k \in Keys : Posted(k)
         \/ \E k \in Keys, a \in Agents : Replied(k, a)
         \/ NothingSaid
<1>. DEFINE Goal == \/ \E k \in Keys : Posted(k)
                    \/ \E k \in Keys, a \in Agents : Replied(k, a)
                    \/ NothingSaid
<1>1. ASSUME NEW s \in Senders, NEW k \in Keys, NEW to \in SUBSET Agents,
             PostMessage(s, k, to)
      PROVE  Posted(k)
  <2>. DEFINE m == [source |-> SourceOf(s), to |-> to, epoch |-> epoch',
                    seq |-> lastSeq']
  <2>1. m \in Message
    BY <1>1 DEF PostMessage, EpochFor, SourceOf, Message, Sources, TypeOK
  <2>2. msg' = [msg EXCEPT ![k] = m] /\ m.seq = lastSeq' /\ m.epoch = epoch'
    BY <1>1 DEF PostMessage
  <2>3. /\ m.source # "agent" => epoch' = epoch + 1
        /\ epoch' \in {epoch, epoch + 1}
    BY <1>1 DEF PostMessage, EpochFor, AdvancesEpoch
  <2>4. msg[k].seq = 0 /\ lastSeq' = lastSeq + 1 /\ reply' = reply
    BY <1>1 DEF PostMessage, Sent, TypeOK, Message
  <2>. QED
    BY <2>1, <2>2, <2>3, <2>4 DEF Posted
<1>2. ASSUME NEW k \in Keys, NEW a \in Agents, CompleteWake(k, a)
      PROVE  Replied(k, a)
  BY <1>2 DEF CompleteWake, Replied
<1>3. ASSUME NEW u \in Users, ArchiveRoom(u) \/ DeleteRoom(u)
      PROVE  NothingSaid
  BY <1>3 DEF ArchiveRoom, DeleteRoom, ArchiveTransaction, NothingSaid
<1>4. ASSUME NEW u \in Users, NEW r \in Requests, CancelDiscussion(u, r)
      PROVE  NothingSaid
  BY <1>4 DEF CancelDiscussion, NothingSaid
<1>5. CASE UNCHANGED <<msg, reply, lastSeq, epoch>>
  BY <1>5 DEF NothingSaid
<1>. HIDE DEF Goal
<1>6. Goal
  BY <1>1, <1>2, <1>3, <1>4, <1>5
  DEF Next, CallStep, SendRoomMessage, SendScheduledRoomWake,
      StartTeamDiscussion, Senders, vars, roomVars, wakeVars, CreateRoom,
      SettleArchiveGrace, SettleArchive, CallReturns, UpdateRoomMembers,
      FinalizeMemberRemovals, BlockerCheckAnswered, Crash, Tick, SettleFail,
      SettleAudit, RepostMessage, ClaimWake, RejectWake, Goal
<1>. QED
  BY <1>6 DEF Goal

LEMMA TranscriptStep ==
  TypeOK /\ WakeInv /\ TranscriptOrdered /\ [Next]_vars => TranscriptOrdered'
<1>. SUFFICES ASSUME TypeOK, WakeInv, TranscriptOrdered, [Next]_vars
              PROVE  TranscriptOrdered'
  OBVIOUS
<1>. USE DEF TypeOK, Message
<1>1. \A k \in Keys, a \in Agents : reply[k][a] > 0 => Sent(k)
  BY DEF WakeInv, WakesOfSent, RepliesMatchWakes
<1>2. ASSUME NEW n \in Keys, Posted(n) PROVE TranscriptOrdered'
  BY <1>1, <1>2 DEF Posted, TranscriptOrdered, Sent
<1>3. ASSUME NEW n \in Keys, NEW b \in Agents, Replied(n, b)
      PROVE  TranscriptOrdered'
  BY <1>3 DEF Replied, TranscriptOrdered, Sent
<1>4. CASE NothingSaid
  BY <1>4 DEF NothingSaid, TranscriptOrdered, Sent
<1>. HIDE DEF TypeOK
<1>. QED
  BY <1>2, <1>3, <1>4, TranscriptSteps

\* The transcript is a strict sequence in which epochs never go back.
THEOREM TranscriptInOrder == Spec => []TranscriptOrdered
<1>1. Init => TranscriptOrdered
  BY DEF Init, TranscriptOrdered, Sent, NoMessage
<1>2. TypeOK /\ WakeInv /\ TranscriptOrdered /\ [Next]_vars
        => (TypeOK /\ WakeInv /\ TranscriptOrdered)'
  BY TypeStep, WakeInvStep, TranscriptStep
<1>. QED
  BY <1>1, <1>2, TypeInit, WakeInvInit, PTL DEF Spec

\* The state invariant of the room.
RoomInv ==
  TypeOK /\ WakeInv /\ TranscriptOrdered /\ ArchivedIsSettled
  /\ DeletedIsArchived /\ ActiveRoomHasOwner

LEMMA RoomInvHolds == Spec => []RoomInv
<1>1. Init => WakeInv
  BY WakeInvInit
<1>2. TypeOK /\ WakeInv /\ [Next]_vars => (TypeOK /\ WakeInv)'
  BY TypeStep, WakeInvStep
<1>. QED
  BY <1>1, <1>2, TypeInit, TranscriptInOrder, Settled, DeletedArchived,
     OwnerLeft, PTL DEF Spec, RoomInv

\* A later turn of a user or of the system has a later epoch than the one a
\* wake was asked in, so an execution that is not in its grace window is
\* found stale.
LEMMA LaterTurnIsLaterEpoch ==
  ASSUME RoomInv, NEW k \in Keys, NEW a \in Agents, wake[k][a] = "claimed",
         LaterTurn(k)
  PROVE  msg[k].epoch # epoch
<1>1. Sent(k)
  BY DEF RoomInv, WakeInv, WakesOfSent
<1>2. PICK j \in Keys : msg[j].source # "agent" /\ msg[j].seq > msg[k].seq
  BY DEF LaterTurn
<1>3. /\ msg[j].epoch \in Nat /\ msg[k].epoch \in Nat /\ epoch \in Nat
      /\ msg[j].seq \in Nat /\ msg[k].seq \in Nat
  BY DEF RoomInv, TypeOK, Message
<1>4. Sent(j)
  BY <1>1, <1>2, <1>3 DEF Sent
<1>5. msg[k].epoch < msg[j].epoch /\ msg[j].epoch <= epoch
  BY <1>1, <1>2, <1>4 DEF RoomInv, TranscriptOrdered
<1>. QED
  BY <1>3, <1>5

\* A reply overtaken by a later turn lands only in a grace window.
THEOREM LateReplies == Spec => NoLateReply
<1>1. RoomInv /\ [Next]_vars =>
        [\A k \in Keys, a \in Agents :
           reply[k][a] = 0 /\ reply'[k][a] > 0 /\ LaterTurn(k) =>
             ~ActiveExecution(a) /\ left[k][a] >= 0]_vars
  <2>. SUFFICES ASSUME RoomInv, Next, NEW k \in Keys, NEW a \in Agents,
                       reply[k][a] = 0, reply'[k][a] > 0, LaterTurn(k)
                PROVE  ~ActiveExecution(a) /\ left[k][a] >= 0
    OBVIOUS
  <2>1. /\ TypeOK /\ reply[k][a] \in Nat /\ left[k][a] \in Int
    BY DEF RoomInv, TypeOK
  <2>2. ASSUME NEW s \in Senders, NEW j \in Keys, NEW to \in SUBSET Agents,
               PostMessage(s, j, to)
        PROVE  reply' = reply
    BY <2>2 DEF PostMessage
  <2>3. reply' # reply
    BY <2>1
  <2>4. PICK j \in Keys, b \in Agents : CompleteWake(j, b)
    BY <2>2, <2>3
    DEF Next, CallStep, SendRoomMessage, SendScheduledRoomWake,
        StartTeamDiscussion, Senders, wakeVars, CreateRoom, ArchiveRoom,
        DeleteRoom, SettleArchiveGrace, SettleArchive, CallReturns,
        UpdateRoomMembers, FinalizeMemberRemovals, BlockerCheckAnswered, Crash,
        Tick, SettleFail, SettleAudit, RepostMessage, CancelDiscussion,
        ClaimWake, RejectWake
  <2>5. reply' = [reply EXCEPT ![j][b] = lastSeq']
    BY <2>4 DEF CompleteWake
  <2>6. j = k /\ b = a
    BY <2>1, <2>5 DEF TypeOK
  <2>7. msg[k].epoch # epoch
    BY <2>4, <2>6, LaterTurnIsLaterEpoch DEF CompleteWake
  <2>. QED
    BY <2>1, <2>4, <2>6, <2>7 DEF CompleteWake, StaleEpoch, GraceExpired
<1>. QED
  BY <1>1, RoomInvHolds, PTL DEF Spec, NoLateReply

-----------------------------------------------------------------------------
(* Audits and crashes *)

\* Only a crash leaves a failed wake without its audit row, and then it is
\* the one the settlement had at hand.
LEMMA UnauditedSteps ==
  ASSUME TypeOK, TypeOK', WakeInv, [Next]_vars,
         NEW k \in Keys, NEW a \in Agents, <<k, a>> \in Unaudited'
  PROVE  <<k, a>> \in Unaudited \/ (Crash /\ torn = <<k, a>>)
<1>1. wake'[k][a] = "failed" /\ audits'[k][a] = 0 /\ torn' # <<k, a>>
  BY DEF Unaudited
<1>2. audits[k][a] \in Nat
  BY DEF TypeOK
<1>3. Rests(k, a) /\ wake[k][a] = "failed" /\ audits[k][a] = 0
  BY <1>1, <1>2, WakeMoves
  DEF WakeMove, Rests, Inserted, TakenUp, CalledOff, Answered, Refused, Failed,
      Audited
<1>4. ASSUME torn = <<k, a>> PROVE Crash
  <2>1. torn # Nothing /\ torn' # torn /\ call # "idle"
    BY <1>1, <1>4, NothingIsNoDelivery DEF WakeInv, TornUnaudited
  <2>2. ASSUME NEW j \in Keys, NEW b \in Agents, SettleAudit(j, b)
        PROVE  FALSE
    BY <1>1, <1>2, <1>4, <2>2 DEF SettleAudit, TypeOK
  <2>. QED
    BY <2>1, <2>2
    DEF Next, CallStep, SendRoomMessage, SendScheduledRoomWake,
        StartTeamDiscussion, Senders, vars, processVars, CreateRoom,
        ArchiveRoom, DeleteRoom, SettleArchiveGrace, SettleArchive,
        CallReturns, UpdateRoomMembers, FinalizeMemberRemovals,
        BlockerCheckAnswered, Tick, SettleFail, PostMessage, RepostMessage,
        CancelDiscussion, ClaimWake, CompleteWake, RejectWake, Idle
<1>5. torn # <<k, a>> => <<k, a>> \in Unaudited
  BY <1>3 DEF Unaudited
<1>. QED
  BY <1>4, <1>5

\* Finiteness is needed to count: the keys and agents may be infinitely many.
UnauditedInv == IsFiniteSet(Unaudited) /\ FailuresAudited

LEMMA UnauditedStep ==
  TypeOK /\ TypeOK' /\ WakeInv /\ UnauditedInv /\ [Next]_vars => UnauditedInv'
<1>. SUFFICES ASSUME TypeOK, TypeOK', WakeInv, UnauditedInv, [Next]_vars
              PROVE  UnauditedInv'
  OBVIOUS
<1>1. /\ IsFiniteSet(Unaudited) /\ Cardinality(Unaudited) \in Nat
      /\ Cardinality(Unaudited) <= crashes
      /\ crashes \in Nat
  BY FS_CardinalityType DEF UnauditedInv, FailuresAudited, TypeOK
<1>2. \A d \in Unaudited' : d \in Unaudited \/ (Crash /\ d = torn)
  <2>. TAKE d \in Unaudited'
  <2>1. PICK k \in Keys, a \in Agents : d = <<k, a>>
    BY DEF Unaudited
  <2>. QED
    BY <2>1, UnauditedSteps
<1>3. CASE Crash
  <2>. DEFINE more == Unaudited \cup {torn}
  <2>1. Unaudited' \subseteq more
    BY <1>2
  <2>2. /\ IsFiniteSet(more) /\ Cardinality(more) \in Nat
        /\ Cardinality(more) <= Cardinality(Unaudited) + 1
    BY <1>1, FS_AddElement
  <2>3. /\ IsFiniteSet(Unaudited') /\ Cardinality(Unaudited') \in Nat
        /\ Cardinality(Unaudited') <= Cardinality(more)
    BY <2>1, <2>2, FS_Subset, FS_CardinalityType
  <2>4. crashes' = crashes + 1
    BY <1>3 DEF Crash
  <2>. QED
    BY <1>1, <2>2, <2>3, <2>4 DEF UnauditedInv, FailuresAudited
<1>4. CASE ~Crash
  <2>1. Unaudited' \subseteq Unaudited
    BY <1>2, <1>4
  <2>2. /\ IsFiniteSet(Unaudited') /\ Cardinality(Unaudited') \in Nat
        /\ Cardinality(Unaudited') <= Cardinality(Unaudited)
    BY <1>1, <2>1, FS_Subset, FS_CardinalityType
  <2>3. crashes' = crashes
    BY <1>4
    DEF Next, CallStep, SendRoomMessage, SendScheduledRoomWake,
        StartTeamDiscussion, Senders, vars, processVars, CreateRoom,
        ArchiveRoom, DeleteRoom, SettleArchiveGrace, SettleArchive,
        CallReturns, UpdateRoomMembers, FinalizeMemberRemovals,
        BlockerCheckAnswered, Tick, SettleFail, SettleAudit, PostMessage,
        RepostMessage, CancelDiscussion, ClaimWake, CompleteWake, RejectWake
  <2>. QED
    BY <1>1, <2>2, <2>3 DEF UnauditedInv, FailuresAudited
<1>. QED
  BY <1>3, <1>4

\* However many messages and agents there are, a crash of the process costs
\* at most one audit row.
THEOREM FailuresAreAudited == Spec => []FailuresAudited
<1>1. Init => UnauditedInv
  <2>. SUFFICES ASSUME Init PROVE UnauditedInv
    OBVIOUS
  <2>1. Unaudited = {} /\ crashes = 0
    BY DEF Init, Unaudited
  <2>. QED
    BY <2>1, FS_EmptySet DEF UnauditedInv, FailuresAudited
<1>2. TypeOK /\ WakeInv /\ UnauditedInv /\ [Next]_vars
        => (TypeOK /\ WakeInv /\ UnauditedInv)'
  BY TypeStep, WakeInvStep, UnauditedStep
<1>. QED
  BY <1>1, <1>2, TypeInit, WakeInvInit, PTL DEF Spec, UnauditedInv
=============================================================================
