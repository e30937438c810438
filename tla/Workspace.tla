----------------------------- MODULE Workspace -----------------------------
(***************************************************************************)
(* The workspace of one room and what may leave it                         *)
(* (room/workspace-service.js, with the room actions of room/service.js    *)
(* that call it and the triggers of room/store.js).  The owner binds the   *)
(* room to a directory, generation by generation; an agent works under a   *)
(* claim; a project is mapped into the workspace; and a disclosure lease   *)
(* holds everything still until what was read has been sent.  A change of  *)
(* authority that meets a held lease is noted as a pending mutation, to be *)
(* applied by its own retry.                                               *)
(*                                                                         *)
(* Every call is one transaction, so an action is a call; what a crash can *)
(* leave behind is a mutation that was noted in a transaction of its own.  *)
(* One owner on one host, one agent that may be a member, one project.     *)
(* Of a revision or an incarnation only one thing is kept: whether it has  *)
(* moved since a claim, an approval or a mutation was made of it ("stale").*)
(* Of an authorisation, whether it was cancelled, revoked or orphaned is   *)
(* left out, and a released claim is forgotten.  Calls by the wrong actor  *)
(* or on a stale revision, heartbeats, tickets of artifacts, decisions,    *)
(* wakes and the quota of mutations are left out.                          *)
(***************************************************************************)
EXTENDS Integers, FiniteSets

CONSTANTS
  Claims,      \* bound: claims that are not released at a time
  Operations,  \* bound: requests of a new binding
  Startups     \* bound: starts of the host after the first, which is 0

ASSUME OperationsType == (Operations \union Startups) \subseteq Nat \ {0}

VARIABLES
  startup,     \* the registered start of the host
  room,        \* [active, member]
  config,      \* [phase, generation, allocated, before]: the generation in force,
               \* the last allocated and the one to go back to; 0: no binding
  operations,  \* generations of the changes that were begun
  claims,      \* [exec, valid, project, stale]
  mapping,     \* [now, before, ticket] of the project
  readGrant,   \* the owner's grant to read: "none", "granted" or "revoked"
  approval,    \* the last approval to disclose: "none", "current" or "stale"
  leases,      \* claims that a disclosure lease is held for
  pending      \* the mutations that wait: [kind, arg, stale]

work == <<claims, mapping>>
consent == <<readGrant, approval>>
vars == <<startup, room, config, operations, work, consent, leases, pending>>

NoClaim == [exec |-> "none", valid |-> TRUE, project |-> FALSE, stale |-> {}]
None == -1

Init ==
  /\ startup = 0
  /\ room = [active |-> TRUE, member |-> "active"]
  /\ config = [phase |-> "none", generation |-> 0, allocated |-> 0, before |-> None]
  /\ operations = [o \in Operations |-> 0]
  /\ claims = [c \in Claims |-> NoClaim]
  /\ mapping = [now |-> "none", before |-> "none", ticket |-> "none"]
  /\ readGrant = "none" /\ approval = "none"
  /\ leases = {} /\ pending = {}

-----------------------------------------------------------------------------
(* Leases, mutations and who may write.                                    *)

Noted(kind, arg) == [kind |-> kind, arg |-> arg, stale |-> FALSE]

\* the triggers refuse every write to the room while a lease is held
Writable == leases = {}

\* for an action of the owner or an agent that no mutation may wait for
Guarded == Writable /\ pending = {}

\* only the mutation that is pending may go on
AnyAdmitted(m) == TRUE
Admitted(m) == pending \subseteq {m}

\* mutations that were noted on facts that have moved
Outdated(waiting, kinds) ==
  {[m EXCEPT !.stale = @ \/ m.kind \in kinds] : m \in waiting}
OfConfig == {"begin", "publish"}
OfHost == {"begin", "host"}
OfRoom == {"archive", "remove", "add", "discussion-cancel"}

\* the config has a new revision
Revised == pending' = Outdated(pending, OfConfig)

\* a lease is held: the mutation is noted, and the call has done its part
Defer(m) ==
  /\ ~Writable /\ Admitted(m) /\ pending' = pending \union {m}
  /\ UNCHANGED <<startup, room, config, operations, work, consent, leases>>

\* no lease is held: the mutation takes place, and is not pending any more
Settle(m, kinds) ==
  Writable /\ Admitted(m) /\ pending' = Outdated(pending \ {m}, kinds)

\* what was made of this fact is out of date
Staled(cs, fact) ==
  [c \in Claims |-> IF cs[c] = NoClaim THEN NoClaim
                    ELSE [cs[c] EXCEPT !.stale = @ \union {fact}]]
ApprovalStaled == approval' = IF approval = "none" THEN "none" ELSE "stale"

-----------------------------------------------------------------------------
(* The binding of the workspace.                                           *)

\* an allocated generation is not used again, whether or not it was bound
NextGeneration == config.allocated + 1

MayBegin(o) ==
  /\ room.active /\ operations[o] = 0
  /\ config.phase \in {"none", "active", "activation_failed", "unbound"}
  /\ mapping.now # "updating"

BeginChange(o) ==
  /\ MayBegin(o)
  /\ Settle(Noted("begin", o), OfConfig)
  /\ operations' = [operations EXCEPT ![o] = NextGeneration]
  /\ config' = [config EXCEPT !.phase = "draining", !.allocated = NextGeneration,
                  !.before = IF config.phase = "none" THEN None ELSE config.generation]
  /\ UNCHANGED <<startup, room, work, consent, leases>>

\* work of the binding before has been released
Undrained == TRUE
Drained == \A c \in Claims : claims[c] = NoClaim

CommitBinding ==
  /\ Guarded /\ room.active /\ config.phase = "draining" /\ Drained
  /\ mapping.now # "updating"
  /\ config' = [config EXCEPT !.phase = "committed", !.generation = config.allocated,
                              !.before = None]
  /\ claims' = Staled(claims, "generation") /\ ApprovalStaled
  /\ mapping' = [mapping EXCEPT !.now = IF @ = "active" THEN "of an old generation" ELSE @]
  /\ Revised
  /\ UNCHANGED <<startup, room, operations, readGrant, leases>>

ActivateBinding ==
  /\ Guarded /\ room.active /\ config.phase \in {"committed", "activation_failed"}
  /\ config' = [config EXCEPT !.phase = "active"]
  /\ Revised
  /\ UNCHANGED <<startup, room, operations, work, consent, leases>>

ActivationFailed ==
  /\ Guarded /\ room.active /\ config.phase = "committed"
  /\ config' = [config EXCEPT !.phase = "activation_failed"]
  /\ Revised
  /\ UNCHANGED <<startup, room, operations, work, consent, leases>>

\* the config before is back, and counts as active
CancelChange ==
  /\ Guarded /\ room.active /\ config.phase = "draining"
  /\ config' = IF config.before = None THEN [config EXCEPT !.phase = "unbound"]
               ELSE [config EXCEPT !.phase = "active", !.generation = config.before,
                                   !.before = None]
  /\ Revised
  /\ UNCHANGED <<startup, room, operations, work, consent, leases>>

MayPublish == room.active /\ config.phase # "none"

PublishInstructions ==
  /\ MayPublish /\ Settle(Noted("publish", 0), OfConfig)
  /\ UNCHANGED <<startup, room, config, operations, work, consent, leases>>

IssueReadGrant ==
  /\ Guarded /\ room.active /\ config.phase = "active" /\ config.generation # 0
  /\ readGrant # "granted" /\ readGrant' = "granted"
  /\ Revised
  /\ UNCHANGED <<startup, room, config, operations, work, approval, leases>>

RevokeReadGrant ==
  /\ readGrant = "granted" /\ readGrant' = "revoked"
  /\ Settle(Noted("revoke", 0), {"revoke"})
  /\ UNCHANGED <<startup, room, config, operations, work, approval, leases>>

\* a start of the host ends the claims of the one before
RegisterHost(s) ==
  /\ s # startup /\ startup' = s
  /\ Settle(Noted("host", s), OfHost)
  /\ claims' = Staled(claims, "host") /\ ApprovalStaled
  /\ UNCHANGED <<room, config, operations, mapping, readGrant, leases>>

-----------------------------------------------------------------------------
(* Claims of the agent.                                                    *)

Member == room.member = "active"
OnHost(c) == claims[c] # NoClaim /\ "host" \notin claims[c].stale
Current(c) == room.active /\ Member /\ "member" \notin claims[c].stale

\* the claim is the caller's own, and still authorised
Valid(c) == OnHost(c) /\ Current(c) /\ claims[c].valid

Works == UNCHANGED <<startup, room, config, operations, mapping, consent, leases, pending>>
Became(c, claim) == claims' = [claims EXCEPT ![c] = claim] /\ Works

AcquireClaim(c, project) ==
  /\ Guarded /\ room.active /\ Member /\ config.phase = "active"
  /\ claims[c] = NoClaim
  /\ project => mapping.now = "active"
  /\ Became(c, [NoClaim EXCEPT !.exec = "admitted", !.project = project])

AckClaim(c) ==
  /\ Guarded /\ Valid(c) /\ claims[c].exec = "admitted"
  /\ Became(c, [claims[c] EXCEPT !.exec = "running"])

\* a claim whose authority is gone still reports what becomes of its work
ReleasingClaim(c) ==
  /\ Writable /\ OnHost(c) /\ Member
  /\ Became(c, [claims[c] EXCEPT !.exec = "releasing"])

ReleaseClaim(c) ==
  /\ Writable /\ OnHost(c) /\ Member
  /\ Became(c, NoClaim)

CancelClaim(c) ==
  /\ Guarded /\ claims[c] # NoClaim
  /\ Became(c, [claims[c] EXCEPT !.valid = FALSE])

OrphanClaim(c) ==
  /\ Writable /\ claims[c] # NoClaim
  /\ Became(c, [claims[c] EXCEPT !.valid = FALSE])

\* the next incarnation of the host takes a claim over, with proof of its process
TakeoverClaim(c, exited) ==
  /\ Guarded /\ claims[c] # NoClaim /\ ~OnHost(c)
  /\ Became(c, IF exited THEN NoClaim
               ELSE [claims[c] EXCEPT !.stale = @ \ {"host"}, !.valid = FALSE])

-----------------------------------------------------------------------------
(* The mapping of the project: begun by the owner, decided by KSwarm.      *)

ProjectDrained == \A c \in Claims : ~claims[c].project

Remaps(now, before, ticket) ==
  /\ mapping' = [now |-> now, before |-> before, ticket |-> ticket]
  /\ UNCHANGED <<startup, room, config, operations, consent, leases, pending>>

BeginMapping ==
  /\ Guarded /\ room.active /\ config.phase = "active" /\ mapping.now # "updating"
  /\ Remaps("updating", mapping.now, "none") /\ UNCHANGED claims

IssueMappingTicket ==
  /\ Guarded /\ room.active /\ config.phase = "active"
  /\ mapping.now = "updating" /\ mapping.ticket = "none" /\ ProjectDrained
  /\ Remaps("updating", mapping.before, "issued") /\ UNCHANGED claims

Ticketed == Guarded /\ mapping.now = "updating" /\ mapping.ticket = "issued"

MappingApplied ==
  /\ Ticketed
  /\ Remaps("active", "none", "issued")
  /\ claims' = [c \in Claims |-> IF claims[c].project THEN Staled(claims, "mapping")[c]
                                 ELSE claims[c]]

\* what was there before is back
Restored == IF mapping.before = "none" THEN "mapping_required" ELSE mapping.before

MappingRejected ==
  /\ Ticketed /\ Remaps(Restored, "none", "rejected") /\ UNCHANGED claims

CancelMapping ==
  /\ Guarded /\ mapping.now = "updating" /\ mapping.ticket = "none"
  /\ Remaps(Restored, "none", "none") /\ UNCHANGED claims

-----------------------------------------------------------------------------
(* Disclosure.                                                             *)

ApproveDisclosureGrant ==
  /\ Guarded /\ room.active /\ Member /\ config.phase = "active"
  /\ approval' = "current"
  /\ UNCHANGED <<startup, room, config, operations, work, readGrant, leases, pending>>

\* the claim that asks is running and still authorised, on what was approved
Running(c) == claims[c].exec = "running" /\ ~claims[c].project
Discloses(c) == Running(c) /\ Valid(c)

PrepareDisclosure(c) ==
  /\ c \notin leases /\ pending = {}
  /\ Discloses(c) /\ approval = "current"
  /\ leases' = leases \union {c}
  /\ UNCHANGED <<startup, room, config, operations, work, consent, pending>>

\* the participant that has sent what it read lets the lease go
ReleaseLease(c) ==
  /\ c \in leases /\ leases' = leases \ {c}
  /\ UNCHANGED <<startup, room, config, operations, work, consent, pending>>

-----------------------------------------------------------------------------
(* Changes of the room that change the authority of its claims.  They note *)
(* the mutation in a transaction of its own, once the room has approvals.  *)

RoomAfter(kind) ==
  CASE kind = "archive"          -> [room EXCEPT !.active = FALSE]
    [] kind = "remove" /\ Member -> [room EXCEPT !.member = "pending_removal"]
    [] kind = "add"              -> [room EXCEPT !.member = "active"]
    [] OTHER                     -> room

\* the membership has a new revision, also when an active member is added again
Renewed(kind) == kind = "add" \/ (kind = "remove" /\ Member)

\* onRoomMutation, in the transaction of the change
Revoked(kind, cs) ==
  LET all == kind \in {"archive", "discussion-cancel"} \/ RoomAfter(kind).member # "active" IN
  [c \in Claims |-> IF cs[c] # NoClaim /\ (all \/ "member" \in cs[c].stale)
                      THEN [cs[c] EXCEPT !.valid = FALSE] ELSE cs[c]]

RoomMutation(kind) ==
  /\ room.active
  /\ Settle(Noted(kind, 0), IF kind = "archive" THEN {} ELSE OfRoom)
  /\ room' = RoomAfter(kind)
  /\ IF Renewed(kind)
       THEN claims' = Revoked(kind, Staled(claims, "member")) /\ ApprovalStaled
       ELSE claims' = Revoked(kind, claims) /\ UNCHANGED approval
  /\ UNCHANGED <<startup, config, operations, mapping, readGrant, leases>>

\* the broker stops after it has noted the mutation
RoomMutationCut(kind) ==
  /\ room.active /\ approval # "none"
  /\ Writable /\ Admitted(Noted(kind, 0)) /\ pending' = pending \union {Noted(kind, 0)}
  /\ UNCHANGED <<startup, room, config, operations, work, consent, leases>>

\* KSwarm still depends on the agent, or does not
FinalizeMemberRemovals ==
  /\ Writable /\ room.member = "pending_removal"
  /\ \E member \in {"active", "removed"} : room' = [room EXCEPT !.member = member]
  /\ UNCHANGED <<startup, config, operations, work, consent, leases, pending>>

\* the calls that a held lease defers, each when its own conditions hold
MaySettle(m) ==
  CASE m.kind = "begin"   -> MayBegin(m.arg)
    [] m.kind = "publish" -> MayPublish
    [] m.kind = "revoke"  -> readGrant = "granted"
    [] m.kind = "host"    -> m.arg # startup
    [] OTHER              -> room.active

Mutations ==
  {Noted("begin", o) : o \in Operations} \union {Noted("host", s) : s \in Startups}
    \union {Noted(kind, 0) : kind \in {"publish", "revoke"} \union OfRoom}

-----------------------------------------------------------------------------
Next ==
  \/ \E o \in Operations : BeginChange(o)
  \/ CommitBinding \/ ActivateBinding \/ ActivationFailed \/ CancelChange
  \/ PublishInstructions \/ IssueReadGrant \/ RevokeReadGrant
  \/ \E s \in Startups : RegisterHost(s)
  \/ \E c \in Claims :
       \/ AckClaim(c) \/ ReleasingClaim(c) \/ ReleaseClaim(c) \/ CancelClaim(c) \/ OrphanClaim(c)
       \/ PrepareDisclosure(c) \/ ReleaseLease(c)
       \/ \E project \in BOOLEAN : AcquireClaim(c, project)
       \/ \E exited \in BOOLEAN : TakeoverClaim(c, exited)
  \/ BeginMapping \/ IssueMappingTicket \/ MappingApplied \/ MappingRejected \/ CancelMapping
  \/ ApproveDisclosureGrant
  \/ \E kind \in OfRoom : RoomMutation(kind) \/ RoomMutationCut(kind)
  \/ FinalizeMemberRemovals
  \/ \E m \in Mutations : MaySettle(m) /\ Defer(m)

Spec == Init /\ [][Next]_vars

-----------------------------------------------------------------------------
(* Properties.                                                             *)

TypeOK ==
  /\ startup \in Startups \union {0}
  /\ room.active \in BOOLEAN /\ room.member \in {"active", "pending_removal", "removed"}
  /\ config.phase \in {"none", "draining", "committed", "active", "activation_failed", "unbound"}
  /\ config.generation \in 0..config.allocated
  /\ \A c \in Claims :
       /\ claims[c].exec \in {"none", "admitted", "running", "releasing"}
       /\ claims[c].stale \subseteq {"generation", "member", "host", "mapping"}
  /\ leases \subseteq Claims /\ Cardinality(pending) <= 1

\* While a lease is held, the claim it was given to keeps running under the authority it
\* was given on: the same binding, membership and host, in an active room.
LeaseCurrent ==
  \A c \in leases : Running(c) /\ Valid(c) /\ claims[c].stale = {}

\* A pending mutation is never stranded: what it was noted on is still so, so its retry
\* is not taken for another mutation, which the pending one would refuse for ever.
PendingNotStranded == \A m \in pending : ~m.stale /\ MaySettle(m)

\* Work of two bindings, or of two mappings of the project, never runs side by side: one
\* is replaced only when every claim under it has been released.
DrainedFirst == \A c \in Claims : claims[c].stale \cap {"generation", "mapping"} = {}

\* No generation is given to two changes, though the first was cancelled.
GenerationsDiffer ==
  \A o, p \in Operations :
    operations[o] # 0 /\ operations[o] = operations[p] => o = p

\* A claim that counts as authorised is of the agent's membership as it is, in a room
\* that is active: a removal or an archive takes the authority away in the same step.
AuthorizedIsMember ==
  \A c \in Claims : claims[c] # NoClaim /\ claims[c].valid => Current(c)

\* No authority outlives what it rests on: LeaseCurrent and AuthorizedIsMember.
AuthorityCurrent == LeaseCurrent /\ AuthorizedIsMember

\* Changes of a workspace follow one another: DrainedFirst and GenerationsDiffer.
ChangesOrdered == DrainedFirst /\ GenerationsDiffer

\* Does not hold: a workspace is active only with a binding that was committed.
ActiveHasBinding == config.phase = "active" => config.generation # 0
=============================================================================
