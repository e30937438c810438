---------------------------- MODULE Sharing_proofs ----------------------------
(***************************************************************************)
(* What holds of the workspace of a room, of the context that is synced to *)
(* another machine, and of the services that share JSON files, for all the *)
(* claims, changes, starts, syncs, loads, commands and faults there may be.*)
(*                                                                         *)
(* Workspace: that the pending mutation can be settled, and that nothing   *)
(* runs under what was replaced, are inductive together with the ticket of *)
(* a mapping (TicketDrained) and the bounds of generations (Allocated).    *)
(* ContextSync: each side knows of the other what AckedKnown says, because *)
(* what was recorded stays recorded; the sender's refs need the order of   *)
(* pushes and cleanups (NotYetPushed, CleanersKnow), and the receiver's    *)
(* single load what a load has done so far (LoadsCounted).  FileServices:  *)
(* a command's copy of a file is sound in itself (Copy); and a lock that   *)
(* no overlap of commands may have lost is in the table, or in the copy    *)
(* of the only command that writes it (Kept).                              *)
(***************************************************************************)
EXTENDS MCFileServices, FiniteSetTheorems, TLAPS

-----------------------------------------------------------------------------
(* Workspace: the inductive invariant.                                     *)

Facts == {"generation", "member", "host", "mapping"}
MappingStates == {"none", "active", "updating", "mapping_required", "of an old generation"}

Claim == [exec : {"none", "admitted", "running", "releasing"}, valid : BOOLEAN,
          project : BOOLEAN, stale : SUBSET Facts]

WorkTypes ==
  /\ startup \in Startups \union {0}
  /\ room \in [active : BOOLEAN, member : {"active", "pending_removal", "removed"}]
  /\ claims \in [Claims -> Claim]
  /\ mapping \in [now : MappingStates, before : MappingStates,
                  ticket : {"none", "issued", "rejected"}]
  /\ readGrant \in {"none", "granted", "revoked"}
  /\ approval \in {"none", "current", "stale"}
  /\ leases \subseteq Claims

Config ==
  [phase : {"none", "draining", "committed", "active", "activation_failed", "unbound"},
   generation : Nat, allocated : Nat, before : Nat \union {None}]

\* A generation in force, kept to go back to or given to a change was allocated.
Allocated ==
  /\ config \in Config
  /\ config.generation <= config.allocated /\ config.before <= config.allocated
  /\ operations \in [Operations -> Nat]
  /\ \A o \in Operations : operations[o] <= config.allocated

\* At most one mutation is pending, and it may still be settled.
PendingOne ==
  /\ \A m, n \in pending : m = n
  /\ pending \subseteq Mutations

\* Between the ticket and its outcome no claim of the project exists.
TicketDrained ==
  mapping.now = "updating" /\ mapping.ticket = "issued" => ProjectDrained

ClaimsInv == DrainedFirst /\ TicketDrained /\ AuthorizedIsMember

WorkInv ==
  /\ WorkTypes /\ Allocated /\ GenerationsDiffer
  /\ PendingOne /\ PendingNotStranded
  /\ ClaimsInv /\ LeaseCurrent

-----------------------------------------------------------------------------
(* Workspace: the steps.                                                   *)

LEMMA NoClaimIs == NoClaim \in Claim /\ ~NoClaim.project /\ NoClaim.stale = {}
BY DEF NoClaim, Claim, Facts

\* A call that no mutation waits for, or that settles the pending one, leaves none.
LEMMA SettledNone ==
  ASSUME NEW m, NEW kinds, Settle(m, kinds)
  PROVE  pending' = {} /\ leases = {}
BY DEF Settle, Writable, Admitted, Outdated

LEMMA RevisedNone ==
  ASSUME Guarded, Revised
  PROVE  pending' = {} /\ leases = {}
BY DEF Guarded, Writable, Revised, Outdated

\* While no lease is held, a step that leaves nothing pending, or pending what was there
\* and may still be settled, has to show what becomes of the claims.
LEMMA StepKeeps ==
  ASSUME WorkInv, leases = {}, leases' = leases, pending' = {} \/ (PendingOne /\ PendingNotStranded)',
         WorkTypes', Allocated', GenerationsDiffer', ClaimsInv'
  PROVE  WorkInv'
BY DEF WorkInv, PendingOne, PendingNotStranded, LeaseCurrent

\* A step that changes neither room nor claims keeps what is said of the claims, if it
\* gives out no ticket.
LEMMA ClaimsStay ==
  ASSUME WorkInv, claims' = claims, room' = room,
         mapping'.ticket = "issued" /\ mapping'.now = "updating" => ProjectDrained
  PROVE  ClaimsInv'
BY DEF WorkInv, ClaimsInv, DrainedFirst, TicketDrained, AuthorizedIsMember, ProjectDrained,
       Current, Member

\* The steps of the binding that no claim notices.
LEMMA ConfigKeeps ==
  ASSUME WorkInv,
         \/ \E o \in Operations : BeginChange(o)
         \/ ActivateBinding \/ ActivationFailed \/ CancelChange
         \/ PublishInstructions \/ IssueReadGrant \/ RevokeReadGrant
  PROVE  WorkInv'
<1>1. /\ WorkTypes /\ Allocated /\ GenerationsDiffer /\ TicketDrained
  BY DEF WorkInv, ClaimsInv
<1>2. /\ pending' = {} /\ leases = {}
      /\ UNCHANGED <<startup, room, claims, mapping, approval, leases>>
      /\ readGrant' \in {readGrant, "granted", "revoked"}
  BY SettledNone, RevisedNone
     DEF BeginChange, ActivateBinding, ActivationFailed, CancelChange, PublishInstructions,
         IssueReadGrant, RevokeReadGrant, work, consent
<1>3. WorkTypes'
  BY <1>1, <1>2 DEF WorkTypes
<1>4. ClaimsInv'
  BY <1>1, <1>2, ClaimsStay DEF TicketDrained
<1>5. Allocated' /\ GenerationsDiffer'
  <2>1. ASSUME NEW o \in Operations, BeginChange(o) PROVE Allocated' /\ GenerationsDiffer'
    <3>1. /\ operations' = [operations EXCEPT ![o] = config.allocated + 1]
          /\ config' = [config EXCEPT !.phase = "draining", !.allocated = config.allocated + 1,
                          !.before = IF config.phase = "none" THEN None ELSE config.generation]
      BY <2>1 DEF BeginChange, NextGeneration
    <3>2. config.generation \in Nat /\ config.allocated \in Nat /\ config.generation <= config.allocated
      BY <1>1 DEF Allocated, Config
    <3>3. /\ config' \in Config
          /\ config'.generation = config.generation
          /\ config'.allocated = config.allocated + 1
          /\ config'.before \in {None, config.generation}
      <4>1. ASSUME NEW before \in {None, config.generation},
                   config' = [config EXCEPT !.phase = "draining", !.before = before,
                                            !.allocated = config.allocated + 1]
            PROVE  /\ config' \in Config /\ config'.generation = config.generation
                   /\ config'.allocated = config.allocated + 1 /\ config'.before = before
        <5>1. config \in Config /\ before \in Nat \union {None} /\ config.allocated + 1 \in Nat
          BY <1>1, <3>2 DEF Allocated
        <5>. HIDE DEF None
        <5>. QED
          BY <4>1, <5>1 DEF Config
      <4>2. CASE config.phase = "none"
        BY <1>1, <3>1, <4>1, <4>2 DEF Allocated, Config
      <4>3. CASE config.phase # "none"
        BY <1>1, <3>1, <4>1, <4>3 DEF Allocated, Config
      <4>. QED
        BY <4>2, <4>3
    <3>4. \A p \in Operations : operations'[p] = IF p = o THEN config.allocated + 1 ELSE operations[p]
      BY <1>1, <3>1 DEF Allocated
    <3>5. operations' \in [Operations -> Nat]
      BY <1>1, <3>1, <3>2 DEF Allocated
    <3>6. \A p \in Operations : operations[p] \in Nat /\ operations[p] <= config.allocated
      BY <1>1 DEF Allocated
    <3>7. \A p \in Operations : operations'[p] <= config'.allocated
      BY <3>2, <3>3, <3>4, <3>6
    <3>8. config'.generation <= config'.allocated /\ config'.before <= config'.allocated
      BY <3>2, <3>3 DEF None
    <3>9. GenerationsDiffer'
      BY <1>1, <3>2, <3>4, <3>6 DEF GenerationsDiffer
    <3>. QED
      BY <3>3, <3>5, <3>7, <3>8, <3>9 DEF Allocated
  <2>2. CASE ActivateBinding \/ ActivationFailed \/ CancelChange \/ PublishInstructions
               \/ IssueReadGrant \/ RevokeReadGrant
    <3>1. operations' = operations
      BY <2>2 DEF ActivateBinding, ActivationFailed, CancelChange, PublishInstructions,
                  IssueReadGrant, RevokeReadGrant
    <3>2. CASE config' = config
      BY <1>1, <3>1, <3>2 DEF Allocated, GenerationsDiffer
    <3>3. CASE \E phase \in {"active", "activation_failed", "unbound"} :
                 config' = [config EXCEPT !.phase = phase]
      BY <1>1, <3>1, <3>3 DEF Allocated, Config, GenerationsDiffer
    <3>4. CASE config.before # None /\
               config' = [config EXCEPT !.phase = "active", !.generation = config.before,
                                        !.before = None]
      <4>1. config.before \in Nat /\ config.before <= config.allocated /\ config \in Config
        BY <1>1, <3>4 DEF Allocated, Config
      <4>2. /\ config' \in Config /\ config'.generation = config.before
            /\ config'.allocated = config.allocated /\ config'.before = None
        BY <3>4, <4>1 DEF Config
      <4>3. config'.generation <= config'.allocated /\ config'.before <= config'.allocated
        BY <4>1, <4>2 DEF Config, None
      <4>. QED
        BY <1>1, <3>1, <4>2, <4>3 DEF Allocated, GenerationsDiffer
    <3>. QED
      BY <2>2, <3>2, <3>3, <3>4
         DEF ActivateBinding, ActivationFailed, CancelChange, PublishInstructions,
             IssueReadGrant, RevokeReadGrant
  <2>. QED
    BY <2>1, <2>2
<1>. QED
  BY <1>2, <1>3, <1>4, <1>5, StepKeeps

\* A fact that moves makes the claims stale that there are.
LEMMA StaledIs ==
  ASSUME WorkTypes, NEW fact \in Facts
  PROVE  /\ Staled(claims, fact) \in [Claims -> Claim]
         /\ \A c \in Claims :
              /\ claims[c] = NoClaim => Staled(claims, fact)[c] = NoClaim
              /\ claims[c] # NoClaim =>
                   /\ Staled(claims, fact)[c].stale = claims[c].stale \union {fact}
                   /\ Staled(claims, fact)[c].valid = claims[c].valid
                   /\ Staled(claims, fact)[c].project = claims[c].project
<1>1. \A c \in Claims : claims[c] \in Claim
  BY DEF WorkTypes
<1>2. \A c \in Claims : [claims[c] EXCEPT !.stale = @ \union {fact}] \in Claim
  BY <1>1 DEF Claim
<1>3. \A c \in Claims :
        [claims[c] EXCEPT !.stale = @ \union {fact}].stale = claims[c].stale \union {fact}
        /\ [claims[c] EXCEPT !.stale = @ \union {fact}].valid = claims[c].valid
        /\ [claims[c] EXCEPT !.stale = @ \union {fact}].project = claims[c].project
  BY <1>1 DEF Claim
<1>. QED
  BY <1>2, <1>3, NoClaimIs DEF Staled

\* A binding is committed when no claim is left that it could make stale.
LEMMA CommitKeeps ==
  ASSUME WorkInv, CommitBinding
  PROVE  WorkInv'
<1>1. /\ WorkTypes /\ Allocated /\ GenerationsDiffer
  BY DEF WorkInv
<1>2. /\ \A c \in Claims : claims[c] = NoClaim
      /\ pending' = {} /\ leases = {} /\ leases' = leases
      /\ UNCHANGED <<startup, room, operations, readGrant>>
  BY RevisedNone DEF CommitBinding, Drained
<1>3. claims' = claims
  <2>1. claims' \in [Claims -> Claim] /\ \A c \in Claims : claims'[c] = NoClaim
    BY <1>1, <1>2, StaledIs DEF CommitBinding, Facts
  <2>. QED
    BY <1>1, <1>2, <2>1 DEF WorkTypes
<1>4. mapping' \in [now : MappingStates, before : MappingStates,
                    ticket : {"none", "issued", "rejected"}]
  BY <1>1 DEF CommitBinding, WorkTypes, MappingStates
<1>5. WorkTypes'
  BY <1>1, <1>2, <1>3, <1>4 DEF WorkTypes, CommitBinding, ApprovalStaled
<1>6. ClaimsInv'
  BY <1>2, <1>3, NoClaimIs, ClaimsStay DEF ProjectDrained
<1>7. Allocated' /\ GenerationsDiffer'
  <2>1. config \in Config /\ config.allocated \in Nat
    BY <1>1 DEF Allocated, Config
  <2>2. /\ config' \in Config /\ config'.generation = config.allocated
        /\ config'.allocated = config.allocated /\ config'.before = None
    BY <2>1 DEF CommitBinding, Config
  <2>3. config'.generation <= config'.allocated /\ config'.before <= config'.allocated
    BY <2>1, <2>2 DEF None
  <2>. QED
    BY <1>1, <1>2, <2>2, <2>3 DEF Allocated, GenerationsDiffer
<1>. QED
  BY <1>2, <1>5, <1>6, <1>7, StepKeeps

\* A new start of the host.
LEMMA HostKeeps ==
  ASSUME WorkInv, NEW s \in Startups, RegisterHost(s)
  PROVE  WorkInv'
<1>1. WorkTypes /\ Allocated /\ GenerationsDiffer /\ ClaimsInv
  BY DEF WorkInv
<1>2. /\ pending' = {} /\ leases = {} /\ leases' = leases
      /\ UNCHANGED <<room, config, operations, mapping, readGrant>>
      /\ claims' = Staled(claims, "host") /\ startup' = s
      /\ approval' = IF approval = "none" THEN "none" ELSE "stale"
  BY SettledNone DEF RegisterHost, ApprovalStaled
<1>3. /\ claims' \in [Claims -> Claim]
      /\ \A c \in Claims :
           /\ claims[c] = NoClaim => claims'[c] = NoClaim
           /\ claims[c] # NoClaim =>
                /\ claims'[c].stale = claims[c].stale \union {"host"}
                /\ claims'[c].valid = claims[c].valid /\ claims'[c].project = claims[c].project
  BY <1>1, <1>2, StaledIs DEF Facts
<1>4. WorkTypes'
  BY <1>1, <1>2, <1>3 DEF WorkTypes
<1>5. Allocated' /\ GenerationsDiffer'
  BY <1>1, <1>2 DEF Allocated, GenerationsDiffer
<1>6. DrainedFirst'
  BY <1>1, <1>3, NoClaimIs DEF ClaimsInv, DrainedFirst
<1>7. TicketDrained'
  BY <1>1, <1>2, <1>3, NoClaimIs DEF ClaimsInv, TicketDrained, ProjectDrained
<1>8. AuthorizedIsMember'
  BY <1>1, <1>2, <1>3 DEF ClaimsInv, AuthorizedIsMember, Current, Member
<1>. QED
  BY <1>2, <1>4, <1>5, <1>6, <1>7, <1>8, StepKeeps DEF ClaimsInv

\* A claim that becomes another one of a current binding, and authorised only as far as it
\* was, or on the membership as it is.
LEMMA ClaimBecomes ==
  ASSUME WorkInv, leases = {}, NEW c \in Claims, NEW claim \in Claim, Became(c, claim),
         claim.stale \cap {"generation", "mapping"} = {},
         claim.project => claims[c].project \/ mapping.now # "updating",
         claim # NoClaim /\ claim.valid => room.active /\ Member /\ "member" \notin claim.stale
  PROVE  WorkInv'
<1>1. /\ WorkTypes /\ Allocated /\ GenerationsDiffer /\ ClaimsInv
      /\ PendingOne /\ PendingNotStranded
  BY DEF WorkInv
<1>2. /\ UNCHANGED <<startup, room, config, operations, mapping, readGrant, approval, leases, pending>>
      /\ claims' = [claims EXCEPT ![c] = claim]
  BY DEF Became, Works, consent
<1>3. WorkTypes'
  BY <1>1, <1>2 DEF WorkTypes
<1>4. claims'[c] = claim /\ \A d \in Claims : d # c => claims'[d] = claims[d]
  BY <1>1, <1>2 DEF WorkTypes
<1>5. Allocated' /\ GenerationsDiffer'
  BY <1>1, <1>2 DEF Allocated, GenerationsDiffer
<1>6. DrainedFirst'
  BY <1>1, <1>4 DEF ClaimsInv, DrainedFirst
<1>7. TicketDrained'
  BY <1>1, <1>2, <1>4 DEF ClaimsInv, TicketDrained, ProjectDrained
<1>8. AuthorizedIsMember'
  BY <1>1, <1>2, <1>4 DEF ClaimsInv, AuthorizedIsMember, Current, Member
<1>9. (PendingOne /\ PendingNotStranded)'
  BY <1>1, <1>2 DEF PendingOne, PendingNotStranded, MaySettle, MayBegin, MayPublish, Mutations
<1>. QED
  BY <1>2, <1>3, <1>5, <1>6, <1>7, <1>8, <1>9, StepKeeps DEF ClaimsInv

LEMMA ClaimKeeps ==
  ASSUME WorkInv, NEW c \in Claims,
         \/ AckClaim(c) \/ ReleasingClaim(c) \/ ReleaseClaim(c) \/ CancelClaim(c)
         \/ OrphanClaim(c)
         \/ \E project \in BOOLEAN : AcquireClaim(c, project)
         \/ \E exited \in BOOLEAN : TakeoverClaim(c, exited)
  PROVE  WorkInv'
<1>1. /\ claims[c] \in Claim /\ claims[c].stale \cap {"generation", "mapping"} = {}
      /\ claims[c] # NoClaim /\ claims[c].valid =>
           room.active /\ Member /\ "member" \notin claims[c].stale
  BY DEF WorkInv, WorkTypes, ClaimsInv, DrainedFirst, AuthorizedIsMember, Current
<1>2. leases = {}
  BY DEF AckClaim, ReleasingClaim, ReleaseClaim, CancelClaim, OrphanClaim, AcquireClaim,
         TakeoverClaim, Guarded, Writable
<1>3. ASSUME NEW exec \in {"running", "releasing"}, claims[c] # NoClaim,
             Became(c, [claims[c] EXCEPT !.exec = exec])
      PROVE  WorkInv'
  <2>. DEFINE new == [claims[c] EXCEPT !.exec = exec]
  <2>1. /\ new \in Claim /\ new.stale = claims[c].stale /\ new.valid = claims[c].valid
        /\ new.project = claims[c].project
    BY <1>1 DEF Claim
  <2>. HIDE DEF new
  <2>2. Became(c, new)
    BY <1>3 DEF new
  <2>. QED
    BY <1>1, <1>2, <1>3, <2>1, <2>2, ClaimBecomes
<1>4. ASSUME NEW stale \in SUBSET claims[c].stale,
             Became(c, [claims[c] EXCEPT !.stale = stale, !.valid = FALSE])
      PROVE  WorkInv'
  <2>. DEFINE new == [claims[c] EXCEPT !.stale = stale, !.valid = FALSE]
  <2>1. /\ new \in Claim /\ new.stale = stale /\ ~new.valid /\ new.project = claims[c].project
    BY <1>1 DEF Claim
  <2>. HIDE DEF new
  <2>2. Became(c, new)
    BY <1>4 DEF new
  <2>. QED
    BY <1>1, <1>2, <2>1, <2>2, ClaimBecomes
<1>5. ASSUME Became(c, NoClaim) PROVE WorkInv'
  BY <1>2, <1>5, NoClaimIs, ClaimBecomes
<1>6. ASSUME NEW project \in BOOLEAN, AcquireClaim(c, project) PROVE WorkInv'
  <2>. DEFINE new == [NoClaim EXCEPT !.exec = "admitted", !.project = project]
  <2>1. new \in Claim /\ new.stale = {} /\ (new.project <=> project)
    BY NoClaimIs DEF Claim, NoClaim
  <2>. HIDE DEF new
  <2>2. /\ Became(c, new) /\ room.active /\ Member /\ (project => mapping.now = "active")
    BY <1>6 DEF AcquireClaim, new
  <2>. QED
    BY <1>2, <2>1, <2>2, ClaimBecomes
<1>7. CASE AckClaim(c)
  BY <1>3, <1>7 DEF AckClaim, Valid, OnHost
<1>8. CASE ReleasingClaim(c)
  BY <1>3, <1>8 DEF ReleasingClaim, OnHost
<1>9. CASE ReleaseClaim(c)
  BY <1>5, <1>9 DEF ReleaseClaim
<1>10. CASE CancelClaim(c) \/ OrphanClaim(c)
  <2>1. Became(c, [claims[c] EXCEPT !.valid = FALSE])
    BY <1>10 DEF CancelClaim, OrphanClaim
  <2>2. [claims[c] EXCEPT !.valid = FALSE]
          = [claims[c] EXCEPT !.stale = claims[c].stale, !.valid = FALSE]
    BY <1>1 DEF Claim
  <2>. QED
    BY <1>4, <2>1, <2>2
<1>11. ASSUME NEW exited \in BOOLEAN, TakeoverClaim(c, exited) PROVE WorkInv'
  <2>1. CASE exited
    BY <1>5, <1>11, <2>1 DEF TakeoverClaim
  <2>2. CASE ~exited
    <3>1. Became(c, [claims[c] EXCEPT !.stale = claims[c].stale \ {"host"}, !.valid = FALSE])
      BY <1>11, <2>2 DEF TakeoverClaim
    <3>. QED
      BY <1>4, <3>1
  <2>. QED
    BY <2>1, <2>2
<1>. QED
  BY <1>6, <1>7, <1>8, <1>9, <1>10, <1>11

\* The steps of the project's mapping: a ticket is given out when its claims are gone, and
\* one that is applied finds none that it could make stale.
LEMMA MappingKeeps ==
  ASSUME WorkInv,
         BeginMapping \/ IssueMappingTicket \/ MappingApplied \/ MappingRejected \/ CancelMapping
  PROVE  WorkInv'
<1>1. /\ WorkTypes /\ Allocated /\ GenerationsDiffer /\ ClaimsInv
  BY DEF WorkInv
<1>2. /\ leases = {} /\ pending' = {}
      /\ UNCHANGED <<startup, room, config, operations, readGrant, approval, leases>>
  BY DEF BeginMapping, IssueMappingTicket, MappingApplied, MappingRejected, CancelMapping,
         Ticketed, Remaps, Guarded, Writable, consent
<1>3. claims' = claims
  <2>1. CASE MappingApplied
    <3>1. \A c \in Claims : ~claims[c].project
      BY <1>1, <2>1 DEF MappingApplied, Ticketed, ClaimsInv, TicketDrained, ProjectDrained
    <3>2. claims' = [c \in Claims |-> claims[c]]
      BY <2>1, <3>1 DEF MappingApplied
    <3>. QED
      BY <1>1, <3>2 DEF WorkTypes
  <2>. QED
    BY <2>1 DEF BeginMapping, IssueMappingTicket, MappingRejected, CancelMapping
<1>4. WorkTypes'
  <2>1. mapping.now \in MappingStates /\ mapping.before \in MappingStates
          /\ Restored \in MappingStates
    BY <1>1 DEF WorkTypes, Restored, MappingStates
  <2>2. \E now, before \in MappingStates, ticket \in {"none", "issued", "rejected"} :
          mapping' = [now |-> now, before |-> before, ticket |-> ticket]
    BY <2>1 DEF BeginMapping, IssueMappingTicket, MappingApplied, MappingRejected,
                CancelMapping, Remaps, MappingStates
  <2>. QED
    BY <1>1, <1>2, <1>3, <2>2 DEF WorkTypes
<1>5. ClaimsInv'
  <2>1. mapping'.ticket = "issued" /\ mapping'.now = "updating" => ProjectDrained
    BY DEF BeginMapping, IssueMappingTicket, MappingApplied, MappingRejected, CancelMapping,
           Remaps
  <2>. QED
    BY <1>2, <1>3, <2>1, ClaimsStay
<1>6. Allocated' /\ GenerationsDiffer'
  BY <1>1, <1>2 DEF Allocated, GenerationsDiffer
<1>. QED
  BY <1>2, <1>4, <1>5, <1>6, StepKeeps

\* A lease is given to a claim that runs on all that is current, and while one is held
\* nothing of that moves: an approval is given, a lease given or released, or a mutation
\* of what is held deferred.
LEMMA DisclosureKeeps ==
  ASSUME WorkInv,
         \/ ApproveDisclosureGrant
         \/ \E c \in Claims : PrepareDisclosure(c) \/ ReleaseLease(c)
         \/ \E m \in Mutations : MaySettle(m) /\ Defer(m)
  PROVE  WorkInv'
<1>1. /\ WorkTypes /\ Allocated /\ GenerationsDiffer /\ PendingOne /\ PendingNotStranded
      /\ ClaimsInv /\ LeaseCurrent
  BY DEF WorkInv
<1>2. /\ UNCHANGED <<startup, room, config, operations, claims, mapping, readGrant>>
      /\ approval' \in {approval, "current"}
  BY DEF ApproveDisclosureGrant, PrepareDisclosure, ReleaseLease, Defer, work, consent
<1>3. WorkTypes'
  <2>1. leases' \subseteq Claims
    BY <1>1 DEF ApproveDisclosureGrant, PrepareDisclosure, ReleaseLease, Defer, WorkTypes
  <2>. QED
    BY <1>1, <1>2, <2>1 DEF WorkTypes
<1>4. ClaimsInv'
  BY <1>1, <1>2, ClaimsStay DEF ClaimsInv, TicketDrained
<1>5. Allocated' /\ GenerationsDiffer'
  BY <1>1, <1>2 DEF Allocated, GenerationsDiffer
<1>6. LeaseCurrent'
  <2>1. ASSUME NEW c \in leases' PROVE Running(c) /\ Valid(c) /\ claims[c].stale = {}
    <3>1. CASE c \in leases
      BY <1>1, <3>1 DEF LeaseCurrent
    <3>2. CASE c \notin leases
      <4>1. c \in Claims /\ Discloses(c)
        BY <2>1, <3>2 DEF ApproveDisclosureGrant, PrepareDisclosure, ReleaseLease, Defer
      <4>2. claims[c].stale \subseteq Facts
        BY <1>1, <4>1 DEF WorkTypes, Claim
      <4>3. claims[c].stale \cap Facts = {}
        BY <1>1, <4>1
           DEF ClaimsInv, DrainedFirst, Discloses, Valid, OnHost, Current, Facts
      <4>. QED
        BY <4>1, <4>2, <4>3 DEF Discloses
    <3>. QED
      BY <3>1, <3>2
  <2>. QED
    BY <1>2, <2>1 DEF LeaseCurrent, Running, Valid, OnHost, Current, Member
<1>7. (PendingOne /\ PendingNotStranded)'
  <2>1. PendingOne' /\ \A m \in pending' : ~m.stale /\ MaySettle(m)
    <3>1. CASE pending' = pending
      BY <1>1, <3>1 DEF PendingOne, PendingNotStranded
    <3>2. ASSUME NEW m \in Mutations, MaySettle(m), Defer(m)
          PROVE  PendingOne' /\ \A n \in pending' : ~n.stale /\ MaySettle(n)
      <4>1. pending' = {m}
        BY <3>2 DEF Defer, Admitted
      <4>2. ~m.stale
        BY <3>2 DEF Mutations, Noted
      <4>. QED
        BY <3>2, <4>1, <4>2 DEF PendingOne
    <3>. QED
      BY <3>1, <3>2 DEF ApproveDisclosureGrant, PrepareDisclosure, ReleaseLease
  <2>. QED
    BY <1>2, <2>1 DEF PendingNotStranded, MaySettle, MayBegin, MayPublish
<1>. QED
  BY <1>3, <1>4, <1>5, <1>6, <1>7 DEF WorkInv

\* After a change of the room no claim is authorised: an archive and a cancelled discussion
\* end all, a removal those of the member, and an added member has a new membership.
LEMMA MutationKeeps ==
  ASSUME WorkInv, NEW kind \in OfRoom, RoomMutation(kind)
  PROVE  WorkInv'
<1>1. WorkTypes /\ Allocated /\ GenerationsDiffer /\ ClaimsInv
  BY DEF WorkInv
<1>2. /\ pending' = {} /\ leases = {} /\ leases' = leases
      /\ UNCHANGED <<startup, config, operations, mapping, readGrant>>
      /\ room' = RoomAfter(kind) /\ approval' \in {approval, "none", "stale"}
  BY SettledNone DEF RoomMutation, ApprovalStaled
<1>3. PICK cs \in {claims, Staled(claims, "member")} :
        /\ claims' = Revoked(kind, cs)
        /\ Renewed(kind) => cs = Staled(claims, "member")
  BY DEF RoomMutation
<1>4. /\ cs \in [Claims -> Claim]
      /\ \A c \in Claims :
           /\ claims[c] = NoClaim => cs[c] = NoClaim
           /\ claims[c] # NoClaim => /\ cs[c].stale \subseteq claims[c].stale \union {"member"}
                                     /\ cs[c].project = claims[c].project
                                     /\ Renewed(kind) => "member" \in cs[c].stale
  <2>1. CASE cs = claims /\ ~Renewed(kind)
    BY <1>1, <2>1 DEF WorkTypes
  <2>2. CASE cs = Staled(claims, "member")
    BY <1>1, <2>2, StaledIs DEF Facts
  <2>. QED
    BY <1>3, <2>1, <2>2
<1>5. \A c \in Claims : cs[c] = NoClaim \/ "member" \in cs[c].stale
        \/ kind \in {"archive", "discussion-cancel"} \/ RoomAfter(kind).member # "active"
  <2>1. CASE kind = "add"
    BY <1>4, <2>1 DEF Renewed
  <2>2. CASE kind = "remove" /\ ~Member
    BY <1>1, <2>2 DEF RoomAfter, Member, WorkTypes
  <2>3. CASE kind = "remove" /\ Member
    BY <1>4, <2>3 DEF Renewed
  <2>4. CASE kind \in {"archive", "discussion-cancel"}
    BY <2>4
  <2>. QED
    BY <2>1, <2>2, <2>3, <2>4 DEF OfRoom
<1>6. \A c \in Claims :
        claims'[c] = IF cs[c] = NoClaim THEN NoClaim ELSE [cs[c] EXCEPT !.valid = FALSE]
  BY <1>3, <1>5 DEF Revoked
<1>7. claims' \in [Claims -> Claim]
  <2>1. \A c \in Claims : claims'[c] \in Claim
    <3>1. ASSUME NEW c \in Claims PROVE [cs[c] EXCEPT !.valid = FALSE] \in Claim
      <4>1. cs[c] \in Claim
        BY <1>4
      <4>. QED
        BY <4>1 DEF Claim
    <3>. QED
      BY <1>6, <3>1, NoClaimIs
  <2>2. claims' = [c \in Claims |-> claims'[c]]
    BY <1>3 DEF Revoked
  <2>. QED
    BY <2>1, <2>2
<1>8. \A c \in Claims :
        /\ claims'[c] # NoClaim => ~claims'[c].valid
        /\ claims'[c].stale \subseteq claims[c].stale \union {"member"}
        /\ claims'[c].project => claims[c].project
  <2>. SUFFICES ASSUME NEW c \in Claims
                PROVE  /\ claims'[c] # NoClaim => ~claims'[c].valid
                       /\ claims'[c].stale \subseteq claims[c].stale \union {"member"}
                       /\ claims'[c].project => claims[c].project
    OBVIOUS
  <2>1. CASE cs[c] = NoClaim
    BY <1>6, <2>1, NoClaimIs
  <2>2. CASE cs[c] # NoClaim
    <3>1. claims[c] # NoClaim /\ cs[c] \in Claim
      BY <1>4, <2>2
    <3>2. claims'[c] = [cs[c] EXCEPT !.valid = FALSE]
      BY <1>6, <2>2
    <3>3. ~claims'[c].valid /\ claims'[c].stale = cs[c].stale /\ claims'[c].project = cs[c].project
      BY <3>1, <3>2 DEF Claim
    <3>. QED
      BY <1>4, <3>1, <3>3
  <2>. QED
    BY <2>1, <2>2
<1>9. WorkTypes'
  <2>1. RoomAfter(kind) \in [active : BOOLEAN, member : {"active", "pending_removal", "removed"}]
    BY <1>1 DEF RoomAfter, WorkTypes, OfRoom
  <2>. QED
    BY <1>1, <1>2, <1>7, <2>1 DEF WorkTypes
<1>10. Allocated' /\ GenerationsDiffer'
  BY <1>1, <1>2 DEF Allocated, GenerationsDiffer
<1>11. ClaimsInv'
  <2>1. DrainedFirst'
    BY <1>1, <1>8 DEF ClaimsInv, DrainedFirst
  <2>2. TicketDrained'
    BY <1>1, <1>2, <1>8 DEF ClaimsInv, TicketDrained, ProjectDrained
  <2>3. AuthorizedIsMember'
    BY <1>8 DEF AuthorizedIsMember
  <2>. QED
    BY <2>1, <2>2, <2>3 DEF ClaimsInv
<1>. QED
  BY <1>2, <1>9, <1>10, <1>11, StepKeeps

\* A change of the room that is cut off leaves its mutation behind, which may still be
\* settled.
LEMMA CutKeeps ==
  ASSUME WorkInv, NEW kind \in OfRoom, RoomMutationCut(kind)
  PROVE  WorkInv'
<1>1. WorkTypes /\ Allocated /\ GenerationsDiffer /\ ClaimsInv
  BY DEF WorkInv
<1>2. UNCHANGED <<startup, room, config, operations, claims, mapping, readGrant, approval, leases>>
  BY DEF RoomMutationCut, work, consent
<1>3. pending' = {Noted(kind, 0)} /\ leases = {} /\ room.active
  BY DEF RoomMutationCut, Admitted, Writable
<1>4. Noted(kind, 0) \in Mutations /\ ~Noted(kind, 0).stale /\ Noted(kind, 0).kind = kind
  BY DEF Mutations, Noted
<1>5. (PendingOne /\ PendingNotStranded)'
  BY <1>2, <1>3, <1>4 DEF PendingOne, PendingNotStranded, MaySettle, OfRoom
<1>6. WorkTypes' /\ Allocated' /\ GenerationsDiffer'
  BY <1>1, <1>2 DEF WorkTypes, Allocated, GenerationsDiffer
<1>7. ClaimsInv'
  BY <1>1, <1>2, ClaimsStay DEF ClaimsInv, TicketDrained
<1>. QED
  BY <1>2, <1>3, <1>5, <1>6, <1>7, StepKeeps

\* Until a removal is finalised no claim is authorised, so none has to be revoked.
LEMMA FinalizeKeeps ==
  ASSUME WorkInv, FinalizeMemberRemovals
  PROVE  WorkInv'
<1>1. /\ WorkTypes /\ Allocated /\ GenerationsDiffer /\ ClaimsInv
      /\ PendingOne /\ PendingNotStranded
  BY DEF WorkInv
<1>2. /\ UNCHANGED <<startup, config, operations, claims, mapping, readGrant, approval, leases, pending>>
      /\ leases = {} /\ room.member = "pending_removal"
  BY DEF FinalizeMemberRemovals, work, consent, Writable
<1>3. PICK member \in {"active", "removed"} : room' = [room EXCEPT !.member = member]
  BY DEF FinalizeMemberRemovals
<1>4. /\ room' \in [active : BOOLEAN, member : {"active", "pending_removal", "removed"}]
      /\ room'.active = room.active
  BY <1>1, <1>3 DEF WorkTypes
<1>5. WorkTypes' /\ Allocated' /\ GenerationsDiffer'
  BY <1>1, <1>2, <1>4 DEF WorkTypes, Allocated, GenerationsDiffer
<1>6. \A c \in Claims : claims[c] # NoClaim => ~claims[c].valid
  BY <1>1, <1>2 DEF ClaimsInv, AuthorizedIsMember, Current, Member
<1>7. ClaimsInv'
  BY <1>1, <1>2, <1>6
     DEF ClaimsInv, DrainedFirst, TicketDrained, ProjectDrained, AuthorizedIsMember
<1>8. (PendingOne /\ PendingNotStranded)'
  BY <1>1, <1>2, <1>4
     DEF PendingOne, PendingNotStranded, MaySettle, MayBegin, MayPublish, Mutations
<1>. QED
  BY <1>2, <1>5, <1>7, <1>8, StepKeeps

LEMMA WorkInit == Init => WorkInv
<1>. SUFFICES ASSUME Init PROVE WorkInv
  OBVIOUS
<1>1. \A c \in Claims : claims[c] = NoClaim
  BY DEF Init
<1>2. WorkTypes
  BY NoClaimIs DEF Init, WorkTypes, MappingStates
<1>3. Allocated /\ GenerationsDiffer
  BY DEF Init, Allocated, Config, None, GenerationsDiffer
<1>4. ClaimsInv
  BY <1>1, NoClaimIs DEF Init, ClaimsInv, DrainedFirst, TicketDrained, AuthorizedIsMember
<1>5. PendingOne /\ PendingNotStranded /\ LeaseCurrent
  BY DEF Init, PendingOne, PendingNotStranded, LeaseCurrent
<1>. QED
  BY <1>2, <1>3, <1>4, <1>5 DEF WorkInv

LEMMA WorkStutters == WorkInv /\ UNCHANGED vars => WorkInv'
<1>. SUFFICES ASSUME WorkInv, UNCHANGED vars PROVE WorkInv'
  OBVIOUS
<1>1. UNCHANGED <<startup, room, config, operations, claims, mapping, readGrant, approval,
                  leases, pending>>
  BY DEF vars, work, consent
<1>2. WorkTypes' /\ Allocated' /\ GenerationsDiffer' /\ PendingOne'
  BY <1>1 DEF WorkInv, WorkTypes, Allocated, GenerationsDiffer, PendingOne, Mutations
<1>3. ClaimsInv'
  BY <1>1 DEF WorkInv, ClaimsInv, DrainedFirst, TicketDrained, ProjectDrained,
              AuthorizedIsMember, Current, Member
<1>4. PendingNotStranded' /\ LeaseCurrent'
  BY <1>1 DEF WorkInv, PendingNotStranded, MaySettle, MayBegin, MayPublish, LeaseCurrent,
              Running, Valid, OnHost, Current, Member
<1>. QED
  BY <1>2, <1>3, <1>4 DEF WorkInv

LEMMA WorkStepKeeps == WorkInv /\ [Next]_vars => WorkInv'
<1>. SUFFICES ASSUME WorkInv, [Next]_vars PROVE WorkInv'
  OBVIOUS
<1>1. CASE \/ \E o \in Operations : BeginChange(o)
           \/ ActivateBinding \/ ActivationFailed \/ CancelChange
           \/ PublishInstructions \/ IssueReadGrant \/ RevokeReadGrant
  BY <1>1, ConfigKeeps
<1>2. CASE CommitBinding
  BY <1>2, CommitKeeps
<1>3. CASE \E s \in Startups : RegisterHost(s)
  BY <1>3, HostKeeps
<1>4. ASSUME NEW c \in Claims,
             \/ AckClaim(c) \/ ReleasingClaim(c) \/ ReleaseClaim(c) \/ CancelClaim(c)
             \/ OrphanClaim(c)
             \/ \E project \in BOOLEAN : AcquireClaim(c, project)
             \/ \E exited \in BOOLEAN : TakeoverClaim(c, exited)
      PROVE  WorkInv'
  BY <1>4, ClaimKeeps
<1>5. CASE BeginMapping \/ IssueMappingTicket \/ MappingApplied \/ MappingRejected \/ CancelMapping
  BY <1>5, MappingKeeps
<1>6. CASE \/ ApproveDisclosureGrant
           \/ \E c \in Claims : PrepareDisclosure(c) \/ ReleaseLease(c)
           \/ \E m \in Mutations : MaySettle(m) /\ Defer(m)
  BY <1>6, DisclosureKeeps
<1>7. CASE \E kind \in OfRoom : RoomMutation(kind) \/ RoomMutationCut(kind)
  BY <1>7, MutationKeeps, CutKeeps
<1>8. CASE FinalizeMemberRemovals
  BY <1>8, FinalizeKeeps
<1>9. CASE UNCHANGED vars
  BY <1>9, WorkStutters
<1>. QED
  BY <1>1, <1>2, <1>3, <1>4, <1>5, <1>6, <1>7, <1>8, <1>9 DEF Next

LEMMA WorkHolds == Spec => []WorkInv
BY WorkInit, WorkStepKeeps, PTL DEF Spec

LEMMA WorkTyped == WorkInv => TypeOK
<1>. SUFFICES ASSUME WorkInv PROVE TypeOK
  OBVIOUS
<1>1. Cardinality(pending) <= 1
  <2>1. CASE pending = {}
    BY <2>1, FS_EmptySet
  <2>2. CASE pending # {}
    <3>1. PICK m \in pending : TRUE
      BY <2>2
    <3>2. pending = {m}
      BY <3>1 DEF WorkInv, PendingOne
    <3>. QED
      BY <3>2, FS_Singleton
  <2>. QED
    BY <2>1, <2>2
<1>2. \A c \in Claims : claims[c] \in Claim
  BY DEF WorkInv, WorkTypes
<1>3. config \in Config /\ config.generation <= config.allocated
  BY DEF WorkInv, Allocated
<1>. QED
  BY <1>1, <1>2, <1>3 DEF WorkInv, WorkTypes, TypeOK, Claim, Facts, Config

-----------------------------------------------------------------------------
(* Workspace: the theorems.                                                *)

\* No authority outlives what it rests on: a claim that counts as authorised is of the
\* membership as it is, in a room that is active, and a claim that holds a disclosure
\* lease runs under the binding, membership and start of the host it was given on.
THEOREM AuthorityIsCurrent == Spec => []AuthorityCurrent
<1>1. WorkInv => AuthorityCurrent
  BY DEF WorkInv, ClaimsInv, AuthorityCurrent
<1>. QED
  BY <1>1, WorkHolds, PTL

\* The mutation that is pending can always be settled by its own retry, though it may be
\* the only one that is admitted: what it was noted on has not moved.
THEOREM PendingIsSettled == Spec => []PendingNotStranded
<1>1. WorkInv => PendingNotStranded
  BY DEF WorkInv
<1>. QED
  BY <1>1, WorkHolds, PTL

\* Work of two bindings, or of two mappings, never runs side by side, and no generation is
\* given out twice.
THEOREM ChangesFollow == Spec => []ChangesOrdered
<1>1. WorkInv => ChangesOrdered
  BY DEF WorkInv, ClaimsInv, ChangesOrdered
<1>. QED
  BY <1>1, WorkHolds, PTL

-----------------------------------------------------------------------------
(* ContextSync: the inductive invariant.                                   *)

Statuses ==
  {"prepared", "wip_pushed", "partial", "emitted", "cleanup_pending", "none", "expired", "acked",
   "cleaned"}
SyncRecord ==
  [status : Statuses, wip : BOOLEAN, cleanup : {"none", "pending", "failed", "cleaned"}]
Request == [sync : Sync!Syncs, wip : BOOLEAN, by : {"sync", "emit"}, answered : BOOLEAN]
Cleaner == [sync : Sync!Syncs, pc : {"own", "latest"}, failed : BOOLEAN, was : Statuses]
Load == [pc : {"idle", "fetch", "branch", "ack"}, sync : 0..MaxSyncs]

SenderTypes ==
  /\ syncs \in [Sync!Syncs -> SyncRecord]
  /\ pushing \in [Sync!Syncs -> {"no", "prepare", "sync", "push", "latest", "ready", "done"}]
  /\ sends \subseteq Request /\ interrupted \subseteq Sync!Syncs
GitTypes ==
  /\ remote \in [own : SUBSET Sync!Syncs, latest : 0..MaxSyncs]
  /\ cleaners \subseteq Cleaner
ReceiverTypes ==
  /\ requests \in [Sync!Syncs -> {"none", "inline", "wip"}]
  /\ loads \in [Loads -> Load]
  /\ \A i \in Loads : loads[i].pc # "idle" => loads[i].sync \in Sync!Syncs
  /\ branches \subseteq Sync!Syncs /\ received \subseteq Sync!Syncs /\ acks \subseteq Sync!Syncs
  /\ loaded \in [Sync!Syncs -> Nat]

\* Work of a sync is on record only when its push is over.
WipIsPushed ==
  \A s \in Sync!Syncs :
    syncs[s].wip => pushing[s] = "done" /\ syncs[s].cleanup # "none"

\* Of a push that has not begun there is no ref.
NotYetPushed ==
  \A s \in Sync!Syncs :
    pushing[s] \in {"no", "prepare", "sync", "push", "ready"} =>
      s \notin remote.own /\ remote.latest # s

\* A cleanup is of recorded work, and has removed the ref of its own before it comes to
\* the latest one, unless that failed.
CleanersKnow ==
  \A c \in cleaners :
    /\ syncs[c.sync].wip
    /\ c.pc = "latest" /\ ~c.failed => c.sync \notin remote.own

\* Whoever may bring the status "acked", the receiver has recorded the sync.
AckedKnown ==
  /\ \A s \in acks : s \in received
  /\ \A s \in Sync!Syncs : syncs[s].status = "acked" => s \in received
  /\ \A c \in cleaners : c.was = "acked" => c.sync \in received

\* A load is of a request that came, and of work while git is awaited for it.
LoadsKnown ==
  \A i \in Loads :
    /\ loads[i].pc \in {"fetch", "branch"} => requests[loads[i].sync] = "wip"
    /\ loads[i].pc = "ack" => loads[i].sync \in received

\* What was loaded is recorded, and if it was work, has its branch.
LoadsCounted ==
  \A s \in Sync!Syncs :
    /\ s \in received => requests[s] # "none"
    /\ loaded[s] <= 1
    /\ requests[s] = "none" => loaded[s] = 0
    /\ requests[s] = "inline" /\ loaded[s] # 0 => s \in received
    /\ requests[s] = "wip" /\ loaded[s] # 0 => s \in branches

SenderInv == SenderTypes /\ GitTypes /\ WipIsPushed /\ NotYetPushed /\ CleanersKnow /\ Sync!RefsRecorded
ReceiverInv == ReceiverTypes /\ LoadsKnown /\ LoadsCounted
SyncInv == SenderInv /\ ReceiverInv /\ AckedKnown /\ faults \in 0..MaxFaults

-----------------------------------------------------------------------------
(* ContextSync: the steps of the sender.                                   *)

LEMMA FaultCounted ==
  ASSUME faults \in 0..MaxFaults, Sync!Fault
  PROVE  faults' \in 0..MaxFaults
BY SharingConstants DEF Sync!Fault

LEMMA FirstSyncs == Sync!Syncs \subseteq 0..MaxSyncs /\ 0 \notin Sync!Syncs /\ MaxSyncs \in Nat
BY SharingConstants DEF Sync!Syncs

\* A step of the sender that changes no status to "acked" and begins no cleanup leaves the
\* receiver with what it knows.
LEMMA ReceiverStays ==
  ASSUME ReceiverInv, AckedKnown, UNCHANGED <<requests, loads, branches, received, acks, loaded>>,
         \A s \in Sync!Syncs : syncs'[s].status = "acked" => s \in received,
         \A c \in cleaners' : c.was = "acked" => c.sync \in received
  PROVE  ReceiverInv' /\ AckedKnown'
<1>1. ReceiverTypes'
  BY DEF ReceiverInv, ReceiverTypes
<1>2. LoadsKnown' /\ LoadsCounted'
  BY DEF ReceiverInv, LoadsKnown, LoadsCounted
<1>. QED
  BY <1>1, <1>2 DEF ReceiverInv, AckedKnown

\* A push moves one sync on and gives it a new record or none.  What has to be shown is of
\* that sync alone.
LEMMA PushMoves ==
  ASSUME SenderInv, AckedKnown, NEW s \in Sync!Syncs,
         NEW pc \in {"no", "prepare", "sync", "push", "latest", "ready", "done"},
         pushing' = [pushing EXCEPT ![s] = pc],
         syncs' \in [Sync!Syncs -> SyncRecord],
         \A t \in Sync!Syncs : t # s =>
           /\ syncs'[t].wip = syncs[t].wip /\ syncs'[t].cleanup = syncs[t].cleanup
           /\ syncs'[t].status # "acked" \/ syncs'[t].status = syncs[t].status,
         ~syncs[s].wip, syncs'[s].status # "acked" \/ s \in received,
         syncs'[s].wip => pc = "done" /\ syncs'[s].cleanup = "pending",
         sends' \subseteq Request, interrupted \subseteq interrupted', interrupted' \subseteq Sync!Syncs,
         remote' \in [own : SUBSET Sync!Syncs, latest : 0..MaxSyncs],
         remote'.own \subseteq remote.own \union {s}, remote'.latest \in {remote.latest, s},
         cleaners' = cleaners,
         pc \in {"no", "prepare", "sync", "push", "ready"} => s \notin remote'.own /\ remote'.latest # s,
         s \in remote'.own \/ remote'.latest = s =>
           pc = "latest" \/ s \in interrupted' \/ syncs'[s].wip
  PROVE  /\ SenderInv'
         /\ \A t \in Sync!Syncs : syncs'[t].status = "acked" => t \in received
<1>1. /\ SenderTypes /\ GitTypes /\ WipIsPushed /\ NotYetPushed /\ CleanersKnow /\ Sync!RefsRecorded
  BY DEF SenderInv
<1>2. pushing'[s] = pc /\ \A t \in Sync!Syncs : t # s => pushing'[t] = pushing[t]
  BY <1>1 DEF SenderTypes
<1>3. SenderTypes' /\ GitTypes'
  BY <1>1 DEF SenderTypes, GitTypes
<1>4. WipIsPushed'
  BY <1>1, <1>2 DEF WipIsPushed
<1>5. NotYetPushed'
  BY <1>1, <1>2 DEF NotYetPushed
<1>6. \A c \in cleaners : c.sync \in Sync!Syncs /\ c.sync # s
  BY <1>1 DEF CleanersKnow, GitTypes, Cleaner
<1>7. CleanersKnow'
  BY <1>1, <1>6 DEF CleanersKnow
<1>8. Sync!RefsRecorded'
  <2>. SUFFICES ASSUME NEW t \in remote'.own \union ({remote'.latest} \ {0})
                PROVE  \/ pushing'[t] = "latest" \/ t \in interrupted'
                       \/ syncs'[t].wip /\ syncs'[t].cleanup \in {"pending", "failed"}
    BY DEF Sync!RefsRecorded
  <2>1. CASE t = s
    BY <1>2, <2>1
  <2>2. CASE t # s
    <3>1. t \in remote.own \union ({remote.latest} \ {0}) /\ t \in Sync!Syncs
      <4>1. t \in remote.own \union ({remote.latest} \ {0})
        BY <2>2
      <4>2. t \in Sync!Syncs
        BY <1>1, <4>1, FirstSyncs DEF GitTypes, Sync!Syncs
      <4>. QED
        BY <4>1, <4>2
    <3>. QED
      BY <1>1, <1>2, <2>2, <3>1 DEF Sync!RefsRecorded
  <2>. QED
    BY <2>1, <2>2
<1>9. \A t \in Sync!Syncs : syncs'[t].status = "acked" => t \in received
  BY DEF AckedKnown
<1>. QED
  BY <1>3, <1>4, <1>5, <1>7, <1>8, <1>9 DEF SenderInv

\* The record a push ends with, if the table takes it.
LEMMA ReadyIs ==
  ASSUME SenderTypes, NEW s \in Sync!Syncs, NEW wip \in BOOLEAN, Sync!Ready(s, wip)
  PROVE  /\ pushing' = [pushing EXCEPT ![s] = "done"]
         /\ syncs' \in [Sync!Syncs -> SyncRecord] /\ sends' \subseteq Request
         /\ \A t \in Sync!Syncs : t # s => syncs'[t] = syncs[t]
         /\ \/ syncs'[s] = syncs[s] /\ ~wip
            \/ /\ syncs'[s].status # "acked" /\ syncs'[s].wip = wip
               /\ syncs'[s].cleanup = IF wip THEN "pending" ELSE "none"
<1>. DEFINE status == IF wip THEN "wip_pushed" ELSE "prepared"
            new == [status |-> status, wip |-> wip, cleanup |-> IF wip THEN "pending" ELSE "none"]
            m == [sync |-> s, wip |-> wip, by |-> "sync", answered |-> FALSE]
<1>1. pushing' = [pushing EXCEPT ![s] = "done"]
  BY DEF Sync!Ready
<1>2. CASE Sync!Refused(s, status)
  <2>1. UNCHANGED <<syncs, sends>> /\ ~wip
    BY <1>2 DEF Sync!Ready, Sync!Refused, Sync!Unique
  <2>. QED
    BY <1>1, <2>1 DEF SenderTypes
<1>3. CASE ~Sync!Refused(s, status)
  <2>1. syncs' = [syncs EXCEPT ![s] = new] /\ sends' = sends \union {m}
    BY <1>3 DEF Sync!Ready
  <2>2. new \in SyncRecord /\ m \in Request
    BY DEF SyncRecord, Statuses, Request
  <2>3. new.status # "acked" /\ new.wip = wip /\ new.cleanup = IF wip THEN "pending" ELSE "none"
    OBVIOUS
  <2>. HIDE DEF new, m, status
  <2>. QED
    BY <1>1, <2>1, <2>2, <2>3 DEF SenderTypes
<1>. QED
  BY <1>2, <1>3

\* What a sync that is being pushed is known to be.
LEMMA PushingIs ==
  ASSUME SyncInv, NEW s \in Sync!Syncs, pushing[s] # "done"
  PROVE  /\ ~syncs[s].wip /\ syncs[s] \in SyncRecord /\ remote.latest \in 0..MaxSyncs
         /\ syncs[s].status = "acked" => s \in received
         /\ pushing[s] # "latest" => s \notin remote.own /\ remote.latest # s
BY DEF SyncInv, SenderInv, SenderTypes, GitTypes, WipIsPushed, NotYetPushed, AckedKnown

LEMMA SyncsStay ==
  ASSUME SyncInv
  PROVE  /\ syncs \in [Sync!Syncs -> SyncRecord] /\ sends \subseteq Request
         /\ interrupted \subseteq Sync!Syncs
         /\ remote \in [own : SUBSET Sync!Syncs, latest : 0..MaxSyncs]
         /\ SenderTypes /\ SenderInv /\ AckedKnown /\ ReceiverInv
         /\ \A c \in cleaners : c.was = "acked" => c.sync \in received
BY DEF SyncInv, SenderInv, SenderTypes, GitTypes, AckedKnown

\* The checkpoint: the sync gets its first record, those before it expire.
LEMMA CheckpointKeeps ==
  ASSUME SyncInv, NEW s \in Sync!Syncs, Sync!Checkpoint(s) \/ Sync!Prepared(s)
  PROVE  SyncInv'
<1>1. /\ UNCHANGED <<sends, interrupted, remote, cleaners, requests, loads, branches, received,
                     acks, loaded, faults>>
      /\ pushing[s] \in {"no", "prepare", "sync"}
  BY DEF Sync!Checkpoint, Sync!Prepared, Sync!git, Sync!receiver
<1>2. /\ ~syncs[s].wip /\ s \notin remote.own /\ remote.latest # s
      /\ syncs[s].status = "acked" => s \in received
  BY <1>1, PushingIs
<1>3. PICK pc \in {"prepare", "sync", "push", "ready", "done"} :
        pushing' = [pushing EXCEPT ![s] = pc]
  BY DEF Sync!Checkpoint, Sync!Prepared
<1>4. /\ syncs' \in [Sync!Syncs -> SyncRecord] /\ ~syncs'[s].wip
      /\ syncs'[s].status # "acked" \/ s \in received
      /\ \A t \in Sync!Syncs : t # s =>
           /\ syncs'[t].wip = syncs[t].wip /\ syncs'[t].cleanup = syncs[t].cleanup
           /\ syncs'[t].status # "acked" \/ syncs'[t].status = syncs[t].status
  <2>1. CASE Sync!Checkpoint(s)
    BY <1>2, <2>1, SyncsStay DEF Sync!Checkpoint
  <2>2. CASE Sync!Prepared(s)
    <3>. DEFINE first == [Sync!None EXCEPT !.status = "prepared"]
                old(t) == [syncs[t] EXCEPT !.status = "expired"]
    <3>1. first \in SyncRecord /\ ~first.wip /\ first.status = "prepared"
      BY DEF Sync!None, SyncRecord, Statuses
    <3>2. \A t \in Sync!Syncs : syncs[t] \in SyncRecord
      BY SyncsStay
    <3>3. \A t \in Sync!Syncs :
            /\ old(t) \in SyncRecord /\ old(t).wip = syncs[t].wip
            /\ old(t).cleanup = syncs[t].cleanup /\ old(t).status = "expired"
      BY <3>2 DEF SyncRecord, Statuses
    <3>. HIDE DEF first, old
    <3>4. syncs' = [Sync!Expired(s) EXCEPT ![s] = first]
      BY <2>2 DEF Sync!Prepared, first
    <3>5. Sync!Expired(s) = [t \in Sync!Syncs |->
                               IF t # s /\ syncs[t].status \in Sync!ACTIVE_SYNC_STATUSES
                                 THEN old(t) ELSE syncs[t]]
      BY DEF Sync!Expired, old
    <3>6. Sync!Expired(s) \in [Sync!Syncs -> SyncRecord]
      BY <3>2, <3>3, <3>5
    <3>. QED
      BY <3>1, <3>2, <3>3, <3>4, <3>5, <3>6
  <2>. QED
    BY <2>1, <2>2
<1>5. /\ SenderInv'
      /\ \A t \in Sync!Syncs : syncs'[t].status = "acked" => t \in received
  BY <1>1, <1>2, <1>3, <1>4, SyncsStay, PushMoves
<1>6. ReceiverInv' /\ AckedKnown'
  BY <1>1, <1>5, SyncsStay, ReceiverStays
<1>. QED
  BY <1>1, <1>5, <1>6 DEF SyncInv

\* A push of the first ref, or of nothing: the sync ends without work on record, and a ref
\* of it is there only if the sender does not know of it.
LEMMA PushOwnKeeps ==
  ASSUME SyncInv, NEW s \in Sync!Syncs,
         Sync!PushOwn(s) \/ Sync!PushOwnFails(s) \/ Sync!NothingToPush(s)
  PROVE  SyncInv'
<1>1. /\ UNCHANGED <<cleaners, requests, loads, branches, received, acks, loaded>>
      /\ pushing[s] \in {"push", "ready"} /\ remote'.latest = remote.latest
      /\ faults' \in 0..MaxFaults
  <2>1. faults \in 0..MaxFaults /\ remote \in [own : SUBSET Sync!Syncs, latest : 0..MaxSyncs]
    BY SyncsStay DEF SyncInv
  <2>. QED
    BY <2>1, FaultCounted
       DEF Sync!PushOwn, Sync!PushOwnFails, Sync!NothingToPush, Sync!git, Sync!receiver
<1>2. /\ ~syncs[s].wip /\ s \notin remote.own /\ remote.latest # s
      /\ syncs[s].status = "acked" => s \in received
  BY <1>1, PushingIs
<1>3. /\ remote \in [own : SUBSET Sync!Syncs, latest : 0..MaxSyncs]
      /\ [remote EXCEPT !.own = @ \union {s}] \in [own : SUBSET Sync!Syncs, latest : 0..MaxSyncs]
      /\ [remote EXCEPT !.own = @ \union {s}].own = remote.own \union {s}
  BY SyncsStay
<1>4. /\ SenderInv'
      /\ \A t \in Sync!Syncs : syncs'[t].status = "acked" => t \in received
  <2>1. CASE Sync!PushOwn(s)
    <3>1. /\ pushing' = [pushing EXCEPT ![s] = "latest"]
          /\ remote' = [remote EXCEPT !.own = @ \union {s}]
          /\ syncs' = syncs /\ sends' = sends /\ interrupted' = interrupted
      BY <2>1 DEF Sync!PushOwn
    <3>. QED
      BY <1>1, <1>2, <1>3, <3>1, SyncsStay, PushMoves
  <2>2. CASE Sync!PushOwnFails(s) \/ Sync!NothingToPush(s)
    <3>1. /\ \/ UNCHANGED <<remote, interrupted>>
             \/ /\ remote' = [remote EXCEPT !.own = @ \union {s}]
                /\ interrupted' = interrupted \union {s}
          /\ Sync!Ready(s, FALSE)
      BY <2>2 DEF Sync!PushOwnFails, Sync!NothingToPush, Sync!git
    <3>2. /\ pushing' = [pushing EXCEPT ![s] = "done"]
          /\ syncs' \in [Sync!Syncs -> SyncRecord] /\ sends' \subseteq Request
          /\ \A t \in Sync!Syncs : t # s => syncs'[t] = syncs[t]
          /\ syncs'[s] = syncs[s] \/ (syncs'[s].status # "acked" /\ ~syncs'[s].wip)
      BY <3>1, SyncsStay, ReadyIs
    <3>. QED
      BY <1>1, <1>2, <1>3, <3>1, <3>2, SyncsStay, PushMoves
  <2>. QED
    BY <2>1, <2>2
<1>5. ReceiverInv' /\ AckedKnown'
  BY <1>1, <1>4, SyncsStay, ReceiverStays
<1>. QED
  BY <1>1, <1>4, <1>5 DEF SyncInv

\* A push of the latest ref records the work for its cleanup, whether or not it failed.
LEMMA PushLatestKeeps ==
  ASSUME SyncInv, NEW s \in Sync!Syncs, Sync!PushLatest(s) \/ Sync!PushLatestFails(s)
  PROVE  SyncInv'
<1>1. /\ UNCHANGED <<interrupted, cleaners, requests, loads, branches, received, acks, loaded>>
      /\ pushing[s] = "latest" /\ Sync!Ready(s, TRUE) /\ faults' \in 0..MaxFaults
  <2>1. faults \in 0..MaxFaults
    BY DEF SyncInv
  <2>. QED
    BY <2>1, FaultCounted
       DEF Sync!PushLatest, Sync!PushLatestFails, Sync!WipOfError, Sync!receiver
<1>2. /\ ~syncs[s].wip /\ (syncs[s].status = "acked" => s \in received)
      /\ remote.latest \in 0..MaxSyncs
  BY <1>1, PushingIs
<1>3. /\ remote' \in [own : SUBSET Sync!Syncs, latest : 0..MaxSyncs]
      /\ remote'.own = remote.own /\ remote'.latest \in {remote.latest, s}
  <2>1. PICK l \in {remote.latest, s} : remote' = [remote EXCEPT !.latest = l]
    BY DEF Sync!PushLatest, Sync!PushLatestFails
  <2>2. l \in 0..MaxSyncs
    BY <1>2, FirstSyncs
  <2>. QED
    BY <2>1, <2>2, SyncsStay
<1>4. /\ pushing' = [pushing EXCEPT ![s] = "done"]
      /\ syncs' \in [Sync!Syncs -> SyncRecord] /\ sends' \subseteq Request
      /\ \A t \in Sync!Syncs : t # s => syncs'[t] = syncs[t]
      /\ syncs'[s].status # "acked" /\ syncs'[s].wip = TRUE /\ syncs'[s].cleanup = "pending"
  BY <1>1, SyncsStay, ReadyIs
<1>5. /\ SenderInv'
      /\ \A t \in Sync!Syncs : syncs'[t].status = "acked" => t \in received
  BY <1>1, <1>2, <1>3, <1>4, SyncsStay, PushMoves
<1>6. ReceiverInv' /\ AckedKnown'
  BY <1>1, <1>5, SyncsStay, ReceiverStays
<1>. QED
  BY <1>1, <1>5, <1>6 DEF SyncInv

\* A step that changes at most a status, and sends, keeps what is said of the refs.
LEMMA StatusMoves ==
  ASSUME SyncInv,
         syncs' \in [Sync!Syncs -> SyncRecord],
         \A s \in Sync!Syncs :
           /\ syncs'[s].wip = syncs[s].wip /\ syncs'[s].cleanup = syncs[s].cleanup
           /\ syncs'[s].status = "acked" => s \in received,
         sends' \subseteq Request,
         UNCHANGED <<pushing, interrupted, remote, loads, branches, received, acks, loaded>>,
         cleaners' \subseteq Cleaner,
         \A c \in cleaners' : c \notin cleaners =>
           syncs[c.sync].wip /\ c.pc = "own" /\ (c.was = "acked" => c.sync \in received),
         requests' = requests, faults' \in 0..MaxFaults
  PROVE  SyncInv'
<1>1. /\ SenderTypes /\ GitTypes /\ WipIsPushed /\ NotYetPushed /\ CleanersKnow /\ Sync!RefsRecorded
      /\ ReceiverInv /\ AckedKnown
  BY DEF SyncInv, SenderInv
<1>2. SenderTypes' /\ GitTypes'
  BY <1>1 DEF SenderTypes, GitTypes
<1>3. WipIsPushed' /\ NotYetPushed'
  BY <1>1 DEF WipIsPushed, NotYetPushed
<1>4. CleanersKnow'
  BY <1>1, <1>2 DEF CleanersKnow, GitTypes, Cleaner
<1>5. Sync!RefsRecorded'
  <2>1. \A s \in remote.own \union ({remote.latest} \ {0}) : s \in Sync!Syncs
    BY <1>1, FirstSyncs DEF GitTypes, Sync!Syncs
  <2>. QED
    BY <1>1, <2>1 DEF Sync!RefsRecorded
<1>6. ReceiverInv' /\ AckedKnown'
  BY <1>1, ReceiverStays DEF AckedKnown
<1>. QED
  BY <1>2, <1>3, <1>4, <1>5, <1>6 DEF SyncInv, SenderInv

\* Only an acknowledgement that came makes a status "acked".
LEMMA SetStatusIs ==
  ASSUME SyncInv, NEW s \in Sync!Syncs, NEW status \in Statuses, Sync!SetStatus(s, status),
         status = "acked" => s \in acks
  PROVE  /\ syncs' \in [Sync!Syncs -> SyncRecord]
         /\ \A t \in Sync!Syncs :
              /\ syncs'[t].wip = syncs[t].wip /\ syncs'[t].cleanup = syncs[t].cleanup
              /\ syncs'[t].status = "acked" => t \in received
<1>. DEFINE new == [syncs[s] EXCEPT !.status = status]
<1>1. /\ new \in SyncRecord /\ new.wip = syncs[s].wip /\ new.cleanup = syncs[s].cleanup
      /\ new.status = status
  BY SyncsStay DEF SyncRecord
<1>2. syncs' = [syncs EXCEPT ![s] = new]
  BY DEF Sync!SetStatus
<1>. HIDE DEF new
<1>. QED
  BY <1>1, <1>2, SyncsStay DEF AckedKnown

LEMMA StatusesStay ==
  ASSUME SyncInv
  PROVE  /\ syncs \in [Sync!Syncs -> SyncRecord]
         /\ \A t \in Sync!Syncs : syncs[t].status = "acked" => t \in received
         /\ cleaners \subseteq Cleaner /\ faults \in 0..MaxFaults
BY DEF SyncInv, SenderInv, SenderTypes, GitTypes, AckedKnown

\* What becomes of the record when a send ends.
LEMMA SendEnds ==
  ASSUME SyncInv, NEW m \in sends, Sync!Emitted(m) \/ Sync!NotEmitted(m)
  PROVE  /\ syncs' \in [Sync!Syncs -> SyncRecord]
         /\ \A t \in Sync!Syncs :
              /\ syncs'[t].wip = syncs[t].wip /\ syncs'[t].cleanup = syncs[t].cleanup
              /\ syncs'[t].status = "acked" => t \in received
<1>1. m.sync \in Sync!Syncs
  BY SyncsStay DEF Request
<1>2. CASE syncs' = syncs
  BY <1>2, StatusesStay
<1>3. CASE \E status \in {"emitted", "partial"} : Sync!SetStatus(m.sync, status)
  BY <1>1, <1>3, SetStatusIs DEF Statuses
<1>. QED
  BY <1>2, <1>3 DEF Sync!Emitted, Sync!NotEmitted

LEMMA SendKeeps ==
  ASSUME SyncInv,
         \/ \E s \in Sync!Syncs : \/ Sync!RetryContextSync(s) \/ Sync!EmitLatestPrepared(s)
                                  \/ Sync!MarkAcked(s)
         \/ \E m \in sends : Sync!SendReturns(m) \/ Sync!SendRefused(m) \/ Sync!SendFails(m)
  PROVE  SyncInv'
<1>1. /\ UNCHANGED <<pushing, interrupted, remote, cleaners, requests, loads, branches, received,
                     acks, loaded>>
      /\ faults' \in 0..MaxFaults
  BY StatusesStay, FaultCounted
     DEF Sync!RetryContextSync, Sync!EmitLatestPrepared, Sync!MarkAcked, Sync!SendReturns,
         Sync!SendRefused, Sync!SendFails, Sync!git, Sync!receiver
<1>2. sends' \subseteq Request
  <2>1. ASSUME NEW s \in Sync!Syncs, NEW by \in {"sync", "emit"}
        PROVE  [sync |-> s, wip |-> syncs[s].wip, by |-> by, answered |-> FALSE] \in Request
    BY SyncsStay DEF Request, SyncRecord
  <2>2. sends \subseteq Request
    BY SyncsStay
  <2>3. ASSUME NEW s \in Sync!Syncs, Sync!RetryContextSync(s) \/ Sync!EmitLatestPrepared(s)
        PROVE  sends' \subseteq Request
    <3>1. PICK by \in {"sync", "emit"} :
            sends' = sends \union
              {[sync |-> s, wip |-> syncs[s].wip, by |-> by, answered |-> FALSE]}
      BY <2>3 DEF Sync!RetryContextSync, Sync!EmitLatestPrepared
    <3>. QED
      BY <2>1, <2>2, <3>1
  <2>. QED
    BY <2>2, <2>3 DEF Sync!MarkAcked, Sync!SendReturns, Sync!SendRefused, Sync!SendFails
<1>3. /\ syncs' \in [Sync!Syncs -> SyncRecord]
      /\ \A t \in Sync!Syncs :
           /\ syncs'[t].wip = syncs[t].wip /\ syncs'[t].cleanup = syncs[t].cleanup
           /\ syncs'[t].status = "acked" => t \in received
  <2>1. CASE syncs' = syncs
    BY <2>1, StatusesStay
  <2>2. ASSUME NEW s \in Sync!Syncs, Sync!MarkAcked(s)
        PROVE  s \in acks /\ Sync!SetStatus(s, "acked")
    BY <2>2 DEF Sync!MarkAcked
  <2>3. ASSUME NEW m \in sends, Sync!SendReturns(m) \/ Sync!SendRefused(m) \/ Sync!SendFails(m)
        PROVE  Sync!Emitted(m) \/ Sync!NotEmitted(m)
    BY <2>3 DEF Sync!SendReturns, Sync!SendRefused, Sync!SendFails
  <2>4. CASE \E s \in Sync!Syncs : Sync!MarkAcked(s)
    BY <2>2, <2>4, SetStatusIs DEF Statuses
  <2>5. CASE \E m \in sends : Sync!SendReturns(m) \/ Sync!SendRefused(m) \/ Sync!SendFails(m)
    BY <2>3, <2>5, SendEnds
  <2>. QED
    BY <2>1, <2>4, <2>5 DEF Sync!RetryContextSync, Sync!EmitLatestPrepared
<1>. QED
  BY <1>1, <1>2, <1>3, StatusesStay, StatusMoves

\* A request reaches the inbox of the receiver, once and for good.
LEMMA DeliverKeeps ==
  ASSUME SyncInv, NEW m \in sends, Sync!Deliver(m)
  PROVE  SyncInv'
<1>1. m \in Request /\ m.sync \in Sync!Syncs
  BY SyncsStay DEF Request
<1>2. /\ UNCHANGED <<syncs, pushing, interrupted, remote, cleaners, loads, branches, received,
                     acks, loaded, faults>>
      /\ requests[m.sync] \in {"none", Sync!Carries(m)}
      /\ requests' = [requests EXCEPT ![m.sync] = Sync!Carries(m)]
      /\ Sync!Carries(m) \in {"inline", "wip"}
  BY DEF Sync!Deliver, Sync!git, Sync!receiver, Sync!Accepts, Sync!Delivered, Sync!Carries
<1>3. sends' \subseteq Request
  <2>1. [m EXCEPT !.answered = TRUE] \in Request
    BY <1>1 DEF Request
  <2>. QED
    BY <2>1, SyncsStay DEF Sync!Deliver
<1>4. SenderInv'
  <2>1. SenderTypes' /\ GitTypes'
    BY <1>2, <1>3 DEF SyncInv, SenderInv, SenderTypes, GitTypes
  <2>2. WipIsPushed' /\ NotYetPushed' /\ CleanersKnow' /\ Sync!RefsRecorded'
    BY <1>2 DEF SyncInv, SenderInv, WipIsPushed, NotYetPushed, CleanersKnow, Sync!RefsRecorded
  <2>. QED
    BY <2>1, <2>2 DEF SenderInv
<1>5. ReceiverTypes'
  BY <1>1, <1>2 DEF SyncInv, ReceiverInv, ReceiverTypes
<1>6. \A s \in Sync!Syncs : requests'[s] = requests[s] \/ (requests[s] = "none" /\ requests'[s] # "none")
  BY <1>1, <1>2 DEF SyncInv, ReceiverInv, ReceiverTypes
<1>7. LoadsKnown'
  <2>. SUFFICES ASSUME NEW i \in Loads
                PROVE  /\ loads[i].pc \in {"fetch", "branch"} => requests'[loads[i].sync] = "wip"
                       /\ loads[i].pc = "ack" => loads[i].sync \in received
    BY <1>2 DEF LoadsKnown
  <2>1. loads[i].pc # "idle" => loads[i].sync \in Sync!Syncs
    BY DEF SyncInv, ReceiverInv, ReceiverTypes
  <2>. QED
    BY <1>6, <2>1 DEF SyncInv, ReceiverInv, LoadsKnown
<1>8. LoadsCounted'
  <2>. SUFFICES ASSUME NEW s \in Sync!Syncs
                PROVE  /\ s \in received => requests'[s] # "none"
                       /\ loaded[s] <= 1
                       /\ requests'[s] = "none" => loaded[s] = 0
                       /\ requests'[s] = "inline" /\ loaded[s] # 0 => s \in received
                       /\ requests'[s] = "wip" /\ loaded[s] # 0 => s \in branches
    BY <1>2 DEF LoadsCounted
  <2>. QED
    BY <1>6 DEF SyncInv, ReceiverInv, LoadsCounted
<1>9. AckedKnown'
  BY <1>2 DEF SyncInv, AckedKnown
<1>. QED
  BY <1>2, <1>4, <1>5, <1>7, <1>8, <1>9 DEF SyncInv, ReceiverInv

LEMMA CleanupBegins ==
  ASSUME SyncInv, NEW s \in Sync!Syncs, Sync!CleanupContextSync(s)
  PROVE  SyncInv'
<1>. DEFINE new == [sync |-> s, pc |-> "own", failed |-> FALSE, was |-> syncs[s].status]
<1>1. /\ UNCHANGED <<syncs, sends, pushing, interrupted, remote, requests, loads, branches,
                     received, acks, loaded, faults>>
      /\ syncs[s].wip /\ cleaners' = cleaners \union {new}
  BY DEF Sync!CleanupContextSync, Sync!sender, Sync!receiver
<1>2. /\ new \in Cleaner /\ new.sync = s /\ new.pc = "own"
      /\ new.was = "acked" => s \in received
  <2>1. syncs[s].status \in Statuses
    BY StatusesStay DEF SyncRecord
  <2>. QED
    BY <2>1, StatusesStay DEF Cleaner
<1>. HIDE DEF new
<1>3. cleaners' \subseteq Cleaner
  BY <1>1, <1>2, StatusesStay
<1>4. \A c \in cleaners' : c \notin cleaners =>
        syncs[c.sync].wip /\ c.pc = "own" /\ (c.was = "acked" => c.sync \in received)
  BY <1>1, <1>2
<1>. QED
  BY <1>1, <1>3, <1>4, SyncsStay, StatusesStay, StatusMoves

\* A cleanup takes refs away and never adds one.  Its own record says "cleaned" only when
\* both refs are gone.
LEMMA CleanupMoves ==
  ASSUME SyncInv, NEW c \in cleaners,
         remote' \in [own : SUBSET Sync!Syncs, latest : 0..MaxSyncs],
         remote'.own \subseteq remote.own, remote'.latest \in {remote.latest, 0},
         UNCHANGED <<sends, pushing, interrupted, requests, loads, branches, received, acks, loaded>>,
         faults' \in 0..MaxFaults,
         \/ /\ syncs' = syncs
            /\ cleaners' \subseteq Cleaner
            /\ \A d \in cleaners' : d \notin cleaners =>
                 d.sync = c.sync /\ d.was = c.was /\ (~d.failed => c.sync \notin remote'.own)
         \/ /\ cleaners' = cleaners \ {c}
            /\ \E failed \in BOOLEAN :
                 /\ Sync!CleanupRecorded(c, failed)
                 /\ ~failed => c.sync \notin remote'.own /\ remote'.latest # c.sync
  PROVE  SyncInv'
<1>1. /\ SenderTypes /\ GitTypes /\ WipIsPushed /\ NotYetPushed /\ CleanersKnow /\ Sync!RefsRecorded
      /\ ReceiverInv /\ AckedKnown
  BY DEF SyncInv, SenderInv
<1>. DEFINE s == c.sync
<1>2. s \in Sync!Syncs /\ c.was \in Statuses /\ syncs[s].wip
        /\ (c.was = "acked" => s \in received)
  BY <1>1 DEF GitTypes, Cleaner, CleanersKnow, AckedKnown
<1>3. /\ syncs' \in [Sync!Syncs -> SyncRecord]
      /\ \A t \in Sync!Syncs :
           /\ syncs'[t].wip = syncs[t].wip
           /\ syncs[t].cleanup # "none" => syncs'[t].cleanup # "none"
           /\ \/ syncs'[t].cleanup = syncs[t].cleanup \/ syncs'[t].cleanup = "failed"
              \/ t \notin remote'.own /\ remote'.latest # t
           /\ syncs'[t].status = "acked" => t \in received
  <2>1. CASE syncs' = syncs
    BY <1>1, <2>1 DEF SenderTypes, AckedKnown
  <2>2. ASSUME NEW failed \in BOOLEAN, Sync!CleanupRecorded(c, failed),
               ~failed => s \notin remote'.own /\ remote'.latest # s
        PROVE  /\ syncs' \in [Sync!Syncs -> SyncRecord]
               /\ \A t \in Sync!Syncs :
                    /\ syncs'[t].wip = syncs[t].wip
                    /\ syncs[t].cleanup # "none" => syncs'[t].cleanup # "none"
                    /\ \/ syncs'[t].cleanup = syncs[t].cleanup \/ syncs'[t].cleanup = "failed"
                       \/ t \notin remote'.own /\ remote'.latest # t
                    /\ syncs'[t].status = "acked" => t \in received
    <3>. DEFINE new == [syncs[s] EXCEPT !.cleanup = IF failed THEN "failed" ELSE "cleaned",
                                        !.status = IF failed THEN c.was ELSE "cleaned"]
    <3>1. syncs[s] \in SyncRecord
      BY <1>1, <1>2 DEF SenderTypes
    <3>2. /\ new \in SyncRecord /\ new.wip = syncs[s].wip
          /\ new.cleanup = IF failed THEN "failed" ELSE "cleaned"
          /\ new.status = IF failed THEN c.was ELSE "cleaned"
      <4>. HIDE DEF s
      <4>. QED
        BY <1>2, <3>1 DEF SyncRecord, Statuses
    <3>3. syncs' = [syncs EXCEPT ![s] = new]
      BY <1>1, <1>2, <2>2 DEF Sync!CleanupRecorded, SenderTypes
    <3>. HIDE DEF new, s
    <3>. QED
      BY <1>1, <1>2, <2>2, <3>2, <3>3 DEF SenderTypes, AckedKnown
  <2>. QED
    BY <2>1, <2>2
<1>4. /\ cleaners' \subseteq Cleaner
      /\ \A d \in cleaners' : d \notin cleaners =>
           d.sync = s /\ d.was = c.was /\ (~d.failed => s \notin remote'.own)
  BY <1>1 DEF GitTypes
<1>5. SenderTypes' /\ GitTypes'
  BY <1>1, <1>3, <1>4 DEF SenderTypes, GitTypes
<1>6. WipIsPushed' /\ NotYetPushed'
  BY <1>1, <1>3, FirstSyncs DEF WipIsPushed, NotYetPushed
<1>7. CleanersKnow'
  <2>. SUFFICES ASSUME NEW d \in cleaners'
                PROVE  syncs'[d.sync].wip
                       /\ (d.pc = "latest" /\ ~d.failed => d.sync \notin remote'.own)
    BY DEF CleanersKnow
  <2>1. CASE d \in cleaners
    <3>1. d.sync \in Sync!Syncs /\ syncs[d.sync].wip
            /\ (d.pc = "latest" /\ ~d.failed => d.sync \notin remote.own)
      BY <1>1, <2>1 DEF CleanersKnow, GitTypes, Cleaner
    <3>. QED
      BY <1>3, <3>1
  <2>2. CASE d \notin cleaners
    BY <1>2, <1>3, <1>4, <2>2
  <2>. QED
    BY <2>1, <2>2
<1>8. Sync!RefsRecorded'
  <2>. SUFFICES ASSUME NEW t \in remote'.own \union ({remote'.latest} \ {0})
                PROVE  \/ pushing[t] = "latest" \/ t \in interrupted
                       \/ syncs'[t].wip /\ syncs'[t].cleanup \in {"pending", "failed"}
    BY DEF Sync!RefsRecorded
  <2>1. t \in remote.own \union ({remote.latest} \ {0})
    OBVIOUS
  <2>2. t \in Sync!Syncs
    BY <1>1, <2>1, FirstSyncs DEF GitTypes, Sync!Syncs
  <2>3. syncs[t].wip => syncs[t].cleanup # "none"
    BY <1>1, <2>2 DEF WipIsPushed
  <2>. QED
    BY <1>1, <1>3, <2>1, <2>2, <2>3 DEF Sync!RefsRecorded
<1>9. \A d \in cleaners' : d.was = "acked" => d.sync \in received
  BY <1>1, <1>2, <1>4 DEF AckedKnown
<1>10. ReceiverInv' /\ AckedKnown'
  BY <1>1, <1>3, <1>9, ReceiverStays
<1>. QED
  BY <1>5, <1>6, <1>7, <1>8, <1>10 DEF SyncInv, SenderInv

LEMMA CleanupKeeps ==
  ASSUME SyncInv, NEW c \in cleaners, NEW failed \in BOOLEAN,
         Sync!CleanOwn(c, failed) \/ Sync!CleanLatest(c, failed)
  PROVE  SyncInv'
<1>1. /\ UNCHANGED <<sends, pushing, interrupted, requests, loads, branches, received, acks, loaded>>
      /\ faults' \in 0..MaxFaults
  BY StatusesStay, FaultCounted DEF Sync!CleanOwn, Sync!CleanLatest, Sync!receiver
<1>2. c \in Cleaner /\ c.sync \in Sync!Syncs /\ cleaners \subseteq Cleaner
        /\ (c.pc = "latest" /\ ~c.failed => c.sync \notin remote.own)
  BY StatusesStay DEF Cleaner, SyncInv, SenderInv, CleanersKnow
<1>3. remote \in [own : SUBSET Sync!Syncs, latest : 0..MaxSyncs]
  BY SyncsStay
<1>4. CASE Sync!CleanOwn(c, failed)
  <2>1. /\ remote' \in [own : SUBSET Sync!Syncs, latest : 0..MaxSyncs]
        /\ remote'.own \subseteq remote.own /\ remote'.latest = remote.latest
        /\ ~failed => c.sync \notin remote'.own
    <3>1. CASE failed
      BY <1>3, <1>4, <3>1 DEF Sync!CleanOwn
    <3>2. CASE ~failed
      BY <1>3, <1>4, <3>2 DEF Sync!CleanOwn
    <3>. QED
      BY <3>1, <3>2
  <2>2. CASE remote.latest = c.sync
    <3>. DEFINE new == [c EXCEPT !.pc = "latest", !.failed = failed]
    <3>1. /\ new \in Cleaner /\ new.sync = c.sync /\ new.was = c.was /\ new.failed = failed
      BY <1>2 DEF Cleaner
    <3>. HIDE DEF new
    <3>2. cleaners' = (cleaners \ {c}) \union {new} /\ syncs' = syncs
      BY <1>4, <2>2 DEF Sync!CleanOwn, new
    <3>3. cleaners' \subseteq Cleaner
      BY <1>2, <3>1, <3>2
    <3>4. \A d \in cleaners' : d \notin cleaners =>
            d.sync = c.sync /\ d.was = c.was /\ (~d.failed => c.sync \notin remote'.own)
      BY <2>1, <3>1, <3>2
    <3>. QED
      BY <1>1, <2>1, <3>2, <3>3, <3>4, CleanupMoves
  <2>3. CASE remote.latest # c.sync
    <3>1. cleaners' = cleaners \ {c} /\ Sync!CleanupRecorded(c, failed)
      BY <1>4, <2>3 DEF Sync!CleanOwn
    <3>. QED
      BY <1>1, <2>1, <2>3, <3>1, CleanupMoves
  <2>. QED
    BY <2>2, <2>3
<1>5. CASE Sync!CleanLatest(c, failed)
  <2>1. /\ remote' \in [own : SUBSET Sync!Syncs, latest : 0..MaxSyncs]
        /\ remote'.own = remote.own /\ remote'.latest \in {remote.latest, 0}
        /\ ~failed => remote'.latest = 0
    <3>1. CASE failed
      BY <1>3, <1>5, <3>1 DEF Sync!CleanLatest
    <3>2. CASE ~failed
      BY <1>3, <1>5, <3>2, FirstSyncs DEF Sync!CleanLatest
    <3>. QED
      BY <3>1, <3>2
  <2>2. c.failed \in BOOLEAN /\ c.pc = "latest"
    BY <1>2, <1>5 DEF Cleaner, Sync!CleanLatest
  <2>. DEFINE both == failed \/ c.failed
  <2>3. both \in BOOLEAN /\ (~both => c.sync \notin remote'.own /\ remote'.latest # c.sync)
    BY <1>2, <2>1, <2>2, FirstSyncs
  <2>4. cleaners' = cleaners \ {c} /\ Sync!CleanupRecorded(c, both)
    BY <1>5 DEF Sync!CleanLatest
  <2>. HIDE DEF both
  <2>. QED
    BY <1>1, <2>1, <2>3, <2>4, CleanupMoves
<1>. QED
  BY <1>4, <1>5

\* A crash of the sender: what it was pushing may be there, and it will never know.
LEMMA SenderCrashKeeps ==
  ASSUME SyncInv, Sync!SenderCrash
  PROVE  SyncInv'
<1>. DEFINE cut == {s \in Sync!Syncs : pushing[s] = "push"}
            latest == {s \in Sync!Syncs : pushing[s] = "latest"}
<1>1. /\ UNCHANGED <<syncs, cleaners, requests, loads, branches, received, acks, loaded>>
      /\ faults' \in 0..MaxFaults
      /\ interrupted' = interrupted \union cut \union latest /\ sends' = {}
      /\ pushing' = [s \in Sync!Syncs |-> IF pushing[s] = "no" THEN "no" ELSE "done"]
  BY StatusesStay, FaultCounted DEF Sync!SenderCrash, Sync!receiver
<1>2. PICK own \in SUBSET cut : remote' = [remote EXCEPT !.own = @ \union own]
  BY DEF Sync!SenderCrash
<1>3. /\ remote' \in [own : SUBSET Sync!Syncs, latest : 0..MaxSyncs]
      /\ remote'.own = remote.own \union own /\ remote'.latest = remote.latest
  BY <1>2, SyncsStay
<1>4. /\ SenderTypes /\ GitTypes /\ WipIsPushed /\ NotYetPushed /\ CleanersKnow /\ Sync!RefsRecorded
      /\ ReceiverInv /\ AckedKnown
  BY DEF SyncInv, SenderInv
<1>5. SenderTypes' /\ GitTypes'
  BY <1>1, <1>3, <1>4 DEF SenderTypes, GitTypes
<1>6. WipIsPushed'
  BY <1>1, <1>4 DEF WipIsPushed
<1>7. NotYetPushed'
  BY <1>1, <1>3, <1>4 DEF NotYetPushed
<1>8. CleanersKnow'
  <2>1. \A c \in cleaners : c.sync \in Sync!Syncs /\ pushing[c.sync] = "done"
    BY <1>4 DEF CleanersKnow, GitTypes, Cleaner, WipIsPushed
  <2>. QED
    BY <1>1, <1>3, <1>4, <2>1 DEF CleanersKnow
<1>9. Sync!RefsRecorded'
  <2>. SUFFICES ASSUME NEW t \in remote'.own \union ({remote'.latest} \ {0})
                PROVE  \/ t \in interrupted'
                       \/ syncs[t].wip /\ syncs[t].cleanup \in {"pending", "failed"}
    BY <1>1 DEF Sync!RefsRecorded
  <2>1. CASE t \in own
    BY <1>1, <2>1
  <2>2. CASE t \notin own
    <3>1. t \in remote.own \union ({remote.latest} \ {0})
      BY <1>3, <2>2
    <3>2. t \in Sync!Syncs
      BY <1>4, <3>1, FirstSyncs DEF GitTypes, Sync!Syncs
    <3>. QED
      BY <1>1, <1>4, <3>1, <3>2 DEF Sync!RefsRecorded
  <2>. QED
    BY <2>1, <2>2
<1>10. ReceiverInv' /\ AckedKnown'
  BY <1>1, <1>4, ReceiverStays DEF AckedKnown
<1>. QED
  BY <1>1, <1>5, <1>6, <1>7, <1>8, <1>9, <1>10 DEF SyncInv, SenderInv

-----------------------------------------------------------------------------
(* ContextSync: the steps of the receiver.                                 *)

\* The receiver's steps leave the sender with what it knows: what it has recorded stays.
LEMMA SenderStays ==
  ASSUME SyncInv, UNCHANGED <<syncs, pushing, sends, interrupted, remote, cleaners, requests>>,
         received \subseteq received', \A s \in acks' : s \in received'
  PROVE  SenderInv' /\ AckedKnown'
<1>1. SenderTypes' /\ GitTypes'
  BY DEF SyncInv, SenderInv, SenderTypes, GitTypes
<1>2. WipIsPushed' /\ NotYetPushed' /\ CleanersKnow' /\ Sync!RefsRecorded'
  BY DEF SyncInv, SenderInv, WipIsPushed, NotYetPushed, CleanersKnow, Sync!RefsRecorded
<1>3. AckedKnown'
  BY DEF SyncInv, AckedKnown
<1>. QED
  BY <1>1, <1>2, <1>3 DEF SenderInv

\* One load moves on; the others stay, and nothing that is recorded is lost.
LEMMA LoadMoves ==
  ASSUME ReceiverInv, NEW i \in Loads, NEW load \in Load, loads' = [loads EXCEPT ![i] = load],
         load.pc # "idle" => load.sync \in Sync!Syncs,
         load.pc \in {"fetch", "branch"} => requests[load.sync] = "wip",
         load.pc = "ack" => load.sync \in received',
         requests' = requests, received \subseteq received', received' \subseteq Sync!Syncs,
         branches' \subseteq Sync!Syncs, acks' \subseteq Sync!Syncs,
         loaded' \in [Sync!Syncs -> Nat], LoadsCounted'
  PROVE  ReceiverInv'
<1>1. ReceiverTypes /\ LoadsKnown
  BY DEF ReceiverInv
<1>2. loads'[i] = load /\ \A j \in Loads : j # i => loads'[j] = loads[j]
  BY <1>1 DEF ReceiverTypes
<1>3. ReceiverTypes'
  BY <1>1, <1>2 DEF ReceiverTypes
<1>4. LoadsKnown'
  BY <1>1, <1>2 DEF LoadsKnown
<1>. QED
  BY <1>3, <1>4 DEF ReceiverInv

LEMMA LoadsAre ==
  ASSUME SyncInv
  PROVE  /\ received \subseteq Sync!Syncs /\ branches \subseteq Sync!Syncs /\ acks \subseteq Sync!Syncs
         /\ loaded \in [Sync!Syncs -> Nat] /\ loads \in [Loads -> Load] /\ LoadsCounted
         /\ ReceiverInv /\ AckedKnown /\ Sync!Idle \in Load /\ Sync!Idle.pc = "idle"
         /\ \A i \in Loads : /\ loads[i].pc # "idle" => loads[i].sync \in Sync!Syncs
                             /\ loads[i].pc \in {"fetch", "branch"} => requests[loads[i].sync] = "wip"
                             /\ loads[i].pc = "ack" => loads[i].sync \in received
         /\ \A s \in acks : s \in received
BY FirstSyncs
   DEF SyncInv, ReceiverInv, ReceiverTypes, LoadsKnown, AckedKnown, Sync!Idle, Load

LEMMA LoadBegins ==
  ASSUME SyncInv, NEW i \in Loads, NEW s \in Sync!Syncs,
         Sync!LoadWip(i, s) \/ Sync!LoadInline(i, s)
  PROVE  SyncInv'
<1>1. /\ UNCHANGED <<syncs, pushing, sends, interrupted, remote, cleaners, requests, branches,
                     acks, faults>>
      /\ s \notin received
  BY DEF Sync!LoadWip, Sync!LoadInline, Sync!sender, Sync!git
<1>2. CASE Sync!LoadWip(i, s)
  <2>. DEFINE load == [Sync!Idle EXCEPT !.pc = "fetch", !.sync = s]
  <2>1. load \in Load /\ load.pc = "fetch" /\ load.sync = s
    BY FirstSyncs DEF Sync!Idle, Load
  <2>. HIDE DEF load
  <2>2. /\ loads' = [loads EXCEPT ![i] = load] /\ requests[s] = "wip"
        /\ UNCHANGED <<received, loaded>>
    BY <1>2 DEF Sync!LoadWip, load
  <2>3. LoadsCounted'
    BY <1>1, <2>2, LoadsAre DEF LoadsCounted
  <2>4. ReceiverInv'
    BY <1>1, <2>1, <2>2, <2>3, LoadsAre, LoadMoves
  <2>5. SenderInv' /\ AckedKnown'
    BY <1>1, <2>2, LoadsAre, SenderStays
  <2>. QED
    BY <1>1, <2>4, <2>5 DEF SyncInv
<1>3. CASE Sync!LoadInline(i, s)
  <2>. DEFINE load == [pc |-> "ack", sync |-> s]
  <2>1. load \in Load /\ load.pc = "ack" /\ load.sync = s
    BY FirstSyncs DEF Load
  <2>. HIDE DEF load
  <2>2. /\ loads' = [loads EXCEPT ![i] = load] /\ requests[s] = "inline"
        /\ received' = received \union {s} /\ loaded' = [loaded EXCEPT ![s] = @ + 1]
    BY <1>3 DEF Sync!LoadInline, Sync!Record, load
  <2>3. loaded' \in [Sync!Syncs -> Nat] /\ \A t \in Sync!Syncs :
          loaded'[t] = IF t = s THEN loaded[s] + 1 ELSE loaded[t]
    BY <2>2, LoadsAre
  <2>4. loaded[s] = 0
    BY <1>1, <2>2, LoadsAre DEF LoadsCounted
  <2>5. LoadsCounted'
    <3>. SUFFICES ASSUME NEW t \in Sync!Syncs
                  PROVE  /\ t \in received' => requests[t] # "none"
                         /\ loaded'[t] <= 1
                         /\ requests[t] = "none" => loaded'[t] = 0
                         /\ requests[t] = "inline" /\ loaded'[t] # 0 => t \in received'
                         /\ requests[t] = "wip" /\ loaded'[t] # 0 => t \in branches
      BY <1>1 DEF LoadsCounted
    <3>1. CASE t = s
      BY <2>2, <2>3, <2>4, <3>1
    <3>2. CASE t # s
      BY <2>2, <2>3, <3>2, LoadsAre DEF LoadsCounted
    <3>. QED
      BY <3>1, <3>2
  <2>6. ReceiverInv'
    <3>1. /\ received \subseteq received' /\ received' \subseteq Sync!Syncs /\ s \in received'
          /\ load.sync \in Sync!Syncs
      BY <2>1, <2>2, LoadsAre
    <3>2. branches' \subseteq Sync!Syncs /\ acks' \subseteq Sync!Syncs
      BY <1>1, LoadsAre
    <3>3. loads' = [loads EXCEPT ![i] = load] /\ ReceiverInv /\ requests' = requests
      BY <1>1, <2>2, LoadsAre
    <3>. QED
      BY <2>1, <2>3, <2>5, <3>1, <3>2, <3>3, LoadMoves
  <2>7. SenderInv' /\ AckedKnown'
    BY <1>1, <2>2, LoadsAre, SenderStays
  <2>. QED
    BY <1>1, <2>6, <2>7 DEF SyncInv
<1>. QED
  BY <1>2, <1>3

\* The end of a load, whatever its outcome: it is recorded before it is acknowledged.  It
\* counts as loaded only if it made the branch.
LEMMA FinishKeeps ==
  ASSUME SyncInv, NEW i \in Loads, NEW outcome, Sync!Finish(i, outcome),
         loads[i].pc \in {"fetch", "branch"},
         branches \subseteq branches', branches' \subseteq branches \union {loads[i].sync},
         outcome = "loaded" =>
           loads[i].sync \notin branches /\ loads[i].sync \in branches',
         UNCHANGED <<syncs, pushing, sends, interrupted, remote, cleaners, requests, acks>>,
         faults' \in 0..MaxFaults
  PROVE  SyncInv'
<1>. DEFINE s == loads[i].sync
            load == [loads[i] EXCEPT !.pc = "ack"]
<1>1. s \in Sync!Syncs /\ requests[s] = "wip"
  BY LoadsAre
<1>2. load \in Load /\ load.pc = "ack" /\ load.sync = s
  BY LoadsAre DEF Load
<1>3. /\ loads' = [loads EXCEPT ![i] = load] /\ received' = received \union {s}
      /\ loaded' = IF outcome = "loaded" THEN [loaded EXCEPT ![s] = @ + 1] ELSE loaded
  BY LoadsAre DEF Sync!Finish, Sync!Record
<1>. HIDE DEF load, s
<1>4. /\ loaded' \in [Sync!Syncs -> Nat]
      /\ \A t \in Sync!Syncs : t # s => loaded'[t] = loaded[t]
      /\ \/ loaded'[s] = loaded[s]
         \/ loaded'[s] = loaded[s] + 1 /\ s \notin branches /\ s \in branches'
  <2>1. CASE outcome = "loaded"
    BY <1>1, <1>3, <2>1, LoadsAre DEF s
  <2>2. CASE outcome # "loaded"
    BY <1>3, <2>2, LoadsAre
  <2>. QED
    BY <2>1, <2>2
<1>5. s \notin branches => loaded[s] = 0
  BY <1>1, LoadsAre DEF LoadsCounted
<1>6. LoadsCounted'
  <2>. SUFFICES ASSUME NEW t \in Sync!Syncs
                PROVE  /\ t \in received' => requests[t] # "none"
                       /\ loaded'[t] <= 1
                       /\ requests[t] = "none" => loaded'[t] = 0
                       /\ requests[t] = "inline" /\ loaded'[t] # 0 => t \in received'
                       /\ requests[t] = "wip" /\ loaded'[t] # 0 => t \in branches'
    BY DEF LoadsCounted
  <2>1. CASE t = s
    BY <1>1, <1>3, <1>4, <1>5, <2>1, LoadsAre DEF LoadsCounted
  <2>2. CASE t # s
    BY <1>3, <1>4, <2>2, LoadsAre DEF LoadsCounted
  <2>. QED
    BY <2>1, <2>2
<1>7. received' \subseteq Sync!Syncs /\ branches' \subseteq Sync!Syncs
  BY <1>1, <1>3, LoadsAre DEF s
<1>8. ReceiverInv'
  BY <1>1, <1>2, <1>3, <1>4, <1>6, <1>7, LoadsAre, LoadMoves
<1>9. SenderInv' /\ AckedKnown'
  BY <1>3, LoadsAre, SenderStays
<1>. QED
  BY <1>8, <1>9 DEF SyncInv

LEMMA LoadKeeps ==
  ASSUME SyncInv, NEW i \in Loads,
         \/ Sync!Fetch(i) \/ Sync!FetchFails(i) \/ Sync!Isolate(i)
         \/ Sync!Acknowledge(i) \/ Sync!AcknowledgeFails(i)
  PROVE  SyncInv'
<1>1. /\ UNCHANGED <<syncs, pushing, sends, interrupted, remote, cleaners, requests>>
      /\ faults' \in 0..MaxFaults
  BY StatusesStay, FaultCounted
     DEF Sync!Fetch, Sync!FetchFails, Sync!Isolate, Sync!Acknowledge, Sync!AcknowledgeFails,
         Sync!sender, Sync!git
<1>2. CASE Sync!FetchFails(i)
  BY <1>1, <1>2, FinishKeeps DEF Sync!FetchFails
<1>3. CASE Sync!Isolate(i)
  BY <1>1, <1>3, FinishKeeps DEF Sync!Isolate, Sync!BranchIsNew
<1>4. CASE Sync!Fetch(i)
  <2>. DEFINE load == [loads[i] EXCEPT !.pc = "branch"]
  <2>1. load \in Load /\ load.pc = "branch" /\ load.sync = loads[i].sync
    BY LoadsAre DEF Load
  <2>. HIDE DEF load
  <2>2. /\ loads' = [loads EXCEPT ![i] = load] /\ loads[i].pc = "fetch"
        /\ UNCHANGED <<branches, received, acks, loaded>>
    BY <1>4 DEF Sync!Fetch, load
  <2>3. LoadsCounted'
    BY <1>1, <2>2, LoadsAre DEF LoadsCounted
  <2>4. ReceiverInv'
    BY <1>1, <2>1, <2>2, <2>3, LoadsAre, LoadMoves
  <2>5. SenderInv' /\ AckedKnown'
    BY <1>1, <2>2, LoadsAre, SenderStays
  <2>. QED
    BY <1>1, <2>4, <2>5 DEF SyncInv
<1>5. CASE Sync!Acknowledge(i) \/ Sync!AcknowledgeFails(i)
  <2>1. /\ loads' = [loads EXCEPT ![i] = Sync!Idle] /\ loads[i].pc = "ack"
        /\ acks \subseteq acks' /\ acks' \subseteq acks \union {loads[i].sync}
        /\ UNCHANGED <<branches, received, loaded>>
    BY <1>5 DEF Sync!Acknowledge, Sync!AcknowledgeFails
  <2>2. loads[i].sync \in Sync!Syncs /\ loads[i].sync \in received
    BY <2>1, LoadsAre
  <2>3. acks' \subseteq Sync!Syncs /\ \A s \in acks' : s \in received
    BY <2>1, <2>2, LoadsAre
  <2>4. LoadsCounted'
    BY <1>1, <2>1, LoadsAre DEF LoadsCounted
  <2>5. ReceiverInv'
    BY <1>1, <2>1, <2>3, <2>4, LoadsAre, LoadMoves
  <2>6. SenderInv' /\ AckedKnown'
    BY <1>1, <2>1, <2>3, LoadsAre, SenderStays
  <2>. QED
    BY <1>1, <2>5, <2>6 DEF SyncInv
<1>. QED
  BY <1>2, <1>3, <1>4, <1>5

\* A crash of the receiver: a branch may have been made that nothing records.
LEMMA ReceiverCrashKeeps ==
  ASSUME SyncInv, Sync!ReceiverCrash
  PROVE  SyncInv'
<1>1. /\ UNCHANGED <<syncs, pushing, sends, interrupted, remote, cleaners, requests, received,
                     acks, loaded>>
      /\ faults' \in 0..MaxFaults /\ loads' = [i \in Loads |-> Sync!Idle]
  BY StatusesStay, FaultCounted DEF Sync!ReceiverCrash, Sync!sender, Sync!git
<1>2. branches \subseteq branches' /\ branches' \subseteq Sync!Syncs
  BY LoadsAre DEF Sync!ReceiverCrash
<1>3. ReceiverTypes' /\ LoadsKnown'
  BY <1>1, <1>2, LoadsAre DEF ReceiverInv, ReceiverTypes, LoadsKnown
<1>4. LoadsCounted'
  BY <1>1, <1>2, LoadsAre DEF LoadsCounted
<1>5. SenderInv' /\ AckedKnown'
  BY <1>1, LoadsAre, SenderStays
<1>. QED
  BY <1>1, <1>3, <1>4, <1>5 DEF SyncInv, ReceiverInv

-----------------------------------------------------------------------------
(* ContextSync: the theorem.                                               *)

LEMMA SyncInit == Sync!Init => SyncInv
<1>. SUFFICES ASSUME Sync!Init PROVE SyncInv
  OBVIOUS
<1>1. SenderTypes
  BY DEF Sync!Init, SenderTypes, SyncRecord, Statuses, Sync!None
<1>2. GitTypes
  BY FirstSyncs DEF Sync!Init, GitTypes
<1>3. ReceiverTypes /\ LoadsKnown
  BY FirstSyncs DEF Sync!Init, ReceiverTypes, Load, Sync!Idle, LoadsKnown
<1>4. LoadsCounted
  BY DEF Sync!Init, LoadsCounted
<1>5. WipIsPushed /\ NotYetPushed /\ CleanersKnow /\ Sync!RefsRecorded
  BY FirstSyncs
     DEF Sync!Init, WipIsPushed, NotYetPushed, CleanersKnow, Sync!RefsRecorded, Sync!None
<1>6. AckedKnown
  BY DEF Sync!Init, AckedKnown, Sync!None
<1>7. faults \in 0..MaxFaults
  BY SharingConstants DEF Sync!Init
<1>. QED
  BY <1>1, <1>2, <1>3, <1>4, <1>5, <1>6, <1>7 DEF SyncInv, SenderInv, ReceiverInv

LEMMA SyncStutters == SyncInv /\ UNCHANGED Sync!vars => SyncInv'
<1>. SUFFICES ASSUME SyncInv, UNCHANGED Sync!vars PROVE SyncInv'
  OBVIOUS
<1>1. UNCHANGED <<syncs, pushing, sends, interrupted, remote, cleaners, requests, loads,
                  branches, received, acks, loaded, faults>>
  BY DEF Sync!vars, Sync!sender, Sync!git, Sync!receiver
<1>. QED
  BY <1>1, SyncsStay, StatusesStay, StatusMoves

LEMMA SyncStepKeeps == SyncInv /\ [Sync!Next]_(Sync!vars) => SyncInv'
<1>. SUFFICES ASSUME SyncInv, [Sync!Next]_(Sync!vars) PROVE SyncInv'
  OBVIOUS
<1>1. ASSUME NEW s \in Sync!Syncs,
             \/ Sync!Checkpoint(s) \/ Sync!Prepared(s) \/ Sync!PushOwn(s) \/ Sync!PushLatest(s)
             \/ Sync!PushOwnFails(s) \/ Sync!PushLatestFails(s) \/ Sync!NothingToPush(s)
      PROVE  SyncInv'
  BY <1>1, CheckpointKeeps, PushOwnKeeps, PushLatestKeeps
<1>2. CASE \/ \E s \in Sync!Syncs : \/ Sync!RetryContextSync(s) \/ Sync!EmitLatestPrepared(s)
                                    \/ Sync!MarkAcked(s)
           \/ \E m \in sends : Sync!SendReturns(m) \/ Sync!SendRefused(m) \/ Sync!SendFails(m)
  BY <1>2, SendKeeps
<1>3. CASE \E m \in sends : Sync!Deliver(m)
  BY <1>3, DeliverKeeps
<1>4. CASE \E s \in Sync!Syncs : Sync!CleanupContextSync(s)
  BY <1>4, CleanupBegins
<1>5. CASE \E c \in cleaners, failed \in BOOLEAN :
             Sync!CleanOwn(c, failed) \/ Sync!CleanLatest(c, failed)
  BY <1>5, CleanupKeeps
<1>6. CASE \E s \in Sync!Syncs, i \in Loads : Sync!LoadWip(i, s) \/ Sync!LoadInline(i, s)
  BY <1>6, LoadBegins
<1>7. CASE \E i \in Loads : \/ Sync!Fetch(i) \/ Sync!FetchFails(i) \/ Sync!Isolate(i)
                            \/ Sync!Acknowledge(i) \/ Sync!AcknowledgeFails(i)
  BY <1>7, LoadKeeps
<1>8. CASE Sync!SenderCrash \/ Sync!ReceiverCrash
  BY <1>8, SenderCrashKeeps, ReceiverCrashKeeps
<1>9. CASE UNCHANGED Sync!vars
  BY <1>9, SyncStutters
<1>. QED
  BY <1>1, <1>2, <1>3, <1>4, <1>5, <1>6, <1>7, <1>8, <1>9 DEF Sync!Next

LEMMA SyncHolds == Sync!Spec => []SyncInv
<1>1. Sync!Init => SyncInv
  BY SyncInit
<1>2. SyncInv /\ [Sync!Next]_(Sync!vars) => SyncInv'
  BY SyncStepKeeps
<1>. QED
  BY <1>1, <1>2, PTL DEF Sync!Spec

\* However pushes, sends, cleanups and loads overlap, fail or are cut off by crashes: the
\* sender takes a sync for acknowledged only when its receiver has recorded it; a context is
\* loaded once; and every ref of git is on record for its cleanup, unless the sender never
\* learned that it was pushed.
THEOREM SyncIsSafe == Sync!Spec => []SyncSafe
<1>1. SyncInv => SyncSafe
  <2>. SUFFICES ASSUME SyncInv PROVE SyncSafe
    OBVIOUS
  <2>1. Sync!AckedIsReceived
    BY DEF SyncInv, AckedKnown, Sync!AckedIsReceived
  <2>2. Sync!LoadedOnce
    BY DEF SyncInv, ReceiverInv, LoadsCounted, Sync!LoadedOnce
  <2>3. Sync!RefsRecorded
    BY DEF SyncInv, SenderInv
  <2>. QED
    BY <2>1, <2>2, <2>3 DEF SyncSafe
<1>. QED
  BY <1>1, SyncHolds, PTL

\* Types.  In particular work on record always has a state of its cleanup, and the receiver
\* records only syncs that were requested of it.
LEMMA SyncTyped == SyncInv => Sync!TypeOK
<1>. SUFFICES ASSUME SyncInv PROVE Sync!TypeOK
  OBVIOUS
<1>1. \A s \in Sync!Syncs : syncs[s] \in SyncRecord /\ (syncs[s].wip => syncs[s].cleanup # "none")
        /\ requests[s] \in {"none", "inline", "wip"}
  BY DEF SyncInv, SenderInv, SenderTypes, WipIsPushed, ReceiverInv, ReceiverTypes
<1>2. \A s \in Sync!Syncs :
        /\ syncs[s].status \in Sync!ACTIVE_SYNC_STATUSES \union {"none", "expired", "acked", "cleaned"}
        /\ syncs[s].cleanup \in {"none", "pending", "failed", "cleaned"}
  BY <1>1 DEF SyncRecord, Statuses, Sync!ACTIVE_SYNC_STATUSES
<1>3. remote.own \subseteq Sync!Syncs /\ remote.latest \in 0..MaxSyncs
        /\ \A m \in sends : m.sync \in Sync!Syncs
  BY SyncsStay DEF Request
<1>4. received \subseteq {s \in Sync!Syncs : requests[s] # "none"}
  BY LoadsAre DEF LoadsCounted
<1>. QED
  BY <1>1, <1>2, <1>3, <1>4 DEF Sync!TypeOK, SyncInv

\* Whichever of the two a machine is seen as, the state of both is of its types.
THEOREM SharingTyped == SharingSpec => []TypesOK
<1>. DEFINE BothInv == WorkInv /\ SyncInv
<1>1. SharingInit => BothInv
  BY WorkInit, SyncInit DEF SharingInit
<1>2. BothInv /\ [SyncStep \/ WorkStep]_<<vars, syncVars, part>> => BothInv'
  <2>. SUFFICES ASSUME BothInv, [SyncStep \/ WorkStep]_<<vars, syncVars, part>> PROVE BothInv'
    OBVIOUS
  <2>1. [Next]_vars
    BY DEF SyncStep, WorkStep
  <2>2. [Sync!Next]_(Sync!vars)
    <3>1. UNCHANGED syncVars => UNCHANGED Sync!vars
      BY DEF syncVars, Sync!vars, Sync!sender, Sync!git, Sync!receiver
    <3>. QED
      BY <3>1 DEF SyncStep, WorkStep
  <2>. QED
    BY <2>1, <2>2, WorkStepKeeps, SyncStepKeeps
<1>3. BothInv => TypesOK
  BY WorkTyped, SyncTyped DEF TypesOK
<1>. QED
  BY <1>1, <1>2, <1>3, PTL DEF SharingSpec

-----------------------------------------------------------------------------
(* FileServices: the inductive invariant.                                  *)

Outcomes == {"completed", "timeout"}
Notices == {"answered", "timeout"}
Made == {l \in Locks : lock[l] # Files!NoLock}

TaskRecord == [id : Tasks, parent : Tasks \union {0}, subtasks : SUBSET Tasks]

\* SubtasksListed, of any table.
ListedIn(ts) ==
  \A t \in ts :
    /\ t.parent # 0 => \E q \in ts : q.id = t.parent /\ t.id \in q.subtasks
    /\ \A id \in t.subtasks : \E q \in ts : q.id = id /\ q.parent = t.id
SoundTable(ts) ==
  /\ ts \subseteq TaskRecord /\ ListedIn(ts)
  /\ \A t \in ts : t.id \in created /\ t.parent < t.id

\* At most one lock of a path, dead or alive.
OneEach(ls) == \A l, k \in ls : lock[l].path = lock[k].path => l = k

LockTypes ==
  /\ lock \in [Locks -> [path : Paths \union {"none"}, holder : Processes \union {"none"}]]
  /\ locks \subseteq Made /\ OneEach(locks) /\ dead \subseteq Locks /\ granted \subseteq Made

FileTypes ==
  /\ waiting \subseteq asked /\ expired \subseteq asked /\ asked \subseteq Requests
  /\ history \subseteq asked \X Outcomes /\ told \subseteq asked \X Notices
  /\ LockTypes
  /\ SoundTable(tasks) /\ created \subseteq Tasks
  /\ blank \subseteq Processes /\ faults \in 0..MaxFaults

Command ==
  [pc : {"idle", "ask", "asking", "reply", "replied", "noting", "noted", "removing", "tell",
         "check", "checked", "recording", "over", "clearing", "acquire", "acquiring", "release",
         "releasing", "task", "making"},
   arg : Requests \union Locks \union Tasks \union {0}, path : Paths \union {"none"},
   pending : SUBSET Requests, history : SUBSET (Requests \X Outcomes), late : SUBSET Requests,
   untold : SUBSET Requests, locks : SUBSET Locks, tasks : SUBSET TaskRecord]

\* The copies of a command are of tables that were sound.
Copy(c) ==
  /\ c \in Command
  /\ c.pending \subseteq asked /\ c.history \subseteq asked \X Outcomes
  /\ c.late \subseteq asked /\ c.untold \subseteq c.late
  /\ c.locks \subseteq Made /\ OneEach(c.locks) /\ SoundTable(c.tasks)
  /\ c.pc \in {"ask", "asking", "reply", "replied", "noting", "noted", "removing", "tell"} =>
       c.arg \in asked
  /\ c.pc \in {"task", "making"} => c.arg = 0 \/ \E t \in c.tasks : t.id = c.arg

Copies == proc \in [Processes -> Command] /\ \A p \in Processes : Copy(proc[p])

\* What no overlap and no kill may have lost, of what was granted and has not expired.
Sure == (granted \ dead) \ exposed
WithLocks == {"acquire", "acquiring", "release", "releasing"}
WritingLocks == {"acquiring", "releasing"}

\* It is in the table, but for what is being written then, and in every copy of the table; and
\* who writes the table is the only one, on the file that it has emptied.
Kept ==
  /\ (\A p \in Processes : proc[p].pc \notin WritingLocks) => Sure \subseteq locks
  /\ \A p \in Processes : proc[p].pc \in WithLocks => Sure \subseteq proc[p].locks
  /\ \A p \in Processes :
       proc[p].pc \in WritingLocks /\ Sure # {} =>
         p \in blank /\ \A q \in Processes : proc[q].pc \in WritingLocks => q = p

FilesInv == FileTypes /\ Copies /\ Kept

-----------------------------------------------------------------------------
(* FileServices: the lemmas that its steps share.                          *)

\* A copy stays sound while requests, locks and tasks are added.
LEMMA CopiesGrow ==
  ASSUME asked \subseteq asked', Made \subseteq Made', created \subseteq created',
         \A l \in Made : lock'[l] = lock[l]
  PROVE  /\ \A c : Copy(c) => Copy(c)'
         /\ \A ls : ls \subseteq Made /\ OneEach(ls) => OneEach(ls)'
         /\ \A ts : SoundTable(ts) => SoundTable(ts)'
<1>1. \A ls : ls \subseteq Made /\ OneEach(ls) => OneEach(ls)'
  BY DEF OneEach
<1>2. \A ts : SoundTable(ts) => SoundTable(ts)'
  BY DEF SoundTable, ListedIn
<1>3. ASSUME NEW c, Copy(c) PROVE Copy(c)'
  <2>1. OneEach(c.locks)' /\ SoundTable(c.tasks)'
    BY <1>1, <1>2, <1>3 DEF Copy
  <2>2. /\ c.pending \subseteq asked' /\ c.history \subseteq asked' \X Outcomes
        /\ c.late \subseteq asked' /\ c.locks \subseteq Made'
    BY <1>3 DEF Copy
  <2>3. (c.pc \in {"ask", "asking", "reply", "replied", "noting", "noted", "removing", "tell"} =>
           c.arg \in asked')
    BY <1>3 DEF Copy
  <2>. QED
    BY <1>3, <2>1, <2>2, <2>3 DEF Copy
<1>. QED
  BY <1>1, <1>2, <1>3

\* The copies after a step of a command whose own copy is sound then.
LEMMA CopiesMove ==
  ASSUME Copies, NEW p \in Processes, NEW c, Copy(c)', proc' = [proc EXCEPT ![p] = c],
         asked \subseteq asked', Made \subseteq Made', created \subseteq created',
         \A l \in Made : lock'[l] = lock[l]
  PROVE  Copies'
<1>1. \A d : Copy(d) => Copy(d)'
  BY CopiesGrow
<1>2. c \in Command
  BY DEF Copy
<1>3. proc' \in [Processes -> Command]
  BY <1>2 DEF Copies
<1>4. \A q \in Processes : proc'[q] = c \/ proc'[q] = proc[q]
  BY DEF Copies
<1>. QED
  BY <1>1, <1>3, <1>4 DEF Copies

LEMMA IdleIs ==
  /\ Files!Idle \in Command /\ Files!Idle.pc = "idle" /\ Copy(Files!Idle)
<1>1. Files!Idle \in Command
  BY DEF Files!Idle, Command
<1>. QED
  BY <1>1 DEF Files!Idle, Copy, OneEach, SoundTable, ListedIn

\* What a step that loads, empties or writes a file does to what is written and exposed.
LEMMA Overlaps ==
  ASSUME blank \subseteq Processes, NEW p \in Processes, NEW writing,
         \/ Files!ReadsFile(writing) \/ Files!Truncates(p, writing)
         \/ \E made : Files!Writes(p, writing, made)
  PROVE  /\ exposed \subseteq exposed' /\ blank' \subseteq Processes
         /\ \A q \in blank : proc[q].pc \notin writing => q \in blank'
BY DEF Files!ReadsFile, Files!Truncates, Files!Writes, Files!Meets, Files!Exposes, Files!Writers

\* If nothing is sure any more, nothing has to be kept.
LEMMA NothingKept ==
  ASSUME Sure' = {}
  PROVE  Kept'
BY DEF Kept

\* A command that does not write the table, and has no copy of it afterwards.
LEMMA KeptStays ==
  ASSUME FilesInv, NEW p \in Processes, NEW c \in Command, proc' = [proc EXCEPT ![p] = c],
         proc[p].pc \notin WritingLocks, c.pc \notin WithLocks,
         UNCHANGED <<locks, granted, dead>>, exposed \subseteq exposed',
         \A q \in blank : q # p /\ proc[q].pc \in WritingLocks => q \in blank'
  PROVE  Kept'
<1>1. /\ proc'[p] = c /\ \A q \in Processes : q # p => proc'[q] = proc[q]
      /\ Sure' \subseteq Sure
  BY DEF FilesInv, Copies, Sure
<1>2. \A q \in Processes : proc'[q].pc \in WritingLocks <=> proc[q].pc \in WritingLocks
  BY <1>1 DEF WritingLocks, WithLocks
<1>3. (\A q \in Processes : proc'[q].pc \notin WritingLocks) => Sure' \subseteq locks'
  BY <1>1, <1>2 DEF FilesInv, Kept
<1>4. ASSUME NEW q \in Processes, proc'[q].pc \in WithLocks PROVE Sure' \subseteq proc'[q].locks
  BY <1>1, <1>4 DEF FilesInv, Kept
<1>5. ASSUME NEW q \in Processes, proc'[q].pc \in WritingLocks, Sure' # {}
      PROVE  q \in blank' /\ \A o \in Processes : proc'[o].pc \in WritingLocks => o = q
  <2>1. proc[q].pc \in WritingLocks /\ Sure # {} /\ q # p
    BY <1>1, <1>2, <1>5
  <2>2. q \in blank /\ \A o \in Processes : proc[o].pc \in WritingLocks => o = q
    BY <2>1 DEF FilesInv, Kept
  <2>. QED
    BY <1>2, <2>1, <2>2
<1>. QED
  BY <1>3, <1>4, <1>5 DEF Kept

LEMMA FilesAre ==
  ASSUME FilesInv
  PROVE  /\ FileTypes /\ Copies /\ LockTypes
         /\ waiting \subseteq asked /\ expired \subseteq asked /\ asked \subseteq Requests
         /\ history \subseteq asked \X Outcomes /\ told \subseteq asked \X Notices
         /\ faults \in 0..MaxFaults /\ blank \subseteq Processes
         /\ SoundTable(tasks) /\ created \subseteq Tasks
         /\ \A p \in Processes : /\ proc[p] \in Command /\ Copy(proc[p])
                                 /\ proc[p].pending \subseteq asked
                                 /\ proc[p].history \subseteq asked \X Outcomes
                                 /\ proc[p].late \subseteq asked
                                 /\ proc[p].untold \subseteq proc[p].late
BY DEF FilesInv, FileTypes, Copies, Copy

\* A part of a table has at most one lock of a path if the table has.
LEMMA PartsOneEach ==
  ASSUME FilesInv
  PROVE  /\ locks \subseteq Made /\ OneEach(locks) /\ dead \subseteq Locks /\ granted \subseteq Made
         /\ Made \subseteq Locks
         /\ lock \in [Locks -> [path : Paths \union {"none"}, holder : Processes \union {"none"}]]
         /\ \A p \in Processes : proc[p].locks \subseteq Made /\ OneEach(proc[p].locks)
         /\ \A ls, ks : OneEach(ls) /\ ks \subseteq ls => OneEach(ks)
         /\ OneEach({})
<1>1. \A p \in Processes : Copy(proc[p])
  BY FilesAre
<1>. QED
  BY <1>1, FilesAre DEF LockTypes, Copy, OneEach, Made

\* The tables of locks and of tasks keep their types while the requests change.
LEMMA TablesStay ==
  ASSUME FilesInv, UNCHANGED <<locks, lock, dead, granted, tasks, created>>
  PROVE  /\ LockTypes' /\ SoundTable(tasks)' /\ created' \subseteq Tasks
         /\ Made' = Made /\ \A l \in Made : lock'[l] = lock[l]
<1>1. Made' = Made /\ OneEach(locks)'
  BY PartsOneEach DEF Made, OneEach
<1>2. SoundTable(tasks)'
  BY FilesAre DEF SoundTable, ListedIn
<1>. QED
  BY <1>1, <1>2, FilesAre DEF LockTypes

LEMMA NoticeCounted ==
  ASSUME faults \in 0..MaxFaults, Files!Fault
  PROVE  faults' \in 0..MaxFaults
BY SharingConstants DEF Files!Fault

-----------------------------------------------------------------------------
(* FileServices: the steps of confirmations.                               *)

\* What they have in common: only requests that were made are in the files and copies.
LEMMA ConfirmKeeps ==
  ASSUME FilesInv, NEW p \in Processes, NEW c, proc' = [proc EXCEPT ![p] = c],
         Copy(c)', c.pc \notin WithLocks, proc[p].pc \notin WritingLocks,
         UNCHANGED <<locks, lock, dead, granted, tasks, created>>,
         asked \subseteq asked', asked' \subseteq Requests, waiting' \subseteq asked',
         expired' \subseteq asked', history' \subseteq asked' \X Outcomes,
         told' \subseteq asked' \X Notices, faults' \in 0..MaxFaults,
         exposed \subseteq exposed', blank' \subseteq Processes,
         \A q \in blank : q # p /\ proc[q].pc \in WritingLocks => q \in blank'
  PROVE  FilesInv'
<1>1. c \in Command
  BY DEF Copy
<1>2. /\ LockTypes' /\ SoundTable(tasks)' /\ created' \subseteq Tasks
      /\ Made' = Made /\ \A l \in Made : lock'[l] = lock[l]
  BY TablesStay
<1>3. Copies'
  BY <1>2, FilesAre, CopiesMove
<1>4. Kept'
  BY <1>1, KeptStays
<1>5. FileTypes'
  BY <1>2 DEF FileTypes
<1>. QED
  BY <1>3, <1>4, <1>5 DEF FilesInv

\* The steps that settle requests do not write the table of locks.
LEMMA ConfirmWrites ==
  ASSUME FilesInv, NEW p \in Processes,
         \/ Files!ReadsFile(Files!WritesPending) \/ Files!Truncates(p, Files!WritesPending)
         \/ Files!ReadsFile(Files!WritesHistory) \/ Files!Truncates(p, Files!WritesHistory)
         \/ \E made : Files!Writes(p, Files!WritesPending, made)
         \/ \E made : Files!Writes(p, Files!WritesHistory, made)
  PROVE  /\ exposed \subseteq exposed' /\ blank' \subseteq Processes
         /\ \A q \in blank : q # p /\ proc[q].pc \in WritingLocks => q \in blank'
<1>1. \A pc \in WritingLocks : pc \notin Files!WritesPending \union Files!WritesHistory
  BY DEF WritingLocks, Files!WritesPending, Files!WritesHistory
<1>2. PICK writing \in {Files!WritesPending, Files!WritesHistory} :
        \/ Files!ReadsFile(writing) \/ Files!Truncates(p, writing)
        \/ \E made : Files!Writes(p, writing, made)
  OBVIOUS
<1>3. /\ exposed \subseteq exposed' /\ blank' \subseteq Processes
      /\ \A q \in blank : proc[q].pc \notin writing => q \in blank'
  BY <1>2, FilesAre, Overlaps
<1>. QED
  BY <1>1, <1>2, <1>3

LEMMA AskLoadsKeeps ==
  ASSUME FilesInv, NEW p \in Processes, NEW r \in Requests, Files!AskLoads(p, r)
  PROVE  FilesInv'
<1>1. /\ asked' = asked \union {r} /\ proc[p].pc = "idle" /\ Files!ReadsFile(Files!WritesPending)
      /\ proc' = [proc EXCEPT ![p] = [Files!Idle EXCEPT !.pc = "ask", !.arg = r,
                                                        !.pending = waiting]]
      /\ UNCHANGED <<waiting, history, expired, told, locks, lock, dead, granted, tasks, created,
                     faults>>
  BY DEF Files!AskLoads, Files!Begins, Files!table, Files!dispatch
<1>2. PICK c \in Command :
        /\ proc' = [proc EXCEPT ![p] = c] /\ c.pc = "ask" /\ c.arg = r /\ c.pending = waiting
        /\ c.late = {} /\ c.history = {} /\ c.untold = {} /\ c.locks = {} /\ c.tasks = {}
  <2>. DEFINE c == [Files!Idle EXCEPT !.pc = "ask", !.arg = r, !.pending = waiting]
  <2>1. /\ c \in Command /\ c.pc = "ask" /\ c.arg = r /\ c.pending = waiting /\ c.late = {}
        /\ c.history = {} /\ c.untold = {} /\ c.locks = {} /\ c.tasks = {}
    BY FilesAre DEF Files!Idle, Command
  <2>. HIDE DEF c
  <2>. QED
    BY <1>1, <2>1 DEF c
<1>3. Copy(c)'
  BY <1>1, <1>2, FilesAre DEF Copy, OneEach, SoundTable, ListedIn
<1>4. /\ waiting' \subseteq asked' /\ expired' \subseteq asked' /\ asked' \subseteq Requests
      /\ history' \subseteq asked' \X Outcomes /\ told' \subseteq asked' \X Notices
      /\ asked \subseteq asked'
  BY <1>1, FilesAre
<1>. QED
  BY <1>1, <1>2, <1>3, <1>4, FilesAre, ConfirmKeeps, ConfirmWrites DEF WithLocks, WritingLocks

\* A command that answers a request, or looks for late ones.
LEMMA ConfirmLoadsKeeps ==
  ASSUME FilesInv, NEW p \in Processes,
         Files!CheckTimeouts(p) \/ \E r \in Requests : Files!ReplyLoads(p, r)
  PROVE  FilesInv'
<1>1. /\ proc[p].pc = "idle" /\ Files!ReadsFile(Files!WritesPending)
      /\ UNCHANGED <<waiting, history, asked, expired, told, locks, lock, dead, granted, tasks,
                     created, faults>>
  BY DEF Files!CheckTimeouts, Files!ReplyLoads, Files!Begins, Files!confirms, Files!table,
         Files!dispatch
<1>2. PICK c \in Command :
        /\ proc' = [proc EXCEPT ![p] = c] /\ c.pending = waiting /\ c.history = {}
        /\ c.untold \subseteq c.late /\ c.locks = {} /\ c.tasks = {}
        /\ \/ c.pc = "reply" /\ c.arg \in waiting /\ c.late = {}
           \/ c.pc = "check" /\ c.late \subseteq waiting
  <2>1. ASSUME NEW r \in Requests, Files!ReplyLoads(p, r)
        PROVE  \E c \in Command :
                 /\ proc' = [proc EXCEPT ![p] = c] /\ c.pending = waiting /\ c.history = {}
                 /\ c.untold \subseteq c.late /\ c.locks = {} /\ c.tasks = {}
                 /\ c.pc = "reply" /\ c.arg \in waiting /\ c.late = {}
    <3>. DEFINE c == [Files!Idle EXCEPT !.pc = "reply", !.arg = r, !.pending = waiting]
    <3>1. /\ c \in Command /\ c.pc = "reply" /\ c.arg = r /\ c.pending = waiting /\ c.late = {}
          /\ c.history = {} /\ c.untold = {} /\ c.locks = {} /\ c.tasks = {}
      BY FilesAre DEF Files!Idle, Command
    <3>2. proc' = [proc EXCEPT ![p] = c] /\ r \in waiting
      BY <2>1 DEF Files!ReplyLoads, Files!Begins
    <3>. HIDE DEF c
    <3>. QED
      BY <3>1, <3>2
  <2>2. ASSUME Files!CheckTimeouts(p)
        PROVE  \E c \in Command :
                 /\ proc' = [proc EXCEPT ![p] = c] /\ c.pending = waiting /\ c.history = {}
                 /\ c.untold \subseteq c.late /\ c.locks = {} /\ c.tasks = {}
                 /\ c.pc = "check" /\ c.late \subseteq waiting
    <3>. DEFINE late == waiting \intersect expired
                untold == {r \in late : Fallback[r] # "wait"}
                c == [Files!Idle EXCEPT !.pc = "check", !.pending = waiting, !.late = late,
                                        !.untold = untold]
    <3>1. late \subseteq waiting /\ untold \subseteq late /\ waiting \subseteq Requests
      BY FilesAre
    <3>2. proc' = [proc EXCEPT ![p] = c]
      BY <2>2 DEF Files!CheckTimeouts, Files!Begins
    <3>. HIDE DEF late, untold
    <3>3. /\ c \in Command /\ c.pc = "check" /\ c.pending = waiting /\ c.late = late
          /\ c.history = {} /\ c.untold = untold /\ c.locks = {} /\ c.tasks = {}
      BY <3>1 DEF Files!Idle, Command
    <3>. HIDE DEF c
    <3>. QED
      BY <3>1, <3>2, <3>3
  <2>. QED
    BY <2>1, <2>2
<1>3. Copy(c)'
  BY <1>1, <1>2, FilesAre DEF Copy, OneEach, SoundTable, ListedIn
<1>. QED
  BY <1>1, <1>2, <1>3, FilesAre, ConfirmKeeps, ConfirmWrites DEF WithLocks, WritingLocks

\* A command that goes on with the copies that it has, or with a new one of the history.
LEMMA ConfirmGoesOn ==
  ASSUME FilesInv, NEW p \in Processes,
         Files!LoadHistory(p) \/ Files!EmptyPending(p) \/ Files!EmptyHistory(p)
  PROVE  FilesInv'
<1>. DEFINE a == proc[p]
<1>1. /\ \/ Files!ReadsFile(Files!WritesHistory) \/ Files!Truncates(p, Files!WritesPending)
         \/ Files!Truncates(p, Files!WritesHistory)
      /\ waiting' \in {waiting, {}} /\ history' \in {history, {}}
      /\ UNCHANGED <<asked, expired, told, locks, lock, dead, granted, tasks, created, faults>>
  BY DEF Files!LoadHistory, Files!EmptyPending, Files!EmptyHistory, Files!confirms, Files!table,
         Files!dispatch
<1>2. a \in Command /\ Copy(a) /\ history \in SUBSET (Requests \X Outcomes)
  BY FilesAre
<1>3. PICK c \in Command :
        /\ proc' = [proc EXCEPT ![p] = c] /\ c.history \in {a.history, history}
        /\ c.arg = a.arg /\ c.pending = a.pending /\ c.late = a.late /\ c.untold = a.untold
        /\ c.locks = a.locks /\ c.tasks = a.tasks
        /\ <<a.pc, c.pc>> \in {<<"reply", "replied">>, <<"check", "checked">>,
                               <<"ask", "asking">>, <<"noted", "removing">>,
                               <<"over", "clearing">>, <<"replied", "noting">>,
                               <<"checked", "recording">>}
  <2>1. CASE Files!LoadHistory(p)
    <3>. DEFINE pc == IF a.pc = "reply" THEN "replied" ELSE "checked"
                c == [a EXCEPT !.history = history, !.pc = pc]
    <3>1. /\ a.pc \in {"reply", "check"} /\ proc' = [proc EXCEPT ![p] = c]
      BY <2>1 DEF Files!LoadHistory, Files!Continues
    <3>. HIDE DEF pc
    <3>2. /\ c \in Command /\ c.history = history /\ c.arg = a.arg /\ c.pending = a.pending
          /\ c.late = a.late /\ c.untold = a.untold /\ c.locks = a.locks /\ c.tasks = a.tasks
          /\ c.pc = pc
      <4>1. pc \in {"replied", "checked"}
        BY DEF pc
      <4>. QED
        BY <1>2, <4>1 DEF Command
    <3>. HIDE DEF c, a
    <3>3. <<a.pc, c.pc>> \in {<<"reply", "replied">>, <<"check", "checked">>}
      BY <3>1, <3>2 DEF pc
    <3>. QED
      BY <3>1, <3>2, <3>3
  <2>2. ASSUME NEW pc, proc' = [proc EXCEPT ![p] = [a EXCEPT !.pc = pc]],
               <<a.pc, pc>> \in {<<"ask", "asking">>, <<"noted", "removing">>,
                                 <<"over", "clearing">>, <<"replied", "noting">>,
                                 <<"checked", "recording">>}
        PROVE  \E c \in Command :
                 /\ proc' = [proc EXCEPT ![p] = c] /\ c.history = a.history
                 /\ c.arg = a.arg /\ c.pending = a.pending /\ c.late = a.late
                 /\ c.untold = a.untold /\ c.locks = a.locks /\ c.tasks = a.tasks
                 /\ c.pc = pc
    <3>. DEFINE c == [a EXCEPT !.pc = pc]
    <3>1. /\ c \in Command /\ c.history = a.history /\ c.arg = a.arg /\ c.pending = a.pending
          /\ c.late = a.late /\ c.untold = a.untold /\ c.locks = a.locks /\ c.tasks = a.tasks
          /\ c.pc = pc
      BY <1>2, <2>2 DEF Command
    <3>. HIDE DEF c
    <3>. QED
      BY <2>2, <3>1 DEF c
  <2>3. CASE Files!EmptyPending(p)
    <3>1. a.pc = "ask" => proc' = [proc EXCEPT ![p] = [a EXCEPT !.pc = "asking"]]
      BY <2>3 DEF Files!EmptyPending, Files!Continues
    <3>2. a.pc = "noted" => proc' = [proc EXCEPT ![p] = [a EXCEPT !.pc = "removing"]]
      BY <2>3 DEF Files!EmptyPending, Files!Continues
    <3>3. a.pc = "over" => proc' = [proc EXCEPT ![p] = [a EXCEPT !.pc = "clearing"]]
      BY <2>3 DEF Files!EmptyPending, Files!Continues
    <3>4. a.pc \in {"ask", "noted", "over"}
      BY <2>3 DEF Files!EmptyPending
    <3>. HIDE DEF a
    <3>. QED
      BY <2>2, <3>1, <3>2, <3>3, <3>4
  <2>4. CASE Files!EmptyHistory(p)
    <3>1. a.pc = "replied" => proc' = [proc EXCEPT ![p] = [a EXCEPT !.pc = "noting"]]
      BY <2>4 DEF Files!EmptyHistory, Files!Continues
    <3>2. a.pc = "checked" => proc' = [proc EXCEPT ![p] = [a EXCEPT !.pc = "recording"]]
      BY <2>4 DEF Files!EmptyHistory, Files!Continues
    <3>3. a.pc \in {"replied", "checked"}
      BY <2>4 DEF Files!EmptyHistory
    <3>. HIDE DEF a
    <3>. QED
      BY <2>2, <3>1, <3>2, <3>3
  <2>. QED
    BY <2>1, <2>3, <2>4
<1>. HIDE DEF a
<1>4. Copy(c)
  BY <1>2, <1>3, FilesAre DEF Copy
<1>5. Copy(c)'
  <2>1. Made' = Made /\ \A l \in Made : lock'[l] = lock[l]
    BY <1>1, TablesStay
  <2>. QED
    BY <1>1, <1>4, <2>1, CopiesGrow
<1>6. c.pc \notin WithLocks /\ a.pc \notin WritingLocks
  BY <1>3 DEF WithLocks, WritingLocks
<1>7. /\ exposed \subseteq exposed' /\ blank' \subseteq Processes
      /\ \A q \in blank : q # p /\ proc[q].pc \in WritingLocks => q \in blank'
  BY <1>1, ConfirmWrites
<1>8. waiting' \subseteq asked /\ history' \subseteq asked \X Outcomes
  BY <1>1, FilesAre
<1>. QED
  BY <1>1, <1>3, <1>5, <1>6, <1>7, <1>8, FilesAre, ConfirmKeeps DEF a

\* What is written is a sound copy, changed, or nothing that parses.
LEMMA ConfirmSaves ==
  ASSUME FilesInv, NEW p \in Processes,
         Files!AskSaves(p) \/ Files!SaveHistory(p) \/ Files!SavePending(p)
  PROVE  FilesInv'
<1>. DEFINE a == proc[p]
<1>1. /\ \/ \E made : Files!Writes(p, Files!WritesPending, made)
         \/ \E made : Files!Writes(p, Files!WritesHistory, made)
      /\ UNCHANGED <<asked, expired, told, locks, lock, dead, granted, tasks, created, faults>>
  BY DEF Files!AskSaves, Files!SaveHistory, Files!SavePending, Files!table, Files!dispatch
<1>2. a \in Command /\ Copy(a)
  BY FilesAre
<1>3. /\ a.pc \in {"asking", "noting", "recording", "removing", "clearing"}
      /\ waiting' \subseteq asked /\ history' \subseteq asked \X Outcomes
  <2>1. CASE Files!AskSaves(p)
    <3>1. a.arg \in asked /\ a.pending \subseteq asked
      BY <1>2, <2>1 DEF Copy, Files!AskSaves
    <3>. QED
      BY <2>1, <3>1, FilesAre DEF Files!AskSaves, Files!Written
  <2>2. CASE Files!SaveHistory(p)
    <3>1. a.pc \in {"noting", "recording"}
      BY <2>2 DEF Files!SaveHistory, Files!WritesHistory
    <3>2. Files!About(p) \subseteq asked
      BY <1>2, <3>1 DEF Copy, Files!About
    <3>3. Files!Settled(p) \subseteq asked \X Outcomes
      BY <3>2 DEF Files!Settled, Outcomes
    <3>4. a.history \subseteq asked \X Outcomes
      BY <1>2 DEF Copy
    <3>. QED
      BY <2>2, <3>1, <3>3, <3>4, FilesAre DEF Files!SaveHistory, Files!Written
  <2>3. CASE Files!SavePending(p)
    <3>1. a.pending \subseteq asked
      BY <1>2 DEF Copy
    <3>. QED
      BY <2>3, <3>1, FilesAre DEF Files!SavePending, Files!Written, Files!Remaining
  <2>. QED
    BY <2>1, <2>2, <2>3
<1>4. PICK c \in Command : proc' = [proc EXCEPT ![p] = c] /\ Copy(c) /\ c.pc \notin WithLocks
  <2>1. Copy(Files!Idle) /\ Files!Idle \in Command /\ Files!Idle.pc \notin WithLocks
    BY IdleIs DEF WithLocks
  <2>2. CASE proc' = [proc EXCEPT ![p] = Files!Idle]
    BY <2>1, <2>2
  <2>3. CASE Files!SavePending(p) /\ proc' # [proc EXCEPT ![p] = Files!Idle]
    <3>. DEFINE c == [Files!Idle EXCEPT !.pc = "tell", !.arg = a.arg]
    <3>1. a.pc = "removing" /\ proc' = [proc EXCEPT ![p] = c]
      BY <2>3 DEF Files!SavePending, Files!Ends, Files!Continues
    <3>2. a.arg \in Requests \union Locks \union Tasks \union {0} /\ a.arg \in asked
      BY <1>2, <3>1 DEF Command, Copy
    <3>. HIDE DEF a
    <3>3. /\ c \in Command /\ c.pc = "tell" /\ c.arg = a.arg /\ c.pending = {} /\ c.late = {}
          /\ c.history = {} /\ c.untold = {} /\ c.locks = {} /\ c.tasks = {}
      BY <3>2 DEF Files!Idle, Command
    <3>. HIDE DEF c
    <3>4. Copy(c)
      BY <3>2, <3>3 DEF Copy, OneEach, SoundTable, ListedIn
    <3>. QED
      BY <3>1, <3>3, <3>4 DEF WithLocks
  <2>4. CASE Files!SaveHistory(p)
    <3>. DEFINE pc == IF a.pc = "noting" THEN "noted" ELSE "over"
                c == [a EXCEPT !.history = {}, !.pc = pc]
    <3>1. a.pc \in {"noting", "recording"} /\ proc' = [proc EXCEPT ![p] = c]
      BY <2>4 DEF Files!SaveHistory, Files!Continues, Files!WritesHistory
    <3>. HIDE DEF a, pc
    <3>2. /\ c \in Command /\ c.history = {} /\ c.arg = a.arg /\ c.pending = a.pending
          /\ c.late = a.late /\ c.untold = a.untold /\ c.locks = a.locks /\ c.tasks = a.tasks
          /\ c.pc = pc
      <4>1. pc \in {"noted", "over"}
        BY DEF pc
      <4>. QED
        BY <1>2, <4>1 DEF Command
    <3>3. <<a.pc, pc>> \in {<<"noting", "noted">>, <<"recording", "over">>}
      BY <3>1 DEF pc
    <3>. HIDE DEF c
    <3>4. Copy(c)
      BY <1>2, <3>2, <3>3 DEF Copy
    <3>. QED
      BY <3>1, <3>2, <3>3, <3>4 DEF WithLocks
  <2>. QED
    BY <2>2, <2>3, <2>4 DEF Files!AskSaves, Files!Ends, Files!Continues
<1>5. Copy(c)'
  <2>1. Made' = Made /\ \A l \in Made : lock'[l] = lock[l]
    BY <1>1, TablesStay
  <2>. QED
    BY <1>1, <1>4, <2>1, CopiesGrow
<1>6. a.pc \notin WritingLocks
  BY <1>3 DEF WritingLocks
<1>7. /\ exposed \subseteq exposed' /\ blank' \subseteq Processes
      /\ \A q \in blank : q # p /\ proc[q].pc \in WritingLocks => q \in blank'
  BY <1>1, ConfirmWrites
<1>. QED
  BY <1>1, <1>3, <1>4, <1>5, <1>6, <1>7, FilesAre, ConfirmKeeps

\* What was made is all that an agent is told of.
LEMMA TellsKeeps ==
  ASSUME FilesInv, NEW p \in Processes,
         Files!ReplyTells(p) \/ \E r \in Requests : Files!CheckTells(p, r)
  PROVE  FilesInv'
<1>. DEFINE a == proc[p]
<1>1. UNCHANGED <<waiting, history, asked, expired, locks, lock, dead, granted, tasks, created,
                  blank, exposed>>
  BY DEF Files!ReplyTells, Files!CheckTells, Files!table, Files!dispatch
<1>2. a \in Command /\ Copy(a)
  BY FilesAre
<1>3. a.pc \in {"tell", "check"} /\ told' \subseteq asked \X Notices /\ faults' \in 0..MaxFaults
  <2>1. CASE Files!ReplyTells(p)
    <3>1. a.pc = "tell" /\ a.arg \in asked
      BY <1>2, <2>1 DEF Files!ReplyTells, Copy
    <3>2. \/ told' = told \union {<<a.arg, "answered">>} /\ UNCHANGED faults
          \/ Files!Fault /\ UNCHANGED told
      BY <2>1 DEF Files!ReplyTells
    <3>. QED
      BY <3>1, <3>2, FilesAre, NoticeCounted DEF Notices
  <2>2. ASSUME NEW r \in Requests, Files!CheckTells(p, r)
        PROVE  a.pc = "check" /\ told' \subseteq asked \X Notices /\ faults' \in 0..MaxFaults
    <3>1. a.pc = "check" /\ r \in asked
      BY <1>2, <2>2 DEF Files!CheckTells, Copy
    <3>2. \/ told' = told \union {<<r, "timeout">>} /\ UNCHANGED faults
          \/ Files!Fault /\ UNCHANGED told
      BY <2>2 DEF Files!CheckTells
    <3>. QED
      BY <3>1, <3>2, FilesAre, NoticeCounted DEF Notices
  <2>. QED
    BY <2>1, <2>2
<1>4. PICK c \in Command : proc' = [proc EXCEPT ![p] = c] /\ Copy(c) /\ c.pc \notin WithLocks
  <2>1. CASE Files!ReplyTells(p)
    BY <2>1, IdleIs DEF Files!ReplyTells, Files!Ends, Files!Continues, WithLocks
  <2>2. ASSUME NEW r \in Requests, Files!CheckTells(p, r)
        PROVE  \E c \in Command : proc' = [proc EXCEPT ![p] = c] /\ Copy(c) /\ c.pc \notin WithLocks
    <3>. DEFINE c == [a EXCEPT !.untold = @ \ {r}]
    <3>1. a.pc = "check" /\ proc' = [proc EXCEPT ![p] = c]
      BY <2>2 DEF Files!CheckTells, Files!Continues
    <3>. HIDE DEF a
    <3>2. /\ c \in Command /\ c.pc = a.pc /\ c.history = a.history /\ c.arg = a.arg
          /\ c.pending = a.pending /\ c.late = a.late /\ c.untold \subseteq a.untold
          /\ c.locks = a.locks /\ c.tasks = a.tasks
      BY <1>2 DEF Command
    <3>. HIDE DEF c
    <3>3. Copy(c)
      BY <1>2, <3>1, <3>2 DEF Copy
    <3>. QED
      BY <3>1, <3>2, <3>3 DEF WithLocks
  <2>. QED
    BY <2>1, <2>2
<1>5. Copy(c)'
  <2>1. Made' = Made /\ \A l \in Made : lock'[l] = lock[l]
    BY <1>1, TablesStay
  <2>. QED
    BY <1>1, <1>4, <2>1, CopiesGrow
<1>6. a.pc \notin WritingLocks
  BY <1>3 DEF WritingLocks
<1>. QED
  BY <1>1, <1>3, <1>4, <1>5, <1>6, FilesAre, ConfirmKeeps

-----------------------------------------------------------------------------
(* FileServices: the steps of locks.                                       *)

\* What they have in common: no lock that was made is changed.
LEMMA LocksMove ==
  ASSUME FilesInv, NEW p \in Processes, NEW c, proc' = [proc EXCEPT ![p] = c], Copy(c),
         UNCHANGED <<waiting, history, asked, expired, told, tasks, created, faults>>,
         lock' \in [Locks -> [path : Paths \union {"none"},
                              holder : Processes \union {"none"}]],
         Made \subseteq Made', \A l \in Made : lock'[l] = lock[l],
         locks' \subseteq Made', OneEach(locks)', dead' \subseteq Locks,
         granted' \subseteq Made', blank' \subseteq Processes, Kept'
  PROVE  FilesInv'
<1>1. Copy(c)'
  BY CopiesGrow
<1>2. Copies'
  BY <1>1, FilesAre, CopiesMove
<1>3. SoundTable(tasks)'
  BY FilesAre DEF SoundTable, ListedIn
<1>4. FileTypes'
  BY <1>3, FilesAre DEF FileTypes, LockTypes
<1>. QED
  BY <1>2, <1>4 DEF FilesInv

\* Who loads or empties the table while it is written loses all that was sure.
LEMMA MetLost ==
  ASSUME FilesInv, Files!Meets(Files!WritesLocks), UNCHANGED <<granted, dead>>,
         NEW q \in Processes, proc[q].pc \in WritingLocks
  PROVE  Sure' = {}
<1>1. q \in Files!Writers(Files!WritesLocks)
  BY DEF Files!Writers, Files!WritesLocks, WritingLocks
<1>2. exposed' = exposed \union Files!Made
  BY <1>1 DEF Files!Meets
<1>3. Made \subseteq Files!Made
  BY DEF Made, Files!Made
<1>. QED
  BY <1>2, <1>3, PartsOneEach DEF Sure

LEMMA MetKept ==
  ASSUME FilesInv, Files!Meets(Files!WritesLocks),
         \A q \in Processes : proc[q].pc \notin WritingLocks
  PROVE  exposed' = exposed /\ Files!Writers(Files!WritesLocks) = {}
BY DEF Files!Meets, Files!Writers, Files!WritesLocks, WritingLocks

\* A table is copied as it is, or without the locks that have expired.
LEMMA LocksLoad ==
  ASSUME FilesInv, NEW p \in Processes,
         \/ \E f \in Paths : Files!LockLoads(p, f)
         \/ \E l \in Locks : Files!ReleaseLoads(p, l)
  PROVE  FilesInv'
<1>1. /\ proc[p].pc = "idle" /\ Files!ReadsFile(Files!WritesLocks)
      /\ UNCHANGED <<waiting, history, asked, expired, told, locks, lock, dead, granted, tasks,
                     created, faults>>
  BY DEF Files!LockLoads, Files!ReleaseLoads, Files!Begins, Files!confirms, Files!table,
         Files!dispatch
<1>2. PICK c \in Command :
        /\ proc' = [proc EXCEPT ![p] = c] /\ c.pc \in {"acquire", "release"}
        /\ c.locks \subseteq locks /\ locks \ dead \subseteq c.locks
        /\ c.pending = {} /\ c.late = {} /\ c.history = {} /\ c.untold = {} /\ c.tasks = {}
  <2>1. ASSUME NEW f \in Paths, Files!LockLoads(p, f)
        PROVE  \E c \in Command :
                 /\ proc' = [proc EXCEPT ![p] = c] /\ c.pc = "acquire" /\ c.locks = locks \ dead
                 /\ c.pending = {} /\ c.late = {} /\ c.history = {} /\ c.untold = {}
                 /\ c.tasks = {}
    <3>. DEFINE live == locks \ dead
                c == [Files!Idle EXCEPT !.pc = "acquire", !.path = f, !.locks = live]
    <3>1. proc' = [proc EXCEPT ![p] = c]
      BY <2>1 DEF Files!LockLoads, Files!Begins
    <3>2. live \subseteq Locks
      BY PartsOneEach
    <3>. HIDE DEF live
    <3>3. /\ c \in Command /\ c.pc = "acquire" /\ c.locks = live /\ c.pending = {} /\ c.late = {}
          /\ c.history = {} /\ c.untold = {} /\ c.tasks = {}
      BY <3>2 DEF Files!Idle, Command
    <3>. HIDE DEF c
    <3>. QED
      BY <3>1, <3>3 DEF live
  <2>2. ASSUME NEW l \in Locks, Files!ReleaseLoads(p, l)
        PROVE  \E c \in Command :
                 /\ proc' = [proc EXCEPT ![p] = c] /\ c.pc = "release" /\ c.locks = locks
                 /\ c.pending = {} /\ c.late = {} /\ c.history = {} /\ c.untold = {}
                 /\ c.tasks = {}
    <3>. DEFINE c == [Files!Idle EXCEPT !.pc = "release", !.arg = l, !.locks = locks]
    <3>1. proc' = [proc EXCEPT ![p] = c]
      BY <2>2 DEF Files!ReleaseLoads, Files!Begins
    <3>2. /\ c \in Command /\ c.pc = "release" /\ c.locks = locks /\ c.pending = {} /\ c.late = {}
          /\ c.history = {} /\ c.untold = {} /\ c.tasks = {}
      BY PartsOneEach DEF Files!Idle, Command
    <3>. HIDE DEF c
    <3>. QED
      BY <3>1, <3>2
  <2>. QED
    BY <2>1, <2>2
<1>3. Copy(c)
  <2>1. c.locks \subseteq Made /\ OneEach(c.locks)
    BY <1>2, PartsOneEach
  <2>. QED
    BY <1>2, <2>1 DEF Copy, SoundTable, ListedIn
<1>4. Made' = Made /\ OneEach(locks)'
  BY <1>1, PartsOneEach DEF Made, OneEach
<1>5. proc'[p] = c /\ \A q \in Processes : q # p => proc'[q] = proc[q]
  BY <1>2, FilesAre DEF Copies
<1>6. Files!Meets(Files!WritesLocks) /\ blank' = blank
  BY <1>1 DEF Files!ReadsFile
<1>7. Kept'
  <2>1. CASE \E q \in Processes : proc[q].pc \in WritingLocks
    BY <1>1, <1>6, <2>1, MetLost, NothingKept
  <2>2. CASE \A q \in Processes : proc[q].pc \notin WritingLocks
    <3>1. Sure' = Sure /\ Sure \subseteq locks \ dead
      BY <1>1, <1>6, <2>2, MetKept DEF Sure, FilesInv, Kept
    <3>2. \A q \in Processes : proc'[q].pc \notin WritingLocks
      BY <1>2, <1>5, <2>2 DEF WritingLocks
    <3>3. \A q \in Processes : proc'[q].pc \in WithLocks => Sure \subseteq proc'[q].locks
      BY <1>2, <1>5, <3>1 DEF FilesInv, Kept
    <3>. QED
      BY <1>1, <3>1, <3>2, <3>3 DEF Kept
  <2>. QED
    BY <2>1, <2>2
<1>. QED
  BY <1>1, <1>2, <1>3, <1>4, <1>6, <1>7, PartsOneEach, FilesAre, LocksMove

\* The first of those that empty the table has everything that is sure in its copy.
LEMMA LocksEmpty ==
  ASSUME FilesInv, NEW p \in Processes, Files!LockEmpties(p) \/ Files!ReleaseEmpties(p)
  PROVE  FilesInv'
<1>. DEFINE a == proc[p]
            pc == IF a.pc = "acquire" THEN "acquiring" ELSE "releasing"
            c == [a EXCEPT !.pc = pc]
<1>1. /\ a.pc \in {"acquire", "release"} /\ locks' = {} /\ Files!Truncates(p, Files!WritesLocks)
      /\ proc' = [proc EXCEPT ![p] = c]
      /\ UNCHANGED <<waiting, history, asked, expired, told, lock, dead, granted, tasks, created,
                     faults>>
  BY DEF Files!LockEmpties, Files!ReleaseEmpties, Files!Continues, Files!confirms, Files!dispatch
<1>2. a \in Command /\ Copy(a)
  BY FilesAre
<1>3. a.pc = proc[p].pc /\ a.locks = proc[p].locks
  OBVIOUS
<1>. HIDE DEF a
<1>4. /\ c \in Command /\ c.history = a.history /\ c.arg = a.arg /\ c.pending = a.pending
      /\ c.late = a.late /\ c.untold = a.untold /\ c.locks = a.locks /\ c.tasks = a.tasks
      /\ c.pc \in WritingLocks
  BY <1>1, <1>2 DEF Command, WritingLocks
<1>. HIDE DEF c
<1>5. Copy(c)
  BY <1>2, <1>4 DEF Copy, WritingLocks
<1>6. Made' = Made /\ OneEach(locks)' /\ locks' \subseteq Made'
  BY <1>1, PartsOneEach DEF Made, OneEach
<1>7. proc'[p] = c /\ \A q \in Processes : q # p => proc'[q] = proc[q]
  BY <1>1, FilesAre DEF Copies
<1>8. /\ Files!Meets(Files!WritesLocks) /\ blank' \subseteq Processes
      /\ blank' = blank \union Files!Writers(Files!WritesLocks) \union {p}
  BY <1>1, FilesAre DEF Files!Truncates, Files!Writers
<1>9. Kept'
  <2>1. CASE \E q \in Processes : proc[q].pc \in WritingLocks
    BY <1>1, <1>8, <2>1, MetLost, NothingKept
  <2>2. CASE \A q \in Processes : proc[q].pc \notin WritingLocks
    <3>1. Sure' = Sure
      BY <1>1, <1>8, <2>2, MetKept DEF Sure
    <3>2. \A q \in Processes : proc'[q].pc \in WritingLocks => q = p
      BY <1>7, <2>2
    <3>3. \A q \in Processes : proc'[q].pc \in WithLocks => Sure \subseteq proc'[q].locks
      <4>1. a.pc \in WithLocks
        BY <1>1 DEF WithLocks
      <4>. QED
        BY <1>3, <1>4, <1>7, <4>1 DEF FilesInv, Kept
    <3>. QED
      BY <1>4, <1>7, <1>8, <3>1, <3>2, <3>3 DEF Kept
  <2>. QED
    BY <2>1, <2>2
<1>. QED
  BY <1>1, <1>5, <1>6, <1>8, <1>9, PartsOneEach, FilesAre, LocksMove

\* Who writes its copy of the table loses nothing that is sure, unless it was its own.
LEMMA TableWritten ==
  ASSUME FilesInv, NEW p \in Processes, NEW copy, NEW made,
         proc[p].pc \in WritingLocks, proc' = [proc EXCEPT ![p] = Files!Idle],
         locks' \in Files!Written(p, Files!WritesLocks, copy),
         Files!Writes(p, Files!WritesLocks, made),
         \A l \in granted' \ dead' : l \in made \/ l \in granted \ dead,
         \A l \in granted' \ dead' : l \in made \/ l \in proc[p].locks => l \in copy
  PROVE  Kept' /\ blank' \subseteq Processes
<1>1. /\ proc'[p].pc = "idle" /\ \A q \in Processes : q # p => proc'[q] = proc[q]
      /\ blank' = blank \ Files!Writers(Files!WritesLocks) /\ Files!Exposes(p, made)
  BY IdleIs, FilesAre DEF Copies, Files!Writes
<1>2. Sure \subseteq proc[p].locks
  BY DEF FilesInv, Kept, WithLocks, WritingLocks
<1>3. p \in blank => locks' = copy
  BY DEF Files!Written
<1>4. CASE Files!Alone(p) /\ p \in blank
  <2>1. Sure' \subseteq Sure \union made /\ Sure' \subseteq locks'
    BY <1>1, <1>2, <1>3, <1>4 DEF Sure, Files!Exposes
  <2>2. \A q \in Processes : proc'[q].pc = "idle"
    BY <1>1, <1>4 DEF Files!Alone
  <2>. QED
    BY <1>1, <2>1, <2>2, FilesAre DEF Kept, WithLocks, WritingLocks
<1>5. CASE ~(Files!Alone(p) /\ p \in blank)
  <2>1. Sure' \subseteq Sure /\ \A l \in Sure' : l \in proc[p].locks => l \in copy
    BY <1>1, <1>5 DEF Sure, Files!Exposes
  <2>2. CASE Sure = {}
    BY <1>1, <2>1, <2>2, FilesAre, NothingKept
  <2>3. CASE Sure # {}
    <3>1. p \in blank /\ \A q \in Processes : proc[q].pc \in WritingLocks => q = p
      BY <2>3 DEF FilesInv, Kept
    <3>2. \A q \in Processes : proc'[q].pc \notin WritingLocks
      BY <1>1, <3>1 DEF WritingLocks
    <3>3. Sure' \subseteq locks'
      BY <1>2, <1>3, <2>1, <3>1
    <3>4. \A q \in Processes : proc'[q].pc \in WithLocks => Sure' \subseteq proc'[q].locks
      BY <1>1, <2>1 DEF FilesInv, Kept, WithLocks
    <3>. QED
      BY <1>1, <3>2, <3>3, <3>4, FilesAre DEF Kept
  <2>. QED
    BY <2>2, <2>3
<1>. QED
  BY <1>4, <1>5

\* A lock is made of a path that the copy has no lock of.
LEMMA LockSavesKeeps ==
  ASSUME FilesInv, NEW p \in Processes, Files!LockSaves(p)
  PROVE  FilesInv'
<1>. DEFINE a == proc[p]
<1>1. PICK l \in Locks :
        /\ lock[l] = Files!NoLock /\ lock' = [lock EXCEPT ![l] = [path |-> a.path, holder |-> p]]
        /\ locks' \in Files!Written(p, Files!WritesLocks, a.locks \union {l})
        /\ granted' = granted \union {l} /\ Files!Writes(p, Files!WritesLocks, {l})
  BY DEF Files!LockSaves
<1>2. /\ a.pc = "acquiring" /\ proc' = [proc EXCEPT ![p] = Files!Idle]
      /\ \A k \in a.locks : lock[k].path # a.path
      /\ UNCHANGED <<waiting, history, asked, expired, told, dead, tasks, created, faults>>
  BY DEF Files!LockSaves, Files!Free, Files!HoldersOf, Files!Ends, Files!Continues,
         Files!confirms, Files!dispatch
<1>3. a \in Command /\ a.locks \subseteq Made /\ OneEach(a.locks) /\ a.path \in Paths \union {"none"}
  <2>1. a \in Command
    BY FilesAre
  <2>. QED
    BY <2>1, PartsOneEach DEF Command
<1>4. locks' = a.locks \union {l} \/ locks' = {}
  BY <1>1 DEF Files!Written
<1>5. Kept' /\ blank' \subseteq Processes
  <2>1. PICK copy : copy = a.locks \union {l}
    OBVIOUS
  <2>2. a.pc \in WritingLocks
    BY <1>2 DEF WritingLocks
  <2>3. \A k \in granted' \ dead' : k \in {l} \/ k \in granted \ dead
    BY <1>1, <1>2
  <2>4. \A k \in granted' \ dead' : k \in {l} \/ k \in a.locks => k \in copy
    BY <2>1
  <2>. QED
    BY <1>1, <1>2, <2>1, <2>2, <2>3, <2>4, TableWritten
<1>. HIDE DEF a
<1>6. /\ lock' \in [Locks -> [path : Paths \union {"none"}, holder : Processes \union {"none"}]]
      /\ l \notin Made /\ l \in Made' /\ Made \subseteq Made'
      /\ lock'[l].path = a.path /\ \A k \in Made : lock'[k] = lock[k]
  <2>1. lock \in [Locks -> [path : Paths \union {"none"}, holder : Processes \union {"none"}]]
    BY PartsOneEach
  <2>2. /\ lock'[l] = [path |-> a.path, holder |-> p]
        /\ \A k \in Locks : k # l => lock'[k] = lock[k]
        /\ lock' \in [Locks -> [path : Paths \union {"none"}, holder : Processes \union {"none"}]]
    BY <1>1, <1>3, <2>1
  <2>3. lock'[l] # Files!NoLock /\ lock'[l].path = a.path
    BY <2>2, FilesConstants DEF Files!NoLock
  <2>. QED
    BY <1>1, <2>2, <2>3 DEF Made
<1>7. locks' \subseteq Made' /\ granted' \subseteq Made' /\ dead' \subseteq Locks
  BY <1>1, <1>2, <1>3, <1>4, <1>6, PartsOneEach
<1>8. OneEach(locks)'
  BY <1>2, <1>3, <1>4, <1>6 DEF OneEach
<1>. QED
  BY <1>2, <1>5, <1>6, <1>7, <1>8, IdleIs, LocksMove

\* What a command writes of the locks that there are, when it renews one or releases one.
LEMMA LocksWrite ==
  ASSUME FilesInv, NEW p \in Processes, Files!LockRenewed(p) \/ Files!ReleaseSaves(p)
  PROVE  FilesInv'
<1>. DEFINE a == proc[p]
            held == Files!HoldersOf(a.path, a.locks)
<1>1. /\ a.pc \in WritingLocks /\ proc' = [proc EXCEPT ![p] = Files!Idle]
      /\ UNCHANGED <<waiting, history, asked, expired, told, lock, tasks, created, faults>>
  BY DEF Files!LockRenewed, Files!ReleaseSaves, Files!Ends, Files!Continues, Files!confirms,
         Files!dispatch, WritingLocks
<1>2. PICK copy, made :
        /\ locks' \in Files!Written(p, Files!WritesLocks, copy) /\ copy \subseteq a.locks
        /\ Files!Writes(p, Files!WritesLocks, made)
        /\ \/ /\ copy = a.locks /\ made = held
              /\ dead' = dead \ held /\ granted' = granted \union held
           \/ /\ copy = a.locks \ {a.arg} /\ made = {} /\ dead' = dead
              /\ granted' = granted \ {a.arg}
  <2>1. CASE Files!LockRenewed(p)
    <3>1. /\ locks' \in Files!Written(p, Files!WritesLocks, a.locks)
          /\ Files!Writes(p, Files!WritesLocks, held)
          /\ dead' = dead \ held /\ granted' = granted \union held
      BY <2>1 DEF Files!LockRenewed
    <3>. HIDE DEF a, held
    <3>. QED
      BY <3>1
  <2>2. CASE Files!ReleaseSaves(p)
    <3>1. /\ locks' \in Files!Written(p, Files!WritesLocks, a.locks \ {a.arg})
          /\ Files!Writes(p, Files!WritesLocks, {})
          /\ dead' = dead /\ granted' = granted \ {a.arg}
      BY <2>2 DEF Files!ReleaseSaves
    <3>2. a.locks \ {a.arg} \subseteq a.locks
      OBVIOUS
    <3>. HIDE DEF a
    <3>. QED
      BY <3>1, <3>2
  <2>. QED
    BY <2>1, <2>2
<1>3. held \subseteq a.locks /\ a.locks \subseteq Made /\ OneEach(a.locks)
  BY PartsOneEach DEF Files!HoldersOf
<1>4. Kept' /\ blank' \subseteq Processes
  <2>1. \A k \in granted' \ dead' : k \in made \/ k \in granted \ dead
    BY <1>2
  <2>2. \A k \in granted' \ dead' : k \in made \/ k \in a.locks => k \in copy
    BY <1>2, <1>3
  <2>. QED
    BY <1>1, <1>2, <2>1, <2>2, TableWritten
<1>. HIDE DEF held, a
<1>5. Made' = Made /\ dead' \subseteq Locks /\ granted' \subseteq Made'
  <2>1. Made' = Made
    BY <1>1 DEF Made
  <2>. QED
    BY <1>2, <1>3, <2>1, PartsOneEach
<1>6. locks' \subseteq a.locks
  BY <1>2 DEF Files!Written
<1>7. OneEach(locks)'
  BY <1>1, <1>3, <1>6 DEF OneEach
<1>. QED
  BY <1>1, <1>3, <1>4, <1>5, <1>6, <1>7, PartsOneEach, IdleIs, LocksMove

LEMMA LockHeldKeeps ==
  ASSUME FilesInv, NEW p \in Processes, Files!LockHeld(p)
  PROVE  FilesInv'
<1>1. /\ proc' = [proc EXCEPT ![p] = Files!Idle] /\ proc[p].pc = "acquire"
      /\ UNCHANGED <<waiting, history, asked, expired, told, locks, lock, dead, granted, tasks,
                     created, faults, blank, exposed>>
  BY DEF Files!LockHeld, Files!Ends, Files!Continues, Files!confirms, Files!table,
         Files!dispatch
<1>2. Copy(Files!Idle)'
  <2>1. Made' = Made /\ \A l \in Made : lock'[l] = lock[l]
    BY <1>1, TablesStay
  <2>. QED
    BY <1>1, <2>1, IdleIs, CopiesGrow
<1>. QED
  BY <1>1, <1>2, IdleIs, FilesAre, ConfirmKeeps DEF WithLocks, WritingLocks

-----------------------------------------------------------------------------
(* FileServices: the steps of tasks.                                       *)

\* A subtask that is newer than the tasks of a sound table can be added to any of them.
LEMMA SubtasksSound ==
  ASSUME NEW ts, SoundTable(ts), NEW id \in Tasks, NEW parent,
         parent = 0 \/ \E t \in ts : t.id = parent, \A t \in created : t < id,
         created' = created \union {id}
  PROVE  SoundTable(Files!WithSubtask(id, parent, ts))'
<1>. DEFINE u(t) == IF t.id = parent THEN [t EXCEPT !.subtasks = @ \union {id}] ELSE t
            n == [id |-> id, parent |-> parent, subtasks |-> {}]
            added == Files!WithSubtask(id, parent, ts)
<1>1. /\ \A t \in ts : u(t) \in added
      /\ n \in added
      /\ \A x \in added : x = n \/ \E t \in ts : x = u(t)
  BY DEF Files!WithSubtask, Files!WithTask
<1>2. \A t \in ts : /\ t \in TaskRecord /\ u(t) \in TaskRecord
                    /\ u(t).id = t.id /\ u(t).parent = t.parent
                    /\ u(t).subtasks = IF t.id = parent THEN t.subtasks \union {id}
                                       ELSE t.subtasks
  BY DEF SoundTable, TaskRecord
<1>3. /\ n.id = id /\ n.parent = parent /\ n.subtasks = {} /\ n \in TaskRecord
      /\ parent < id
  <2>1. parent \in Tasks \union {0}
    BY <1>2 DEF TaskRecord
  <2>2. id \in Nat \ {0}
    BY FilesConstants
  <2>3. parent < id
    BY <2>2 DEF SoundTable
  <2>. QED
    BY <2>1, <2>3 DEF TaskRecord
<1>. HIDE DEF u, n, added
<1>4. added \subseteq TaskRecord /\ \A x \in added : x.id \in created' /\ x.parent < x.id
  <2>1. \A t \in ts : t.id \in created' /\ t.parent < t.id
    BY DEF SoundTable
  <2>2. \A t \in ts : u(t) \in TaskRecord /\ u(t).id \in created' /\ u(t).parent < u(t).id
    BY <1>2, <2>1
  <2>. QED
    BY <1>1, <1>3, <2>2
<1>5. ASSUME NEW x \in added, x.parent # 0
      PROVE  \E q \in added : q.id = x.parent /\ x.id \in q.subtasks
  <2>1. CASE x = n
    <3>1. PICK t \in ts : t.id = parent
      BY <1>3, <1>5, <2>1
    <3>2. u(t).id = parent /\ id \in u(t).subtasks
      BY <1>2, <3>1
    <3>3. u(t) \in added /\ x.parent = parent /\ x.id = id
      BY <1>1, <1>3, <2>1
    <3>. QED
      BY <3>2, <3>3
  <2>2. ASSUME NEW t \in ts, x = u(t) PROVE \E q \in added : q.id = x.parent /\ x.id \in q.subtasks
    <3>1. PICK q \in ts : q.id = t.parent /\ t.id \in q.subtasks
      BY <1>2, <1>5, <2>2 DEF SoundTable, ListedIn
    <3>. QED
      BY <1>1, <1>2, <2>2, <3>1
  <2>. QED
    BY <1>1, <2>1, <2>2
<1>6. ASSUME NEW x \in added, NEW i \in x.subtasks
      PROVE  \E q \in added : q.id = i /\ q.parent = x.id
  <2>1. PICK t \in ts : x = u(t)
    BY <1>1, <1>3, <1>6
  <2>2. CASE i \in t.subtasks
    <3>1. PICK q \in ts : q.id = i /\ q.parent = t.id
      BY <2>2 DEF SoundTable, ListedIn
    <3>. QED
      BY <1>1, <1>2, <2>1, <3>1
  <2>3. CASE i \notin t.subtasks
    <3>1. t.id = parent /\ i = id /\ x.id = parent
      BY <1>2, <1>6, <2>1, <2>3
    <3>. QED
      BY <1>1, <1>3, <3>1
  <2>. QED
    BY <2>2, <2>3
<1>. QED
  BY <1>4, <1>5, <1>6 DEF SoundTable, ListedIn, added

\* A step of a command on tasks leaves the other files alone.
LEMMA TasksMove ==
  ASSUME FilesInv, NEW p \in Processes, NEW c, proc' = [proc EXCEPT ![p] = c], Copy(c),
         c.pc \in {"idle", "task", "making"}, proc[p].pc \in {"idle", "task", "making"},
         UNCHANGED <<waiting, history, asked, expired, told, locks, lock, dead, granted, faults>>,
         SoundTable(tasks)', created \subseteq created', created' \subseteq Tasks,
         \/ Files!ReadsFile(Files!WritesTasks) \/ Files!Truncates(p, Files!WritesTasks)
         \/ \E made : Files!Writes(p, Files!WritesTasks, made)
  PROVE  FilesInv'
<1>1. Made' = Made /\ (\A l \in Made : lock'[l] = lock[l]) /\ OneEach(locks)'
  BY PartsOneEach DEF Made, OneEach
<1>2. Copies'
  <2>1. Copy(c)'
    BY <1>1, CopiesGrow
  <2>. QED
    BY <1>1, <2>1, FilesAre, CopiesMove
<1>3. /\ exposed \subseteq exposed' /\ blank' \subseteq Processes
      /\ \A q \in blank : q # p /\ proc[q].pc \in WritingLocks => q \in blank'
  <2>1. \A pc \in WritingLocks : pc \notin Files!WritesTasks
    BY DEF WritingLocks, Files!WritesTasks
  <2>. QED
    BY <2>1, FilesAre, Overlaps
<1>4. Kept'
  <2>1. c \in Command
    BY DEF Copy
  <2>. QED
    BY <1>3, <2>1, KeptStays DEF WithLocks, WritingLocks
<1>5. FileTypes'
  BY <1>1, <1>3, FilesAre DEF FileTypes, LockTypes
<1>. QED
  BY <1>2, <1>4, <1>5 DEF FilesInv

LEMMA TaskLoadsKeeps ==
  ASSUME FilesInv, NEW p \in Processes, NEW parent \in Tasks \union {0},
         Files!TaskLoads(p, parent)
  PROVE  FilesInv'
<1>1. /\ proc[p].pc = "idle" /\ (parent = 0 \/ \E t \in tasks : t.id = parent)
      /\ Files!ReadsFile(Files!WritesTasks)
      /\ UNCHANGED <<waiting, history, asked, expired, told, locks, lock, dead, granted, tasks,
                     created, faults>>
  BY DEF Files!TaskLoads, Files!Begins, Files!confirms, Files!table, Files!dispatch
<1>2. SoundTable(tasks) /\ SoundTable(tasks)'
  BY <1>1, FilesAre DEF SoundTable, ListedIn
<1>3. PICK c \in Command :
        /\ proc' = [proc EXCEPT ![p] = c] /\ c.pc = "task" /\ c.arg = parent /\ c.tasks = tasks
        /\ c.pending = {} /\ c.late = {} /\ c.history = {} /\ c.untold = {} /\ c.locks = {}
  <2>. DEFINE c == [Files!Idle EXCEPT !.pc = "task", !.arg = parent, !.tasks = tasks]
  <2>1. /\ c \in Command /\ c.pc = "task" /\ c.arg = parent /\ c.tasks = tasks
        /\ c.pending = {} /\ c.late = {} /\ c.history = {} /\ c.untold = {} /\ c.locks = {}
    BY <1>2 DEF Files!Idle, Command, SoundTable
  <2>2. proc' = [proc EXCEPT ![p] = c]
    BY DEF Files!TaskLoads, Files!Begins
  <2>. HIDE DEF c
  <2>. QED
    BY <2>1, <2>2
<1>4. Copy(c)
  BY <1>1, <1>2, <1>3 DEF Copy, OneEach
<1>. QED
  BY <1>1, <1>2, <1>3, <1>4, FilesAre, TasksMove

\* The table is empty in between, which is sound.
LEMMA TaskEmptiesKeeps ==
  ASSUME FilesInv, NEW p \in Processes, Files!TaskEmpties(p)
  PROVE  FilesInv'
<1>. DEFINE a == proc[p]
            c == [a EXCEPT !.pc = "making"]
<1>1. /\ a.pc = "task" /\ tasks' = {} /\ Files!Truncates(p, Files!WritesTasks)
      /\ proc' = [proc EXCEPT ![p] = c]
      /\ UNCHANGED <<waiting, history, asked, expired, told, locks, lock, dead, granted,
                     created, faults>>
  BY DEF Files!TaskEmpties, Files!Continues, Files!confirms, Files!table
<1>2. a \in Command /\ Copy(a) /\ created \subseteq Tasks
  BY FilesAre
<1>3. a.pc = proc[p].pc
  OBVIOUS
<1>. HIDE DEF a
<1>4. /\ c \in Command /\ c.history = a.history /\ c.arg = a.arg /\ c.pending = a.pending
      /\ c.late = a.late /\ c.untold = a.untold /\ c.locks = a.locks /\ c.tasks = a.tasks
      /\ c.pc = "making"
  BY <1>1, <1>2 DEF Command
<1>. HIDE DEF c
<1>5. Copy(c)
  BY <1>1, <1>2, <1>4 DEF Copy
<1>6. SoundTable(tasks)'
  BY <1>1 DEF SoundTable, ListedIn
<1>. QED
  BY <1>1, <1>2, <1>3, <1>4, <1>5, <1>6, TasksMove

\* The task gets a number that no task has reached.
LEMMA TaskSavesKeeps ==
  ASSUME FilesInv, NEW p \in Processes, Files!TaskSaves(p)
  PROVE  FilesInv'
<1>. DEFINE a == proc[p]
<1>1. PICK id \in Tasks :
        /\ \A t \in created : t < id
        /\ created' = created \union {id}
        /\ tasks' \in Files!Written(p, Files!WritesTasks,
                                    Files!WithSubtask(id, a.arg, a.tasks))
  BY DEF Files!TaskSaves
<1>2. /\ a.pc = "making" /\ proc' = [proc EXCEPT ![p] = Files!Idle]
      /\ Files!Writes(p, Files!WritesTasks, {})
      /\ UNCHANGED <<waiting, history, asked, expired, told, locks, lock, dead, granted, faults>>
  BY DEF Files!TaskSaves, Files!Ends, Files!Continues, Files!confirms, Files!table
<1>3. SoundTable(a.tasks) /\ (a.arg = 0 \/ \E t \in a.tasks : t.id = a.arg)
  BY <1>2, FilesAre DEF Copy
<1>4. SoundTable(tasks)'
  <2>1. PICK parent, ts : parent = a.arg /\ ts = a.tasks
    OBVIOUS
  <2>2. SoundTable(Files!WithSubtask(id, parent, ts))'
    BY <1>1, <1>3, <2>1, SubtasksSound
  <2>3. tasks' = Files!WithSubtask(id, parent, ts) \/ tasks' = {}
    BY <1>1, <2>1 DEF Files!Written
  <2>. QED
    BY <2>2, <2>3 DEF SoundTable, ListedIn
<1>5. created \subseteq created' /\ created' \subseteq Tasks
  BY <1>1, FilesAre
<1>. QED
  BY <1>2, <1>4, <1>5, IdleIs, TasksMove

-----------------------------------------------------------------------------
(* FileServices: the steps of the surroundings, and the theorems.          *)

\* Who is killed in the middle of a save of the locks takes all that was sure with it.
LEMMA KilledKeeps ==
  ASSUME FilesInv, NEW p \in Processes, Files!Killed(p)
  PROVE  FilesInv'
<1>1. /\ proc' = [proc EXCEPT ![p] = Files!Idle] /\ Files!Fault /\ blank' = blank \ {p}
      /\ exposed \subseteq exposed'
      /\ UNCHANGED <<waiting, history, asked, expired, told, locks, lock, dead, granted, tasks,
                     created>>
  BY DEF Files!Killed, Files!Ends, Files!Continues, Files!confirms, Files!table,
         Files!dispatch
<1>2. /\ LockTypes' /\ SoundTable(tasks)' /\ created' \subseteq Tasks
      /\ Made' = Made /\ \A l \in Made : lock'[l] = lock[l]
  BY <1>1, TablesStay
<1>3. Copy(Files!Idle)'
  BY <1>1, <1>2, IdleIs, CopiesGrow
<1>4. faults' \in 0..MaxFaults /\ blank' \subseteq Processes
  BY <1>1, FilesAre, NoticeCounted
<1>5. CASE proc[p].pc \notin WritingLocks
  BY <1>1, <1>3, <1>4, <1>5, IdleIs, FilesAre, ConfirmKeeps DEF WithLocks
<1>6. CASE proc[p].pc \in WritingLocks
  <2>1. exposed' = exposed \union Files!Made
    BY <1>6 DEF Files!Killed, Files!WritesLocks, WritingLocks
  <2>2. Sure' = {}
    BY <1>1, <2>1, PartsOneEach DEF Sure, Made, Files!Made
  <2>3. Copies'
    BY <1>1, <1>2, <1>3, FilesAre, CopiesMove
  <2>4. FileTypes'
    BY <1>1, <1>2, <1>4, FilesAre DEF FileTypes
  <2>. QED
    BY <2>2, <2>3, <2>4, NothingKept DEF FilesInv
<1>. QED
  BY <1>5, <1>6

\* Time passes: what was only about deadlines is all that changes.
LEMMA TimeKeeps ==
  ASSUME FilesInv, UNCHANGED <<waiting, history, asked, told, locks, lock, granted, tasks,
                               created, proc, blank, exposed, faults>>,
         expired' \subseteq asked, dead \subseteq dead', dead' \subseteq Locks
  PROVE  FilesInv'
<1>1. Made' = Made /\ OneEach(locks)' /\ SoundTable(tasks)'
  BY DEF Made, FilesInv, FileTypes, LockTypes, OneEach, SoundTable, ListedIn
<1>2. FileTypes'
  BY <1>1 DEF FilesInv, FileTypes, LockTypes
<1>3. Copies'
  <2>1. \A d : Copy(d) => Copy(d)'
    BY <1>1, CopiesGrow
  <2>. QED
    BY <2>1 DEF FilesInv, Copies
<1>4. Kept'
  <2>1. Sure' \subseteq Sure
    BY DEF Sure
  <2>. QED
    BY <2>1 DEF FilesInv, Kept
<1>. QED
  BY <1>2, <1>3, <1>4 DEF FilesInv

LEMMA FilesStart ==
  ASSUME Files!Init
  PROVE  FilesInv
<1>1. /\ waiting = {} /\ history = {} /\ asked = {} /\ expired = {} /\ told = {} /\ locks = {}
      /\ lock = [l \in Locks |-> Files!NoLock] /\ dead = {} /\ granted = {} /\ tasks = {}
      /\ created = {} /\ proc = [p \in Processes |-> Files!Idle] /\ blank = {} /\ faults = 0
  BY DEF Files!Init
<1>2. FileTypes
  <2>1. lock \in [Locks -> [path : Paths \union {"none"}, holder : Processes \union {"none"}]]
    BY <1>1 DEF Files!NoLock
  <2>2. OneEach(locks) /\ SoundTable(tasks) /\ faults \in 0..MaxFaults
    BY <1>1, SharingConstants DEF OneEach, SoundTable, ListedIn
  <2>. QED
    BY <1>1, <2>1, <2>2 DEF FileTypes, LockTypes
<1>3. Copies
  BY <1>1, IdleIs DEF Copies
<1>4. \A p \in Processes : proc[p].pc = "idle"
  BY <1>1, IdleIs
<1>5. Kept
  BY <1>1, <1>4 DEF Kept, Sure, WithLocks, WritingLocks
<1>. QED
  BY <1>2, <1>3, <1>5 DEF FilesInv

LEMMA FilesKeep ==
  ASSUME FilesInv, [Files!Next]_(Files!vars)
  PROVE  FilesInv'
<1>1. CASE UNCHANGED Files!vars
  <2>1. UNCHANGED <<waiting, history, asked, told, locks, lock, granted, tasks, created, proc,
                    blank, exposed, faults, expired, dead>>
    BY <1>1 DEF Files!vars, Files!confirms, Files!table, Files!dispatch
  <2>. QED
    BY <2>1, FilesAre, PartsOneEach, TimeKeeps
<1>2. ASSUME NEW r \in Requests, Files!Expire(r) PROVE FilesInv'
  <2>1. /\ expired' \subseteq asked
        /\ UNCHANGED <<waiting, history, asked, told, locks, lock, granted, tasks, created, proc,
                       blank, exposed, faults, dead>>
    BY <1>2, FilesAre DEF Files!Expire, Files!table, Files!dispatch
  <2>. QED
    BY <2>1, FilesAre, PartsOneEach, TimeKeeps
<1>3. ASSUME NEW l \in Locks, Files!LockExpires(l) PROVE FilesInv'
  <2>1. /\ dead' = dead \union {l}
        /\ UNCHANGED <<waiting, history, asked, told, locks, lock, granted, tasks, created, proc,
                       blank, exposed, faults, expired>>
    BY <1>3 DEF Files!LockExpires, Files!confirms, Files!dispatch
  <2>. QED
    BY <2>1, FilesAre, PartsOneEach, TimeKeeps
<1>4. ASSUME NEW p \in Processes, NEW r \in Requests,
             Files!AskLoads(p, r) \/ Files!ReplyLoads(p, r) \/ Files!CheckTells(p, r)
      PROVE  FilesInv'
  BY <1>4, AskLoadsKeeps, ConfirmLoadsKeeps, TellsKeeps
<1>5. ASSUME NEW p \in Processes,
             \/ Files!AskSaves(p) \/ Files!LoadHistory(p) \/ Files!SaveHistory(p)
             \/ Files!SavePending(p) \/ Files!ReplyTells(p) \/ Files!EmptyPending(p)
             \/ Files!EmptyHistory(p) \/ Files!CheckTimeouts(p)
      PROVE  FilesInv'
  BY <1>5, ConfirmSaves, ConfirmGoesOn, TellsKeeps, ConfirmLoadsKeeps
<1>6. ASSUME NEW p \in Processes,
             \/ \E f \in Paths : Files!LockLoads(p, f)
             \/ \E l \in Locks : Files!ReleaseLoads(p, l)
             \/ Files!LockEmpties(p) \/ Files!LockSaves(p) \/ Files!LockRenewed(p)
             \/ Files!LockHeld(p) \/ Files!ReleaseEmpties(p) \/ Files!ReleaseSaves(p)
      PROVE  FilesInv'
  BY <1>6, LocksLoad, LocksEmpty, LockSavesKeeps, LocksWrite, LockHeldKeeps
<1>7. ASSUME NEW p \in Processes,
             \/ \E parent \in Tasks \union {0} : Files!TaskLoads(p, parent)
             \/ Files!TaskEmpties(p) \/ Files!TaskSaves(p) \/ Files!Killed(p)
      PROVE  FilesInv'
  BY <1>7, TaskLoadsKeeps, TaskEmptiesKeeps, TaskSavesKeeps, KilledKeeps
<1>. QED
  BY <1>1, <1>2, <1>3, <1>4, <1>5, <1>6, <1>7 DEF Files!Next

LEMMA FilesHold == Files!Spec => []FilesInv
<1>1. Files!Init => FilesInv
  BY FilesStart
<1>2. FilesInv /\ [Files!Next]_(Files!vars) => FilesInv'
  BY FilesKeep
<1>. QED
  BY <1>1, <1>2, PTL DEF Files!Spec

\* The services' files name only what was made, and the table of tasks is sound in itself,
\* however commands overlap and wherever they are killed, in the middle of a save too
\* (user-confirm/service.js, conflict-detector/service.js, task-dispatcher/service.js).
THEOREM FilesTyped == Files!Spec => []FilesTypesOK
<1>1. FilesInv => FilesTypesOK
  <2>. SUFFICES ASSUME FilesInv PROVE FilesTypesOK
    OBVIOUS
  <2>1. /\ locks \subseteq {l \in Locks : lock[l] # Files!NoLock}
        /\ dead \union granted \subseteq Locks
    BY PartsOneEach DEF Made
  <2>2. SoundTable(tasks) /\ created \subseteq Tasks
    BY FilesAre
  <2>3. Files!SubtasksListed
    BY <2>2 DEF SoundTable, ListedIn, Files!SubtasksListed
  <2>4. \A t \in tasks : t.id \in created /\ t.parent < t.id
    BY <2>2 DEF SoundTable
  <2>. QED
    BY <2>1, <2>2, <2>3, <2>4, FilesAre DEF FilesTypesOK, Files!TypeOK, Outcomes, Notices
<1>. QED
  BY <1>1, FilesHold, PTL

\* Two agents were both told that they hold a file only if one of them was told while another
\* command was under way, or if the table was emptied or loaded while it was written; and
\* whoever holds a lock finds it in the table (conflict-detector/service.js).
THEOREM OneHolds == Files!Spec => []OneHolder
<1>1. FilesInv => OneHolder
  <2>. SUFFICES ASSUME FilesInv PROVE OneHolder
    OBVIOUS
  <2>1. Sure = (granted \ dead) \ exposed
    BY DEF Sure
  <2>2. \A l, k \in Sure : lock[l].path = lock[k].path => l = k
    <3>1. CASE \A p \in Processes : proc[p].pc \notin WritingLocks
      <4>1. Sure \subseteq locks
        BY <3>1 DEF FilesInv, Kept
      <4>. QED
        BY <4>1, PartsOneEach DEF OneEach
    <3>2. ASSUME NEW p \in Processes, proc[p].pc \in WritingLocks
          PROVE  \A l, k \in Sure : lock[l].path = lock[k].path => l = k
      <4>1. Sure \subseteq proc[p].locks /\ OneEach(proc[p].locks)
        BY <3>2, PartsOneEach DEF FilesInv, Kept, WithLocks, WritingLocks
      <4>. QED
        BY <4>1 DEF OneEach
    <3>. QED
      BY <3>1, <3>2
  <2>3. Files!Writers(Files!WritesLocks) = {} => Sure \subseteq locks
    BY DEF FilesInv, Kept, Files!Writers, Files!WritesLocks, WritingLocks
  <2>4. \A l, k \in locks \ dead : lock[l].path = lock[k].path => l = k
    BY PartsOneEach DEF OneEach
  <2>. QED
    BY <2>1, <2>2, <2>3, <2>4 DEF OneHolder, Files!OneHolder
<1>. QED
  BY <1>1, FilesHold, PTL
=============================================================================
