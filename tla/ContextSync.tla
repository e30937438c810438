---------------------------- MODULE ContextSync ----------------------------
(***************************************************************************)
(* Handing the context of a user's work from one machine to another        *)
(* (sync/context-sync.js over sync/git-transport.js): the sender records   *)
(* a checkpoint, pushes its uncommitted work to the remote repository and  *)
(* emits a request; the receiver fetches the work into an isolated branch, *)
(* records the load and acknowledges it.                                   *)
(*                                                                         *)
(* A sync is its number; the commit of its work has the same number.  Git, *)
(* the broker and the other machine are awaited, so every push, fetch and  *)
(* send is an action of its own and calls overlap.  Two sends of the same  *)
(* request in flight are one.  The receiver's set of loaded keys is left   *)
(* out: what is in it is in its store, which is asked first.  A request    *)
(* that is refused because it has expired is one of the calls that fail.   *)
(***************************************************************************)
EXTENDS Integers, FiniteSets, FiniteSetsExt

CONSTANTS
  MaxSyncs,     \* bound: checkpoints
  Loads,        \* bound: loads of the receiver at a time
  MaxCalls,     \* bound: sends and cleanups that are awaited at a time
  MaxFaults     \* bound: crashes and failed calls of git or the broker

VARIABLES
  syncs,        \* sender's table context_syncs
  pushing,      \* where explicitSync is with a sync
  sends,        \* sends of requests that are awaited
  remote,       \* [own, latest]: refs of the remote repository
  cleaners,     \* cleanups that have compared the latest ref
  requests,     \* requests the receiver's inbox holds: what they carry
  loads,        \* loads of requests by the receiver
  branches,     \* isolated branches of the receiver
  received,     \* receiver's table: the syncs it has recorded
  acks,         \* acknowledgements in the sender's inbox
  loaded,       \* history: loads that were reported as loaded
  interrupted,  \* history: pushes whose outcome the sender never learned
  faults

sender == <<syncs, pushing, sends, interrupted>>
git == <<remote, cleaners>>
receiver == <<loads, branches, received, acks, loaded>>
vars == <<sender, git, requests, receiver, faults>>

Syncs == 1..MaxSyncs
None == [status |-> "none", wip |-> FALSE, cleanup |-> "none"]
Idle == [pc |-> "idle", sync |-> 0]

ACTIVE_SYNC_STATUSES == {"prepared", "wip_pushed", "partial", "emitted", "cleanup_pending"}
Unique == {"prepared", "emitted", "cleanup_pending"}   \* partial index of the table
Retryable == {"partial", "wip_pushed", "emitted"}

Init ==
  /\ syncs = [s \in Syncs |-> None] /\ pushing = [s \in Syncs |-> "no"]
  /\ sends = {}
  /\ remote = [own |-> {}, latest |-> 0] /\ cleaners = {}
  /\ requests = [s \in Syncs |-> "none"]
  /\ loads = [i \in Loads |-> Idle]
  /\ branches = {} /\ received = {} /\ acks = {}
  /\ loaded = [s \in Syncs |-> 0] /\ interrupted = {} /\ faults = 0

\* a call fails
Fault == faults < MaxFaults /\ faults' = faults + 1

\* another call may be begun
MayCall == Cardinality(sends) + Cardinality(cleaners) < MaxCalls

\* the index refuses a second record of this status
Refused(s, status) ==
  status \in Unique /\ \E t \in Syncs \ {s} : syncs[t].status \in Unique

-----------------------------------------------------------------------------
(* The sender.                                                             *)

\* prepareCheckpoint names the sync before it awaits the state of the worktree
Checkpoint(s) ==
  /\ syncs[s] = None /\ pushing[s] = "no"
  /\ \A t \in Syncs : t < s => pushing[t] # "no"
  /\ \E next \in {"prepare", "sync"} : pushing' = [pushing EXCEPT ![s] = next]
  /\ UNCHANGED <<syncs, sends, interrupted, git, requests, receiver, faults>>

Expired(s) ==
  [t \in Syncs |-> IF t # s /\ syncs[t].status \in ACTIVE_SYNC_STATUSES
                     THEN [syncs[t] EXCEPT !.status = "expired"] ELSE syncs[t]]

\* without changes in the worktree there is nothing to push
Prepared(s) ==
  /\ pushing[s] \in {"prepare", "sync"}
  /\ syncs' = [Expired(s) EXCEPT ![s] = [None EXCEPT !.status = "prepared"]]
  /\ \E next \in IF pushing[s] = "sync" THEN {"push", "ready"} ELSE {"done"} :
       pushing' = [pushing EXCEPT ![s] = next]
  /\ UNCHANGED <<sends, interrupted, git, requests, receiver, faults>>

\* the timestamped ref is pushed first, the latest ref is then overwritten
PushOwn(s) ==
  /\ pushing[s] = "push"
  /\ remote' = [remote EXCEPT !.own = @ \union {s}]
  /\ pushing' = [pushing EXCEPT ![s] = "latest"]
  /\ UNCHANGED <<syncs, sends, interrupted, cleaners, requests, receiver, faults>>

\* an error carries the refs of a work of which only the first was pushed
WipOfError(s) == TRUE

Ready(s, wip) ==
  LET status == IF wip THEN "wip_pushed" ELSE "prepared" IN
  /\ pushing' = [pushing EXCEPT ![s] = "done"]
  /\ IF Refused(s, status) THEN UNCHANGED <<syncs, sends>>
     ELSE /\ syncs' = [syncs EXCEPT ![s] = [status |-> status, wip |-> wip,
                                            cleanup |-> IF wip THEN "pending" ELSE "none"]]
          /\ sends' = sends \union {[sync |-> s, wip |-> wip, by |-> "sync", answered |-> FALSE]}

PushLatest(s) ==
  /\ pushing[s] = "latest"
  /\ remote' = [remote EXCEPT !.latest = s]
  /\ Ready(s, TRUE)
  /\ UNCHANGED <<interrupted, cleaners, requests, receiver, faults>>

PushLatestFails(s) ==
  /\ pushing[s] = "latest" /\ Fault
  /\ \E l \in {remote.latest, s} : remote' = [remote EXCEPT !.latest = l]
  /\ Ready(s, WipOfError(s))
  /\ UNCHANGED <<interrupted, cleaners, requests, receiver>>

\* nothing was pushed, or nobody knows: the request goes out without the work
PushOwnFails(s) ==
  /\ pushing[s] = "push" /\ Fault
  /\ \/ UNCHANGED <<remote, interrupted>>
     \/ /\ remote' = [remote EXCEPT !.own = @ \union {s}]
        /\ interrupted' = interrupted \union {s}
  /\ Ready(s, FALSE)
  /\ UNCHANGED <<cleaners, requests, receiver>>

NothingToPush(s) ==
  /\ pushing[s] = "ready"
  /\ Ready(s, FALSE)
  /\ UNCHANGED <<interrupted, git, requests, receiver, faults>>

RetryContextSync(s) ==
  /\ MayCall /\ syncs[s].status \in Retryable
  /\ sends' = sends \union {[sync |-> s, wip |-> syncs[s].wip, by |-> "sync", answered |-> FALSE]}
  /\ UNCHANGED <<syncs, pushing, interrupted, git, requests, receiver, faults>>

EmitLatestPrepared(s) ==
  /\ MayCall /\ syncs[s].status = "prepared"
  /\ sends' = sends \union {[sync |-> s, wip |-> syncs[s].wip, by |-> "emit", answered |-> FALSE]}
  /\ UNCHANGED <<syncs, pushing, interrupted, git, requests, receiver, faults>>

Carries(m) == IF m.wip THEN "wip" ELSE "inline"

\* the broker takes a request once, and no other under its name
Accepts(m) == requests[m.sync] \in {"none", Carries(m)}
Delivered(m) == requests' = [requests EXCEPT ![m.sync] = Carries(m)]

SetStatus(s, status) == syncs' = [syncs EXCEPT ![s].status = status]

\* a status the index refuses is the failure of a sync, and nothing for an emission
Emitted(m) ==
  IF ~Refused(m.sync, "emitted") THEN SetStatus(m.sync, "emitted")
  ELSE IF m.by = "sync" THEN SetStatus(m.sync, "partial") ELSE UNCHANGED syncs

NotEmitted(m) == IF m.by = "sync" THEN SetStatus(m.sync, "partial") ELSE UNCHANGED syncs

\* the receiver may have the request, and answer it, before the sender goes on
Deliver(m) ==
  /\ ~m.answered /\ Accepts(m)
  /\ Delivered(m)
  /\ sends' = (sends \ {m}) \union {[m EXCEPT !.answered = TRUE]}
  /\ UNCHANGED <<syncs, pushing, interrupted, git, receiver, faults>>

SendReturns(m) ==
  /\ m.answered
  /\ Emitted(m)
  /\ sends' = sends \ {m}
  /\ UNCHANGED <<pushing, interrupted, git, requests, receiver, faults>>

SendRefused(m) ==
  /\ ~m.answered /\ ~Accepts(m)
  /\ NotEmitted(m)
  /\ sends' = sends \ {m}
  /\ UNCHANGED <<pushing, interrupted, git, requests, receiver, faults>>

SendFails(m) ==
  /\ Fault
  /\ NotEmitted(m)
  /\ sends' = sends \ {m}
  /\ UNCHANGED <<pushing, interrupted, git, requests, receiver>>

MarkAcked(s) ==
  /\ s \in acks /\ syncs[s].status # "acked"
  /\ SetStatus(s, "acked")
  /\ UNCHANGED <<pushing, sends, interrupted, git, requests, receiver, faults>>

\* git may still finish a push that was begun
SenderCrash ==
  /\ Fault
  /\ LET cut == {s \in Syncs : pushing[s] = "push"} IN
     /\ \E own \in SUBSET cut : remote' = [remote EXCEPT !.own = @ \union own]
     /\ interrupted' = interrupted \union cut \union {s \in Syncs : pushing[s] = "latest"}
  /\ pushing' = [s \in Syncs |-> IF pushing[s] = "no" THEN "no" ELSE "done"]
  /\ sends' = {}
  /\ UNCHANGED <<syncs, cleaners, requests, receiver>>

-----------------------------------------------------------------------------
(* Cleaning the remote repository.  The receiver could do it as well, and  *)
(* nothing makes it.                                                       *)

CleanupContextSync(s) ==
  /\ MayCall
  /\ syncs[s].wip /\ \A c \in cleaners : c.sync # s
  /\ cleaners' = cleaners \union
       {[sync |-> s, pc |-> "own", failed |-> FALSE, was |-> syncs[s].status]}
  /\ UNCHANGED <<sender, remote, requests, receiver, faults>>

\* the outcome is recorded; after an error the status is what it was
CleanupRecorded(c, failed) ==
  syncs' = [syncs EXCEPT ![c.sync].cleanup = IF failed THEN "failed" ELSE "cleaned",
                         ![c.sync].status = IF failed THEN c.was ELSE "cleaned"]

\* its own ref goes first, then the latest ref is compared
CleanOwn(c, failed) ==
  /\ c.pc = "own"
  /\ IF failed THEN Fault /\ UNCHANGED remote
     ELSE remote' = [remote EXCEPT !.own = @ \ {c.sync}] /\ UNCHANGED faults
  /\ IF remote.latest = c.sync
       THEN /\ cleaners' = (cleaners \ {c}) \union {[c EXCEPT !.pc = "latest", !.failed = failed]}
            /\ UNCHANGED syncs
       ELSE cleaners' = cleaners \ {c} /\ CleanupRecorded(c, failed)
  /\ UNCHANGED <<pushing, sends, interrupted, requests, receiver>>

\* the ref is removed whatever it points to by now
CleanLatest(c, failed) ==
  /\ c.pc = "latest"
  /\ IF failed THEN Fault /\ UNCHANGED remote
     ELSE remote' = [remote EXCEPT !.latest = 0] /\ UNCHANGED faults
  /\ cleaners' = cleaners \ {c}
  /\ CleanupRecorded(c, failed \/ c.failed)
  /\ UNCHANGED <<pushing, sends, interrupted, requests, receiver>>

-----------------------------------------------------------------------------
(* The receiver.                                                           *)

\* the load is recorded before it is acknowledged
RecordLoaded(s, outcome) == received' = IF outcome = "loaded" THEN received \union {s} ELSE received
Record(s, outcome) == received' = received \union {s}

Finish(i, outcome) ==
  /\ Record(loads[i].sync, outcome)
  /\ loads' = [loads EXCEPT ![i].pc = "ack"]
  /\ loaded' = IF outcome = "loaded" THEN [loaded EXCEPT ![loads[i].sync] = @ + 1] ELSE loaded

\* a load begins in the first place that is free; loads of different syncs share
\* nothing, so those in progress are of one
MayLoad(i, s) ==
  /\ loads[i] = Idle
  /\ \A j \in Loads : IF loads[j] = Idle THEN i <= j ELSE loads[j].sync = s

LoadWip(i, s) ==
  /\ MayLoad(i, s) /\ requests[s] = "wip" /\ s \notin received
  /\ loads' = [loads EXCEPT ![i] = [Idle EXCEPT !.pc = "fetch", !.sync = s]]
  /\ UNCHANGED <<sender, git, requests, branches, received, acks, loaded, faults>>

LoadInline(i, s) ==
  /\ MayLoad(i, s) /\ requests[s] = "inline" /\ s \notin received
  /\ Record(s, "loaded")
  /\ loads' = [loads EXCEPT ![i] = [pc |-> "ack", sync |-> s]]
  /\ loaded' = [loaded EXCEPT ![s] = @ + 1]
  /\ UNCHANGED <<sender, git, requests, branches, acks, faults>>

Fetch(i) ==
  /\ loads[i].pc = "fetch" /\ loads[i].sync \in remote.own
  /\ loads' = [loads EXCEPT ![i].pc = "branch"]
  /\ UNCHANGED <<sender, git, requests, branches, received, acks, loaded, faults>>

FetchFails(i) ==
  /\ loads[i].pc = "fetch"
  /\ IF loads[i].sync \in remote.own THEN Fault ELSE UNCHANGED faults
  /\ Finish(i, "partial")
  /\ UNCHANGED <<sender, git, requests, branches, acks>>

\* git makes no branch that exists
BranchIsNew(s) == s \notin branches

Isolate(i) ==
  /\ loads[i].pc = "branch"
  /\ branches' = branches \union {loads[i].sync}
  /\ Finish(i, IF BranchIsNew(loads[i].sync) THEN "loaded" ELSE "partial")
  /\ UNCHANGED <<sender, git, requests, acks, faults>>

Acknowledge(i) ==
  /\ loads[i].pc = "ack"
  /\ acks' = acks \union {loads[i].sync}
  /\ loads' = [loads EXCEPT ![i] = Idle]
  /\ UNCHANGED <<sender, git, requests, branches, received, loaded, faults>>

AcknowledgeFails(i) ==
  /\ loads[i].pc = "ack" /\ Fault
  /\ loads' = [loads EXCEPT ![i] = Idle]
  /\ UNCHANGED <<sender, git, requests, branches, received, acks, loaded>>

ReceiverCrash ==
  /\ Fault
  /\ \/ UNCHANGED branches
     \/ \E i \in Loads : loads[i].pc = "branch" /\ branches' = branches \union {loads[i].sync}
  /\ loads' = [i \in Loads |-> Idle]
  /\ UNCHANGED <<sender, git, requests, received, acks, loaded>>

-----------------------------------------------------------------------------
Next ==
  \/ \E s \in Syncs :
       \/ Checkpoint(s) \/ Prepared(s) \/ PushOwn(s) \/ PushLatest(s)
       \/ PushOwnFails(s) \/ PushLatestFails(s) \/ NothingToPush(s)
       \/ RetryContextSync(s) \/ EmitLatestPrepared(s) \/ MarkAcked(s)
       \/ CleanupContextSync(s)
       \/ \E i \in Loads : LoadWip(i, s) \/ LoadInline(i, s)
  \/ \E m \in sends : Deliver(m) \/ SendReturns(m) \/ SendRefused(m) \/ SendFails(m)
  \/ \E c \in cleaners, failed \in BOOLEAN : CleanOwn(c, failed) \/ CleanLatest(c, failed)
  \/ \E i \in Loads :
       Fetch(i) \/ FetchFails(i) \/ Isolate(i) \/ Acknowledge(i) \/ AcknowledgeFails(i)
  \/ SenderCrash \/ ReceiverCrash

Spec == Init /\ [][Next]_vars

-----------------------------------------------------------------------------
(* Properties.                                                             *)

TypeOK ==
  /\ \A s \in Syncs :
       /\ syncs[s].status \in ACTIVE_SYNC_STATUSES \union {"none", "expired", "acked", "cleaned"}
       /\ syncs[s].cleanup \in {"none", "pending", "failed", "cleaned"}
       /\ syncs[s].wip => syncs[s].cleanup # "none"
       /\ requests[s] \in {"none", "inline", "wip"}
  /\ remote.own \subseteq Syncs /\ remote.latest \in 0..MaxSyncs
  /\ \A m \in sends : m.sync \in Syncs
  /\ received \subseteq {s \in Syncs : requests[s] # "none"}
  /\ faults \in 0..MaxFaults

\* The sender counts a sync as acknowledged, and an acknowledgement exists, only if
\* the receiver has recorded the load: a request that comes again after a crash of
\* the receiver is then a duplicate and not a second load.
AckedIsReceived ==
  \A s \in Syncs : s \in acks \/ syncs[s].status = "acked" => s \in received

\* A context is loaded once, though its request is read again after a crash or while
\* the first load still awaits git.
LoadedOnce == \A s \in Syncs : loaded[s] <= 1

\* Every ref on the remote repository is recorded for its cleanup, also when the push
\* of the second ref failed, unless the sender never learned that it was pushed.
RefsRecorded ==
  \A s \in remote.own \union ({remote.latest} \ {0}) :
    \/ pushing[s] = "latest" \/ s \in interrupted
    \/ syncs[s].wip /\ syncs[s].cleanup \in {"pending", "failed"}

\* Does not hold, "deletes only refs still pointing at the expected SHA": a cleanup takes
\* the latest ref away only while it points to the work cleaned up.
CleanupSparesOthers ==
  [][remote'.latest = 0 /\ remote.latest # 0
       => \E c \in cleaners : c.sync = remote.latest]_vars
=============================================================================
