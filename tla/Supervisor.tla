----------------------------- MODULE Supervisor -----------------------------
(***************************************************************************)
(* The processes that a session of an agent keeps in the background, the   *)
(* session keeper (session-keeper.js) and the realtime bridge              *)
(* (realtime-bridge.js): they are started by hooks, under a lock that is a *)
(* file (interprocess-lock.js), recorded in a file per participant, and    *)
(* end when the process that they observe has exited.  Both are kept in    *)
(* the same way; a behaviour is of one of them.                            *)
(*                                                                         *)
(* Inbox mode and broker URL, which replace a process as another observed  *)
(* parent does, are left out, as is Windows, where the parent may be       *)
(* unknown, and the age of a lock file.  A signal ends a process at once;  *)
(* pids are not used again; hooks are numbered in the order in which they  *)
(* start.                                                                  *)
(***************************************************************************)
EXTENDS Naturals, FiniteSets

CONSTANTS
  Uses,       \* sessions and their participants and parents: [participant, session, parent]
  Hooks,      \* bound: hooks that are run
  Children,   \* bound: pids of the processes that are started
  MaxFaults   \* bound: hooks and processes that are killed

Participants == {u.participant : u \in Uses}

VARIABLES
  parents,    \* observed processes that run
  lock,       \* owner of each participant's lock file, or 0
  state,      \* the file with the process of each participant
  child,      \* the processes
  hook,       \* where each hook is
  last,       \* history: the use of the hook that succeeded last, or Overlap
  raced,      \* history: participants whose lock was made while a hook was to remove a stale one
  shared,     \* history: participants that a hook found in use by another session
  faults

vars == <<parents, lock, state, child, hook, last, raced, shared, faults>>

NoUse == [participant |-> "none", session |-> "none", parent |-> "none"]
\* hooks of different participants have run at the same time, or one was killed, or a process
\* was while one ran
Overlap == [NoUse EXCEPT !.session = "overlap"]
NoState == [pid |-> 0, use |-> NoUse]
IdleHook == [pc |-> "idle", use |-> NoUse, siblings |-> {}, pid |-> 0]
OverHook == [IdleHook EXCEPT !.pc = "over"]

Init ==
  /\ parents = {u.parent : u \in Uses}
  /\ lock = [p \in Participants |-> 0]
  /\ state = [p \in Participants |-> NoState]
  /\ child = [c \in Children |-> [pc |-> "none", use |-> NoUse, mine |-> FALSE]]
  /\ hook = [h \in Hooks |-> IdleHook]
  /\ last = NoUse /\ raced = {} /\ shared = {} /\ faults = 0

Fault == faults < MaxFaults /\ faults' = faults + 1
Alive(c) == c # 0 /\ child[c].pc \in {"starting", "running", "ending"}
Kill(c) == [child EXCEPT ![c].pc = "dead", ![c].mine = FALSE]
Runs(h) == hook[h].pc \notin {"idle", "over"}
Step(h, pc) == hook' = [hook EXCEPT ![h].pc = pc]

-----------------------------------------------------------------------------
(* A hook.                                                                 *)

Begins(h, u) ==
  /\ hook[h].pc = "idle" /\ u.parent \in parents
  /\ \A g \in Hooks : g < h => hook[g].pc # "idle"
  /\ hook' = [hook EXCEPT ![h] = [IdleHook EXCEPT !.pc = "locking", !.use = u]]
  /\ last' = IF \E g \in Hooks : /\ Runs(g)
                                 /\ hook[g].use.participant # u.participant
               THEN Overlap ELSE last
  /\ UNCHANGED <<parents, lock, state, child, raced, shared, faults>>

CreateLock(h) ==
  LET p == hook[h].use.participant IN
  /\ hook[h].pc = "locking" /\ lock[p] = 0
  /\ lock' = [lock EXCEPT ![p] = h]
  /\ raced' = IF \E g \in Hooks : hook[g].pc = "stale" /\ hook[g].use.participant = p
                THEN raced \union {p} ELSE raced
  /\ Step(h, "locked")
  /\ UNCHANGED <<parents, state, child, last, shared, faults>>

\* a lock file may be old enough at any time; its owner's process must be gone as well
Aged(p) == TRUE
isLockFileStale(p) == hook[lock[p]].pc = "over"

FindStale(h) ==
  LET p == hook[h].use.participant IN
  /\ hook[h].pc = "locking" /\ lock[p] # 0 /\ isLockFileStale(p)
  /\ Step(h, "stale")
  /\ UNCHANGED <<parents, lock, state, child, last, raced, shared, faults>>

\* whichever lock file is there now
RemoveStale(h) ==
  LET p == hook[h].use.participant IN
  /\ hook[h].pc = "stale"
  /\ lock' = [lock EXCEPT ![p] = 0]
  /\ Step(h, "locking")
  /\ UNCHANGED <<parents, state, child, last, raced, shared, faults>>

\* the hook goes on without having started anything
WaitsTooLong(h) ==
  /\ hook[h].pc = "locking" /\ lock[hook[h].use.participant] # 0
  /\ hook' = [hook EXCEPT ![h] = OverHook]
  /\ UNCHANGED <<parents, lock, state, child, last, raced, shared, faults>>

Reusable(existing, use) == Alive(existing.pid) /\ existing.use = use

Reuse(h) ==
  /\ hook[h].pc = "locked" /\ Reusable(state[hook[h].use.participant], hook[h].use)
  /\ Step(h, "done")
  /\ UNCHANGED <<parents, lock, state, child, last, raced, shared, faults>>

\* a process of the session that does not fit is killed; one of another session is left
Replace(h) ==
  LET u == hook[h].use
      existing == state[u.participant] IN
  /\ hook[h].pc = "locked" /\ ~Reusable(existing, u)
  /\ IF Alive(existing.pid) /\ existing.use.session = u.session
       THEN child' = Kill(existing.pid) /\ state' = [state EXCEPT ![u.participant] = NoState]
       ELSE /\ UNCHANGED child
            /\ state' = IF Alive(existing.pid) THEN state
                        ELSE [state EXCEPT ![u.participant] = NoState]
  /\ shared' = IF Alive(existing.pid) /\ existing.use.session # u.session
                 THEN shared \union {u.participant} ELSE shared
  /\ hook' = [hook EXCEPT ![h].pc = "pruning", ![h].siblings = Participants \ {u.participant}]
  /\ UNCHANGED <<parents, lock, last, raced, faults>>

\* a sibling's file is read without its lock
ReadSibling(h, p) ==
  /\ hook[h].pc = "pruning" /\ p \in hook[h].siblings
  /\ hook' = IF state[p].use.parent = hook[h].use.parent
               THEN [hook EXCEPT ![h].pc = "killing", ![h].siblings = @ \ {p}, ![h].pid = state[p].pid]
               ELSE [hook EXCEPT ![h].siblings = @ \ {p}]
  /\ UNCHANGED <<parents, lock, state, child, last, raced, shared, faults>>

Spared(c) == child
Killed(c) == IF Alive(c) THEN Kill(c) ELSE child

\* the file is removed, whichever process it names by now
PruneSibling(h) ==
  /\ hook[h].pc = "killing"
  /\ child' = Killed(hook[h].pid)
  /\ state' = [state EXCEPT ![child[hook[h].pid].use.participant] = NoState]
  /\ hook' = [hook EXCEPT ![h].pc = "pruning", ![h].pid = 0]
  /\ UNCHANGED <<parents, lock, last, raced, shared, faults>>

Exited(c) == child[c].pc \in {"none", "dead"}
Unused(c) == child[c].pc = "none"

Spawn(h) ==
  /\ hook[h].pc = "pruning" /\ hook[h].siblings = {}
  /\ \E c \in Children :
       /\ Unused(c) /\ \A d \in Children : d < c => ~Unused(d)
       /\ child' = [child EXCEPT ![c] = [pc |-> "starting", use |-> hook[h].use, mine |-> FALSE]]
       /\ hook' = [hook EXCEPT ![h].pc = "spawned", ![h].pid = c]
  /\ UNCHANGED <<parents, lock, state, last, raced, shared, faults>>

RecordSpawned(h) ==
  /\ hook[h].pc = "spawned"
  /\ state' = [state EXCEPT ![hook[h].use.participant] = [pid |-> hook[h].pid, use |-> hook[h].use]]
  /\ hook' = [hook EXCEPT ![h].pc = "done", ![h].pid = 0]
  /\ UNCHANGED <<parents, lock, child, last, raced, shared, faults>>

\* the lock file is removed, whoever has made it
ReleaseLock(h) ==
  LET p == hook[h].use.participant IN
  /\ hook[h].pc = "done"
  /\ lock' = [lock EXCEPT ![p] = 0]
  /\ hook' = [hook EXCEPT ![h] = OverHook]
  /\ last' = IF last = Overlap THEN last ELSE hook[h].use
  /\ UNCHANGED <<parents, state, child, raced, shared, faults>>

HookKilled(h) ==
  /\ Runs(h) /\ Fault
  /\ hook' = [hook EXCEPT ![h] = OverHook] /\ last' = Overlap
  /\ UNCHANGED <<parents, lock, state, child, raced, shared>>

-----------------------------------------------------------------------------
(* A process in the background.                                            *)

Records(c) ==
  /\ child[c].pc = "starting"
  /\ state' = [state EXCEPT ![child[c].use.participant] = [pid |-> c, use |-> child[c].use]]
  /\ child' = [child EXCEPT ![c].pc = "running"]
  /\ UNCHANGED <<parents, lock, hook, last, raced, shared, faults>>

ExitedOfRecorded(c) ==
  state[child[c].use.participant].pid = c /\ child[c].use.parent \notin parents
ParentExited(c) == child[c].use.parent \notin parents

\* the parent has exited; its file is read, and removed if it is still the process's own
Ends(c) ==
  /\ child[c].pc = "running" /\ ParentExited(c)
  /\ child' = [child EXCEPT ![c].pc = "ending",
                            ![c].mine = (state[child[c].use.participant].pid = c)]
  /\ UNCHANGED <<parents, lock, state, hook, last, raced, shared, faults>>

RemovesState(c) ==
  /\ child[c].pc = "ending"
  /\ state' = IF child[c].mine THEN [state EXCEPT ![child[c].use.participant] = NoState] ELSE state
  /\ child' = Kill(c)
  /\ UNCHANGED <<parents, lock, hook, last, raced, shared, faults>>

Dies(c) ==
  /\ Alive(c) /\ Fault /\ child' = Kill(c)
  /\ last' = IF \E h \in Hooks : Runs(h) THEN Overlap
             ELSE IF child[c].use = last THEN NoUse ELSE last
  /\ UNCHANGED <<parents, lock, state, hook, raced, shared>>

ParentExits(x) ==
  /\ x \in parents /\ parents' = parents \ {x}
  /\ UNCHANGED <<lock, state, child, hook, last, raced, shared, faults>>

-----------------------------------------------------------------------------
Next ==
  \/ \E h \in Hooks :
       \/ \E u \in Uses : Begins(h, u)
       \/ CreateLock(h) \/ FindStale(h) \/ RemoveStale(h) \/ WaitsTooLong(h)
       \/ Reuse(h) \/ Replace(h) \/ PruneSibling(h) \/ Spawn(h) \/ RecordSpawned(h)
       \/ \E p \in Participants : ReadSibling(h, p)
       \/ ReleaseLock(h) \/ HookKilled(h)
  \/ \E c \in Children : Records(c) \/ Ends(c) \/ RemovesState(c) \/ Dies(c)
  \/ \E x \in parents : ParentExits(x)

Spec == Init /\ [][Next]_vars

\* A process that is not killed goes on with what it does; one of the three at a time.
Fairness == \A c \in Children : WF_vars(Records(c) \/ Ends(c) \/ RemovesState(c))

LiveSpec == Spec /\ Fairness

-----------------------------------------------------------------------------
(* Properties.                                                             *)

\* The file of a participant names a process that was started for it, and for the session
\* and parent that the file says.
TypeOK ==
  /\ lock \in [Participants -> Hooks \union {0}]
  /\ \A p \in Participants : state[p].pid # 0 =>
       /\ state[p].use = child[state[p].pid].use /\ state[p].use.participant = p
       /\ child[state[p].pid].pc # "none"
  /\ \A h \in Hooks : hook[h].use \in Uses \union {NoUse}
  /\ faults \in 0..MaxFaults

Working(h) == hook[h].pc \in {"locked", "pruning", "killing", "spawned", "done"}

\* One hook at a time starts a process for a participant, whichever hooks are killed and however
\* soon their locks are found stale, but for one race: a lock is made while another hook, which
\* has found a stale one, is still to remove it.
OneStarter ==
  \A h, g \in Hooks :
    LET p == hook[h].use.participant IN
    Working(h) /\ Working(g) /\ hook[g].use.participant = p /\ p \notin raced => h = g

\* When hooks of different participants run one after the other, and those of one at any time,
\* the last to succeed leaves one process for the participant and for the parent, its own, on
\* record; processes that end or die do not disturb that, nor hooks that wait for the lock in
\* vain.  Participants that a hook has found in use by another session are left aside.
EnsuredOnce ==
  LET p == last.participant
      related == {c \in Children :
                    /\ Alive(c) /\ child[c].use.participant \notin shared
                    /\ child[c].use.participant = p \/ child[c].use.parent = last.parent} IN
  /\ last \notin {NoUse, Overlap} /\ last.parent \in parents /\ p \notin shared
  /\ \A h \in Hooks : ~Runs(h)
  => related = {state[p].pid} /\ state[p].use = last

Orphan(c) == Alive(c) /\ child[c].use.parent \notin parents

\* Again and again, no process in the background has outlived its parent, whoever has
\* replaced its record.
EndsWithParent == []<>(\A c \in Children : ~Orphan(c))

\* Does not hold, "reuses a live keeper for the same session": once a process is running
\* for a session under a parent, no hook starts another.  Participants are shared.
OneBridge ==
  \A c, d \in Children : Alive(c) /\ Alive(d) /\ child[c].use = child[d].use => c = d

\* Does not hold, of the lock: one hook at a time starts a process for a participant.
NeverTwoStart ==
  \A h, g \in Hooks :
    Working(h) /\ Working(g) /\ hook[h].use.participant = hook[g].use.participant => h = g
=============================================================================
