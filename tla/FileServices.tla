---------------------------- MODULE FileServices ----------------------------
(***************************************************************************)
(* Services that keep their state in JSON files and have no process of     *)
(* their own: confirmations of the user (user-confirm/service.js), locks   *)
(* of files (conflict-detector/service.js) and tasks with subtasks         *)
(* (task-dispatcher/service.js).  Every command is a process that loads a  *)
(* whole file, changes its copy and saves it, so commands overlap and the  *)
(* later save wins.  A save empties the file and then writes it: whoever   *)
(* loads it in between, or after the command was killed there, finds       *)
(* nothing that parses, which counts as an empty table.  So does what two  *)
(* commands write over each other.                                         *)
(*                                                                         *)
(* The services share nothing: a behaviour is of one.  What is printed,    *)
(* the record of conflicts, the progress of tasks and reviews, which one   *)
(* command writes and nothing decides on, are left out.  A renewed lock is *)
(* alive again.                                                            *)
(***************************************************************************)
EXTENDS Integers, FiniteSets

CONSTANTS
  Processes,  \* bound: commands that run at a time; also the agents that run them
  Requests,   \* bound: requests for confirmation
  Fallback,   \* [Requests -> what happens after the deadline]
  Locks,      \* bound: numbers of the locks that are acquired
  Paths,      \* files to lock
  Tasks,      \* bound: numbers of the tasks
  MaxFaults   \* bound: notices that fail and commands that are killed

VARIABLES
  service,    \* the service that is used
  pending,    \* pending-confirms.json: requests
  history,    \* confirm-history.json: <<request, status>>
  asked,      \* requests that were made
  expired,    \* those whose deadline has passed
  told,       \* what the broker was told of a request: <<request, outcome>>
  locks,      \* file-locks.json: locks, by number
  lock,       \* [path, holder] of the locks that were ever made
  dead,       \* locks that have expired
  granted,    \* history: locks whose holder was told so and has not released them
  tasks,      \* tasks.json: [id, parent, subtasks]
  created,    \* history: the tasks that were ever made
  proc,       \* where each command is, and its copies
  blank,      \* commands that write a file on which nothing was written since it was emptied
  exposed,    \* history: the requests and locks that an overlap or a kill may have lost
  faults

confirms == <<pending, history, asked, expired, told>>
table == <<locks, lock, dead, granted>>
dispatch == <<tasks, created>>
vars == <<service, confirms, table, dispatch, proc, blank, exposed, faults>>

Idle == [pc |-> "idle", arg |-> 0, path |-> "none", pending |-> {}, history |-> {}, late |-> {},
         untold |-> {}, locks |-> {}, tasks |-> {}]
NoLock == [path |-> "none", holder |-> "none"]

Init ==
  /\ service \in {"confirm", "locks", "tasks"}
  /\ pending = {} /\ history = {} /\ asked = {} /\ expired = {} /\ told = {}
  /\ locks = {} /\ lock = [l \in Locks |-> NoLock] /\ dead = {} /\ granted = {}
  /\ tasks = {} /\ created = {}
  /\ proc = [p \in Processes |-> Idle] /\ blank = {} /\ exposed = {} /\ faults = 0

Fault == faults < MaxFaults /\ faults' = faults + 1
Alone(p) == \A q \in Processes \ {p} : proc[q].pc = "idle"

\* a command begins, goes on, or ends
Begins(s, p, state) ==
  /\ service = s /\ proc[p].pc = "idle"
  /\ proc' = [proc EXCEPT ![p] = state]
Continues(p, state) == proc' = [proc EXCEPT ![p] = state]
Ends(p) == Continues(p, Idle)

\* The steps in which each file is written.  To load or to empty a file that another command
\* is writing exposes whatever was made; to write what a command is about exposes that, if
\* others are under way or have written since the file was emptied.
WritesPending == {"asking", "removing", "clearing"}
WritesHistory == {"noting", "recording"}
WritesLocks == {"acquiring", "releasing"}
WritesTasks == {"making"}
Writers(writing) == {p \in Processes : proc[p].pc \in writing}
Made == asked \union {l \in Locks : lock[l] # NoLock}

Meets(writing) == exposed' = IF Writers(writing) = {} THEN exposed ELSE exposed \union Made
Exposes(p, made) ==
  exposed' = IF Alone(p) /\ p \in blank THEN exposed ELSE exposed \union made

ReadsFile(writing) == Meets(writing) /\ UNCHANGED blank
Truncates(p, writing) == Meets(writing) /\ blank' = blank \union Writers(writing) \union {p}
Written(p, writing, copy) == IF p \in blank THEN {copy} ELSE {copy, {}}
Writes(p, writing, made) == Exposes(p, made) /\ blank' = blank \ Writers(writing)

-----------------------------------------------------------------------------
(* Confirmations.                                                          *)

AskLoads(p, r) ==
  /\ r \notin asked /\ asked' = asked \union {r}
  /\ Begins("confirm", p, [Idle EXCEPT !.pc = "ask", !.arg = r, !.pending = pending])
  /\ ReadsFile(WritesPending)
  /\ UNCHANGED <<service, pending, history, expired, told, table, dispatch, faults>>

\* the request is broadcast after it is saved; if that fails, it still waits here
AskSaves(p) ==
  /\ proc[p].pc = "asking"
  /\ pending' \in Written(p, WritesPending, proc[p].pending \union {proc[p].arg})
  /\ Writes(p, WritesPending, {proc[p].arg}) /\ Ends(p)
  /\ UNCHANGED <<service, history, asked, expired, told, table, dispatch, faults>>

Expire(r) ==
  /\ r \in asked \ expired /\ expired' = expired \union {r}
  /\ UNCHANGED <<service, pending, history, asked, told, table, dispatch, proc, blank, exposed,
                 faults>>

\* an answer to a request that is not pending is refused
ReplyLoads(p, r) ==
  /\ r \in pending
  /\ Begins("confirm", p, [Idle EXCEPT !.pc = "reply", !.arg = r, !.pending = pending])
  /\ ReadsFile(WritesPending)
  /\ UNCHANGED <<service, confirms, table, dispatch, faults>>

\* what a command has decided goes to the history first
LoadHistory(p) ==
  /\ proc[p].pc \in {"reply", "check"} /\ proc[p].untold = {}
  /\ Continues(p, [proc[p] EXCEPT !.history = history,
                     !.pc = IF @ = "reply" THEN "replied" ELSE "checked"])
  /\ ReadsFile(WritesHistory)
  /\ UNCHANGED <<service, confirms, table, dispatch, faults>>

About(p) ==
  IF proc[p].pc \in {"check", "checked", "recording", "over", "clearing"} THEN proc[p].late
  ELSE {proc[p].arg}
Settled(p) == About(p) \X {IF proc[p].pc = "noting" THEN "completed" ELSE "timeout"}

SaveHistory(p) ==
  /\ proc[p].pc \in WritesHistory
  /\ history' \in Written(p, WritesHistory, proc[p].history \union Settled(p))
  /\ Writes(p, WritesHistory, About(p))
  /\ Continues(p, [proc[p] EXCEPT !.history = {}, !.pc = IF @ = "noting" THEN "noted" ELSE "over"])
  /\ UNCHANGED <<service, pending, asked, expired, told, table, dispatch, faults>>

\* the copy without what was settled becomes the file
StillPending(p) == proc[p].pending
Remaining(p) == proc[p].pending \ About(p)

SavePending(p) ==
  /\ proc[p].pc \in {"removing", "clearing"}
  /\ pending' \in Written(p, WritesPending, Remaining(p))
  /\ Writes(p, WritesPending, About(p))
  /\ IF proc[p].pc = "clearing" THEN Ends(p)
     ELSE Continues(p, [Idle EXCEPT !.pc = "tell", !.arg = proc[p].arg])
  /\ UNCHANGED <<service, history, asked, expired, told, table, dispatch, faults>>

\* the first half of a save
EmptyPending(p) ==
  /\ proc[p].pc \in {"ask", "noted", "over"} /\ pending' = {} /\ Truncates(p, WritesPending)
  /\ Continues(p, [proc[p] EXCEPT !.pc = CASE @ = "ask" -> "asking" [] @ = "noted" -> "removing"
                                           [] @ = "over" -> "clearing"])
  /\ UNCHANGED <<service, history, asked, expired, told, table, dispatch, faults>>

EmptyHistory(p) ==
  /\ proc[p].pc \in {"replied", "checked"} /\ history' = {} /\ Truncates(p, WritesHistory)
  /\ Continues(p, [proc[p] EXCEPT !.pc = IF @ = "replied" THEN "noting" ELSE "recording"])
  /\ UNCHANGED <<service, pending, asked, expired, told, table, dispatch, faults>>

ReplyTells(p) ==
  /\ proc[p].pc = "tell" /\ Ends(p)
  /\ \/ told' = told \union {<<proc[p].arg, "answered">>} /\ UNCHANGED faults
     \/ Fault /\ UNCHANGED told
  /\ UNCHANGED <<service, pending, history, asked, expired, table, dispatch, blank, exposed>>

\* every request that is late is settled, whatever its fallback; one that shall wait
\* is not told of it
CheckTimeouts(p) ==
  LET late == pending \intersect expired IN
  /\ Begins("confirm", p, [Idle EXCEPT !.pc = "check", !.pending = pending, !.late = late,
                                       !.untold = {r \in late : Fallback[r] # "wait"}])
  /\ ReadsFile(WritesPending)
  /\ UNCHANGED <<service, confirms, table, dispatch, faults>>

CheckTells(p, r) ==
  /\ proc[p].pc = "check" /\ r \in proc[p].untold
  /\ Continues(p, [proc[p] EXCEPT !.untold = @ \ {r}])
  /\ \/ told' = told \union {<<r, "timeout">>} /\ UNCHANGED faults
     \/ Fault /\ UNCHANGED told
  /\ UNCHANGED <<service, pending, history, asked, expired, table, dispatch, blank, exposed>>

-----------------------------------------------------------------------------
(* Locks of files.                                                         *)

\* a table is loaded to acquire the lock of a path, or to release a lock
LockLoads(p, f) ==
  /\ Begins("locks", p, [Idle EXCEPT !.pc = "acquire", !.path = f, !.locks = locks \ dead])
  /\ ReadsFile(WritesLocks)
  /\ UNCHANGED <<service, confirms, table, dispatch, faults>>

HoldersOf(f, ls) == {l \in ls : lock[l].path = f}
Unheld(f, ls) == TRUE
Free(f, ls) == HoldersOf(f, ls) = {}
Own(p) == {l \in HoldersOf(proc[p].path, proc[p].locks) : lock[l].holder = p}

\* a lock that is free is made, its own is renewed
LockEmpties(p) ==
  /\ proc[p].pc = "acquire" /\ (Free(proc[p].path, proc[p].locks) \/ Own(p) # {})
  /\ locks' = {} /\ Truncates(p, WritesLocks)
  /\ Continues(p, [proc[p] EXCEPT !.pc = "acquiring"])
  /\ UNCHANGED <<service, confirms, lock, dead, granted, dispatch, faults>>

LockSaves(p) ==
  /\ proc[p].pc = "acquiring" /\ Free(proc[p].path, proc[p].locks)
  /\ \E l \in Locks :
       /\ lock[l] = NoLock /\ \A k \in Locks : k < l => lock[k] # NoLock
       /\ lock' = [lock EXCEPT ![l] = [path |-> proc[p].path, holder |-> p]]
       /\ locks' \in Written(p, WritesLocks, proc[p].locks \union {l})
       /\ granted' = granted \union {l} /\ Writes(p, WritesLocks, {l})
  /\ Ends(p)
  /\ UNCHANGED <<service, confirms, dead, dispatch, faults>>

LockRenewed(p) ==
  /\ proc[p].pc = "acquiring" /\ ~Free(proc[p].path, proc[p].locks)
  /\ locks' \in Written(p, WritesLocks, proc[p].locks)
  /\ dead' = dead \ HoldersOf(proc[p].path, proc[p].locks)
  /\ granted' = granted \union HoldersOf(proc[p].path, proc[p].locks)
  /\ Writes(p, WritesLocks, HoldersOf(proc[p].path, proc[p].locks)) /\ Ends(p)
  /\ UNCHANGED <<service, confirms, lock, dispatch, faults>>

\* that of another is a conflict that both are told of
LockHeld(p) ==
  /\ proc[p].pc = "acquire" /\ ~Free(proc[p].path, proc[p].locks) /\ Own(p) = {}
  /\ Ends(p)
  /\ UNCHANGED <<service, confirms, table, dispatch, blank, exposed, faults>>

ReleaseLoads(p, l) ==
  /\ l \in locks /\ lock[l].holder = p
  /\ Begins("locks", p, [Idle EXCEPT !.pc = "release", !.arg = l, !.locks = locks])
  /\ ReadsFile(WritesLocks)
  /\ UNCHANGED <<service, confirms, table, dispatch, faults>>

ReleaseEmpties(p) ==
  /\ proc[p].pc = "release" /\ locks' = {} /\ Truncates(p, WritesLocks)
  /\ Continues(p, [proc[p] EXCEPT !.pc = "releasing"])
  /\ UNCHANGED <<service, confirms, lock, dead, granted, dispatch, faults>>

ReleaseSaves(p) ==
  /\ proc[p].pc = "releasing"
  /\ locks' \in Written(p, WritesLocks, proc[p].locks \ {proc[p].arg})
  /\ granted' = granted \ {proc[p].arg} /\ Writes(p, WritesLocks, {}) /\ Ends(p)
  /\ UNCHANGED <<service, confirms, lock, dead, dispatch, faults>>

LockExpires(l) ==
  /\ lock[l] # NoLock /\ l \notin dead /\ dead' = dead \union {l}
  /\ UNCHANGED <<service, confirms, locks, lock, granted, dispatch, proc, blank, exposed, faults>>

-----------------------------------------------------------------------------
(* Tasks.                                                                  *)

\* a task of its own has the parent 0; a subtask needs its parent in the table, and a
\* parent that is a subtask has no list to add to, so the command fails
TaskLoads(p, parent) ==
  /\ parent = 0 \/ \E t \in tasks : t.id = parent /\ t.parent = 0
  /\ Begins("tasks", p, [Idle EXCEPT !.pc = "task", !.arg = parent, !.tasks = tasks])
  /\ ReadsFile(WritesTasks)
  /\ UNCHANGED <<service, confirms, table, dispatch, faults>>

WithTask(id, parent, ts) == ts \union {[id |-> id, parent |-> parent, subtasks |-> {}]}
WithSubtask(id, parent, ts) ==
  WithTask(id, parent,
    {IF t.id = parent THEN [t EXCEPT !.subtasks = @ \union {id}] ELSE t : t \in ts})

TaskEmpties(p) ==
  /\ proc[p].pc = "task" /\ tasks' = {} /\ Truncates(p, WritesTasks)
  /\ Continues(p, [proc[p] EXCEPT !.pc = "making"])
  /\ UNCHANGED <<service, confirms, table, created, faults>>

\* an id is not made twice
TaskSaves(p) ==
  /\ proc[p].pc = "making"
  /\ \E id \in Tasks :
       /\ \A t \in created : t < id
       /\ created' = created \union {id}
       /\ tasks' \in Written(p, WritesTasks, WithSubtask(id, proc[p].arg, proc[p].tasks))
  /\ Writes(p, WritesTasks, {}) /\ Ends(p)
  /\ UNCHANGED <<service, confirms, table, faults>>

-----------------------------------------------------------------------------
\* a command that is killed leaves the file that it was writing empty, and what it was about
\* half done
Killed(p) ==
  /\ proc[p].pc # "idle" /\ Fault /\ Ends(p) /\ blank' = blank \ {p}
  /\ exposed' = exposed \union
       IF proc[p].pc \in WritesPending \union WritesHistory \union WritesLocks THEN Made
       ELSE IF service = "confirm" THEN About(p) ELSE {}
  /\ UNCHANGED <<service, confirms, table, dispatch>>

Next ==
  \/ \E p \in Processes :
       \/ \E r \in Requests : AskLoads(p, r) \/ ReplyLoads(p, r) \/ CheckTells(p, r)
       \/ AskSaves(p) \/ LoadHistory(p) \/ SaveHistory(p) \/ SavePending(p) \/ ReplyTells(p)
       \/ EmptyPending(p) \/ EmptyHistory(p) \/ CheckTimeouts(p)
       \/ \E f \in Paths : LockLoads(p, f)
       \/ \E l \in Locks : ReleaseLoads(p, l)
       \/ LockEmpties(p) \/ LockSaves(p) \/ LockRenewed(p) \/ LockHeld(p)
       \/ ReleaseEmpties(p) \/ ReleaseSaves(p)
       \/ \E parent \in Tasks \union {0} : TaskLoads(p, parent)
       \/ TaskEmpties(p) \/ TaskSaves(p) \/ Killed(p)
  \/ \E r \in Requests : Expire(r)
  \/ \E l \in Locks : LockExpires(l)

Spec == Init /\ [][Next]_vars

-----------------------------------------------------------------------------
(* Properties.                                                             *)

\* However commands overlap, a subtask in the table has its parent there, which lists it,
\* and whatever a task lists is there.
SubtasksListed ==
  \A t \in tasks :
    /\ t.parent # 0 => \E q \in tasks : q.id = t.parent /\ t.id \in q.subtasks
    /\ \A id \in t.subtasks : \E q \in tasks : q.id = id /\ q.parent = t.id

\* The files name what was made, and the table of tasks is sound in itself.
TypeOK ==
  /\ pending \subseteq asked /\ expired \subseteq asked /\ asked \subseteq Requests
  /\ history \subseteq asked \X {"completed", "timeout"}
  /\ told \subseteq asked \X {"answered", "timeout"}
  /\ locks \subseteq {l \in Locks : lock[l] # NoLock} /\ dead \union granted \subseteq Locks
  /\ created \subseteq Tasks /\ blank \subseteq Processes
  /\ \A t \in tasks : t.id \in created /\ t.parent < t.id
  /\ SubtasksListed

\* A request is waiting or has one outcome on record, and its agent is told no other, unless
\* a command of its own ended while another was under way, or a file was emptied or loaded
\* while it was being written.  A request that no command is about suffers from no overlap
\* of others but one within a save.
SettledOnce ==
  Writers(WritesPending \union WritesHistory) = {} =>
    \A r \in asked \ exposed :
      LET outcomes == {s \in {"completed", "timeout"} : <<r, s>> \in history} IN
      (\A p \in Processes : proc[p].pc \in {"idle", "tell"} \/ r \notin About(p)) =>
        /\ Cardinality(outcomes) = IF r \in pending THEN 0 ELSE 1
        /\ <<r, "answered">> \in told => outcomes = {"completed"}
        /\ <<r, "timeout">> \in told => outcomes = {"timeout"}

\* Two agents that were told so hold one file only if one of them was told while another
\* command was under way, or if the table was emptied or loaded while it was being written.
\* Otherwise whoever holds a lock finds it in the table until it is released or expires; and
\* the table itself never has two live locks of one file.
OneHolder ==
  LET held == granted \ dead IN
  /\ \A l, k \in held \ exposed : lock[l].path = lock[k].path => l = k
  /\ Writers(WritesLocks) = {} => held \ exposed \subseteq locks
  /\ \A l, k \in locks \ dead : lock[l].path = lock[k].path => l = k

\* Does not hold: a request that shall wait after its deadline keeps waiting.
WaitKeepsWaiting == \A r \in asked : Fallback[r] = "wait" => <<r, "timeout">> \notin history

\* Does not hold: an answer that was taken is the only outcome.  checkTimeouts saves what it
\* loaded before the answer.
AnswerStands ==
  \A r \in asked : <<r, "answered">> \in told => <<r, "timeout">> \notin history \union told

\* Does not hold: one agent holds a file.  Two commands load the table before either saves.
NeverTwoHolders ==
  \A l, k \in granted \ dead : lock[l].path = lock[k].path => l = k
=============================================================================
