------------------------------ MODULE TaskFlow ------------------------------
(***************************************************************************)
(* The life of a task: the view that src/domain/reducer.js folds out of    *)
(* the event log, and the watchdog of src/broker/service.js that escalates *)
(* a task nobody accepts.                                                  *)
(*                                                                         *)
(* The view is recomputed from the durable log at each read, so here an    *)
(* appended event applies its case of the reducer at once, and a restart   *)
(* of the broker loses only the timers and the roster.  The log accepts    *)
(* any kind of event at any time: whoever sends a result does not know of  *)
(* the cancellation that got there first.                                  *)
(*                                                                         *)
(* A tick is TASK_UNACK_THRESHOLD_MS / Threshold.  Ages are counted up to  *)
(* the largest value a comparison tells apart.                             *)
(***************************************************************************)
EXTENDS Integers, FiniteSets

CONSTANTS
  Tasks, Submissions,
  Approvals,
  AskedFor,      \* the task that an approval is about
  None,          \* no submission
  Threshold,     \* TASK_UNACK_THRESHOLD_MS, in ticks
  Roster,        \* of "pm" and "human", whom escalations are for
  Dedup,         \* TASK_UNACK_DEDUP_MS, in ticks
  MaxRestarts    \* bound: restarts of the broker

ASSUME RosterType == Roster \subseteq {"pm", "human"}
ASSUME ApprovalsType == AskedFor \in [Approvals -> Tasks]
ASSUME NoneType == None \notin Submissions
ASSUME TimesType == Threshold \in Nat /\ Dedup \in Nat \ {0}
ASSUME RestartsType == MaxRestarts \in Nat

VARIABLES
  status,      \* of each task in the view; none: no event names it
  canonical,   \* latestSubmissionId, the only member of submissions
  duplicates,  \* duplicateSubmissionIds
  decision,    \* status of each approval in the view
  tied,        \* approvals whose record in the view has its task
  asking,      \* history: approvals asked for of their task since their latest answer
  request,     \* how the first request_task of a task was addressed
  age,         \* ticks since the latest event of the task
  unacked,     \* ticks since its last task_unacked; Dedup: longer, or never
  timer,       \* watchdogTimers: ticks left, or Off
  here,        \* those on the roster
  handedIn,    \* history: submissions that arrived
  restarts

approvalVars == <<decision, tied, asking>>
viewVars == <<status, canonical, duplicates, approvalVars>>
logVars  == <<request, age, unacked>>
vars == <<viewVars, logVars, timer, here, handedIn, restarts>>

Statuses == {"none", "open", "assigned", "in_progress", "submitted",
             "blocked", "completed", "cancelled"}
Addressing == {"unasked", "targeted", "nobody", "broadcast"}
Off == -1

TypeOK ==
  /\ status \in [Tasks -> Statuses]
  /\ canonical \in [Tasks -> Submissions \cup {None}]
  /\ duplicates \in [Tasks -> SUBSET Submissions]
  /\ decision \in [Approvals -> {"none", "pending", "answered"}]
  /\ tied \subseteq Approvals /\ asking \subseteq tied
  /\ request \in [Tasks -> Addressing]
  /\ age \in [Tasks -> 0..(Threshold + 1)]
  /\ unacked \in [Tasks -> 0..Dedup]
  /\ timer \in [Tasks -> Off..Threshold]
  /\ here \subseteq Roster
  /\ handedIn \in [Tasks -> SUBSET Submissions]
  /\ restarts \in Nat

Init ==
  /\ status = [t \in Tasks |-> "none"]
  /\ canonical = [t \in Tasks |-> None]
  /\ duplicates = [t \in Tasks |-> {}]
  /\ decision = [a \in Approvals |-> "none"] /\ tied = {} /\ asking = {}
  /\ request = [t \in Tasks |-> "unasked"]
  /\ age = [t \in Tasks |-> 0]
  /\ unacked = [t \in Tasks |-> Dedup]
  /\ timer = [t \in Tasks |-> Off]
  /\ here = {}
  /\ handedIn = [t \in Tasks |-> {}]
  /\ restarts = 0

-----------------------------------------------------------------------------
(* Events of a task *)

\* An event of t is the latest one; t is in the view from its first event on.
Event(t, next) ==
  /\ status' = [status EXCEPT ![t] = next]
  /\ age' = [age EXCEPT ![t] = 0]

\* ensureTask
Seen(t) == IF status[t] = "none" THEN "open" ELSE status[t]

\* A request opens the task again whatever became of it.  If it names
\* participants, the watchdog of the task is set unless it is set already.
RequestTask(t, to) ==
  /\ Event(t, "open")
  /\ request' = [request EXCEPT ![t] = IF @ = "unasked" THEN to ELSE @]
  /\ timer' = [timer EXCEPT ![t] = IF @ = Off /\ to # "broadcast"
                                   THEN Threshold ELSE @]
  /\ UNCHANGED <<canonical, duplicates, approvalVars, unacked, here,
                 handedIn, restarts>>

\* Who has accepted is not kept: nothing here asks for it.
AcceptTask(t) ==
  /\ Event(t, "assigned")
  /\ UNCHANGED <<canonical, duplicates, approvalVars, request, unacked, timer,
                 here, handedIn, restarts>>

ReportStarted(t) ==
  /\ Event(t, "in_progress")
  /\ UNCHANGED <<canonical, duplicates, approvalVars, request, unacked,
                 timer, here, handedIn, restarts>>

\* Questions, progress and whatever else names the task.
OtherEvent(t) ==
  /\ Event(t, Seen(t))
  /\ UNCHANGED <<canonical, duplicates, approvalVars, request, unacked,
                 timer, here, handedIn, restarts>>

\* Mutant: only a cancelled task refuses results.
TooLateIfCancelled(t) == status[t] = "cancelled"
TooLate(t) == canonical[t] # None \/ status[t] = "cancelled"

\* The first result is canonical; a repetition of it is no news, and any
\* other one is a duplicate.
SubmitResult(t, s) ==
  /\ handedIn' = [handedIn EXCEPT ![t] = @ \cup {s}]
  /\ \/ /\ s = canonical[t]
        /\ Event(t, Seen(t))
        /\ UNCHANGED <<canonical, duplicates>>
     \/ /\ s # canonical[t] /\ TooLate(t)
        /\ Event(t, Seen(t))
        /\ duplicates' = [duplicates EXCEPT ![t] = @ \cup {s}]
        /\ UNCHANGED canonical
     \/ /\ s # canonical[t] /\ ~TooLate(t)
        /\ Event(t, "submitted")
        /\ canonical' = [canonical EXCEPT ![t] = s]
        /\ UNCHANGED duplicates
  /\ UNCHANGED <<approvalVars, request, unacked, timer, here, restarts>>

CancelTask(t) ==
  /\ Event(t, "cancelled")
  /\ UNCHANGED <<canonical, duplicates, approvalVars, request, unacked,
                 timer, here, handedIn, restarts>>

\* ensureApproval: an event that names its task leaves the task in the record.
Tied(a, named) == IF named THEN tied \cup {a} ELSE tied

\* An approval is asked for at any time, also again and after its answer: its id is
\* that of the tool use, and so is its task.  What was answered stays so, but the task
\* is blocked every time.
RequestApproval(a, named) ==
  /\ decision' = [decision EXCEPT ![a] = IF @ = "none" THEN "pending" ELSE @]
  /\ tied' = Tied(a, named)
  /\ IF named THEN Event(AskedFor[a], "blocked") /\ asking' = asking \cup {a}
              ELSE UNCHANGED <<status, age, asking>>
  /\ UNCHANGED <<canonical, duplicates, request, unacked, timer,
                 here, handedIn, restarts>>

\* Mutant: only an answer that completes the task unblocks it.
UnblockedIfDone(t, done) == IF done THEN "completed" ELSE status[t]
Unblocked(t, done) == IF done THEN "completed" ELSE "assigned"

\* Anybody answers at any time, asked or not.  An answer that names no task is none of
\* its events, and is for the task in the record, if it has one.
RespondApproval(a, named, done) ==
  /\ decision' = [decision EXCEPT ![a] = "answered"]
  /\ tied' = Tied(a, named)
  /\ asking' = asking \ {a}
  /\ status' = IF a \in Tied(a, named)
                 THEN [status EXCEPT ![AskedFor[a]] = Unblocked(AskedFor[a], done)] ELSE status
  /\ age' = IF named THEN [age EXCEPT ![AskedFor[a]] = 0] ELSE age
  /\ UNCHANGED <<canonical, duplicates, request, unacked, timer,
                 here, handedIn, restarts>>

-----------------------------------------------------------------------------
(* The watchdog *)

\* checkAndNotifyUnacked for a set of tasks: an open one is reported to the
\* project managers, and to the humans who are there, unless it was within
\* Dedup or there is no project manager.
Escalates(t) == status[t] = "open" /\ "pm" \in here /\ unacked[t] = Dedup

CheckUnacked(checked) ==
  LET told == {t \in checked : Escalates(t)}
  IN  /\ unacked' = [t \in Tasks |-> IF t \in told THEN 0 ELSE unacked[t]]
      /\ age' = [t \in Tasks |-> IF t \in told THEN 0 ELSE age[t]]
      /\ UNCHANGED <<viewVars, request, here, handedIn, restarts>>

TimerFires(t) ==
  /\ timer[t] = 0
  /\ timer' = [timer EXCEPT ![t] = Off]
  /\ CheckUnacked({t})

\* Mutant: tasks that are late already are not looked at.
WatchedInTime ==
  {t \in Tasks : status[t] = "open" /\ request[t] = "targeted"
                 /\ age[t] <= Threshold}
Watched == {t \in Tasks : status[t] = "open" /\ request[t] = "targeted"}

Delay(t) == Threshold - age[t]

\* reconcileWatchdogs: late tasks are checked, timers are set for the others.
ReconcileWatchdogs ==
  LET late == {t \in Watched : age[t] > Threshold}
  IN  /\ timer' = [t \in Tasks |->
                     IF t \in Watched \ late /\ timer[t] = Off
                     THEN Delay(t) ELSE timer[t]]
      /\ CheckUnacked(late)

-----------------------------------------------------------------------------
(* Environment *)

RosterChanges(r) ==
  /\ here' = IF r \in here THEN here \ {r} ELSE here \cup {r}
  /\ UNCHANGED <<viewVars, logVars, timer, handedIn, restarts>>

BrokerRestart ==
  /\ restarts < MaxRestarts
  /\ restarts' = restarts + 1
  /\ timer' = [t \in Tasks |-> Off]
  /\ here' = {}
  /\ UNCHANGED <<viewVars, logVars, handedIn>>

Tick ==
  /\ age' = [t \in Tasks |-> IF status[t] # "none" /\ age[t] <= Threshold
                             THEN age[t] + 1 ELSE age[t]]
  /\ unacked' = [t \in Tasks |-> IF unacked[t] < Dedup THEN unacked[t] + 1
                                 ELSE Dedup]
  /\ timer' = [t \in Tasks |-> IF timer[t] > 0 THEN timer[t] - 1 ELSE timer[t]]
  /\ UNCHANGED <<viewVars, request, here, handedIn, restarts>>

Next ==
  \/ \E t \in Tasks, to \in Addressing \ {"unasked"} : RequestTask(t, to)
  \/ \E t \in Tasks : AcceptTask(t)
  \/ \E t \in Tasks : ReportStarted(t)
  \/ \E t \in Tasks : OtherEvent(t)
  \/ \E t \in Tasks, s \in Submissions : SubmitResult(t, s)
  \/ \E t \in Tasks : CancelTask(t)
  \/ \E a \in Approvals, named \in BOOLEAN : RequestApproval(a, named)
  \/ \E a \in Approvals, named, done \in BOOLEAN : RespondApproval(a, named, done)
  \/ \E t \in Tasks : TimerFires(t)
  \/ ReconcileWatchdogs
  \/ \E r \in Roster : RosterChanges(r)
  \/ BrokerRestart
  \/ Tick

Spec == Init /\ [][Next]_vars

\* The clock advances and the broker's timers run.
LiveSpec ==
  /\ Spec
  /\ WF_vars(Tick)
  /\ WF_vars(ReconcileWatchdogs)
  /\ \A t \in Tasks : WF_vars(TimerFires(t))

-----------------------------------------------------------------------------
(* Properties *)

\* Whoever hands in a result, how often, and however the task is requested,
\* cancelled or reopened meanwhile: each result is either the canonical one
\* or on record as a duplicate.
NoResultLost ==
  \A t \in Tasks :
    handedIn[t] = duplicates[t] \cup ({canonical[t]} \ {None})

\* In whatever order its approvals are asked for and answered, early, repeatedly or under
\* an answer that does not name the task: a blocked task has an approval that was asked for
\* since it was last answered, so somebody has still to answer.
BlockedIsAsked ==
  \A t \in Tasks : status[t] = "blocked" =>
    \E a \in asking : AskedFor[a] = t

\* Does not hold: a blocked task has an approval that the view shows as pending.  What is
\* asked for again after its answer blocks the task, and stays answered in the view.
BlockedIsPending ==
  \A t \in Tasks : status[t] = "blocked" =>
    \E a \in Approvals : AskedFor[a] = t /\ decision[a] = "pending"

\* The canonical result of a task is never taken back or replaced.
CanonicalIsFirst ==
  [][\A t \in Tasks : canonical[t] # None => canonical'[t] = canonical[t]]_vars

\* A task that was asked of somebody and stays open does not stay unnoticed
\* while there is a project manager: it is reported, and reported again,
\* across restarts of the broker and whatever else is said about it.
Due(t) == Escalates(t) /\ request[t] = "targeted"
OpenTaskIsEscalated == \A t \in Tasks : Due(t) ~> ~Due(t)

\* Does not hold, "a terminal state (cancelled)": a cancelled task stays so until it is
\* requested again.
CancelledIsTerminal ==
  [][\A t \in Tasks : status[t] = "cancelled" => status'[t] \in {"cancelled", "open"}]_vars

\* Does not hold, "when a task is not acknowledged for 5 minutes [...] send the same event to
\* the human participants": an open task is reported while a human is there.
HumansHearOfIt ==
  \A t \in Tasks :
    (/\ status[t] = "open" /\ request[t] = "targeted"
     /\ "human" \in here /\ unacked[t] = Dedup)
      ~> (status[t] # "open" \/ "human" \notin here \/ unacked[t] < Dedup)
=============================================================================
