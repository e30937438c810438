--------------------------- MODULE People_proofs ---------------------------
(***************************************************************************)
(* Proofs about the parts of the system in which people decide, for any    *)
(* constants the assumptions allow: TaskFlow; the hooks and Codex sessions *)
(* of Approvals; the chat adapter of Yunzhijia.                            *)
(*                                                                         *)
(* TaskFlow.  NoResultLost and BlockedIsAsked are inductive relative to    *)
(* TypeOK.  CanonicalIsFirst needs no invariant: it is a property of the   *)
(* one action that writes canonical, but it is proved over every action.   *)
(*                                                                         *)
(* Approvals.  What a hook did, or Codex ran, follows an answer in the log *)
(* of the broker.  The invariant ToolsInv says which entries the log can   *)
(* hold and what every asker knows of the entries after its own request;   *)
(* the log only grows, so what was known stays true (HookStays,            *)
(* AcceptedStays).                                                         *)
(*                                                                         *)
(* Yunzhijia.  Quiet is inductive relative to types.  That no socket is    *)
(* opened twice (LinkSound) needs to know that nothing is open before the  *)
(* adapter is registered (Unopened), and that a user is registered once,   *)
(* before its first socket (Registration).                                 *)
(***************************************************************************)
EXTENDS MCPeople, Sequences, NaturalsInduction, WellFoundedInduction, TLAPS


-----------------------------------------------------------------------------
(* TaskFlow: types, results on record, blocked tasks.                      *)

LEMMA TypeInit == Init => TypeOK
BY TimesType DEF Init, TypeOK, Statuses, Addressing, Off

LEMMA TypeStep == TypeOK /\ [Next]_vars => TypeOK'
<1>. SUFFICES ASSUME TypeOK, [Next]_vars PROVE TypeOK'
  OBVIOUS
<1>. USE TimesType, ApprovalsType DEF TypeOK, Statuses, Addressing, Off,
         Event, Seen, Tied, approvalVars, viewVars, logVars
<1>1. ASSUME NEW t \in Tasks, NEW to \in Addressing \ {"unasked"},
             RequestTask(t, to)
      PROVE  TypeOK'
  BY <1>1 DEF RequestTask
<1>2. ASSUME NEW t \in Tasks, AcceptTask(t) PROVE TypeOK'
  BY <1>2 DEF AcceptTask
<1>3. ASSUME NEW t \in Tasks, ReportStarted(t) PROVE TypeOK'
  BY <1>3 DEF ReportStarted
<1>4. ASSUME NEW t \in Tasks, OtherEvent(t) PROVE TypeOK'
  BY <1>4 DEF OtherEvent
<1>5. ASSUME NEW t \in Tasks, NEW s \in Submissions, SubmitResult(t, s)
      PROVE  TypeOK'
  BY <1>5 DEF SubmitResult
<1>6. ASSUME NEW t \in Tasks, CancelTask(t) PROVE TypeOK'
  BY <1>6 DEF CancelTask
<1>7. ASSUME NEW a \in Approvals, NEW named \in BOOLEAN, RequestApproval(a, named)
      PROVE  TypeOK'
  <2>. AskedFor[a] \in Tasks
    OBVIOUS
  <2>. QED
    BY <1>7 DEF RequestApproval
<1>8. ASSUME NEW a \in Approvals, NEW named \in BOOLEAN, NEW done \in BOOLEAN,
             RespondApproval(a, named, done)
      PROVE  TypeOK'
  <2>. AskedFor[a] \in Tasks
    OBVIOUS
  <2>. QED
    BY <1>8 DEF RespondApproval, Unblocked
<1>9. ASSUME NEW t \in Tasks, TimerFires(t) PROVE TypeOK'
  BY <1>9 DEF TimerFires, CheckUnacked
<1>10. CASE ReconcileWatchdogs
  <2>1. timer' \in [Tasks -> Off..Threshold]
    BY <1>10 DEF ReconcileWatchdogs, Watched, Delay
  <2>. QED
    BY <2>1, <1>10 DEF ReconcileWatchdogs, CheckUnacked
<1>11. ASSUME NEW r \in Roster, RosterChanges(r) PROVE TypeOK'
  BY <1>11 DEF RosterChanges
<1>12. CASE BrokerRestart
  BY <1>12 DEF BrokerRestart
<1>13. CASE Tick
  BY <1>13 DEF Tick
<1>14. CASE UNCHANGED vars
  BY <1>14 DEF vars
<1>. HIDE DEF TypeOK
<1>. QED
  BY <1>1, <1>2, <1>3, <1>4, <1>5, <1>6, <1>7, <1>8, <1>9, <1>10, <1>11,
     <1>12, <1>13, <1>14
  DEF Next

\* The view, the timers and the clocks stay within their ranges, in particular
\* no watchdog timer is ever set for longer than the threshold.
THEOREM TypeCorrect == Spec => []TypeOK
BY TypeInit, TypeStep, PTL DEF Spec

-----------------------------------------------------------------------------
(* Results *)

\* Only the arrival of a result touches the record of results.
LEMMA RecordSteps ==
  ASSUME [Next]_vars
  PROVE  \/ \E t \in Tasks, s \in Submissions : SubmitResult(t, s)
         \/ UNCHANGED <<handedIn, canonical, duplicates>>
<1>. USE DEF viewVars
<1>1. ASSUME NEW t \in Tasks, NEW to \in Addressing \ {"unasked"},
             RequestTask(t, to)
      PROVE  UNCHANGED <<handedIn, canonical, duplicates>>
  BY <1>1 DEF RequestTask
<1>2. ASSUME NEW t \in Tasks, AcceptTask(t)
      PROVE  UNCHANGED <<handedIn, canonical, duplicates>>
  BY <1>2 DEF AcceptTask
<1>3. ASSUME NEW t \in Tasks, ReportStarted(t) \/ OtherEvent(t) \/ CancelTask(t)
      PROVE  UNCHANGED <<handedIn, canonical, duplicates>>
  BY <1>3 DEF ReportStarted, OtherEvent, CancelTask
<1>4. ASSUME NEW a \in Approvals, NEW named \in BOOLEAN, RequestApproval(a, named)
      PROVE  UNCHANGED <<handedIn, canonical, duplicates>>
  BY <1>4 DEF RequestApproval
<1>5. ASSUME NEW a \in Approvals, NEW named \in BOOLEAN, NEW done \in BOOLEAN,
             RespondApproval(a, named, done)
      PROVE  UNCHANGED <<handedIn, canonical, duplicates>>
  BY <1>5 DEF RespondApproval
<1>6. ASSUME NEW t \in Tasks, TimerFires(t)
      PROVE  UNCHANGED <<handedIn, canonical, duplicates>>
  BY <1>6 DEF TimerFires, CheckUnacked
<1>7. ASSUME ReconcileWatchdogs \/ BrokerRestart \/ Tick
      PROVE  UNCHANGED <<handedIn, canonical, duplicates>>
  BY <1>7 DEF ReconcileWatchdogs, CheckUnacked, BrokerRestart, Tick
<1>8. ASSUME NEW r \in Roster, RosterChanges(r)
      PROVE  UNCHANGED <<handedIn, canonical, duplicates>>
  BY <1>8 DEF RosterChanges
<1>9. ASSUME UNCHANGED vars
      PROVE  UNCHANGED <<handedIn, canonical, duplicates>>
  BY <1>9 DEF vars
<1>. QED
  BY <1>1, <1>2, <1>3, <1>4, <1>5, <1>6, <1>7, <1>8, <1>9 DEF Next

LEMMA ResultsStep == TypeOK /\ NoResultLost /\ [Next]_vars => NoResultLost'
<1>. SUFFICES ASSUME TypeOK, NoResultLost, [Next]_vars PROVE NoResultLost'
  OBVIOUS
<1>1. ASSUME NEW t \in Tasks, NEW s \in Submissions, SubmitResult(t, s)
      PROVE  NoResultLost'
  <2>1. handedIn'[t] = handedIn[t] \cup {s}
    BY <1>1 DEF SubmitResult, TypeOK
  <2>2. handedIn[t] = duplicates[t] \cup ({canonical[t]} \ {None})
    BY DEF NoResultLost
  <2>3. handedIn'[t] = duplicates'[t] \cup ({canonical'[t]} \ {None})
    <3>1. \/ s = canonical[t] /\ UNCHANGED <<canonical, duplicates>>
          \/ /\ duplicates' = [duplicates EXCEPT ![t] = @ \cup {s}]
             /\ UNCHANGED canonical
          \/ /\ ~TooLate(t)
             /\ canonical' = [canonical EXCEPT ![t] = s]
             /\ UNCHANGED duplicates
      BY <1>1 DEF SubmitResult
    <3>2. CASE s = canonical[t] /\ UNCHANGED <<canonical, duplicates>>
      BY <3>2, <2>1, <2>2, NoneType
    <3>3. CASE /\ duplicates' = [duplicates EXCEPT ![t] = @ \cup {s}]
               /\ UNCHANGED canonical
      <4>1. duplicates'[t] = duplicates[t] \cup {s} /\ canonical'[t] = canonical[t]
        BY <3>3 DEF TypeOK
      <4>. QED
        BY <4>1, <2>1, <2>2
    <3>4. CASE /\ ~TooLate(t)
               /\ canonical' = [canonical EXCEPT ![t] = s]
               /\ UNCHANGED duplicates
      <4>1. canonical[t] = None /\ canonical'[t] = s /\ duplicates'[t] = duplicates[t]
        BY <3>4 DEF TooLate, TypeOK
      <4>2. s # None
        BY NoneType
      <4>. QED
        BY <4>1, <4>2, <2>1, <2>2
    <3>. QED
      BY <3>1, <3>2, <3>3, <3>4
  <2>4. ASSUME NEW u \in Tasks, u # t
        PROVE  /\ handedIn'[u] = handedIn[u]
               /\ duplicates'[u] = duplicates[u]
               /\ canonical'[u] = canonical[u]
    BY <1>1, <2>4 DEF SubmitResult, TypeOK
  <2>. QED
    BY <2>3, <2>4 DEF NoResultLost
<1>2. CASE UNCHANGED <<handedIn, canonical, duplicates>>
  BY <1>2 DEF NoResultLost
<1>. QED
  BY <1>1, <1>2, RecordSteps

\* Of any number of results, sent at any time, none is dropped from the record.
THEOREM ResultsOnRecord == Spec => []NoResultLost
<1>1. Init => NoResultLost
  BY DEF Init, NoResultLost
<1>. QED
  BY <1>1, TypeInit, TypeStep, ResultsStep, PTL DEF Spec

\* The first canonical result stays, whoever sends what afterwards.
THEOREM FirstStaysCanonical == Spec => CanonicalIsFirst
<1>1. TypeOK /\ [Next]_vars =>
        [\A t \in Tasks : canonical[t] # None => canonical'[t] = canonical[t]]_vars
  <2>. SUFFICES ASSUME TypeOK, [Next]_vars, NEW u \in Tasks, canonical[u] # None
                PROVE  canonical'[u] = canonical[u]
    OBVIOUS
  <2>1. ASSUME NEW t \in Tasks, NEW s \in Submissions, SubmitResult(t, s)
        PROVE  canonical'[u] = canonical[u]
    BY <2>1 DEF SubmitResult, TooLate, TypeOK
  <2>. QED
    BY <2>1, RecordSteps
<1>. QED
  BY <1>1, TypeInit, TypeStep, PTL DEF Spec, CanonicalIsFirst

-----------------------------------------------------------------------------
(* Approvals *)

LEMMA BlockedStep == TypeOK /\ BlockedIsAsked /\ [Next]_vars => BlockedIsAsked'
<1>. SUFFICES ASSUME TypeOK, BlockedIsAsked, [Next]_vars,
                     NEW u \in Tasks, status'[u] = "blocked"
              PROVE  \E b \in asking' : AskedFor[b] = u
  BY DEF BlockedIsAsked
<1>0. ASSUME UNCHANGED asking, status[u] = "blocked"
      PROVE  \E b \in asking' : AskedFor[b] = u
  BY <1>0 DEF BlockedIsAsked
<1>. USE DEF Event, Seen, TypeOK, approvalVars, viewVars
<1>1. ASSUME NEW t \in Tasks, NEW to \in Addressing \ {"unasked"},
             RequestTask(t, to)
      PROVE  UNCHANGED asking /\ status[u] = "blocked"
  BY <1>1 DEF RequestTask
<1>2. ASSUME NEW t \in Tasks, AcceptTask(t)
      PROVE  UNCHANGED asking /\ status[u] = "blocked"
  BY <1>2 DEF AcceptTask
<1>3. ASSUME NEW t \in Tasks, ReportStarted(t) \/ OtherEvent(t) \/ CancelTask(t)
      PROVE  UNCHANGED asking /\ status[u] = "blocked"
  BY <1>3 DEF ReportStarted, OtherEvent, CancelTask
<1>4. ASSUME NEW t \in Tasks, NEW s \in Submissions, SubmitResult(t, s)
      PROVE  UNCHANGED asking /\ status[u] = "blocked"
  BY <1>4 DEF SubmitResult
<1>5. ASSUME NEW t \in Tasks, TimerFires(t)
      PROVE  UNCHANGED asking /\ status[u] = "blocked"
  BY <1>5 DEF TimerFires, CheckUnacked
<1>6. ASSUME ReconcileWatchdogs \/ BrokerRestart \/ Tick
      PROVE  UNCHANGED asking /\ status[u] = "blocked"
  BY <1>6 DEF ReconcileWatchdogs, CheckUnacked, BrokerRestart, Tick
<1>7. ASSUME NEW r \in Roster, RosterChanges(r)
      PROVE  UNCHANGED asking /\ status[u] = "blocked"
  BY <1>7 DEF RosterChanges
<1>8. ASSUME UNCHANGED vars
      PROVE  UNCHANGED asking /\ status[u] = "blocked"
  BY <1>8 DEF vars
<1>9. ASSUME NEW a \in Approvals, NEW named \in BOOLEAN, RequestApproval(a, named)
      PROVE  \E b \in asking' : AskedFor[b] = u
  <2>1. AskedFor[a] \in Tasks /\ asking \subseteq asking'
    BY <1>9, ApprovalsType DEF RequestApproval
  <2>2. CASE named /\ AskedFor[a] = u
    <3>1. a \in asking'
      BY <1>9, <2>2 DEF RequestApproval
    <3>. QED
      BY <2>2, <3>1
  <2>3. CASE ~named \/ AskedFor[a] # u
    <3>1. status[u] = "blocked"
      BY <1>9, <2>1, <2>3 DEF RequestApproval
    <3>2. PICK b \in asking : AskedFor[b] = u
      BY <3>1 DEF BlockedIsAsked
    <3>. QED
      BY <2>1, <3>2
  <2>. QED
    BY <2>2, <2>3
<1>10. ASSUME NEW a \in Approvals, NEW named \in BOOLEAN, NEW done \in BOOLEAN,
              RespondApproval(a, named, done)
       PROVE  \E b \in asking' : AskedFor[b] = u
  <2>1. AskedFor[a] \in Tasks
    BY ApprovalsType
  <2>2. a \in Tied(a, named) => status'[AskedFor[a]] # "blocked"
    BY <1>10, <2>1 DEF RespondApproval, Unblocked
  <2>3. status[u] = "blocked" /\ (a \in Tied(a, named) => AskedFor[a] # u)
    BY <1>10, <2>1, <2>2 DEF RespondApproval
  <2>4. PICK b \in asking : AskedFor[b] = u
    BY <2>3 DEF BlockedIsAsked
  <2>5. b # a
    BY <2>3, <2>4 DEF Tied
  <2>6. asking' = asking \ {a}
    BY <1>10 DEF RespondApproval
  <2>. QED
    BY <2>4, <2>5, <2>6
<1>. HIDE DEF TypeOK
<1>. QED
  BY <1>0, <1>1, <1>2, <1>3, <1>4, <1>5, <1>6, <1>7, <1>8, <1>9, <1>10 DEF Next

\* With any number of approvals of one task asked for and answered in any order, early,
\* late and again, a task that is still blocked has one that was asked for since its
\* latest answer.  An answer that names no task reaches it because what was asked for of
\* a task has the task on record (asking \subseteq tied, in TypeOK).
THEOREM BlockedByAsking == Spec => []BlockedIsAsked
<1>1. Init => BlockedIsAsked
  BY DEF Init, BlockedIsAsked
<1>. QED
  BY <1>1, TypeInit, TypeStep, BlockedStep, PTL DEF Spec

-----------------------------------------------------------------------------
(* Approvals: the inductive invariant.                                     *)

Supported == Tools!Decisions \ {"null", "error"}
HookIds == Hooked \union {Tools!NoId}

\* What the human says to Codex: yes or no, and how, or one of the decisions it offers.
NativeAnswer(d) ==
  /\ d \in [yes : {"approved", "denied", "cancelled"},
            mode : {"yes", "always", "no", "cancel", "none"}, native : Supported \union {"none"}]
  /\ d.native = "none" => d.mode \in Tools!Modes(d.yes)
  /\ d.native # "none" => d.yes = IF d.native \in Tools!Accepting THEN "approved" ELSE "denied"

\* What is in the log: hooks answer only to approve, for Codex nobody but the human does.
HookEvent(e) ==
  /\ e.use \in Hooked /\ e.id \in HookIds
  /\ \/ e.kind = "request" /\ e.by = "agent"
     \/ e.kind = "response" /\ e.by = "hook" /\ e.decision = "approved"
     \/ e.kind = "response" /\ e.by = "human" /\ e.decision \in {"approved", "denied"}
CodexEvent(e) ==
  /\ e.use \in Native /\ e.id = e.use
  /\ \/ e.kind = "request" /\ e.by = "agent"
     \/ e.kind = "response" /\ e.by = "human" /\ NativeAnswer(e.decision)
LogKnown == \A n \in DOMAIN log : HookEvent(log[n]) \/ CodexEvent(log[n])

Events ==
  [kind : {"request", "response"}, id : HookIds \union Native, use : Hooked \union Native,
   by : {"agent", "hook", "human"},
   decision : {"none", "approved", "denied"}
     \union [yes : {"approved", "denied", "cancelled"},
             mode : {"yes", "always", "no", "cancel", "none"}, native : Supported \union {"none"}]]

WaitRecord == [pc : {"idle", "ready", "waiting", "failing", "ended"},
               id : HookIds \union Native, request : Nat]

ToolTypes ==
  /\ log \in Seq(Events)
  /\ pendingToolUse \in HookIds
  /\ wait \in [Tools!Asks -> WaitRecord]
  /\ offer \in [Native -> Offers \union {{}}] /\ client \in Clients
  /\ outcome \in [Hooked \union Native ->
                    {"none", "run", "blocked", "skipped"} \union Tools!Decisions]
  /\ answered \subseteq DOMAIN log /\ faults \in 0..MaxFaults

\* Those of the human's answers that Heard is about, for any ask that is as w.
HeardBy(w) ==
  {n \in DOMAIN log : n > w.request /\ log[n].by = "human" /\ log[n].id = w.id}

\* A hook's outcome comes with its end; a denial is the human's, and a hook that ended while
\* no call failed has an answer behind its request.
HookKnown(u, w) ==
  /\ w.id \in HookIds /\ w.request \in 0..Len(log)
  /\ outcome[u] \in {"none", "run", "blocked", "skipped"}
  /\ w.pc # "ended" => outcome[u] = "none"
  /\ outcome[u] = "blocked" => \E n \in HeardBy(w) : log[n].decision = "denied"
  /\ faults = 0 /\ w.pc = "ended" =>
       \E n \in DOMAIN log : n > w.request /\ log[n].kind = "response" /\ log[n].id = w.id

\* Codex asks over the connection of the time, and not again for what is decided.
CodexWait(u, c, w) ==
  /\ w.request \in 0..Len(log) /\ w.pc \in {"idle", "waiting", "failing", "ended"}
  /\ w.pc # "idle" => w.id = u
  /\ c > client => w.pc = "idle"
  /\ c = client /\ outcome[u] # "none" => w.pc \notin {"waiting", "failing"}

\* What Codex accepted was approved over the last connection that it asked over.
AcceptedOver(u, c) ==
  /\ wait[<<u, c>>].pc # "idle"
  /\ \A d \in Clients : d > c => wait[<<u, d>>].pc = "idle"
  /\ \E n \in HeardBy(wait[<<u, c>>]) : log[n].decision.yes = "approved"
Accepted(u) == outcome[u] \in Tools!Accepting => \E c \in Clients : AcceptedOver(u, c)

AsksKnown ==
  /\ \A u \in Hooked : HookKnown(u, wait[<<u, 0>>])
  /\ \A u \in Native : /\ outcome[u] \in Tools!Decisions \union {"none"}
                       /\ \A c \in Clients : CodexWait(u, c, wait[<<u, c>>])
                       /\ Accepted(u)

ToolsInv == ToolTypes /\ LogKnown /\ AsksKnown

-----------------------------------------------------------------------------
(* Approvals: the lemmas that its steps share.                             *)

\* A set of numbers that is not empty has a least element.
LEMMA MinIs ==
  ASSUME NEW S \in SUBSET Nat, S # {}
  PROVE  Tools!Min(S) \in S
<1>. DEFINE R == OpToRel(<, Nat)
<1>1. IsWellFoundedOn(R, Nat)
  BY NatLessThanWellFounded
<1>2. \A x, y \in Nat : <<x, y>> \in R <=> x < y
  BY DEF OpToRel
<1>. HIDE DEF R
<1>3. PICK x \in S : \A y \in S : ~(<<y, x>> \in R)
  BY <1>1, WFMin
<1>4. ASSUME NEW y \in S PROVE x <= y
  <2>1. x \in Nat /\ y \in Nat
    OBVIOUS
  <2>2. ~(y < x)
    BY <1>2, <1>3, <2>1
  <2>. QED
    BY <2>1, <2>2
<1>. QED
  BY <1>4 DEF Tools!Min

\* The first of the preferred decisions that is offered is one of both, or there is none.
LEMMA FirstIs ==
  ASSUME NEW S, NEW preferred \in Seq(S), NEW offered
  PROVE  Tools!FirstOf(preferred, offered) \in {"null"} \union (S \intersect offered)
<1>. DEFINE found == {i \in DOMAIN preferred : preferred[i] \in offered}
<1>1. CASE found = {}
  BY <1>1 DEF Tools!FirstOf
<1>2. CASE found # {}
  <2>1. found \in SUBSET Nat
    OBVIOUS
  <2>2. Tools!Min(found) \in found
    BY <1>2, <2>1, MinIs
  <2>3. Tools!FirstOf(preferred, offered) = preferred[Tools!Min(found)]
    BY <1>2 DEF Tools!FirstOf
  <2>. QED
    BY <2>2, <2>3
<1>. QED
  BY <1>1, <1>2

\* Codex accepts by an answer only if it says yes.
LEMMA ResolvedIs ==
  ASSUME NEW d, NativeAnswer(d), NEW offered \in SUBSET Supported
  PROVE  /\ Tools!Resolved(d, offered) \in Tools!Decisions \union {"unsupported"}
         /\ Tools!Resolved(d, offered) \in Tools!Accepting => d.yes = "approved"
<1>1. /\ d.yes \in {"approved", "denied", "cancelled"} /\ d.native \in Supported \union {"none"}
      /\ d.mode \in {"yes", "always", "no", "cancel", "none"}
  BY DEF NativeAnswer
<1>2. CASE d.native # "none"
  BY <1>1, <1>2 DEF Tools!Resolved, NativeAnswer, Supported, Tools!Decisions, Tools!Accepting
<1>3. CASE d.native = "none"
  <2>. DEFINE Refusing == {"decline", "denied", "cancel", "abort"}
              S == IF d.yes = "approved" THEN Supported ELSE Refusing
              byMode == Tools!FirstOf(Tools!PreferredBy(d.mode), offered)
              byAnswer == Tools!FirstOf(Tools!Preferred(d.yes, d.mode), offered)
  <2>1. Tools!PreferredBy(d.mode) \in Seq(S)
    <3>1. d.mode \in Tools!Modes(d.yes)
      BY <1>3 DEF NativeAnswer
    <3>2. CASE d.yes = "approved" /\ d.mode \in {"yes", "always", "none"}
      <4>1. /\ <<"accept", "approved">> \in Seq(Supported)
            /\ <<"acceptForSession", "approved_for_session">> \in Seq(Supported)
        BY DEF Supported, Tools!Decisions, Tools!Accepting
      <4>. QED
        BY <3>2, <4>1 DEF Tools!PreferredBy
    <3>3. CASE d.yes # "approved" /\ d.mode \in {"no", "cancel", "none"}
      <4>1. CASE d.mode = "no"
        BY <3>3, <4>1 DEF Tools!PreferredBy
      <4>2. CASE d.mode = "cancel"
        BY <3>3, <4>2 DEF Tools!PreferredBy
      <4>3. CASE d.mode = "none"
        BY <3>3, <4>3 DEF Tools!PreferredBy
      <4>. QED
        BY <3>3, <4>1, <4>2, <4>3
    <3>. QED
      BY <1>1, <3>1, <3>2, <3>3 DEF Tools!Modes
  <2>2. Tools!Preferred(d.yes, d.mode) \in Seq(S)
    <3>1. CASE d.yes = "approved"
      BY <3>1 DEF Tools!Preferred, Supported, Tools!Decisions, Tools!Accepting, Tools!Legacy
    <3>2. CASE d.yes = "denied"
      <4>1. CASE d.mode = "cancel"
        BY <3>2, <4>1 DEF Tools!Preferred
      <4>2. CASE d.mode # "cancel"
        BY <3>2, <4>2 DEF Tools!Preferred
      <4>. QED
        BY <4>1, <4>2
    <3>3. CASE d.yes = "cancelled"
      BY <3>3 DEF Tools!Preferred
    <3>. QED
      BY <1>1, <3>1, <3>2, <3>3
  <2>3. /\ byMode \in {"null"} \union (S \intersect offered)
        /\ byAnswer \in {"null"} \union (S \intersect offered)
    <3>. HIDE DEF S
    <3>. QED
      BY <2>1, <2>2, FirstIs
  <2>4. Tools!Resolved(d, offered) \in {byMode, byAnswer}
    BY <1>3 DEF Tools!Resolved
  <2>5. {"null"} \union offered \subseteq Tools!Decisions
    BY DEF Supported, Tools!Decisions
  <2>6. d.yes # "approved" =>
          byMode \in {"null"} \union Refusing /\ byAnswer \in {"null"} \union Refusing
    BY <2>3
  <2>. HIDE DEF byMode, byAnswer
  <2>7. Tools!Resolved(d, offered) \in Tools!Decisions
    BY <2>3, <2>4, <2>5
  <2>8. d.yes # "approved" => Tools!Resolved(d, offered) \notin Tools!Accepting
    BY <2>4, <2>6 DEF Tools!Accepting
  <2>. QED
    BY <2>7, <2>8
<1>. QED
  BY <1>2, <1>3

\* Codex never accepts to abort.
LEMMA AbortIs ==
  ASSUME NEW u
  PROVE  Tools!Abort(u) \in Tools!Decisions \ Tools!Accepting
<1>. DEFINE Refusing == {"cancel", "abort", "decline", "denied"}
            first == Tools!FirstOf(<<"cancel", "abort", "decline", "denied">>, offer[u])
<1>1. <<"cancel", "abort", "decline", "denied">> \in Seq(Refusing)
  OBVIOUS
<1>2. first \in {"null"} \union (Refusing \intersect offer[u])
  <2>. HIDE DEF Refusing
  <2>. QED
    BY <1>1, FirstIs
<1>3. Tools!Abort(u) \in {"error", first} /\ (first = "null" => Tools!Abort(u) = "error")
  BY DEF Tools!Abort
<1>. HIDE DEF first
<1>. QED
  BY <1>2, <1>3 DEF Tools!Decisions, Tools!Accepting, Tools!Legacy

\* A log that ends with one more event of a hook or of Codex, or none.
LogMoves ==
  \/ log' = log
  \/ \E e \in Events :
       log' = Append(log, e) /\ (HookEvent(e) \/ CodexEvent(e))

LEMMA LogGrows ==
  ASSUME ToolTypes, LogKnown, LogMoves
  PROVE  /\ log' \in Seq(Events)
         /\ LogKnown' /\ Len(log) \in Nat /\ Len(log') \in Nat /\ Len(log) <= Len(log')
         /\ DOMAIN log = 1..Len(log) /\ DOMAIN log' = 1..Len(log')
         /\ \A n \in DOMAIN log : n \in DOMAIN log' /\ log'[n] = log[n]
         /\ \A w : HeardBy(w) \subseteq HeardBy(w)'
<1>1. log \in Seq(Events) /\ LogKnown
  BY DEF ToolTypes
<1>2. \/ log' = log
      \/ \E e \in Events : log' = Append(log, e) /\ (HookEvent(e) \/ CodexEvent(e))
  BY DEF LogMoves
<1>3. /\ log' \in Seq(Events) /\ Len(log) \in Nat /\ Len(log') \in Nat /\ Len(log) <= Len(log')
      /\ DOMAIN log = 1..Len(log) /\ DOMAIN log' = 1..Len(log')
      /\ \A n \in 1..Len(log) : log'[n] = log[n]
      /\ \A n \in 1..Len(log') : n \in 1..Len(log) \/ HookEvent(log'[n]) \/ CodexEvent(log'[n])
  BY <1>1, <1>2
<1>4. LogKnown'
  <2>1. \A e : HookEvent(e) => HookEvent(e)'
    BY DEF HookEvent
  <2>2. \A e : CodexEvent(e) => CodexEvent(e)'
    BY DEF CodexEvent, NativeAnswer
  <2>. QED
    BY <1>1, <1>3 DEF LogKnown, HookEvent, CodexEvent, NativeAnswer
<1>5. \A w : HeardBy(w) \subseteq HeardBy(w)'
  BY <1>3 DEF HeardBy
<1>. QED
  BY <1>3, <1>4, <1>5

\* What is known of an ask that does nothing stays known while the log grows and no call
\* is taken back.
LEMMA HookStays ==
  ASSUME ToolTypes, LogKnown, LogMoves, NEW u, NEW w, HookKnown(u, w),
         outcome'[u] = outcome[u], faults' = 0 => faults = 0
  PROVE  HookKnown(u, w)'
<1>1. /\ Len(log) \in Nat /\ Len(log') \in Nat /\ Len(log) <= Len(log')
      /\ \A n \in DOMAIN log : n \in DOMAIN log' /\ log'[n] = log[n]
      /\ HeardBy(w) \subseteq HeardBy(w)'
  BY LogGrows
<1>2. HeardBy(w) \subseteq DOMAIN log
  BY DEF HeardBy
<1>3. w.request \in 0..Len(log')
  BY <1>1 DEF HookKnown
<1>4. outcome[u] = "blocked" => \E n \in HeardBy(w)' : log'[n].decision = "denied"
  BY <1>1, <1>2 DEF HookKnown
<1>5. faults' = 0 /\ w.pc = "ended" =>
        \E n \in DOMAIN log' : n > w.request /\ log'[n].kind = "response" /\ log'[n].id = w.id
  BY <1>1 DEF HookKnown
<1>. QED
  BY <1>3, <1>4, <1>5 DEF HookKnown

LEMMA AcceptedStays ==
  ASSUME ToolTypes, LogKnown, LogMoves, NEW u \in Native, NEW c \in Clients, AcceptedOver(u, c),
         \A d \in Clients : wait'[<<u, d>>].pc = "idle" <=> wait[<<u, d>>].pc = "idle",
         wait'[<<u, c>>].request = wait[<<u, c>>].request,
         wait'[<<u, c>>].id = wait[<<u, c>>].id
  PROVE  AcceptedOver(u, c)'
<1>1. /\ \A n \in DOMAIN log : log'[n] = log[n]
      /\ \A w : HeardBy(w) \subseteq HeardBy(w)'
  BY LogGrows
<1>2. PICK n \in HeardBy(wait[<<u, c>>]) : log[n].decision.yes = "approved"
  BY DEF AcceptedOver
<1>3. n \in DOMAIN log /\ n \in DOMAIN log' /\ log'[n] = log[n]
  BY <1>1, <1>2, LogGrows DEF HeardBy
<1>4. n \in HeardBy(wait[<<u, c>>])'
  BY <1>2, <1>3 DEF HeardBy
<1>. QED
  BY <1>2, <1>3, <1>4 DEF AcceptedOver

\* A step of a hook has to show what it makes of its own ask.
LEMMA HookMoves ==
  ASSUME ToolsInv, LogMoves, NEW u \in Hooked, NEW w, NEW o \in {"none", "run", "blocked", "skipped"},
         w \in WaitRecord,
         wait' = [wait EXCEPT ![<<u, 0>>] = w], outcome' = [outcome EXCEPT ![u] = o],
         \A x : x = w => HookKnown(u, x)',
         pendingToolUse' \in HookIds, faults' \in 0..MaxFaults, faults' = 0 => faults = 0,
         UNCHANGED <<offer, client, answered>>
  PROVE  ToolsInv'
<1>1. /\ ToolTypes /\ LogKnown /\ log' \in Seq(Events) /\ LogKnown'
      /\ Len(log) \in Nat /\ Len(log') \in Nat /\ Len(log) <= Len(log')
      /\ DOMAIN log \subseteq DOMAIN log'
  BY LogGrows DEF ToolsInv
<1>2. <<u, 0>> \in Tools!Asks
  BY DEF Tools!Asks
<1>3. ToolTypes'
  <2>1. wait' \in [Tools!Asks -> WaitRecord]
    BY <1>1 DEF ToolTypes
  <2>2. outcome' \in [Hooked \union Native ->
                        {"none", "run", "blocked", "skipped"} \union Tools!Decisions]
    BY <1>1 DEF ToolTypes
  <2>3. answered' \subseteq DOMAIN log'
    BY <1>1 DEF ToolTypes
  <2>. QED
    BY <1>1, <2>1, <2>2, <2>3 DEF ToolTypes
<1>4. /\ wait'[<<u, 0>>] = w
      /\ \A v \in Hooked : v # u => wait'[<<v, 0>>] = wait[<<v, 0>>] /\ outcome'[v] = outcome[v]
      /\ \A v \in Native : outcome'[v] = outcome[v]
      /\ \A v \in Native, c \in Clients : wait'[<<v, c>>] = wait[<<v, c>>]
  BY <1>1, <1>2, ToolsConstants DEF ToolTypes, Tools!Asks
<1>5. \A v \in Hooked : HookKnown(v, wait[<<v, 0>>])'
  <2>1. ASSUME NEW v \in Hooked, v # u PROVE HookKnown(v, wait[<<v, 0>>])'
    <3>1. HookKnown(v, wait[<<v, 0>>])
      BY DEF ToolsInv, AsksKnown
    <3>2. \A x : x = wait[<<v, 0>>] => HookKnown(v, x)'
      BY <1>1, <1>4, <2>1, <3>1, HookStays
    <3>. QED
      BY <1>4, <2>1, <3>2 DEF HookKnown, HeardBy
  <2>2. HookKnown(u, wait[<<u, 0>>])'
    BY <1>4 DEF HookKnown, HeardBy
  <2>. QED
    BY <2>1, <2>2
<1>6. ASSUME NEW v \in Native
      PROVE  /\ outcome'[v] \in Tools!Decisions \union {"none"}
             /\ \A c \in Clients : CodexWait(v, c, wait[<<v, c>>])'
             /\ Accepted(v)'
  <2>1. /\ outcome[v] \in Tools!Decisions \union {"none"}
        /\ \A c \in Clients : CodexWait(v, c, wait[<<v, c>>])
        /\ Accepted(v)
    BY DEF ToolsInv, AsksKnown
  <2>2. \A c \in Clients : CodexWait(v, c, wait[<<v, c>>])'
    BY <1>1, <1>4, <2>1 DEF CodexWait
  <2>3. \A c \in Clients : AcceptedOver(v, c) => AcceptedOver(v, c)'
    BY <1>1, <1>4, AcceptedStays
  <2>. QED
    BY <1>4, <2>1, <2>2, <2>3 DEF Accepted
<1>. QED
  BY <1>1, <1>3, <1>5, <1>6 DEF ToolsInv, AsksKnown

\* So has a step of Codex, of its ask over the connection c.
LEMMA CodexMoves ==
  ASSUME ToolsInv, LogMoves, NEW u \in Native, NEW c \in Clients, NEW w,
         w \in WaitRecord,
         wait' = [wait EXCEPT ![<<u, c>>] = w], offer' \in [Native -> Offers \union {{}}],
         \/ outcome' = outcome
         \/ \E d \in Tools!Decisions : outcome' = [outcome EXCEPT ![u] = d],
         \A x : x = w => CodexWait(u, c, x)',
         Accepted(u)', UNCHANGED <<pendingToolUse, client, answered>>,
         faults' \in 0..MaxFaults, faults' = 0 => faults = 0,
         \A d \in Clients : d = client /\ outcome'[u] # "none" =>
           wait'[<<u, d>>].pc \notin {"waiting", "failing"}
  PROVE  ToolsInv'
<1>1. /\ ToolTypes /\ LogKnown /\ log' \in Seq(Events) /\ LogKnown'
      /\ Len(log) \in Nat /\ Len(log') \in Nat /\ Len(log) <= Len(log')
      /\ DOMAIN log \subseteq DOMAIN log'
  BY LogGrows DEF ToolsInv
<1>2. <<u, c>> \in Tools!Asks
  BY DEF Tools!Asks
<1>3. ToolTypes'
  <2>1. wait' \in [Tools!Asks -> WaitRecord]
    BY <1>1 DEF ToolTypes
  <2>2. outcome' \in [Hooked \union Native ->
                        {"none", "run", "blocked", "skipped"} \union Tools!Decisions]
    BY <1>1 DEF ToolTypes
  <2>3. answered' \subseteq DOMAIN log'
    BY <1>1 DEF ToolTypes
  <2>. QED
    BY <1>1, <2>1, <2>2, <2>3 DEF ToolTypes
<1>4. /\ wait'[<<u, c>>] = w
      /\ \A v \in Hooked : wait'[<<v, 0>>] = wait[<<v, 0>>] /\ outcome'[v] = outcome[v]
      /\ \A v \in Native : v # u => outcome'[v] = outcome[v]
      /\ outcome'[u] = outcome[u] \/ outcome'[u] \in Tools!Decisions
      /\ \A v \in Native, d \in Clients : v # u \/ d # c => wait'[<<v, d>>] = wait[<<v, d>>]
  BY <1>1, <1>2, ToolsConstants DEF ToolTypes, Tools!Asks
<1>5. \A v \in Hooked : HookKnown(v, wait[<<v, 0>>])'
  <2>1. ASSUME NEW v \in Hooked PROVE HookKnown(v, wait[<<v, 0>>])'
    <3>1. HookKnown(v, wait[<<v, 0>>])
      BY DEF ToolsInv, AsksKnown
    <3>2. \A x : x = wait[<<v, 0>>] => HookKnown(v, x)'
      BY <1>1, <1>4, <2>1, <3>1, HookStays
    <3>. QED
      BY <1>4, <2>1, <3>2 DEF HookKnown, HeardBy
  <2>. QED
    BY <2>1
<1>6. ASSUME NEW v \in Native
      PROVE  /\ outcome'[v] \in Tools!Decisions \union {"none"}
             /\ \A d \in Clients : CodexWait(v, d, wait[<<v, d>>])'
             /\ Accepted(v)'
  <2>1. /\ outcome[v] \in Tools!Decisions \union {"none"}
        /\ \A d \in Clients : CodexWait(v, d, wait[<<v, d>>])
        /\ Accepted(v)
    BY DEF ToolsInv, AsksKnown
  <2>2. ASSUME NEW d \in Clients PROVE CodexWait(v, d, wait[<<v, d>>])'
    <3>1. CASE v = u /\ d = c
      BY <1>4, <3>1 DEF CodexWait
    <3>2. CASE v # u \/ d # c
      BY <1>1, <1>4, <2>1, <3>2 DEF CodexWait
    <3>. QED
      BY <3>1, <3>2
  <2>3. CASE v = u
    BY <1>4, <2>1, <2>2, <2>3
  <2>4. CASE v # u
    <3>1. \A d \in Clients : AcceptedOver(v, d) => AcceptedOver(v, d)'
      BY <1>1, <1>4, <2>4, AcceptedStays
    <3>. QED
      BY <1>4, <2>1, <2>2, <2>4, <3>1 DEF Accepted
  <2>. QED
    BY <2>3, <2>4
<1>. QED
  BY <1>1, <1>3, <1>5, <1>6 DEF ToolsInv, AsksKnown

\* A step that leaves every ask as it is.
LEMMA AsksStay ==
  ASSUME ToolsInv, LogMoves, UNCHANGED <<pendingToolUse, wait, offer, outcome, faults>>,
         answered' \subseteq DOMAIN log', client' \in Clients, client <= client'
  PROVE  ToolsInv'
<1>1. /\ ToolTypes /\ LogKnown /\ log' \in Seq(Events) /\ LogKnown'
      /\ Len(log) \in Nat /\ Len(log') \in Nat /\ Len(log) <= Len(log')
  BY LogGrows DEF ToolsInv
<1>2. ToolTypes'
  BY <1>1 DEF ToolTypes
<1>3. ASSUME NEW u \in Hooked PROVE HookKnown(u, wait[<<u, 0>>])'
  <2>1. \A w : HookKnown(u, w) => HookKnown(u, w)'
    BY <1>1, HookStays
  <2>. QED
    BY <2>1 DEF ToolsInv, AsksKnown
<1>4. ASSUME NEW u \in Native
      PROVE  /\ outcome'[u] \in Tools!Decisions \union {"none"}
             /\ \A c \in Clients : CodexWait(u, c, wait[<<u, c>>])'
             /\ Accepted(u)'
  <2>1. /\ outcome[u] \in Tools!Decisions \union {"none"}
        /\ \A c \in Clients : CodexWait(u, c, wait[<<u, c>>])
        /\ Accepted(u)
    BY DEF ToolsInv, AsksKnown
  <2>2. \A c \in Clients : CodexWait(u, c, wait[<<u, c>>])'
    <3>1. client \in Nat /\ client' \in Nat /\ \A c \in Clients : c \in Nat
      BY <1>1, ToolsConstants DEF ToolTypes
    <3>. QED
      BY <1>1, <2>1, <3>1 DEF CodexWait
  <2>3. \A c \in Clients : AcceptedOver(u, c) => AcceptedOver(u, c)'
    BY <1>1, AcceptedStays
  <2>. QED
    BY <2>1, <2>2, <2>3 DEF Accepted
<1>. QED
  BY <1>1, <1>2, <1>3, <1>4 DEF ToolsInv, AsksKnown

\* What is known before a step.
LEMMA ToolsAre ==
  ASSUME ToolsInv
  PROVE  /\ log \in Seq(Events) /\ Len(log) \in Nat /\ DOMAIN log = 1..Len(log)
         /\ pendingToolUse \in HookIds /\ faults \in 0..MaxFaults /\ client \in Clients
         /\ answered \subseteq DOMAIN log
         /\ \A a \in Tools!Asks :
              wait[a] \in WaitRecord
         /\ \A u \in Hooked : /\ <<u, 0>> \in Tools!Asks /\ HookKnown(u, wait[<<u, 0>>])
                              /\ outcome[u] \in {"none", "run", "blocked", "skipped"}
                              /\ outcome = [outcome EXCEPT ![u] = outcome[u]]
         /\ \A u \in Native, c \in Clients :
              /\ <<u, c>> \in Tools!Asks /\ CodexWait(u, c, wait[<<u, c>>]) /\ Accepted(u)
              /\ outcome[u] \in Tools!Decisions \union {"none"}
         /\ \A u \in Native : offer[u] \in SUBSET Supported
<1>1. \A u \in Native : offer[u] \in SUBSET Supported
  BY ToolsConstants DEF ToolsInv, ToolTypes, Supported
<1>2. \A u \in Hooked : /\ HookKnown(u, wait[<<u, 0>>])
                        /\ outcome[u] \in {"none", "run", "blocked", "skipped"}
  BY DEF ToolsInv, AsksKnown, HookKnown
<1>3. \A u \in Hooked : outcome = [outcome EXCEPT ![u] = outcome[u]]
  BY DEF ToolsInv, ToolTypes
<1>. QED
  BY <1>1, <1>2, <1>3 DEF ToolsInv, ToolTypes, AsksKnown, Tools!Asks

LEMMA FaultCounted ==
  ASSUME faults \in 0..MaxFaults, Tools!Fault
  PROVE  faults' \in 0..MaxFaults /\ faults' # 0
BY ToolsConstants DEF Tools!Fault

\* The events that hooks and Codex append.
LEMMA EventsAre ==
  /\ \A u \in Hooked, i \in HookIds :
       /\ Tools!Request(i, u) \in Events /\ HookEvent(Tools!Request(i, u))
       /\ Tools!Response(i, u, "hook", "approved") \in Events
       /\ HookEvent(Tools!Response(i, u, "hook", "approved"))
  /\ \A u \in Native : Tools!Request(u, u) \in Events /\ CodexEvent(Tools!Request(u, u))
<1>1. ASSUME NEW u \in Hooked, NEW i \in HookIds
      PROVE  /\ Tools!Request(i, u) \in Events /\ HookEvent(Tools!Request(i, u))
             /\ Tools!Response(i, u, "hook", "approved") \in Events
             /\ HookEvent(Tools!Response(i, u, "hook", "approved"))
  BY DEF Tools!Request, Tools!Response, Tools!Event, Events, HookEvent
<1>2. ASSUME NEW u \in Native
      PROVE  Tools!Request(u, u) \in Events /\ CodexEvent(Tools!Request(u, u))
  BY DEF Tools!Request, Tools!Event, Events, CodexEvent
<1>. QED
  BY <1>1, <1>2

-----------------------------------------------------------------------------
(* Approvals: the steps of hooks.                                          *)

LEMMA PreToolUseKeeps ==
  ASSUME ToolsInv, NEW u \in Hooked, Tools!PreToolUse(u)
  PROVE  ToolsInv'
<1>. DEFINE w == [wait[<<u, 0>>] EXCEPT !.pc = "ready"]
<1>1. /\ wait' = [wait EXCEPT ![<<u, 0>>] = w] /\ wait[<<u, 0>>].pc = "idle"
      /\ pendingToolUse' = u /\ UNCHANGED <<log, offer, client, outcome, answered, faults>>
  BY DEF Tools!PreToolUse
<1>2. /\ w \in WaitRecord
      /\ w.pc = "ready" /\ w.id = wait[<<u, 0>>].id /\ w.request = wait[<<u, 0>>].request
  <2>1. wait[<<u, 0>>] \in WaitRecord
    BY ToolsAre
  <2>. QED
    BY <2>1 DEF WaitRecord
<1>. HIDE DEF w
<1>3. \A x : x = w => HookKnown(u, x)'
  BY <1>1, <1>2, ToolsAre DEF HookKnown
<1>4. LogMoves /\ pendingToolUse' \in HookIds
  BY <1>1 DEF LogMoves, HookIds
<1>5. /\ outcome' = [outcome EXCEPT ![u] = outcome[u]]
      /\ outcome[u] \in {"none", "run", "blocked", "skipped"}
      /\ pendingToolUse' \in HookIds /\ faults' \in 0..MaxFaults
  BY <1>1, <1>2, <1>3, <1>4, ToolsAre
<1>. QED
  BY <1>1, <1>2, <1>3, <1>4, <1>5, HookMoves

\* A request that throws or that the broker refuses is in the log or not.
LEMMA MayBeLoggedMoves ==
  ASSUME ToolTypes, NEW a, NEW i, Tools!MayBeLogged(a, i),
         \/ a[1] \in Hooked /\ i \in HookIds
         \/ a[1] \in Native /\ i = a[1]
  PROVE  LogMoves
<1>1. log' = log \/ log' = Append(log, Tools!Request(i, a[1]))
  BY DEF Tools!MayBeLogged
<1>2. /\ Tools!Request(i, a[1]) \in Events
      /\ HookEvent(Tools!Request(i, a[1])) \/ CodexEvent(Tools!Request(i, a[1]))
  BY EventsAre
<1>. QED
  BY <1>1, <1>2 DEF LogMoves

LEMMA HookAsksKeeps ==
  ASSUME ToolsInv, NEW u \in Hooked, Tools!HookAsks(u)
  PROVE  ToolsInv'
<1>1. PICK i \in Tools!ApprovalIds(u) :
        (Tools!Asked(<<u, 0>>, i) /\ UNCHANGED faults) \/ Tools!Refused(<<u, 0>>, i)
  BY DEF Tools!HookAsks
<1>2. i \in HookIds
  BY <1>1, ToolsAre DEF Tools!ApprovalIds, Tools!Loaded, HookIds
<1>3. /\ wait[<<u, 0>>].pc \in {"idle", "ready"} /\ outcome[u] = "none"
      /\ UNCHANGED <<pendingToolUse, offer, client, outcome, answered>>
  BY ToolsAre DEF Tools!HookAsks, Tools!MayAsk, HookKnown
<1>. DEFINE waits(k) == [wait EXCEPT ![<<u, 0>>] = [pc |-> "waiting", id |-> i, request |-> k]]
<1>4. /\ LogMoves /\ faults' \in 0..MaxFaults /\ (faults' = 0 => faults = 0)
      /\ \E k \in 0..Len(log') : wait' = waits(k)
  <2>1. CASE Tools!Asked(<<u, 0>>, i) /\ UNCHANGED faults
    <3>1. /\ log' = Append(log, Tools!Request(i, u)) /\ wait' = waits(Len(log) + 1)
          /\ UNCHANGED faults
      BY <2>1 DEF Tools!Asked
    <3>2. LogMoves
      BY <1>2, <3>1, EventsAre DEF LogMoves
    <3>3. Len(log) + 1 \in 0..Len(log')
      BY <3>1, ToolsAre
    <3>. HIDE DEF waits
    <3>. QED
      BY <3>1, <3>2, <3>3, ToolsAre
  <2>2. CASE Tools!Refused(<<u, 0>>, i)
    <3>1. LogMoves
      BY <1>2, <2>2, MayBeLoggedMoves DEF Tools!Refused, ToolsInv
    <3>2. 0 \in 0..Len(log')
      BY <3>1, LogGrows DEF ToolsInv
    <3>3. wait' = waits(0) /\ Tools!Fault
      BY <2>2 DEF Tools!Refused
    <3>. HIDE DEF waits
    <3>. QED
      BY <3>1, <3>2, <3>3, ToolsAre, FaultCounted
  <2>. QED
    BY <1>1, <2>1, <2>2
<1>5. PICK k \in 0..Len(log') : wait' = waits(k)
  BY <1>4
<1>6. k \in Nat
  BY <1>4, <1>5, LogGrows DEF ToolsInv
<1>. DEFINE w == [pc |-> "waiting", id |-> i, request |-> k]
<1>7. w \in WaitRecord /\ w.pc = "waiting" /\ w.id = i /\ w.request = k
  BY <1>2, <1>6 DEF WaitRecord
<1>8. wait' = [wait EXCEPT ![<<u, 0>>] = w]
  BY <1>5
<1>. HIDE DEF w
<1>9. \A x : x = w => HookKnown(u, x)'
  BY <1>2, <1>3, <1>5, <1>7 DEF HookKnown
<1>10. /\ outcome' = [outcome EXCEPT ![u] = outcome[u]]
      /\ outcome[u] \in {"none", "run", "blocked", "skipped"}
      /\ pendingToolUse' \in HookIds /\ UNCHANGED <<offer, client, answered>>
      /\ LogMoves /\ faults' \in 0..MaxFaults /\ (faults' = 0 => faults = 0)
  <2>. HIDE DEF waits
  <2>. QED
    BY <1>3, <1>4, ToolsAre
<1>. QED
  BY <1>7, <1>8, <1>9, <1>10, HookMoves

\* What is common to the steps that end a hook's ask: a call that fails excuses the hook from
\* an answer behind its request.
LEMMA HookEnds ==
  ASSUME ToolsInv, LogMoves, NEW u \in Hooked, NEW o \in {"run", "blocked", "skipped"},
         Tools!Ends(<<u, 0>>), outcome' = [outcome EXCEPT ![u] = o],
         faults' \in 0..MaxFaults, faults' = 0 => faults = 0,
         o = "blocked" => \E n \in HeardBy(wait[<<u, 0>>]) : log[n].decision = "denied",
         faults' = 0 => \E n \in DOMAIN log' : /\ n > wait[<<u, 0>>].request
                                               /\ log'[n].kind = "response"
                                               /\ log'[n].id = wait[<<u, 0>>].id,
         UNCHANGED <<pendingToolUse, offer, client, answered>>
  PROVE  ToolsInv'
<1>. DEFINE a == wait[<<u, 0>>]
            w == [a EXCEPT !.pc = "ended"]
<1>1. wait' = [wait EXCEPT ![<<u, 0>>] = w]
  BY DEF Tools!Ends
<1>2. /\ w \in WaitRecord
      /\ w.pc = "ended" /\ w.id = a.id /\ w.request = a.request
  <2>1. a \in WaitRecord
    BY ToolsAre
  <2>. QED
    BY <2>1 DEF WaitRecord
<1>. HIDE DEF w
<1>3. outcome'[u] = o
  BY DEF ToolsInv, ToolTypes
<1>4. HookKnown(u, a)
  BY ToolsAre
<1>5. /\ Len(log) <= Len(log') /\ Len(log) \in Nat /\ Len(log') \in Nat
      /\ \A n \in DOMAIN log : n \in DOMAIN log' /\ log'[n] = log[n]
  BY LogGrows DEF ToolsInv
<1>6. \A x : x = w => HookKnown(u, x)'
  <2>1. \A x : x = w => x.request \in 0..Len(log') /\ x.id \in HookIds
    BY <1>2, <1>4, <1>5 DEF HookKnown
  <2>2. \A x : x = w => (o = "blocked" => \E n \in HeardBy(x)' : log'[n].decision = "denied")
    BY <1>2, <1>5 DEF HeardBy
  <2>. QED
    BY <1>2, <1>3, <2>1, <2>2 DEF HookKnown
<1>. QED
  BY <1>1, <1>2, <1>6, ToolsAre, HookMoves

LEMMA HookEndsKeeps ==
  ASSUME ToolsInv, NEW u \in Hooked,
         \/ Tools!HookCannotAsk(u) \/ Tools!HookIsAnswered(u) \/ Tools!HookFailsOpen(u)
         \/ Tools!HookCannotRespond(u) \/ Tools!HookIsKilled(u)
  PROVE  ToolsInv'
<1>. DEFINE a == wait[<<u, 0>>]
<1>1. HookKnown(u, a) /\ a.id \in HookIds
  BY ToolsAre DEF HookKnown
<1>2. CASE Tools!HookCannotAsk(u)
  <2>1. PICK i \in Tools!ApprovalIds(u) : Tools!MayBeLogged(<<u, 0>>, i)
    BY <1>2 DEF Tools!HookCannotAsk
  <2>2. i \in HookIds
    BY <2>1, ToolsAre DEF Tools!ApprovalIds, Tools!Loaded, HookIds
  <2>3. LogMoves
    BY <2>1, <2>2, MayBeLoggedMoves DEF ToolsInv
  <2>. QED
    BY <1>2, <2>3, ToolsAre, FaultCounted, HookEnds DEF Tools!HookCannotAsk
<1>3. CASE Tools!HookCannotRespond(u) \/ Tools!HookIsKilled(u)
  <2>1. LogMoves
    BY <1>3 DEF Tools!HookCannotRespond, Tools!HookIsKilled, LogMoves
  <2>. QED
    BY <1>3, <2>1, ToolsAre, FaultCounted, HookEnds
       DEF Tools!HookCannotRespond, Tools!HookIsKilled
<1>4. CASE Tools!HookFailsOpen(u)
  <2>1. log' = Append(log, Tools!Response(a.id, u, "hook", "approved"))
    BY <1>4 DEF Tools!HookFailsOpen, Tools!FailsOpen
  <2>2. LogMoves
    BY <1>1, <2>1, EventsAre DEF LogMoves
  <2>3. \E n \in DOMAIN log' : n > a.request /\ log'[n].kind = "response" /\ log'[n].id = a.id
    <3>1. /\ Len(log) + 1 \in DOMAIN log'
          /\ log'[Len(log) + 1] = Tools!Response(a.id, u, "hook", "approved")
      BY <2>1, ToolsAre
    <3>2. Len(log) + 1 > a.request
      BY <1>1, ToolsAre DEF HookKnown
    <3>. QED
      BY <3>1, <3>2 DEF Tools!Response, Tools!Event
  <2>. QED
    BY <1>4, <2>2, <2>3, ToolsAre, HookEnds DEF Tools!HookFailsOpen
<1>5. CASE Tools!HookIsAnswered(u)
  <2>. DEFINE n == Tools!Min(Tools!Since(a.id, a.request))
              o == Tools!Verdict(log[n].decision)
  <2>1. /\ a.pc = "waiting" /\ Tools!Since(a.id, a.request) # {}
        /\ outcome' = [outcome EXCEPT ![u] = o] /\ Tools!Ends(<<u, 0>>)
        /\ UNCHANGED <<log, pendingToolUse, offer, client, answered, faults>>
    BY <1>5 DEF Tools!HookIsAnswered, Tools!IsAnswered, Tools!Answer
  <2>2. n \in Tools!Since(a.id, a.request)
    <3>1. Tools!Since(a.id, a.request) \in SUBSET Nat
      BY ToolsAre DEF Tools!Since, Tools!Ever
    <3>. QED
      BY <2>1, <3>1, MinIs
  <2>. HIDE DEF n
  <2>3. n \in DOMAIN log /\ log[n].kind = "response" /\ log[n].id = a.id /\ n > a.request
    BY <2>2 DEF Tools!Since, Tools!Ever
  <2>4. o = "blocked" => \E m \in HeardBy(a) : log[m].decision = "denied"
    <3>1. HookEvent(log[n])
      BY <1>1, <2>3, ToolsConstants DEF ToolsInv, LogKnown, CodexEvent, HookIds
    <3>2. log[n].decision = "denied" => log[n].by = "human"
      BY <2>3, <3>1 DEF HookEvent
    <3>. QED
      BY <2>3, <3>2 DEF HeardBy, Tools!Verdict
  <2>5. o \in {"run", "blocked", "skipped"} /\ LogMoves
    BY <2>1 DEF Tools!Verdict, LogMoves
  <2>. HIDE DEF o
  <2>. QED
    BY <2>1, <2>3, <2>4, <2>5, ToolsAre, HookEnds
<1>. QED
  BY <1>2, <1>3, <1>4, <1>5

LEMMA HookTimesOutKeeps ==
  ASSUME ToolsInv, NEW u \in Hooked, Tools!HookTimesOut(u)
  PROVE  ToolsInv'
<1>. DEFINE w == [wait[<<u, 0>>] EXCEPT !.pc = "failing"]
<1>1. /\ wait' = [wait EXCEPT ![<<u, 0>>] = w] /\ wait[<<u, 0>>].pc = "waiting"
      /\ UNCHANGED <<log, pendingToolUse, offer, client, outcome, answered, faults>>
  BY DEF Tools!HookTimesOut
<1>2. /\ w \in WaitRecord
      /\ w.pc = "failing" /\ w.id = wait[<<u, 0>>].id /\ w.request = wait[<<u, 0>>].request
  <2>1. wait[<<u, 0>>] \in WaitRecord
    BY ToolsAre
  <2>. QED
    BY <2>1 DEF WaitRecord
<1>. HIDE DEF w
<1>3. \A x : x = w => HookKnown(u, x)'
  BY <1>1, <1>2, ToolsAre DEF HookKnown
<1>4. LogMoves
  BY <1>1 DEF LogMoves
<1>5. /\ outcome' = [outcome EXCEPT ![u] = outcome[u]]
      /\ outcome[u] \in {"none", "run", "blocked", "skipped"}
      /\ pendingToolUse' \in HookIds /\ faults' \in 0..MaxFaults
  BY <1>1, <1>2, <1>3, <1>4, ToolsAre
<1>. QED
  BY <1>1, <1>2, <1>3, <1>4, <1>5, HookMoves

-----------------------------------------------------------------------------
(* Approvals: the steps of Codex and of the human, and the theorems.       *)

LEMMA CodexAsksKeeps ==
  ASSUME ToolsInv, NEW u \in Native, Tools!CodexAsks(u)
  PROVE  ToolsInv'
<1>. DEFINE c == client
<1>1. /\ wait[<<u, c>>].pc = "idle" /\ outcome[u] = "none" /\ c \in Clients
      /\ UNCHANGED <<pendingToolUse, client, outcome, answered>>
      /\ \/ Tools!Asked(<<u, c>>, u) /\ UNCHANGED faults
         \/ Tools!Refused(<<u, c>>, u)
         \/ Tools!CodexCannotAsk(u)
  BY ToolsAre DEF Tools!CodexAsks
<1>. DEFINE waits(pc, k) == [wait EXCEPT ![<<u, c>>] = [pc |-> pc, id |-> u, request |-> k]]
<1>2. /\ LogMoves /\ faults' \in 0..MaxFaults /\ (faults' = 0 => faults = 0)
      /\ \E pc \in {"waiting", "failing"}, k \in 0..Len(log') : wait' = waits(pc, k)
  <2>1. CASE Tools!Asked(<<u, c>>, u) /\ UNCHANGED faults
    <3>1. /\ log' = Append(log, Tools!Request(u, u)) /\ UNCHANGED faults
          /\ wait' = waits("waiting", Len(log) + 1)
      BY <2>1 DEF Tools!Asked
    <3>2. LogMoves
      BY <3>1, EventsAre DEF LogMoves
    <3>3. Len(log) + 1 \in 0..Len(log')
      BY <3>1, ToolsAre
    <3>. HIDE DEF waits
    <3>. QED
      BY <3>1, <3>2, <3>3, ToolsAre
  <2>2. CASE Tools!Refused(<<u, c>>, u) \/ Tools!CodexCannotAsk(u)
    <3>1. LogMoves
      BY <2>2, MayBeLoggedMoves DEF Tools!Refused, Tools!CodexCannotAsk, ToolsInv
    <3>2. 0 \in 0..Len(log')
      BY <3>1, LogGrows DEF ToolsInv
    <3>3. (wait' = waits("waiting", 0) \/ wait' = waits("failing", 0)) /\ Tools!Fault
      BY <2>2 DEF Tools!Refused, Tools!CodexCannotAsk
    <3>. HIDE DEF waits
    <3>. QED
      BY <3>1, <3>2, <3>3, ToolsAre, FaultCounted
  <2>. QED
    BY <1>1, <2>1, <2>2
<1>3. PICK pc \in {"waiting", "failing"}, k \in 0..Len(log') : wait' = waits(pc, k)
  BY <1>2
<1>4. k \in Nat
  BY <1>2, <1>3, LogGrows DEF ToolsInv
<1>5. offer' \in [Native -> Offers \union {{}}]
  <2>1. PICK o \in Offers : offer' = [offer EXCEPT ![u] = o]
    BY DEF Tools!CodexAsks
  <2>. QED
    BY <2>1 DEF ToolsInv, ToolTypes
<1>. DEFINE w == [pc |-> pc, id |-> u, request |-> k]
<1>6. /\ w \in WaitRecord /\ w.pc \in {"waiting", "failing"} /\ w.id = u /\ w.request = k
      /\ wait' = [wait EXCEPT ![<<u, c>>] = w]
  BY <1>3, <1>4 DEF WaitRecord
<1>. HIDE DEF w
<1>7. \A x : x = w => CodexWait(u, c, x)'
  <2>1. client \in Nat
    BY ToolsAre, ToolsConstants
  <2>. QED
    BY <1>1, <1>3, <1>6, <2>1 DEF CodexWait
<1>8. Accepted(u)' /\ outcome'[u] = "none"
  BY <1>1 DEF Accepted, Tools!Accepting
<1>9. /\ LogMoves /\ faults' \in 0..MaxFaults /\ (faults' = 0 => faults = 0)
      /\ c \in Clients /\ outcome' = outcome /\ UNCHANGED <<pendingToolUse, client, answered>>
  <2>. HIDE DEF waits
  <2>. QED
    BY <1>1, <1>2
<1>. QED
  BY <1>5, <1>6, <1>7, <1>8, <1>9, CodexMoves

\* What is common to the steps in which Codex decides, if the connection is the current one.
LEMMA CodexDecides ==
  ASSUME ToolsInv, NEW u \in Native, NEW c \in Clients, NEW d \in Tools!Decisions,
         wait[<<u, c>>].pc \in {"waiting", "failing"}, Tools!Ends(<<u, c>>), Tools!Decides(<<u, c>>, d),
         d \in Tools!Accepting =>
           \E n \in HeardBy(wait[<<u, c>>]) : log[n].decision.yes = "approved",
         UNCHANGED <<log, pendingToolUse, offer, client, answered, faults>>
  PROVE  ToolsInv'
<1>. DEFINE a == wait[<<u, c>>]
            w == [a EXCEPT !.pc = "ended"]
<1>1. wait' = [wait EXCEPT ![<<u, c>>] = w] /\ LogMoves
  BY DEF Tools!Ends, LogMoves
<1>2. w \in WaitRecord /\ w.pc = "ended" /\ w.id = a.id /\ w.request = a.request
  <2>1. a \in WaitRecord
    BY ToolsAre
  <2>. QED
    BY <2>1 DEF WaitRecord
<1>3. CodexWait(u, c, a) /\ client \in Nat /\ client \in Clients /\ Clients \subseteq Nat
  BY ToolsAre, ToolsConstants
<1>4. wait'[<<u, c>>] = w /\ \A e \in Clients : e # c => wait'[<<u, e>>] = wait[<<u, e>>]
  <2>. HIDE DEF w
  <2>. QED
    BY <1>1, ToolsAre DEF ToolsInv, ToolTypes, Tools!Asks
<1>. HIDE DEF w
<1>5. \A x : x = w => CodexWait(u, c, x)'
  BY <1>2, <1>3 DEF CodexWait
<1>6. \/ c = client /\ outcome' = [outcome EXCEPT ![u] = d] /\ outcome'[u] = d
      \/ c # client /\ outcome' = outcome
  BY DEF Tools!Decides, ToolsInv, ToolTypes
<1>7. Accepted(u)'
  <2>1. CASE c # client
    <3>1. \A e \in Clients : AcceptedOver(u, e) => AcceptedOver(u, e)'
      <4>1. \A e \in Clients : /\ wait'[<<u, e>>].request = wait[<<u, e>>].request
                               /\ wait'[<<u, e>>].id = wait[<<u, e>>].id
                               /\ wait'[<<u, e>>].pc = "idle" <=> wait[<<u, e>>].pc = "idle"
        BY <1>2, <1>4
      <4>. QED
        BY <1>1, <4>1, AcceptedStays DEF ToolsInv
    <3>2. Accepted(u)
      BY <1>3, ToolsAre
    <3>. QED
      BY <1>6, <2>1, <3>1, <3>2 DEF Accepted
  <2>2. CASE c = client /\ d \in Tools!Accepting
    <3>1. wait'[<<u, c>>].pc # "idle"
      BY <1>2, <1>4
    <3>2. ASSUME NEW e \in Clients, e > c PROVE wait'[<<u, e>>].pc = "idle"
      <4>1. CodexWait(u, e, wait[<<u, e>>]) /\ e # c
        BY <1>3, <3>2, ToolsAre
      <4>. QED
        BY <1>4, <2>2, <3>2, <4>1 DEF CodexWait
    <3>3. \E n \in HeardBy(wait[<<u, c>>])' : log'[n].decision.yes = "approved"
      <4>1. \A x : x = w => \E n \in HeardBy(x)' : log'[n].decision.yes = "approved"
        BY <1>2, <2>2 DEF HeardBy
      <4>. QED
        BY <1>4, <4>1 DEF HeardBy
    <3>4. AcceptedOver(u, c)'
      BY <3>1, <3>2, <3>3 DEF AcceptedOver
    <3>. QED
      BY <3>4 DEF Accepted
  <2>3. CASE c = client /\ d \notin Tools!Accepting
    BY <1>6, <2>3 DEF Accepted
  <2>. QED
    BY <2>1, <2>2, <2>3
<1>8. \A e \in Clients : e = client /\ outcome'[u] # "none" =>
        wait'[<<u, e>>].pc \notin {"waiting", "failing"}
  <2>1. ASSUME NEW e \in Clients, e = client, outcome'[u] # "none"
        PROVE  wait'[<<u, e>>].pc \notin {"waiting", "failing"}
    <3>1. CASE e = c
      BY <1>2, <1>4, <3>1
    <3>2. CASE e # c
      <4>1. CodexWait(u, e, wait[<<u, e>>]) /\ outcome' = outcome
        BY <1>6, <2>1, <3>2, ToolsAre
      <4>. QED
        BY <1>4, <2>1, <3>2, <4>1 DEF CodexWait
    <3>. QED
      BY <3>1, <3>2
  <2>. QED
    BY <2>1
<1>9. offer' \in [Native -> Offers \union {{}}]
  BY DEF ToolsInv, ToolTypes
<1>10. \/ outcome' = outcome
       \/ \E e \in Tools!Decisions : outcome' = [outcome EXCEPT ![u] = e]
  BY <1>6
<1>. QED
  BY <1>1, <1>2, <1>5, <1>7, <1>8, <1>9, <1>10, ToolsAre, CodexMoves

LEMMA CodexEndsKeeps ==
  ASSUME ToolsInv, NEW a \in Tools!Asks, Tools!CodexIsAnswered(a) \/ Tools!CodexGivesUp(a)
  PROVE  ToolsInv'
<1>1. PICK u \in Native, c \in Clients : a = <<u, c>> /\ a[1] = u /\ a[2] = c
  BY DEF Tools!CodexIsAnswered, Tools!CodexGivesUp, Tools!OfHook, Tools!Asks
<1>2. CASE Tools!CodexGivesUp(a)
  <2>1. Tools!Abort(u) \in Tools!Decisions \ Tools!Accepting
    BY AbortIs
  <2>2. /\ Tools!Decides(<<u, c>>, Tools!Abort(u)) /\ Tools!Ends(<<u, c>>)
        /\ wait[<<u, c>>].pc \in {"waiting", "failing"}
        /\ UNCHANGED <<log, pendingToolUse, offer, client, answered, faults>>
    BY <1>1, <1>2 DEF Tools!CodexGivesUp, Tools!Failed
  <2>. QED
    BY <2>1, <2>2, CodexDecides
<1>3. CASE Tools!CodexIsAnswered(a)
  <2>. DEFINE w == wait[<<u, c>>]
              n == Tools!Min(Tools!Since(w.id, w.request))
              resolved == Tools!Resolved(log[n].decision, offer[u])
              d == IF resolved = "unsupported" THEN Tools!Abort(u) ELSE resolved
  <2>1. /\ w.pc = "waiting" /\ Tools!Since(w.id, w.request) # {}
        /\ Tools!Decides(<<u, c>>, d) /\ Tools!Ends(<<u, c>>)
        /\ UNCHANGED <<log, pendingToolUse, offer, client, answered, faults>>
    BY <1>1, <1>3 DEF Tools!CodexIsAnswered, Tools!IsAnswered, Tools!Answer
  <2>2. n \in Tools!Since(w.id, w.request)
    <3>1. Tools!Since(w.id, w.request) \in SUBSET Nat
      BY ToolsAre DEF Tools!Since, Tools!Ever
    <3>. QED
      BY <2>1, <3>1, MinIs
  <2>3. w.id = u
    BY <2>1, ToolsAre DEF CodexWait
  <2>. HIDE DEF n
  <2>4. n \in DOMAIN log /\ log[n].kind = "response" /\ log[n].id = u /\ n > w.request
    BY <2>2, <2>3 DEF Tools!Since, Tools!Ever
  <2>5. CodexEvent(log[n])
    BY <2>4, ToolsConstants DEF ToolsInv, LogKnown, HookEvent, HookIds
  <2>6. log[n].by = "human" /\ NativeAnswer(log[n].decision)
    BY <2>4, <2>5 DEF CodexEvent
  <2>7. /\ resolved \in Tools!Decisions \union {"unsupported"}
        /\ resolved \in Tools!Accepting => log[n].decision.yes = "approved"
    BY <2>6, ToolsAre, ResolvedIs
  <2>8. Tools!Abort(u) \in Tools!Decisions \ Tools!Accepting
    BY AbortIs
  <2>. HIDE DEF resolved
  <2>9. d \in Tools!Decisions /\ (d \in Tools!Accepting => log[n].decision.yes = "approved")
    BY <2>7, <2>8
  <2>. HIDE DEF d
  <2>10. n \in HeardBy(w)
    BY <2>3, <2>4, <2>6 DEF HeardBy
  <2>. QED
    BY <2>1, <2>9, <2>10, CodexDecides
<1>. QED
  BY <1>2, <1>3

\* The human names one of the decisions that are offered, or says yes or no.
LEMMA NativeAnswersAre ==
  ASSUME NEW offered \in SUBSET Supported, NEW d \in Tools!NativeAnswers(offered)
  PROVE  NativeAnswer(d)
<1>1. "none" \notin Supported
  BY DEF Supported, Tools!Decisions, Tools!Legacy, Tools!Accepting
<1>2. CASE \E y \in {"approved", "denied", "cancelled"} : \E m \in Tools!Modes(y) :
             d = [yes |-> y, mode |-> m, native |-> "none"]
  <2>0. PICK y \in {"approved", "denied", "cancelled"} : \E m \in Tools!Modes(y) :
               d = [yes |-> y, mode |-> m, native |-> "none"]
    BY <1>2
  <2>1. PICK m \in Tools!Modes(y) : d = [yes |-> y, mode |-> m, native |-> "none"]
    BY <2>0
  <2>2. m \in {"yes", "always", "no", "cancel", "none"}
    BY DEF Tools!Modes
  <2>. QED
    BY <2>1, <2>2 DEF NativeAnswer
<1>3. CASE \E e \in offered :
             d = [yes |-> IF e \in Tools!Accepting THEN "approved" ELSE "denied",
                  mode |-> "none", native |-> e]
  BY <1>1, <1>3 DEF NativeAnswer
<1>. DEFINE said(y) == {[yes |-> y, mode |-> m, native |-> "none"] : m \in Tools!Modes(y)}
            named == {[yes |-> IF e \in Tools!Accepting THEN "approved" ELSE "denied",
                       mode |-> "none", native |-> e] : e \in offered}
<1>4. d \in UNION {said(y) : y \in {"approved", "denied", "cancelled"}} \/ d \in named
  <2>. DEFINE yesOrNo == UNION {said(y) : y \in {"approved", "denied", "cancelled"}}
  <2>1. Tools!NativeAnswers(offered) = yesOrNo \union named
    BY DEF Tools!NativeAnswers
  <2>. HIDE DEF yesOrNo, named
  <2>2. d \in yesOrNo \/ d \in named
    BY <2>1
  <2>. QED
    BY <2>2 DEF yesOrNo
<1>5. CASE d \in named
  BY <1>3, <1>5
<1>6. CASE d \in UNION {said(y) : y \in {"approved", "denied", "cancelled"}}
  <2>1. PICK y \in {"approved", "denied", "cancelled"} : d \in said(y)
    BY <1>6
  <2>. QED
    BY <1>2, <2>1
<1>. QED
  BY <1>4, <1>5, <1>6

LEMMA HumanAnswersKeeps ==
  ASSUME ToolsInv, NEW n \in DOMAIN log, Tools!HumanAnswers(n)
  PROVE  ToolsInv'
<1>. DEFINE f == log[n]
<1>1. /\ answered' = answered \union {n}
      /\ UNCHANGED <<pendingToolUse, wait, offer, client, outcome, faults>>
  BY DEF Tools!HumanAnswers
<1>2. PICK d \in IF f.use \in Hooked THEN {"approved", "denied"}
                 ELSE Tools!NativeAnswers(offer[f.use]) :
        log' = Append(log, Tools!Response(f.id, f.use, "human", d))
  BY DEF Tools!HumanAnswers
<1>3. HookEvent(f) \/ CodexEvent(f)
  BY DEF ToolsInv, LogKnown
<1>. DEFINE e == Tools!Response(f.id, f.use, "human", d)
<1>. HIDE DEF f
<1>4. /\ e.kind = "response" /\ e.id = f.id /\ e.use = f.use /\ e.by = "human"
      /\ e.decision = d
      /\ e = [kind |-> "response", id |-> f.id, use |-> f.use, by |-> "human", decision |-> d]
  BY DEF Tools!Response, Tools!Event
<1>. HIDE DEF e
<1>5. e \in Events /\ (HookEvent(e) \/ CodexEvent(e))
  <2>1. CASE HookEvent(f)
    <3>1. f.use \in Hooked /\ f.id \in HookIds /\ d \in {"approved", "denied"}
      BY <1>2, <2>1 DEF HookEvent
    <3>2. HookEvent(e)
      BY <1>4, <3>1 DEF HookEvent
    <3>. QED
      BY <1>4, <3>1, <3>2 DEF Events
  <2>2. CASE CodexEvent(f)
    <3>1. f.use \in Native /\ f.id = f.use /\ f.use \notin Hooked
      BY <2>2, ToolsConstants DEF CodexEvent
    <3>2. NativeAnswer(d)
      BY <1>2, <3>1, ToolsAre, NativeAnswersAre
    <3>3. CodexEvent(e)
      BY <1>4, <3>1, <3>2 DEF CodexEvent
    <3>. QED
      BY <1>4, <3>1, <3>2, <3>3 DEF Events, NativeAnswer
  <2>. QED
    BY <1>3, <2>1, <2>2
<1>6. LogMoves
  BY <1>2, <1>5 DEF LogMoves, e
<1>7. answered' \subseteq DOMAIN log' /\ client' \in Clients /\ client <= client'
  <2>1. client \in Nat
    BY ToolsAre, ToolsConstants
  <2>2. DOMAIN log \subseteq DOMAIN log'
    BY <1>6, LogGrows DEF ToolsInv
  <2>. QED
    BY <1>1, <2>1, <2>2, ToolsAre
<1>. QED
  BY <1>1, <1>6, <1>7, AsksStay

LEMMA ToolsStart ==
  ASSUME Tools!Init
  PROVE  ToolsInv
<1>. DEFINE idle == [pc |-> "idle", id |-> Tools!NoId, request |-> 0]
<1>1. /\ log = <<>> /\ pendingToolUse = Tools!NoId /\ wait = [a \in Tools!Asks |-> idle]
      /\ offer = [u \in Native |-> {}] /\ client = 1
      /\ outcome = [u \in Hooked \union Native |-> "none"] /\ answered = {} /\ faults = 0
  BY DEF Tools!Init
<1>2. idle \in WaitRecord /\ idle.pc = "idle" /\ idle.id = Tools!NoId /\ idle.request = 0
  BY DEF WaitRecord, HookIds
<1>. HIDE DEF idle
<1>3. ToolTypes
  BY <1>1, <1>2, ToolsConstants DEF ToolTypes, HookIds
<1>4. LogKnown
  BY <1>1 DEF LogKnown
<1>5. /\ \A u \in Hooked : wait[<<u, 0>>] = idle /\ outcome[u] = "none"
      /\ \A u \in Native : outcome[u] = "none" /\ \A c \in Clients : wait[<<u, c>>] = idle
  BY <1>1 DEF Tools!Asks
<1>6. Len(log) = 0
  BY <1>1
<1>7. \A u \in Hooked : HookKnown(u, wait[<<u, 0>>])
  <2>1. ASSUME NEW u \in Hooked, NEW w, w = idle PROVE HookKnown(u, w)
    <3>1. w.id \in HookIds /\ w.request \in 0..Len(log) /\ w.pc = "idle"
      BY <1>2, <1>6, <2>1 DEF HookIds
    <3>2. outcome[u] = "none"
      BY <1>5
    <3>. QED
      BY <3>1, <3>2 DEF HookKnown
  <2>. QED
    BY <1>5, <2>1
<1>8. \A u \in Native : /\ outcome[u] \in Tools!Decisions \union {"none"}
                        /\ \A c \in Clients : CodexWait(u, c, wait[<<u, c>>])
                        /\ Accepted(u)
  BY <1>2, <1>5, <1>6 DEF CodexWait, Accepted, Tools!Accepting
<1>. QED
  BY <1>3, <1>4, <1>7, <1>8 DEF ToolsInv, AsksKnown

LEMMA ToolsKeep ==
  ASSUME ToolsInv, [Tools!Next]_(Tools!vars)
  PROVE  ToolsInv'
<1>0. client \in Nat /\ client \in Clients /\ answered \subseteq DOMAIN log
  BY ToolsAre, ToolsConstants
<1>1. CASE UNCHANGED Tools!vars
  BY <1>0, <1>1, AsksStay DEF Tools!vars, LogMoves
<1>2. ASSUME NEW u \in Hooked,
             \/ Tools!PreToolUse(u) \/ Tools!HookAsks(u) \/ Tools!HookCannotAsk(u)
             \/ Tools!HookIsAnswered(u) \/ Tools!HookTimesOut(u) \/ Tools!HookFailsOpen(u)
             \/ Tools!HookCannotRespond(u) \/ Tools!HookIsKilled(u)
      PROVE  ToolsInv'
  BY <1>2, PreToolUseKeeps, HookAsksKeeps, HookEndsKeeps, HookTimesOutKeeps
<1>3. ASSUME NEW u \in Native, Tools!CodexAsks(u) PROVE ToolsInv'
  BY <1>3, CodexAsksKeeps
<1>4. ASSUME NEW a \in Tools!Asks, Tools!CodexIsAnswered(a) \/ Tools!CodexGivesUp(a)
      PROVE  ToolsInv'
  BY <1>4, CodexEndsKeeps
<1>5. CASE Tools!AppServerExits
  BY <1>0, <1>5, AsksStay DEF Tools!AppServerExits, LogMoves
<1>6. ASSUME NEW n \in DOMAIN log, Tools!HumanAnswers(n) PROVE ToolsInv'
  BY <1>6, HumanAnswersKeeps
<1>. QED
  BY <1>1, <1>2, <1>3, <1>4, <1>5, <1>6 DEF Tools!Next

LEMMA ToolsHold == Tools!Spec => []ToolsInv
<1>1. Tools!Init => ToolsInv
  BY ToolsStart
<1>2. ToolsInv /\ [Tools!Next]_(Tools!vars) => ToolsInv'
  BY ToolsKeep
<1>. QED
  BY <1>1, <1>2, PTL DEF Tools!Spec

\* A hook stops a tool only if the human denied an approval of its id, and that after the hook's
\* request if the broker took it; a hook that gives up while calls succeed leaves no request
\* open (session-bridge/hook-approval.js).
THEOREM HooksHeed == Tools!Spec => []HooksHeedHumans
<1>1. ToolsInv => HooksHeedHumans
  <2>. SUFFICES ASSUME ToolsInv, NEW u \in Hooked
                PROVE  /\ outcome[u] = "blocked" =>
                            \E n \in Tools!Heard(<<u, 0>>) : log[n].decision = "denied"
                       /\ faults = 0 /\ wait[<<u, 0>>].pc = "ended" =>
                            \E n \in DOMAIN log : /\ n > wait[<<u, 0>>].request
                                                  /\ log[n].kind = "response"
                                                  /\ log[n].id = wait[<<u, 0>>].id
    BY DEF HooksHeedHumans, Tools!HooksHeedHumans, Tools!BlockedByHuman, Tools!GivenUpIsClosed
  <2>1. HookKnown(u, wait[<<u, 0>>])
    BY ToolsAre
  <2>. QED
    BY <2>1 DEF HookKnown, HeardBy, Tools!Heard
<1>. QED
  BY <1>1, ToolsHold, PTL

\* Codex runs a command only if the human approved it, and that after the request over the
\* connection that is answered if the broker took it (codex-native-approval.js).
THEOREM CodexHeeds == Tools!Spec => []CodexRunsByHuman
<1>1. ToolsInv => CodexRunsByHuman
  <2>. SUFFICES ASSUME ToolsInv, NEW u \in Native, outcome[u] \in Tools!Accepting
                PROVE  \E n \in Tools!Heard(<<u, Tools!LastClient(u)>>) :
                         log[n].decision.yes = "approved"
    BY DEF CodexRunsByHuman, Tools!CodexRunsByHuman
  <2>. DEFINE S == {d \in Clients : wait[<<u, d>>].pc # "idle"}
  <2>1. PICK c \in Clients : AcceptedOver(u, c)
    BY DEF ToolsInv, AsksKnown, Accepted
  <2>2. Tools!LastClient(u) = c
    <3>1. Clients \subseteq Nat
      BY ToolsConstants
    <3>2. c \in S /\ \A d \in S : c >= d
      BY <2>1, <3>1 DEF AcceptedOver
    <3>3. \A d \in S : (\A e \in S : d >= e) => d = c
      BY <3>1, <3>2
    <3>. HIDE DEF S
    <3>. QED
      BY <3>2, <3>3 DEF Tools!Max, Tools!LastClient, S
  <2>3. \E n \in Tools!Heard(<<u, c>>) : log[n].decision.yes = "approved"
    BY <2>1 DEF AcceptedOver, HeardBy, Tools!Heard
  <2>. QED
    BY <2>2, <2>3
<1>. QED
  BY <1>1, ToolsHold, PTL

-----------------------------------------------------------------------------
(* Yunzhijia: the inductive invariant.                                     *)

LinkRecord == [socket : {"none", "connecting", "open", "closing"},
               timer : BOOLEAN, calling : BOOLEAN]
CallNames == {"register", "setAwayMode", "show", "list", "resolveAlias", "rename", "resolve",
              "post", "presence", "label"}

ChatTypes ==
  /\ phase \in {"down", "registering", "syncing", "connecting", "ready", "failed",
                "stopped", "crashed"}
  /\ link \in [Chat!Links -> LinkRecord] /\ mapped \subseteq Users
  /\ handler \in [Handlers -> [user : Users \union {"none"}, todo : Seq(CallNames)]]
  /\ failures \in 0..MaxFailures

\* A socket, its timer and the call before it exclude one another; only the adapter's own
\* two sockets have such a call.
LinkSound(l) ==
  /\ link[l].socket # "none" => ~link[l].timer /\ ~link[l].calling
  /\ ~(link[l].timer /\ link[l].calling)
  /\ l \in Users => ~link[l].calling

Registers(h) == handler[h].todo # <<>> /\ Head(handler[h].todo) = "register"

\* A user is registered first and once, by the handler of its first message, and has no
\* socket before.
Registration ==
  /\ \A u \in Users : u \notin mapped => link[u] = Chat!NoLink
  /\ \A h \in Handlers :
       /\ Registers(h) => handler[h].user \in mapped /\ link[handler[h].user] = Chat!NoLink
       /\ \A i \in 2..Len(handler[h].todo) : handler[h].todo[i] # "register"
       /\ \A k \in Handlers :
            Registers(h) /\ Registers(k) /\ handler[h].user = handler[k].user => h = k

\* Nothing is open before the adapter is registered.
Unopened ==
  phase \in {"down", "registering", "syncing"} =>
    link["broker"] = Chat!NoLink /\ link["chat"] = Chat!NoLink

ChatInv ==
  ChatTypes /\ (\A l \in Chat!Links : LinkSound(l)) /\ Registration /\ Unopened /\ Chat!Quiet

-----------------------------------------------------------------------------
(* Yunzhijia: the lemmas that its steps share.                             *)

\* What a message leads to is at least one call, and none of them registers its sender.
LEMMA CallsAre ==
  ASSUME NEW kind \in DOMAIN Chat!Calls
  PROVE  Chat!Calls[kind] \in Seq(CallNames \ {"register"}) /\ Chat!Calls[kind] # <<>>
<1>. DEFINE Plain == CallNames \ {"register"}
<1>1. kind \in {"away", "list", "alias", "mention", "plain"}
  BY DEF Chat!Calls
<1>2. {"setAwayMode", "show", "list", "resolveAlias", "rename", "resolve", "post",
       "presence"} \subseteq Plain
  BY DEF CallNames
<1>. HIDE DEF Plain
<1>3. /\ <<"setAwayMode", "show">> \in Seq(Plain) /\ <<"list", "show">> \in Seq(Plain)
      /\ <<"resolveAlias", "rename", "show">> \in Seq(Plain) /\ <<"post">> \in Seq(Plain)
      /\ <<"resolve", "post", "presence", "show">> \in Seq(Plain)
  BY <1>2
<1>4. /\ Chat!Calls["away"] = <<"setAwayMode", "show">>
      /\ Chat!Calls["list"] = <<"list", "show">>
      /\ Chat!Calls["alias"] = <<"resolveAlias", "rename", "show">>
      /\ Chat!Calls["mention"] = <<"resolve", "post", "presence", "show">>
      /\ Chat!Calls["plain"] = <<"post">>
  BY DEF Chat!Calls
<1>5. Chat!Calls[kind] \in Seq(Plain)
  <2>1. CASE kind = "away" \/ kind = "list"
    BY <1>3, <1>4, <2>1
  <2>2. CASE kind = "alias" \/ kind = "mention"
    BY <1>3, <1>4, <2>2
  <2>3. CASE kind = "plain"
    BY <1>3, <1>4, <2>3
  <2>. QED
    BY <1>1, <2>1, <2>2, <2>3
<1>6. Chat!Calls[kind] # <<>>
  <2>1. CASE kind = "away" \/ kind = "list"
    BY <1>4, <2>1
  <2>2. CASE kind = "alias" \/ kind = "mention"
    BY <1>4, <2>2
  <2>3. CASE kind = "plain"
    BY <1>4, <2>3
  <2>. QED
    BY <1>1, <2>1, <2>2, <2>3
<1>. QED
  BY <1>5, <1>6 DEF Plain

LEMMA ShortcutsAre ==
  ASSUME NEW call, NEW rest \in Chat!Shortcuts(call)
  PROVE  rest \in Seq(CallNames \ {"register"})
<1>1. rest \in {<<"show">>, <<>>}
  BY DEF Chat!Shortcuts
<1>2. "show" \in CallNames \ {"register"}
  BY DEF CallNames
<1>3. CASE rest = <<"show">>
  BY <1>2, <1>3
<1>4. CASE rest = <<>>
  BY <1>4
<1>. QED
  BY <1>1, <1>3, <1>4

\* A step that changes one link, of which something is open or registered already.
LEMMA LinkMoves ==
  ASSUME ChatInv, NEW l \in Chat!Links, NEW r \in LinkRecord,
         link' = [link EXCEPT ![l] = r],
         link[l] # Chat!NoLink \/ phase' \notin {"down", "registering", "syncing"},
         l \in Users => link[l] # Chat!NoLink,
         r.socket # "none" => ~r.timer /\ ~r.calling, ~(r.timer /\ r.calling),
         l \in Users => ~r.calling,
         phase' \in {"down", "registering", "syncing", "connecting", "ready", "failed",
                     "stopped", "crashed"},
         phase' = "stopped" => /\ phase = "stopped" /\ ~r.timer
                               /\ l # "chat" => r.socket \in {"none", "closing"},
         phase' \in {"down", "registering", "syncing"} => phase' = phase,
         UNCHANGED <<mapped, handler>>, failures' \in 0..MaxFailures
  PROVE  ChatInv'
<1>1. ChatTypes'
  BY DEF ChatInv, ChatTypes
<1>2. link'[l] = r /\ \A k \in Chat!Links : k # l => link'[k] = link[k]
  BY DEF ChatInv, ChatTypes
<1>3. \A k \in Chat!Links : LinkSound(k)'
  BY <1>2 DEF ChatInv, LinkSound
<1>4. Users \subseteq Chat!Links /\ "broker" \in Chat!Links /\ "chat" \in Chat!Links
  BY DEF Chat!Links
<1>5. Registration'
  <2>1. \A u \in Users : u \notin mapped => link'[u] = Chat!NoLink
    BY <1>2, <1>4 DEF ChatInv, Registration
  <2>2. \A h \in Handlers : Registers(h) => link'[handler[h].user] = Chat!NoLink
    BY <1>2, <1>4 DEF ChatInv, Registration, ChatTypes
  <2>. QED
    BY <2>1, <2>2 DEF ChatInv, Registration, Registers
<1>6. Unopened'
  BY <1>2, <1>4 DEF ChatInv, Unopened
<1>7. Chat!Quiet'
  BY <1>2 DEF ChatInv, Chat!Quiet, Chat!Stopped
<1>. QED
  BY <1>1, <1>3, <1>5, <1>6, <1>7 DEF ChatInv

LEMMA FailuresCounted ==
  ASSUME failures \in 0..MaxFailures, Chat!Fails \/ Chat!Works \/ failures' = failures
  PROVE  failures' \in 0..MaxFailures
BY ChatConstants DEF Chat!Fails, Chat!Works

\* A step that changes only the phase, and opens nothing by that.
LEMMA PhaseMoves ==
  ASSUME ChatInv, UNCHANGED <<link, mapped, handler>>, failures' \in 0..MaxFailures,
         phase' \in {"down", "registering", "syncing", "connecting", "ready", "failed",
                     "stopped", "crashed"},
         phase' = "stopped" => phase = "stopped",
         phase' \in {"down", "registering", "syncing"} =>
           phase \in {"down", "registering", "syncing"}
  PROVE  ChatInv'
<1>1. ChatTypes' /\ Unopened' /\ Chat!Quiet'
  BY DEF ChatInv, ChatTypes, Unopened, Chat!Quiet, Chat!Stopped
<1>2. (\A l \in Chat!Links : LinkSound(l)') /\ Registration'
  BY DEF ChatInv, LinkSound, Registration, Registers
<1>. QED
  BY <1>1, <1>2 DEF ChatInv

\* A step that gives a handler calls that do not register a user.
LEMMA HandlerMoves ==
  ASSUME ChatInv, NEW h \in Handlers, NEW x \in [user : Users \union {"none"}, todo : Seq(CallNames)],
         \A i \in 1..Len(x.todo) : x.todo[i] # "register",
         handler' = [handler EXCEPT ![h] = x],
         UNCHANGED <<phase, link, mapped>>, failures' \in 0..MaxFailures
  PROVE  ChatInv'
<1>1. ChatTypes' /\ Unopened' /\ Chat!Quiet'
  BY DEF ChatInv, ChatTypes, Unopened, Chat!Quiet, Chat!Stopped
<1>2. \A l \in Chat!Links : LinkSound(l)'
  BY DEF ChatInv, LinkSound
<1>3. handler'[h] = x /\ \A k \in Handlers : k # h => handler'[k] = handler[k]
  BY DEF ChatInv, ChatTypes
<1>4. ~Registers(h)' /\ \A k \in Handlers : k # h => Registers(k)' = Registers(k)
  <2>1. x.todo \in Seq(CallNames)
    OBVIOUS
  <2>2. x.todo = <<>> \/ Head(x.todo) # "register"
    BY <2>1
  <2>. QED
    BY <1>3, <2>2 DEF Registers
<1>5. Registration'
  <2>1. \A k \in Handlers : Registers(k)' =>
          k # h /\ Registers(k) /\ handler'[k].user = handler[k].user
    BY <1>3, <1>4
  <2>2. \A k \in Handlers : \A i \in 2..Len(handler'[k].todo) : handler'[k].todo[i] # "register"
    BY <1>3 DEF ChatInv, Registration
  <2>. QED
    BY <2>1, <2>2 DEF ChatInv, Registration
<1>. QED
  BY <1>1, <1>2, <1>5 DEF ChatInv

LEMMA ChatIs ==
  ASSUME ChatInv
  PROVE  /\ failures \in 0..MaxFailures /\ mapped \subseteq Users
         /\ "broker" \in Chat!Links /\ "chat" \in Chat!Links /\ Users \subseteq Chat!Links
         /\ "broker" \notin Users /\ "chat" \notin Users
         /\ \A l \in Chat!Links : link[l] \in LinkRecord /\ LinkSound(l)
         /\ \A h \in Handlers : handler[h] \in [user : Users \union {"none"}, todo : Seq(CallNames)]
         /\ phase \in {"down", "registering", "syncing", "connecting", "ready", "failed",
                       "stopped", "crashed"}
BY ChatConstants DEF ChatInv, ChatTypes, Chat!Links

-----------------------------------------------------------------------------
(* Yunzhijia: its steps, and the theorems.                                 *)

LEMMA AwayModeSyncedKeeps ==
  ASSUME ChatInv, Chat!AwayModeSynced
  PROVE  ChatInv'
<1>1. /\ phase = "syncing" /\ phase' = "connecting" /\ UNCHANGED <<mapped, handler>>
      /\ link' = [link EXCEPT !["broker"].socket = "connecting", !["chat"].calling = TRUE]
      /\ failures' \in 0..MaxFailures
  BY ChatIs, FailuresCounted DEF Chat!AwayModeSynced
<1>2. link["broker"] = Chat!NoLink /\ link["chat"] = Chat!NoLink
  BY <1>1 DEF ChatInv, Unopened
<1>3. /\ link' \in [Chat!Links -> LinkRecord]
      /\ link'["broker"] = [socket |-> "connecting", timer |-> FALSE, calling |-> FALSE]
      /\ link'["chat"] = [socket |-> "none", timer |-> FALSE, calling |-> TRUE]
      /\ \A l \in Chat!Links \ {"broker", "chat"} : link'[l] = link[l]
  <2>. DEFINE b == [link EXCEPT !["broker"].socket = "connecting"]
  <2>1. link \in [Chat!Links -> LinkRecord]
    BY DEF ChatInv, ChatTypes
  <2>2. /\ b \in [Chat!Links -> LinkRecord]
        /\ b["broker"] = [link["broker"] EXCEPT !.socket = "connecting"]
        /\ \A l \in Chat!Links : l # "broker" => b[l] = link[l]
    BY <2>1, ChatIs DEF LinkRecord
  <2>3. link' = [b EXCEPT !["chat"].calling = TRUE]
    BY <1>1
  <2>. HIDE DEF b
  <2>4. /\ link' \in [Chat!Links -> LinkRecord]
        /\ link'["chat"] = [link["chat"] EXCEPT !.calling = TRUE]
        /\ \A l \in Chat!Links : l # "chat" => link'[l] = b[l]
    <3>1. b["chat"] = link["chat"] /\ link["chat"] \in LinkRecord
      BY <2>2, ChatIs
    <3>2. [link["chat"] EXCEPT !.calling = TRUE] \in LinkRecord
      BY <3>1 DEF LinkRecord
    <3>3. link' = [b EXCEPT !["chat"] = [link["chat"] EXCEPT !.calling = TRUE]]
      BY <2>2, <2>3, <3>1, ChatIs
    <3>. QED
      BY <2>2, <3>2, <3>3, ChatIs
  <2>5. link'["broker"] = [link["broker"] EXCEPT !.socket = "connecting"]
    BY <2>2, <2>4, ChatIs
  <2>6. link'["broker"] = [Chat!NoLink EXCEPT !.socket = "connecting"]
    BY <2>5, <1>2
  <2>7. link'["chat"] = [Chat!NoLink EXCEPT !.calling = TRUE]
    BY <2>4, <1>2
  <2>. QED
    BY <2>2, <2>4, <2>6, <2>7 DEF Chat!NoLink
<1>4. ASSUME NEW l \in Chat!Links PROVE LinkSound(l)'
  BY <1>3, ChatIs DEF LinkSound
<1>5. Registration'
  <2>1. \A u \in Users : link'[u] = link[u]
    BY <1>3, ChatIs
  <2>. QED
    BY <1>1, <2>1 DEF ChatInv, ChatTypes, Registration, Registers
<1>. QED
  BY <1>1, <1>3, <1>4, <1>5 DEF ChatInv, ChatTypes, Unopened, Chat!Quiet, Chat!Stopped

LEMMA SocketsKeep ==
  ASSUME ChatInv, \/ Chat!ChatUrlDerived \/ Chat!BrokerReregistered
                  \/ \E l \in Chat!Links : Chat!Opens(l) \/ Chat!Closes(l) \/ Chat!TimerFires(l)
  PROVE  ChatInv'
<1>1. \A l \in Chat!Links : link[l].timer \/ link[l].calling \/ link[l].socket # "none" =>
                              link[l] # Chat!NoLink
  BY DEF Chat!NoLink
<1>2. CASE Chat!ChatUrlDerived
  <2>. DEFINE a == link["chat"]
  <2>1. a \in LinkRecord /\ a.calling /\ LinkSound("chat") /\ a # Chat!NoLink
    BY <1>1, <1>2, ChatIs DEF Chat!ChatUrlDerived
  <2>2. a.socket = "none" /\ ~a.timer
    BY <2>1 DEF LinkSound
  <2>3. /\ failures' \in 0..MaxFailures /\ UNCHANGED <<mapped, handler>>
        /\ \/ phase' = phase
           \/ phase = "connecting" /\ phase' \in {"ready", "failed"}
    <3>1. Chat!Fails \/ Chat!Works
      BY <1>2 DEF Chat!ChatUrlDerived
    <3>2. failures' \in 0..MaxFailures
      BY <3>1, ChatIs, FailuresCounted
    <3>3. UNCHANGED <<mapped, handler>>
      BY <1>2 DEF Chat!ChatUrlDerived
    <3>4. \/ phase' = phase
          \/ phase = "connecting" /\ phase' \in {"ready", "failed"}
      BY <1>2 DEF Chat!ChatUrlDerived
    <3>. QED
      BY <3>2, <3>3, <3>4
  <2>4. PICK r \in LinkRecord :
          /\ link' = [link EXCEPT !["chat"] = r] /\ ~r.calling
          /\ r.socket # "none" => ~r.timer /\ r.socket = "connecting"
          /\ phase' = "stopped" => ~r.timer
    <3>. DEFINE r1 == Chat!ConnectedAnyway("chat")
                r2 == [a EXCEPT !.calling = FALSE]
                r3 == Chat!Scheduled("chat")
    <3>1. \/ link' = [link EXCEPT !["chat"] = r1]
          \/ link' = [link EXCEPT !["chat"] = r2] /\ phase' = "failed"
          \/ link' = [link EXCEPT !["chat"] = r3] /\ phase' = phase
      BY <1>2 DEF Chat!ChatUrlDerived
    <3>2. r1 \in LinkRecord /\ ~r1.calling /\ r1.socket = "connecting" /\ ~r1.timer
      BY <2>1, <2>2 DEF Chat!ConnectedAnyway, LinkRecord
    <3>3. r2 \in LinkRecord /\ ~r2.calling /\ r2.socket = "none" /\ ~r2.timer
      BY <2>1, <2>2 DEF LinkRecord
    <3>4. r3 \in LinkRecord /\ ~r3.calling /\ r3.socket = "none" /\ r3.timer = ~Chat!Stopped
      BY <2>1, <2>2 DEF Chat!Scheduled, LinkRecord, Chat!Stopped
    <3>. HIDE DEF r1, r2, r3
    <3>. QED
      BY <3>1, <3>2, <3>3, <3>4 DEF Chat!Stopped
  <2>. QED
    BY <2>1, <2>3, <2>4, ChatIs, LinkMoves
<1>3. CASE Chat!BrokerReregistered
  <2>. DEFINE a == link["broker"]
  <2>1. a \in LinkRecord /\ a.calling /\ LinkSound("broker") /\ a # Chat!NoLink
    BY <1>1, <1>3, ChatIs DEF Chat!BrokerReregistered
  <2>2. a.socket = "none" /\ ~a.timer
    BY <2>1 DEF LinkSound
  <2>3. failures' \in 0..MaxFailures /\ UNCHANGED <<phase, mapped, handler>>
    BY <1>3, ChatIs, FailuresCounted DEF Chat!BrokerReregistered
  <2>4. PICK r \in LinkRecord :
          /\ link' = [link EXCEPT !["broker"] = r] /\ ~r.calling
          /\ r.socket # "none" => ~r.timer /\ r.socket = "connecting"
          /\ phase' = "stopped" => ~r.timer /\ r.socket = "none"
    <3>. DEFINE r1 == Chat!Connected("broker")
                r3 == Chat!Scheduled("broker")
    <3>1. link' = [link EXCEPT !["broker"] = r1] \/ link' = [link EXCEPT !["broker"] = r3]
      BY <1>3 DEF Chat!BrokerReregistered
    <3>2. /\ r1 \in LinkRecord /\ ~r1.calling /\ ~r1.timer
          /\ r1.socket = IF Chat!Stopped THEN "none" ELSE "connecting"
      BY <2>1, <2>2 DEF Chat!Connected, LinkRecord
    <3>4. r3 \in LinkRecord /\ ~r3.calling /\ r3.socket = "none" /\ r3.timer = ~Chat!Stopped
      BY <2>1, <2>2 DEF Chat!Scheduled, LinkRecord, Chat!Stopped
    <3>. HIDE DEF r1, r3
    <3>. QED
      BY <2>3, <3>1, <3>2, <3>4 DEF Chat!Stopped
  <2>. QED
    BY <2>1, <2>3, <2>4, ChatIs, LinkMoves
<1>4. ASSUME NEW l \in Chat!Links, Chat!Opens(l) PROVE ChatInv'
  <2>. DEFINE r == [link[l] EXCEPT !.socket = "open", !.timer = FALSE]
  <2>1. /\ link[l] \in LinkRecord /\ LinkSound(l) /\ link[l].socket = "connecting"
        /\ link[l] # Chat!NoLink /\ link' = [link EXCEPT ![l] = r]
        /\ UNCHANGED <<phase, mapped, handler, failures>>
    BY <1>1, <1>4, ChatIs DEF Chat!Opens
  <2>2. r \in LinkRecord /\ r.socket = "open" /\ ~r.timer /\ ~r.calling
    BY <2>1 DEF LinkRecord, LinkSound
  <2>. HIDE DEF r
  <2>3. phase = "stopped" => l = "chat"
    BY <2>1 DEF ChatInv, Chat!Quiet, Chat!Stopped
  <2>. QED
    BY <2>1, <2>2, <2>3, ChatIs, LinkMoves
<1>5. ASSUME NEW l \in Chat!Links, Chat!Closes(l) PROVE ChatInv'
  <2>. DEFINE r == [Chat!Scheduled(l) EXCEPT !.socket = "none"]
  <2>1. /\ link[l] \in LinkRecord /\ LinkSound(l) /\ link[l].socket # "none"
        /\ link[l] # Chat!NoLink /\ link' = [link EXCEPT ![l] = r]
        /\ UNCHANGED <<phase, mapped, handler>> /\ failures' \in 0..MaxFailures
    BY <1>1, <1>5, ChatIs, FailuresCounted DEF Chat!Closes
  <2>2. r \in LinkRecord /\ r.socket = "none" /\ r.timer = ~Chat!Stopped /\ ~r.calling
    BY <2>1 DEF LinkRecord, Chat!Scheduled, Chat!Stopped
  <2>. HIDE DEF r
  <2>. QED
    BY <2>1, <2>2, ChatIs, LinkMoves DEF Chat!Stopped
<1>6. ASSUME NEW l \in Chat!Links, Chat!TimerFires(l) PROVE ChatInv'
  <2>. DEFINE r == Chat!Fired(l)
  <2>1. /\ link[l] \in LinkRecord /\ LinkSound(l) /\ link[l].timer
        /\ link[l] # Chat!NoLink /\ link' = [link EXCEPT ![l] = r]
        /\ UNCHANGED <<phase, mapped, handler, failures>>
    BY <1>1, <1>6, ChatIs DEF Chat!TimerFires
  <2>2. link[l].socket = "none" /\ ~link[l].calling /\ ~Chat!Stopped
    BY <2>1 DEF LinkSound, ChatInv, Chat!Quiet
  <2>3. /\ r \in LinkRecord /\ ~r.timer
        /\ \/ l \in Users /\ r.socket = "connecting" /\ ~r.calling
           \/ l \notin Users /\ r.socket = "none" /\ r.calling
    BY <2>1, <2>2 DEF LinkRecord, Chat!Fired, Chat!Reconnecting, Chat!Connected
  <2>. HIDE DEF r
  <2>. QED
    BY <2>1, <2>2, <2>3, ChatIs, LinkMoves DEF Chat!Stopped
<1>. QED
  BY <1>2, <1>3, <1>4, <1>5, <1>6

LEMMA StopKeeps ==
  ASSUME ChatInv, Chat!Stop
  PROVE  ChatInv'
<1>. DEFINE r(l) == [link[l] EXCEPT !.timer = FALSE, !.socket = IF @ = "none" THEN @ ELSE "closing"]
<1>1. /\ phase' = "stopped" /\ link' = [l \in Chat!Links |-> r(l)]
      /\ UNCHANGED <<mapped, handler, failures>>
  BY DEF Chat!Stop
<1>2. ASSUME NEW l \in Chat!Links
      PROVE  /\ r(l) \in LinkRecord /\ ~r(l).timer /\ r(l).calling = link[l].calling
             /\ r(l).socket = IF link[l].socket = "none" THEN "none" ELSE "closing"
             /\ link[l] = Chat!NoLink => r(l) = Chat!NoLink
  <2>1. link[l] \in LinkRecord
    BY ChatIs
  <2>2. link[l] = Chat!NoLink => r(l) = Chat!NoLink
    <3>. SUFFICES ASSUME link[l] = Chat!NoLink PROVE r(l) = Chat!NoLink
      OBVIOUS
    <3>1. /\ Chat!NoLink \in LinkRecord
          /\ Chat!NoLink.socket = "none" /\ Chat!NoLink.timer = FALSE /\ Chat!NoLink.calling = FALSE
      BY DEF LinkRecord, Chat!NoLink
    <3>2. link[l].socket = "none" /\ link[l].calling = FALSE
      BY <3>1
    <3>3. r(l) \in LinkRecord /\ Chat!NoLink \in LinkRecord
      BY <2>1, <3>1 DEF LinkRecord
    <3>4. r(l).socket = "none" /\ r(l).timer = FALSE /\ r(l).calling = FALSE
      BY <2>1, <3>2 DEF LinkRecord
    <3>. HIDE DEF r
    <3>. QED
      BY <3>1, <3>3, <3>4 DEF LinkRecord
  <2>. QED
    BY <2>1, <2>2 DEF LinkRecord
<1>3. \A l \in Chat!Links : link'[l] = r(l)
  BY <1>1
<1>. HIDE DEF r
<1>4. ChatTypes' /\ Chat!Quiet' /\ Unopened'
  BY <1>1, <1>2, <1>3 DEF ChatInv, ChatTypes, Chat!Quiet, Unopened
<1>5. \A l \in Chat!Links : LinkSound(l)'
  BY <1>2, <1>3, ChatIs DEF LinkSound
<1>6. Registration'
  <2>1. \A u \in Users : link[u] = Chat!NoLink => link'[u] = Chat!NoLink
    BY <1>2, <1>3, ChatIs
  <2>. QED
    BY <1>1, <2>1 DEF ChatInv, ChatTypes, Registration, Registers
<1>. QED
  BY <1>4, <1>5, <1>6 DEF ChatInv

LEMMA ReceivedKeeps ==
  ASSUME ChatInv, NEW h \in Handlers, NEW u \in Users, NEW kind \in DOMAIN Chat!Calls,
         Chat!Received(h, u, kind)
  PROVE  ChatInv'
<1>. DEFINE calls == Chat!Calls[kind]
            todo == IF u \in mapped THEN calls ELSE <<"register">> \o calls
            x == [user |-> u, todo |-> todo]
<1>1. calls \in Seq(CallNames \ {"register"})
  BY CallsAre
<1>2. /\ handler' = [handler EXCEPT ![h] = x] /\ mapped' = mapped \union {u}
      /\ UNCHANGED <<phase, link, failures>>
  BY DEF Chat!Received
<1>. HIDE DEF calls
<1>3. CASE u \in mapped
  <2>1. /\ todo = calls /\ todo \in Seq(CallNames)
        /\ \A i \in 1..Len(todo) : todo[i] # "register"
    BY <1>1, <1>3
  <2>. HIDE DEF todo
  <2>2. x \in [user : Users \union {"none"}, todo : Seq(CallNames)] /\ x.todo = todo
    BY <2>1
  <2>. HIDE DEF x
  <2>. QED
    BY <1>2, <1>3, <2>1, <2>2, ChatIs, HandlerMoves
<1>4. CASE u \notin mapped
  <2>1. /\ todo \in Seq(CallNames) /\ todo # <<>>
        /\ \A i \in 2..Len(todo) : todo[i] # "register"
    <3>1. "register" \in CallNames
      BY DEF CallNames
    <3>2. todo = <<"register">> \o calls
      BY <1>4
    <3>3. calls \in Seq(CallNames)
      BY <1>1
    <3>4. \A i \in 2..Len(todo) : todo[i] = calls[i - 1] /\ i - 1 \in 1..Len(calls)
      BY <3>2, <3>3
    <3>5. \A i \in 1..Len(calls) : calls[i] # "register"
      BY <1>1
    <3>. QED
      BY <3>1, <3>2, <3>3, <3>4, <3>5
  <2>. HIDE DEF todo
  <2>2. x \in [user : Users \union {"none"}, todo : Seq(CallNames)] /\ x.todo = todo /\ x.user = u
    BY <2>1
  <2>. HIDE DEF x
  <2>3. handler'[h] = x /\ \A k \in Handlers : k # h => handler'[k] = handler[k]
    BY <1>2 DEF ChatInv, ChatTypes
  <2>4. ChatTypes' /\ Unopened' /\ Chat!Quiet' /\ \A l \in Chat!Links : LinkSound(l)'
    BY <1>2, <2>2 DEF ChatInv, ChatTypes, Unopened, Chat!Quiet, Chat!Stopped, LinkSound
  <2>5. \A k \in Handlers : k # h /\ Registers(k)' => Registers(k) /\ handler[k].user # u
    BY <1>4, <2>3 DEF ChatInv, Registration, Registers
  <2>6. Registration'
    <3>1. link'[u] = Chat!NoLink /\ u \in mapped' /\ handler'[h].user = u
      BY <1>2, <1>4, <2>2, <2>3 DEF ChatInv, Registration
    <3>2. \A v \in Users : v \notin mapped' => link'[v] = Chat!NoLink
      BY <1>2 DEF ChatInv, Registration
    <3>3. \A k \in Handlers :
            Registers(k)' => handler'[k].user \in mapped' /\ link'[handler'[k].user] = Chat!NoLink
      BY <1>2, <2>3, <2>5, <3>1 DEF ChatInv, Registration
    <3>4. \A k \in Handlers : \A i \in 2..Len(handler'[k].todo) : handler'[k].todo[i] # "register"
      BY <2>1, <2>2, <2>3 DEF ChatInv, Registration
    <3>5. \A k, j \in Handlers :
            Registers(k)' /\ Registers(j)' /\ handler'[k].user = handler'[j].user => k = j
      BY <2>3, <2>5, <3>1 DEF ChatInv, Registration
    <3>. QED
      BY <3>2, <3>3, <3>4, <3>5 DEF Registration
  <2>. QED
    BY <2>4, <2>6 DEF ChatInv
<1>. QED
  BY <1>3, <1>4

LEMMA NotifiedKeeps ==
  ASSUME ChatInv, NEW h \in Handlers, NEW l \in Chat!Links, Chat!Notified(h, l)
  PROVE  ChatInv'
<1>1. PICK u \in (IF l = "broker" THEN mapped ELSE {l}), calls \in {<<"label", "show">>, <<"show">>} :
        handler' = [handler EXCEPT ![h] = [user |-> u, todo |-> calls]]
  BY DEF Chat!Notified
<1>2. u \in Users
  BY ChatIs DEF Chat!Notified, Chat!Links
<1>3. calls \in Seq(CallNames) /\ \A i \in 1..Len(calls) : calls[i] # "register"
  <2>1. "label" \in CallNames /\ "show" \in CallNames
    BY DEF CallNames
  <2>2. CASE calls = <<"label", "show">>
    BY <2>1, <2>2
  <2>3. CASE calls = <<"show">>
    BY <2>1, <2>3
  <2>. QED
    BY <2>2, <2>3
<1>. DEFINE x == [user |-> u, todo |-> calls]
<1>4. /\ x \in [user : Users \union {"none"}, todo : Seq(CallNames)] /\ x.todo = calls
      /\ handler' = [handler EXCEPT ![h] = x]
  BY <1>1, <1>2, <1>3
<1>. HIDE DEF x
<1>. QED
  BY <1>3, <1>4, ChatIs, HandlerMoves DEF Chat!Notified

\* What is left to a handler after its first call has nobody to register.
LEMMA RestIs ==
  ASSUME ChatInv, NEW h \in Handlers, handler[h].todo # <<>>,
         NEW rest \in {Tail(handler[h].todo)} \union Chat!Shortcuts(Head(handler[h].todo)),
         Chat!Left(h, rest)
  PROVE  \E x \in [user : Users \union {"none"}, todo : Seq(CallNames)] :
           /\ handler' = [handler EXCEPT ![h] = x]
           /\ \A i \in 1..Len(x.todo) : x.todo[i] # "register"
<1>. DEFINE todo == handler[h].todo
<1>1. handler[h] \in [user : Users \union {"none"}, todo : Seq(CallNames)]
  BY ChatIs
<1>2. rest \in Seq(CallNames) /\ \A i \in 1..Len(rest) : rest[i] # "register"
  <2>1. CASE rest = Tail(todo)
    <3>1. todo \in Seq(CallNames) /\ todo # <<>> /\ \A i \in 2..Len(todo) : todo[i] # "register"
      BY <1>1 DEF ChatInv, Registration
    <3>. HIDE DEF todo
    <3>2. /\ Tail(todo) \in Seq(CallNames) /\ Len(Tail(todo)) = Len(todo) - 1
          /\ \A i \in 1..Len(Tail(todo)) : Tail(todo)[i] = todo[i + 1]
      BY <3>1
    <3>3. \A i \in 1..Len(Tail(todo)) : i + 1 \in 2..Len(todo)
      BY <3>1, <3>2
    <3>. QED
      BY <2>1, <3>1, <3>2, <3>3
  <2>2. CASE rest \in Chat!Shortcuts(Head(todo))
    <3>1. rest \in Seq(CallNames \ {"register"})
      BY <2>2, ShortcutsAre
    <3>. QED
      BY <3>1
  <2>. QED
    BY <2>1, <2>2
<1>3. CASE rest = <<>>
  <2>1. Chat!IdleHandler \in [user : Users \union {"none"}, todo : Seq(CallNames)]
    BY DEF Chat!IdleHandler
  <2>2. handler' = [handler EXCEPT ![h] = Chat!IdleHandler]
    BY <1>3 DEF Chat!Left
  <2>3. \A i \in 1..Len(Chat!IdleHandler.todo) : FALSE
    BY DEF Chat!IdleHandler
  <2>. QED
    BY <2>1, <2>2, <2>3
<1>4. CASE rest # <<>>
  <2>. DEFINE x == [handler[h] EXCEPT !.todo = rest]
  <2>1. x \in [user : Users \union {"none"}, todo : Seq(CallNames)] /\ x.todo = rest
    BY <1>1, <1>2
  <2>2. handler' = [handler EXCEPT ![h] = x]
    BY <1>4 DEF Chat!Left
  <2>. HIDE DEF x
  <2>. QED
    BY <1>2, <2>1, <2>2
<1>. QED
  BY <1>3, <1>4

LEMMA CallReturnsKeeps ==
  ASSUME ChatInv, NEW h \in Handlers, Chat!CallReturns(h)
  PROVE  ChatInv'
<1>. DEFINE todo == handler[h].todo
            u == handler[h].user
<1>1. PICK rest \in {Tail(todo)} \union Chat!Shortcuts(Head(todo)) : Chat!Left(h, rest)
  BY DEF Chat!CallReturns
<1>2. /\ todo # <<>> /\ UNCHANGED <<phase, mapped>> /\ failures' \in 0..MaxFailures
      /\ link' = IF Head(todo) = "register" THEN [link EXCEPT ![u] = Chat!Connected(u)] ELSE link
  BY ChatIs, FailuresCounted DEF Chat!CallReturns
<1>3. PICK x \in [user : Users \union {"none"}, todo : Seq(CallNames)] :
        /\ handler' = [handler EXCEPT ![h] = x]
        /\ \A i \in 1..Len(x.todo) : x.todo[i] # "register"
  BY <1>1, <1>2, RestIs
<1>4. CASE Head(todo) # "register"
  BY <1>2, <1>3, <1>4, HandlerMoves
<1>5. CASE Head(todo) = "register"
  <2>1. Registers(h) /\ u \in mapped /\ u \in Users /\ link[u] = Chat!NoLink
    BY <1>2, <1>5 DEF ChatInv, ChatTypes, Registration, Registers
  <2>. DEFINE r == Chat!Connected(u)
  <2>2. /\ r \in LinkRecord /\ ~r.timer /\ ~r.calling
        /\ r.socket = IF Chat!Stopped THEN "none" ELSE "connecting"
    <3>1. link[u] \in LinkRecord /\ link[u].socket = "none" /\ ~link[u].timer
      BY <2>1, ChatIs DEF Chat!NoLink
    <3>. HIDE DEF u
    <3>. QED
      BY <3>1 DEF Chat!Connected, LinkRecord
  <2>. HIDE DEF r, u, todo
  <2>3. link' = [link EXCEPT ![u] = r]
    BY <1>2, <1>5 DEF r
  <2>4. link'[u] = r /\ \A l \in Chat!Links : l # u => link'[l] = link[l]
    BY <2>1, <2>3, ChatIs DEF ChatInv, ChatTypes
  <2>5. handler'[h] = x /\ \A k \in Handlers : k # h => handler'[k] = handler[k]
    BY <1>3 DEF ChatInv, ChatTypes
  <2>6. ChatTypes'
    BY <1>2, <1>3, <2>2, <2>3 DEF ChatInv, ChatTypes
  <2>7. \A l \in Chat!Links : LinkSound(l)'
    BY <2>1, <2>2, <2>4, ChatIs DEF LinkSound
  <2>8. Unopened'
    BY <1>2, <2>1, <2>4, ChatIs DEF ChatInv, Unopened
  <2>9. Chat!Quiet'
    BY <1>2, <2>2, <2>4 DEF ChatInv, Chat!Quiet, Chat!Stopped
  <2>10. ~Registers(h)'
    <3>1. x.todo = <<>> \/ Head(x.todo) # "register"
      <4>1. x.todo \in Seq(CallNames)
        OBVIOUS
      <4>. QED
        BY <1>3, <4>1
    <3>. QED
      BY <2>5, <3>1 DEF Registers
  <2>11. \A k \in Handlers : Registers(k)' =>
           k # h /\ Registers(k) /\ handler'[k].user = handler[k].user /\ handler[k].user # u
    BY <2>1, <2>5, <2>10 DEF ChatInv, Registration, Registers, u
  <2>12. Registration'
    <3>1. \A v \in Users : v \notin mapped' => link'[v] = Chat!NoLink
      BY <1>2, <2>1, <2>4, ChatIs DEF ChatInv, Registration
    <3>2. \A k \in Handlers :
            Registers(k)' => handler'[k].user \in mapped' /\ link'[handler'[k].user] = Chat!NoLink
      BY <1>2, <2>4, <2>11, ChatIs DEF ChatInv, Registration
    <3>3. \A k \in Handlers : \A i \in 2..Len(handler'[k].todo) : handler'[k].todo[i] # "register"
      BY <1>3, <2>5 DEF ChatInv, Registration
    <3>4. \A k, j \in Handlers :
            Registers(k)' /\ Registers(j)' /\ handler'[k].user = handler'[j].user => k = j
      BY <2>11 DEF ChatInv, Registration
    <3>. QED
      BY <3>1, <3>2, <3>3, <3>4 DEF Registration
  <2>. QED
    BY <2>6, <2>7, <2>8, <2>9, <2>12 DEF ChatInv
<1>. QED
  BY <1>4, <1>5

LEMMA CallFailsKeeps ==
  ASSUME ChatInv, NEW h \in Handlers, Chat!CallFails(h)
  PROVE  ChatInv'
<1>1. /\ failures' \in 0..MaxFailures /\ UNCHANGED <<link, mapped>> /\ handler[h].todo # <<>>
      /\ \/ phase' = "crashed" /\ UNCHANGED handler
         \/ Chat!Left(h, Tail(handler[h].todo)) /\ UNCHANGED phase
  BY ChatIs, FailuresCounted DEF Chat!CallFails, Chat!SendingFails, Chat!Rejected
<1>2. CASE phase' = "crashed" /\ UNCHANGED handler
  BY <1>1, <1>2, PhaseMoves
<1>3. CASE Chat!Left(h, Tail(handler[h].todo)) /\ UNCHANGED phase
  <2>1. PICK x \in [user : Users \union {"none"}, todo : Seq(CallNames)] :
          /\ handler' = [handler EXCEPT ![h] = x]
          /\ \A i \in 1..Len(x.todo) : x.todo[i] # "register"
    BY <1>1, <1>3, RestIs
  <2>. QED
    BY <1>1, <1>3, <2>1, HandlerMoves
<1>. QED
  BY <1>1, <1>2, <1>3

LEMMA ChatStarts ==
  ASSUME Chat!Init
  PROVE  ChatInv
<1>1. /\ phase = "down" /\ link = [l \in Chat!Links |-> Chat!NoLink] /\ mapped = {}
      /\ handler = [h \in Handlers |-> Chat!IdleHandler] /\ failures = 0
  BY DEF Chat!Init
<1>2. Chat!NoLink \in LinkRecord
  BY DEF Chat!NoLink, LinkRecord
<1>3. Chat!IdleHandler \in [user : Users \union {"none"}, todo : Seq(CallNames)]
  BY DEF Chat!IdleHandler
<1>4. ChatTypes
  BY <1>1, <1>2, <1>3, ChatConstants DEF ChatTypes
<1>5. \A l \in Chat!Links : LinkSound(l)
  BY <1>1 DEF LinkSound, Chat!NoLink
<1>6. \A u \in Users : link[u] = Chat!NoLink
  BY <1>1 DEF Chat!Links
<1>7. \A h \in Handlers : handler[h].todo = <<>>
  BY <1>1 DEF Chat!IdleHandler
<1>8. \A h \in Handlers : ~Registers(h) /\ \A i \in 2..Len(handler[h].todo) : FALSE
  BY <1>7 DEF Registers
<1>. QED
  BY <1>1, <1>4, <1>5, <1>6, <1>8
     DEF ChatInv, Registration, Unopened, Chat!Links, Chat!Quiet, Chat!Stopped

LEMMA ChatKeeps ==
  ASSUME ChatInv, [Chat!Next]_(Chat!vars)
  PROVE  ChatInv'
<1>1. CASE UNCHANGED Chat!vars
  BY <1>1, ChatIs, PhaseMoves DEF Chat!vars
<1>2. CASE Chat!Start \/ Chat!Registered
  <2>1. /\ UNCHANGED <<link, mapped, handler>> /\ failures' \in 0..MaxFailures
        /\ \/ phase = "down" /\ phase' = "registering"
           \/ phase = "registering" /\ phase' \in {"syncing", "failed"}
    BY <1>2, ChatIs, FailuresCounted DEF Chat!Start, Chat!Registered
  <2>. QED
    BY <2>1, PhaseMoves
<1>3. CASE Chat!AwayModeSynced
  BY <1>3, AwayModeSyncedKeeps
<1>4. CASE \/ Chat!ChatUrlDerived \/ Chat!BrokerReregistered
           \/ \E l \in Chat!Links : Chat!Opens(l) \/ Chat!Closes(l) \/ Chat!TimerFires(l)
  BY <1>4, SocketsKeep
<1>5. CASE Chat!Stop
  BY <1>5, StopKeeps
<1>6. ASSUME NEW h \in Handlers,
             \/ \E u \in Users, kind \in DOMAIN Chat!Calls : Chat!Received(h, u, kind)
             \/ \E l \in Chat!Links : Chat!Notified(h, l)
             \/ Chat!CallReturns(h) \/ Chat!CallFails(h)
      PROVE  ChatInv'
  BY <1>6, ReceivedKeeps, NotifiedKeeps, CallReturnsKeeps, CallFailsKeeps
<1>. QED
  BY <1>1, <1>2, <1>3, <1>4, <1>5, <1>6 DEF Chat!Next

\* An adapter of the chat that was stopped opens no socket to the broker any more, although
\* calls that began before return later (adapters/yunzhijia/index.js).
THEOREM StoppedIsQuiet == Chat!Spec => []Quiet
<1>1. Chat!Init => ChatInv
  BY ChatStarts
<1>2. ChatInv /\ [Chat!Next]_(Chat!vars) => ChatInv'
  BY ChatKeeps
<1>3. ChatInv => Quiet
  BY DEF ChatInv, Quiet
<1>. QED
  BY <1>1, <1>2, <1>3, PTL DEF Chat!Spec

\* The types of approvals and of the chat, where no socket is opened twice
\* (hook-approval.js, codex-native-approval.js, adapters/yunzhijia/index.js).
THEOREM PeopleTyped == PeopleSpec => []TypesOK
<1>. DEFINE BothInv == ToolsInv /\ ChatInv
            Both == [AskStep \/ ChatStep]_<<toolVars, chatVars, vars, part>>
<1>1. PeopleInit => BothInv
  BY ToolsStart, ChatStarts DEF PeopleInit
<1>2. BothInv /\ Both => BothInv'
  <2>. SUFFICES ASSUME BothInv, Both PROVE BothInv'
    OBVIOUS
  <2>1. [Tools!Next]_(Tools!vars)
    BY DEF AskStep, ChatStep, toolVars, Tools!vars
  <2>2. [Chat!Next]_(Chat!vars)
    BY DEF AskStep, ChatStep, chatVars, Chat!vars
  <2>. QED
    BY <2>1, <2>2, ToolsKeep, ChatKeeps
<1>3. BothInv => TypesOK
  <2>. SUFFICES ASSUME BothInv PROVE TypesOK
    OBVIOUS
  <2>1. Tools!TypeOK
    <3>1. \A u \in Native : offer[u] \in Offers \union {{}}
      BY DEF ToolsInv, ToolTypes
    <3>2. \A u \in Native : outcome[u] \in Tools!Decisions \union {"none"}
      BY DEF ToolsInv, AsksKnown
    <3>3. \A a \in Tools!Asks : wait[a].pc \in {"idle", "ready", "waiting", "failing", "ended"}
      BY DEF ToolsInv, ToolTypes, WaitRecord
    <3>. QED
      BY <3>1, <3>2, <3>3, ToolsAre DEF Tools!TypeOK
  <2>2. Chat!TypeOK
    <3>1. \A l \in Chat!Links : link[l].socket \in {"none", "connecting", "open", "closing"}
      BY ChatIs DEF LinkRecord
    <3>. QED
      BY <3>1, ChatIs DEF LinkSound, Chat!TypeOK
  <2>. QED
    BY <2>1, <2>2 DEF TypesOK
<1>. QED
  BY <1>1, <1>2, <1>3, PTL DEF PeopleSpec
=============================================================================
