----------------------------- MODULE Approvals -----------------------------
(***************************************************************************)
(* How an agent asks its human before it uses a tool: the hooks of the     *)
(* editors (session-bridge/hook-approval.js, pending-tool-use.js and the   *)
(* plugins), which go on when nobody answers, and the watcher of Codex's   *)
(* app-server (codex-native-approval.js), which then aborts.  Both send a  *)
(* request to the broker and read its log until the first response with    *)
(* the approval's id, or until a deadline.                                 *)
(*                                                                         *)
(* The clock is left out: a deadline may pass at any time, and a poll that *)
(* throws is taken for it; one that the broker refuses finds nothing.      *)
(* Requests of one agent in one session.                                   *)
(***************************************************************************)
EXTENDS Integers, Sequences, FiniteSetsExt

CONSTANTS
  Hooked,      \* uses of tools that a hook asks for
  Correlated,  \* those whose request may lack the id of the use
  Native,      \* uses of tools that Codex's app-server asks for
  Offers,      \* the decisions Codex may offer for a use
  Clients,     \* bound: numbers of the connections to the app-server
  MaxFaults    \* bound: calls that throw or that the broker refuses, hooks that are killed

VARIABLES
  log,             \* events of the broker: requests and responses
  pendingToolUse,  \* the file that PreToolUse leaves for PermissionRequest
  wait,            \* where each ask is
  offer,           \* what Codex offers for a use
  client,          \* the connection to the app-server
  outcome,         \* what became of each use
  answered,        \* the requests that the human has answered
  faults

vars == <<log, pendingToolUse, wait, offer, client, outcome, answered, faults>>

\* Codex asks again over a new connection, a hook asks once
Asks == (Hooked \X {0}) \union (Native \X Clients)
OfHook(a) == a[2] = 0

\* the id of a use that has none is made of the session and the tool
NoId == "session-tool"

Init ==
  /\ log = <<>> /\ pendingToolUse = NoId
  /\ wait = [a \in Asks |-> [pc |-> "idle", id |-> NoId, request |-> 0]]
  /\ offer = [u \in Native |-> {}] /\ client = 1
  /\ outcome = [u \in Hooked \union Native |-> "none"]
  /\ answered = {} /\ faults = 0

Fault == faults < MaxFaults /\ faults' = faults + 1

Event(kind, id, use, by, decision) ==
  [kind |-> kind, id |-> id, use |-> use, by |-> by, decision |-> decision]
Request(id, use) == Event("request", id, use, "agent", "none")
Response(id, use, by, decision) == Event("response", id, use, by, decision)

\* the responses to this approval, since it was asked for
Ever(id, request) == {n \in DOMAIN log : log[n].kind = "response" /\ log[n].id = id}
Since(id, request) == {n \in Ever(id, request) : n > request}

Asked(a, id) ==
  /\ log' = Append(log, Request(id, a[1]))
  /\ wait' = [wait EXCEPT ![a] = [pc |-> "waiting", id |-> id, request |-> Len(log) + 1]]

\* the broker refuses a request, or it throws, before or after it is in the log
MayBeLogged(a, id) == log' \in {log, Append(log, Request(id, a[1]))}

\* the body of a refusal has no number, and the wait is from the start of the log
Refused(a, id) ==
  /\ Fault /\ MayBeLogged(a, id)
  /\ wait' = [wait EXCEPT ![a] = [pc |-> "waiting", id |-> id, request |-> 0]]

Ends(a) == wait' = [wait EXCEPT ![a].pc = "ended"]

\* hooks and Codex share nothing but the log, so only one of them asks
Alone(hooks) == \A a \in Asks : wait[a].pc # "idle" => OfHook(a) = hooks

-----------------------------------------------------------------------------
(* Hooks.                                                                  *)

PreToolUse(u) ==
  /\ Alone(TRUE) /\ u \in Correlated /\ wait[<<u, 0>>].pc = "idle"
  /\ pendingToolUse' = u
  /\ wait' = [wait EXCEPT ![<<u, 0>>].pc = "ready"]
  /\ UNCHANGED <<log, offer, client, outcome, answered, faults>>

MayAsk(u) == Alone(TRUE) /\ wait[<<u, 0>>].pc = IF u \in Correlated THEN "ready" ELSE "idle"

\* the id of the use is its own, that of the last PreToolUse, or made up
Loaded(u) == IF u \in Correlated THEN pendingToolUse ELSE NoId
ApprovalIds(u) == {u, Loaded(u)}

HookAsks(u) ==
  /\ MayAsk(u)
  /\ \E id \in ApprovalIds(u) :
       (Asked(<<u, 0>>, id) /\ UNCHANGED faults) \/ Refused(<<u, 0>>, id)
  /\ UNCHANGED <<pendingToolUse, offer, client, outcome, answered>>

\* the request throws: there is nothing to wait for
HookCannotAsk(u) ==
  /\ MayAsk(u) /\ Fault
  /\ \E id \in ApprovalIds(u) : MayBeLogged(<<u, 0>>, id)
  /\ Ends(<<u, 0>>) /\ outcome' = [outcome EXCEPT ![u] = "skipped"]
  /\ UNCHANGED <<pendingToolUse, offer, client, answered>>

\* whatever is not a denial is an approval
Verdict(decision) == IF decision = "denied" THEN "blocked" ELSE "run"

Answer(a) == log[Min(Since(wait[a].id, wait[a].request))]
IsAnswered(a) == wait[a].pc = "waiting" /\ Since(wait[a].id, wait[a].request) # {}

HookIsAnswered(u) ==
  /\ IsAnswered(<<u, 0>>)
  /\ outcome' = [outcome EXCEPT ![u] = Verdict(Answer(<<u, 0>>).decision)]
  /\ Ends(<<u, 0>>)
  /\ UNCHANGED <<log, pendingToolUse, offer, client, answered, faults>>

\* an answer that came since the last poll is not seen any more
HookTimesOut(u) ==
  /\ wait[<<u, 0>>].pc = "waiting"
  /\ wait' = [wait EXCEPT ![<<u, 0>>].pc = "failing"]
  /\ UNCHANGED <<log, pendingToolUse, offer, client, outcome, answered, faults>>

\* the hook answers for the human and goes on
FailsOpen(u) == log' = Append(log, Response(wait[<<u, 0>>].id, u, "hook", "approved"))

HookFailsOpen(u) ==
  /\ wait[<<u, 0>>].pc = "failing" /\ FailsOpen(u)
  /\ Ends(<<u, 0>>) /\ outcome' = [outcome EXCEPT ![u] = "skipped"]
  /\ UNCHANGED <<pendingToolUse, offer, client, answered, faults>>

HookCannotRespond(u) ==
  /\ wait[<<u, 0>>].pc = "failing" /\ Fault
  /\ Ends(<<u, 0>>) /\ outcome' = [outcome EXCEPT ![u] = "skipped"]
  /\ UNCHANGED <<log, pendingToolUse, offer, client, answered>>

\* the editor asks its own way
HookIsKilled(u) ==
  /\ wait[<<u, 0>>].pc \in {"waiting", "failing"} /\ Fault
  /\ Ends(<<u, 0>>) /\ outcome' = [outcome EXCEPT ![u] = "skipped"]
  /\ UNCHANGED <<log, pendingToolUse, offer, client, answered>>

-----------------------------------------------------------------------------
(* Codex.                                                                  *)

Legacy == {"approved", "approved_for_session", "denied", "abort"}
Accepting == {"accept", "acceptForSession", "approved", "approved_for_session"}

FirstOf(preferred, offered) ==
  LET found == {i \in DOMAIN preferred : preferred[i] \in offered} IN
  IF found = {} THEN "null" ELSE preferred[Min(found)]

\* the decision of the mode if it is offered, then that of the answer
PreferredBy(mode) ==
  CASE mode = "always" -> <<"acceptForSession", "approved_for_session">>
    [] mode = "yes"    -> <<"accept", "approved">>
    [] mode = "no"     -> <<"decline", "denied", "cancel">>
    [] mode = "cancel" -> <<"cancel", "abort", "decline">>
    [] OTHER           -> <<>>
Preferred(decision, mode) ==
  CASE decision = "approved"  -> <<"approved", "accept">>
    [] decision = "denied"    -> <<"denied">> \o (IF mode = "cancel" THEN <<"abort">> ELSE <<>>)
                                 \o <<"decline", "cancel">>
    [] decision = "cancelled" -> <<"cancel", "decline">>

\* an answer names the decision, or says yes or no and how
Resolved(answer, offered) ==
  IF answer.native # "none"
    THEN IF answer.native \in offered THEN answer.native ELSE "unsupported"
    ELSE LET byMode == FirstOf(PreferredBy(answer.mode), offered) IN
         IF byMode # "null" THEN byMode
         ELSE FirstOf(Preferred(answer.yes, answer.mode), offered)

\* without a decision to abort with, Codex gets an error; a legacy request offers none
Abort(u) ==
  IF offer[u] = Legacy THEN "error"
  ELSE LET d == FirstOf(<<"cancel", "abort", "decline", "denied">>, offer[u]) IN
       IF d = "null" THEN "error" ELSE d

\* a connection that is closed sends nothing
Decides(a, d) ==
  outcome' = IF a[2] = client THEN [outcome EXCEPT ![a[1]] = d] ELSE outcome

\* the request throws: Codex is told to abort
CodexCannotAsk(u) ==
  /\ Fault /\ MayBeLogged(<<u, client>>, u)
  /\ wait' = [wait EXCEPT ![<<u, client>>] = [pc |-> "failing", id |-> u, request |-> 0]]

CodexAsks(u) ==
  /\ Alone(FALSE) /\ wait[<<u, client>>].pc = "idle" /\ outcome[u] = "none"
  /\ \E o \in Offers : offer[u] \in {{}, o} /\ offer' = [offer EXCEPT ![u] = o]
  /\ \/ Asked(<<u, client>>, u) /\ UNCHANGED faults
     \/ Refused(<<u, client>>, u)
     \/ CodexCannotAsk(u)
  /\ UNCHANGED <<pendingToolUse, client, outcome, answered>>

CodexIsAnswered(a) ==
  /\ ~OfHook(a) /\ IsAnswered(a)
  /\ LET d == Resolved(Answer(a).decision, offer[a[1]]) IN
     Decides(a, IF d = "unsupported" THEN Abort(a[1]) ELSE d)
  /\ Ends(a)
  /\ UNCHANGED <<log, pendingToolUse, offer, client, answered, faults>>

\* the deadline has passed, or a call of the broker threw
FailedOpen(a) == "accept"
Failed(a) == Abort(a[1])

CodexGivesUp(a) ==
  /\ ~OfHook(a) /\ wait[a].pc \in {"waiting", "failing"}
  /\ Decides(a, Failed(a)) /\ Ends(a)
  /\ UNCHANGED <<log, pendingToolUse, offer, client, answered, faults>>

\* the app-server ends and is started again; it resumes the session and asks again
AppServerExits ==
  /\ \E a \in Asks : ~OfHook(a) /\ wait[a].pc # "idle"
  /\ client + 1 \in Clients /\ client' = client + 1
  /\ UNCHANGED <<log, pendingToolUse, wait, offer, outcome, answered, faults>>

-----------------------------------------------------------------------------
(* The human answers a request once, at any time.                          *)

Modes(yes) ==
  CASE yes = "approved"  -> {"yes", "always", "none"}
    [] yes = "denied"    -> {"no", "none"}
    [] yes = "cancelled" -> {"cancel", "none"}

NativeAnswers(offered) ==
  (UNION {{[yes |-> y, mode |-> m, native |-> "none"] : m \in Modes(y)}
          : y \in {"approved", "denied", "cancelled"}})
    \union {[yes |-> IF d \in Accepting THEN "approved" ELSE "denied",
             mode |-> "none", native |-> d] : d \in offered}

HumanAnswers(n) ==
  /\ log[n].kind = "request" /\ n \notin answered /\ answered' = answered \union {n}
  /\ \E d \in IF log[n].use \in Hooked THEN {"approved", "denied"}
              ELSE NativeAnswers(offer[log[n].use]) :
       log' = Append(log, Response(log[n].id, log[n].use, "human", d))
  /\ UNCHANGED <<pendingToolUse, wait, offer, client, outcome, faults>>

Next ==
  \/ \E u \in Hooked :
       \/ PreToolUse(u) \/ HookAsks(u) \/ HookCannotAsk(u) \/ HookIsAnswered(u)
       \/ HookTimesOut(u) \/ HookFailsOpen(u) \/ HookCannotRespond(u) \/ HookIsKilled(u)
  \/ \E u \in Native : CodexAsks(u)
  \/ \E a \in Asks : CodexIsAnswered(a) \/ CodexGivesUp(a)
  \/ AppServerExits
  \/ \E n \in DOMAIN log : HumanAnswers(n)

Spec == Init /\ [][Next]_vars

-----------------------------------------------------------------------------
(* Properties.                                                             *)

Decisions == Legacy \union Accepting \union {"decline", "cancel", "null", "error"}

TypeOK ==
  /\ \A u \in Hooked : outcome[u] \in {"none", "run", "blocked", "skipped"}
  /\ \A u \in Native : outcome[u] \in Decisions \union {"none"} /\ offer[u] \in Offers \union {{}}
  /\ \A a \in Asks : wait[a].pc \in {"idle", "ready", "waiting", "failing", "ended"}
  /\ answered \subseteq DOMAIN log /\ faults \in 0..MaxFaults

\* the human's answers to this approval: after it was asked for here, or, if the broker
\* refused that request (0), all there are
Heard(a) ==
  {n \in DOMAIN log : n > wait[a].request /\ log[n].by = "human" /\ log[n].id = wait[a].id}

\* the last connection over which Codex asked
LastClient(u) == Max({c \in Clients : wait[<<u, c>>].pc # "idle"})

\* A hook stops a tool only if the human has denied an approval of its id, and, if the broker
\* took the hook's request, has denied it after that request: then no old answer, and no
\* answer of another hook that gave up waiting, blocks the tool.
BlockedByHuman ==
  \A u \in Hooked : outcome[u] = "blocked" =>
    \E n \in Heard(<<u, 0>>) : log[n].decision = "denied"

\* Codex runs a command only if the human approved it, and, if the broker took the request as
\* it was sent over the connection that is answered, after that request: no deadline and no
\* error approves it, nor an older answer unless the request was refused.
CodexRunsByHuman ==
  \A u \in Native : outcome[u] \in Accepting =>
    \E n \in Heard(<<u, LastClient(u)>>) : log[n].decision.yes = "approved"

\* A hook that gives up leaves no request open for the human, as long as every call succeeds.
GivenUpIsClosed ==
  faults = 0 => \A u \in Hooked : wait[<<u, 0>>].pc = "ended" =>
    \E n \in DOMAIN log : /\ n > wait[<<u, 0>>].request
                          /\ log[n].kind = "response" /\ log[n].id = wait[<<u, 0>>].id

\* What hooks do with the answers of the human, and without one: BlockedByHuman and
\* GivenUpIsClosed.
HooksHeedHumans == BlockedByHuman /\ GivenUpIsClosed

\* Does not hold: a tool that runs by an answer runs by an answer to its own request.
RunsByItsOwnRequest ==
  \A u \in Hooked : outcome[u] = "run" =>
    \E n \in DOMAIN log : log[n].use = u /\ log[n].by = "human" /\ log[n].decision = "approved"

\* Does not hold: what the broker refused to ask is not answered.  A refused request has no
\* number, and the first answer in the log that has its id, however old, is taken for its own.
RefusedIsUnanswered ==
  /\ \A u \in Hooked : outcome[u] = "blocked" => wait[<<u, 0>>].request # 0
  /\ \A u \in Native : outcome[u] \in Accepting => wait[<<u, LastClient(u)>>].request # 0
=============================================================================
