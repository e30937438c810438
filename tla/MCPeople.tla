------------------------------ MODULE MCPeople ------------------------------
(***************************************************************************)
(* How people take part: approvals of the tools that agents use            *)
(* (Approvals), and the chat through which they write (Yunzhijia), beside  *)
(* the tasks and approvals of TaskFlow, which stand still here.  The two   *)
(* share no state, so a behaviour is one of either.                        *)
(***************************************************************************)
EXTENDS TaskFlow

CONSTANTS Hooked, Correlated, Native, Offers, Clients, MaxFaults, Users, Handlers, MaxFailures

VARIABLES
  log, pendingToolUse, wait, offer, client, outcome, answered, faults,
  phase, link, mapped, handler, failures, part

Tools == INSTANCE Approvals
Chat == INSTANCE Yunzhijia

ASSUME ToolsConstants ==
  /\ Correlated \subseteq Hooked /\ Hooked \intersect Native = {} /\ Tools!NoId \notin Native
  /\ \A o \in Offers : o \subseteq Tools!Decisions \ {"null", "error"}
  /\ Clients \subseteq Nat \ {0} /\ 1 \in Clients /\ MaxFaults \in Nat
ASSUME ChatConstants == Users \intersect {"broker", "chat"} = {} /\ MaxFailures \in Nat

toolVars == <<log, pendingToolUse, wait, offer, client, outcome, answered, faults>>
chatVars == <<phase, link, mapped, handler, failures>>

PeopleInit == Tools!Init /\ Chat!Init /\ Init /\ part \in {"approvals", "chat"}

AskStep == part = "approvals" /\ Tools!Next /\ UNCHANGED <<chatVars, vars, part>>
ChatStep == part = "chat" /\ Chat!Next /\ UNCHANGED <<toolVars, vars, part>>

\* Where the behaviour is one of approvals, the chat stays in its initial state, in which
\* none of its fair steps is enabled.
PeopleSpec ==
  PeopleInit /\ [][AskStep \/ ChatStep]_<<toolVars, chatVars, vars, part>> /\ Chat!Fairness

\* The types of both.
TypesOK == Tools!TypeOK /\ Chat!TypeOK

\* The properties of Approvals, where each is explained: what hooks do with the answers of
\* the human, and what Codex runs.
HooksHeedHumans == Tools!HooksHeedHumans
CodexRunsByHuman == Tools!CodexRunsByHuman

\* The properties of Yunzhijia, where each is explained: an adapter that was stopped opens
\* no socket to the broker, and the sockets of one that has started come back.
Quiet == Chat!Quiet
Recovers == Chat!Recovers

\* No approval of TaskFlow.
NoApproval == [a \in Approvals |-> None]
=============================================================================
