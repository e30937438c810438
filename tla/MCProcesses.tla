----------------------------- MODULE MCProcesses -----------------------------
(***************************************************************************)
(* The processes in the background: brokers with the commands that stop    *)
(* and restart them (BrokerControl), and the keepers and bridges that      *)
(* hooks start (Supervisor).  The two share no state, so a behaviour is    *)
(* one of either.  In the second there are two sessions with their         *)
(* participants; the first is resumed under another parent, and shares its *)
(* first parent with the second.                                           *)
(***************************************************************************)
EXTENDS BrokerControl

CONSTANTS Uses, Hooks, Children, MaxFaults

\* Pids are positive numbers; what a hook starts observes a process.
ASSUME SessionsConstants ==
  /\ Children \union Hooks \subseteq Nat \ {0} /\ MaxFaults \in Nat
  /\ \A u \in Uses : u.parent # "none"

VARIABLES parents, lock, state, child, hook, last, raced, shared, faults, part

Sessions == INSTANCE Supervisor

sessionVars == <<parents, lock, state, child, hook, last, raced, shared, faults>>

Use(p, s, x) == [participant |-> p, session |-> s, parent |-> x]

MCUses == {Use("a", "s", "x"), Use("a", "s", "y"), Use("b", "t", "x")}

ProcessesInit == Init /\ Sessions!Init /\ part \in {"brokers", "sessions"}

BrokerStep == part = "brokers" /\ Next /\ UNCHANGED <<sessionVars, part>>
SessionStep == part = "sessions" /\ Sessions!Next /\ UNCHANGED <<vars, part>>

\* The part that stays in its initial state has no fair step there.
ProcessesSpec ==
  /\ ProcessesInit /\ [][BrokerStep \/ SessionStep]_<<vars, sessionVars, part>>
  /\ Fairness /\ Sessions!Fairness

\* The types of both.
TypesOK == TypeOK /\ Sessions!TypeOK

\* The properties of Supervisor, where each is explained: one hook at a time starts a
\* process, a hook that overlaps with no other leaves one process, and none outlives its
\* parent.
OneStarter == Sessions!OneStarter
EnsuredOnce == Sessions!EnsuredOnce
EndsWithParent == Sessions!EndsWithParent
=============================================================================
