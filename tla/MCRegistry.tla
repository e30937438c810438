----------------------------- MODULE MCRegistry -----------------------------
(* Values of the constants of Registry for model checking. *)
EXTENDS Registry

Aliases == {"codex", "codex2"}

\* One more candidate than the name itself is enough for two participants.
Tried ==
  [n \in Aliases |->
     IF n = "codex" THEN <<"codex", "codex2">> ELSE <<"codex2", "codex">>]

Wanted == [p \in Agents \cup Humans |-> "codex"]
=============================================================================
