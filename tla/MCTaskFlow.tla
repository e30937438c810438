----------------------------- MODULE MCTaskFlow -----------------------------
(* Values of the constants of TaskFlow for model checking. *)
EXTENDS TaskFlow

CONSTANTS t1, a1, a2

OneTask == [a \in {a1, a2} |-> t1]
=============================================================================
