------------------------------- MODULE MCRoom -------------------------------
(* Values of the constants of Room for model checking. *)
EXTENDS Room, TLC

CONSTANTS u1, u2, a1, a2

NoChange == [add |-> {}, remove |-> {}, addUsers |-> {}, removeUsers |-> {},
             promote |-> {}, demote |-> {}]

\* The second agent joins.
SecondAgent == {[NoChange EXCEPT !.add = {a2}]}

\* The first agent leaves and comes back.
FirstAgent ==
  {[NoChange EXCEPT !.add = {a1}], [NoChange EXCEPT !.remove = {a1}]}

\* Two users join as owners, leave and are demoted, alone and together.
TwoOwners ==
  {[NoChange EXCEPT !.addUsers = {u2}, !.promote = {u2}]}
    \cup {[NoChange EXCEPT !.demote = d, !.removeUsers = r] :
            d \in SUBSET {u1, u2}, r \in SUBSET {u1, u2}}

\* There are two owners, and the second agent joins late.
Everybody == TwoOwners \cup SecondAgent

Symmetry == Permutations(Keys)
=============================================================================
