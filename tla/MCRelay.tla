------------------------------ MODULE MCRelay ------------------------------
(* Two brokers, with two agents at one of them. *)
EXTENDS Relay

CONSTANTS b1, b2, p1, p2, p3

TwoBrokers == {b1, b2}
SyncTargets == {{}, {p2}}
Homes == [p \in Agents |-> IF p = p2 THEN b2 ELSE b1]
=============================================================================
