----------------------------- MODULE MCRunOwner -----------------------------
(* Two requests of one group, a client and Auto.                           *)
EXTENDS RunOwner, TLC

CONSTANTS r1, r2, k1

Requests == {r1, r2}
Starts == {k1}
OneGroup == [r \in Requests |-> "group"]
=============================================================================
