--------------------------- MODULE MCTtsScheduler ---------------------------
(* Three requests of one batch for two provider workers.                   *)
EXTENDS TtsScheduler, TLC

CONSTANTS w1, w2, r1, r2, r3

Tasks == {w1, w2}
Parts == {r1, r2, r3}
Order == r1 :> 1 @@ r2 :> 1 @@ r3 :> 2
=============================================================================
