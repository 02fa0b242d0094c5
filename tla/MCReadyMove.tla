---------------------------- MODULE MCReadyMove ----------------------------
(* Two sets of one stem: a download with a product, and a single product.  *)
EXTENDS ReadyMove, TLC

CONSTANTS show, film

Both == {show, film}
Files == show :> {1, 2} @@ film :> {1}
Torrent == show :> {1} @@ film :> {}
=============================================================================
