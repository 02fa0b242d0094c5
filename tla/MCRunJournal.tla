---------------------------- MODULE MCRunJournal ----------------------------
(***************************************************************************)
(* Small plans for RunJournal.                                             *)
(***************************************************************************)
EXTENDS RunJournal, TLC

\* Episode: a remote translation (1); its text is published by copying (2) and
\* read by a remote voice (3), which goes into a composed video (4).
EpisodeDependsOn == (1 :> {}) @@ (2 :> {1}) @@ (3 :> {1}) @@ (4 :> {3})

\* Pair: a translation and the publication of its text.
PairDependsOn == (1 :> {}) @@ (2 :> {1})
=============================================================================
