---------------------------- MODULE MCLifoQueue ----------------------------
(* Two workers that steal from each other. *)
EXTENDS LifoQueue, TLC

CONSTANTS w1, w2, i1, i2

MCWorkers == {w1, w2}
MCItems == {i1, i2}
MCSymmetry == Permutations(MCWorkers) \cup Permutations(MCItems)
=============================================================================
