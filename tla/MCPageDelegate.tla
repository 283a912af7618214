--------------------------- MODULE MCPageDelegate ---------------------------
(* Instances of PageDelegate for TLC. *)
EXTENDS PageDelegate, TLC

CONSTANTS w1, w2

Symmetry == Permutations(Watcher)

=============================================================================
