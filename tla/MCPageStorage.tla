--------------------------- MODULE MCPageStorage ---------------------------
(* Instances of PageStorage for TLC. *)
EXTENDS PageStorage, TLC

CONSTANTS a, b, d, m, j1, j2

Symmetry == Permutations(Journal)

\* a is made here, b and its child d elsewhere, m merges a and b on any device.
MCParents == [c \in Commit |-> CASE c = a -> {Root} [] c = b -> {Root} [] c = d -> {b} [] c = m -> {a, b}]

=============================================================================
