-------------------------- MODULE MCMergeResolver --------------------------
(* Instances of MergeResolver for TLC. *)
EXTENDS MergeResolver

CONSTANTS d1, d2, k1, k2

\* d1 commits first; then d2 changes the same key, or a key of its own; then d2
\* gives the key the value that d1 gave it, which can make equal contents.
MCWrite ==
    << {<<d1, k1, 1>>},
       {<<d2, k1, 2>>, <<d2, k2, 1>>},
       {<<d2, k1, 1>>} >>

=============================================================================
