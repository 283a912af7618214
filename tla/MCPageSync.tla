------------------------------ MODULE MCPageSync ------------------------------
(* Small instances of PageSync. *)
EXTENDS PageSync

CONSTANTS a, b, c, m

\* a and b branch off the first commit, m merges them, c follows a.
MCParents == [x \in Commit |-> CASE x \in {a, b} -> {Root}
                                 [] x = c -> {a}
                                 [] x = m -> {a, b}]

MCGeneration == [x \in Commit \cup {Root} |-> CASE x = Root -> 0
                                                [] x \in {a, b} -> 1
                                                [] x \in {c, m} -> 2]

=============================================================================
