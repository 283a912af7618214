-------------------------- MODULE MCStoryController -------------------------
(* Instances of StoryController for TLC: a root module and its child. *)
EXTENDS StoryController

CONSTANTS root, child

MCPath == <<root, child>>
MCParent == [m \in Module |-> IF m = root THEN None ELSE root]

External == [url |-> 1, how |-> "external", stopped |-> FALSE]

\* A story that was made before, with its root module.
MCStored == {[m \in Module |-> IF m = root THEN External ELSE None]}

=============================================================================
