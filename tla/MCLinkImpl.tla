------------------------------ MODULE MCLinkImpl -----------------------------
(* Instances of LinkImpl for TLC. *)
EXTENDS LinkImpl

MCTwo == <<<<"set", 2>>, <<"update", 1>>>>
MCThree == <<<<"set", 2>>, <<"update", 1>>, <<"erase", 2>>>>

\* Links whose names are no prefix of each other, and two like "a" and "ab".
MCApart == [l \in Link |-> {l}]
MCPrefix == [l \in Link |-> {m \in Link : l <= m}]

=============================================================================
