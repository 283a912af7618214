------------------------- MODULE MCLedgerRepository -------------------------
(* Small instances of LedgerRepository. *)
EXTENDS LedgerRepository

CONSTANTS l1, p1, r1, r2

MCLedgerOf == [p \in Page |-> l1]

=============================================================================
