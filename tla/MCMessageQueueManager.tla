------------------------ MODULE MCMessageQueueManager ------------------------
(* Small instances of MessageQueueManager. *)
EXTENDS MessageQueueManager

CONSTANTS n1, t1, t2

=============================================================================
