---------------------------- MODULE MessageQueues ----------------------------
(***************************************************************************)
(* What the message queues of the modular framework promise, as stated in  *)
(* message_queue.fidl: every queue hands out its messages first in, first  *)
(* out; a message leaves the queue only when the reader it was offered to  *)
(* has acknowledged it; a queue that is opened again holds what was last   *)
(* written to the device; and only a queue that was to be deleted loses    *)
(* that.  MessageQueueManager implements this.                             *)
(*                                                                         *)
(* What is promised of a deletion is that the messages never come back     *)
(* once they are lost.  The comment at message_queue_manager.cc:725 says   *)
(* more, that closing a deleted queue will "delete all messages on the     *)
(* queue permanently".  The code does not: the file stays, and an          *)
(* operation that has read the token, or a deletion whose commit failed,   *)
(* opens the queue again with the messages it had.  Close allows both,     *)
(* the deletion the comment describes and the one the code does.           *)
(***************************************************************************)
EXTENDS Naturals, Sequences

CONSTANTS
    Queue,     \* the queues, one per token
    Message    \* what may be sent

VARIABLES
    pending,   \* the messages of each queue, oldest first
    durable,   \* what each queue holds when it is opened again
    offered,   \* the queues whose oldest message is with a reader
    doomed     \* the queues that were to be deleted

vars == <<pending, durable, offered, doomed>>

TypeOK ==
    /\ pending \in [Queue -> Seq(Message)]
    /\ durable \in [Queue -> Seq(Message)]
    /\ offered \subseteq Queue /\ doomed \subseteq Queue

Init ==
    /\ pending = [q \in Queue |-> <<>>]
    /\ durable = [q \in Queue |-> <<>>]
    /\ offered = {} /\ doomed = {}

\* The queue changes.  A write to the device that fails leaves the old
\* contents, or a file that cannot be read and counts as empty.
Write(q, messages) ==
    /\ pending' = [pending EXCEPT ![q] = messages]
    /\ \E d \in {messages, durable[q], <<>>} : durable' = [durable EXCEPT ![q] = d]

Send(q, m) ==
    /\ Write(q, Append(pending[q], m))
    /\ offered' \in {offered, offered \cup {q}}
    /\ UNCHANGED doomed

Offer(q) ==
    /\ pending[q] # <<>>
    /\ offered' = offered \cup {q}
    /\ UNCHANGED <<pending, durable, doomed>>

Acknowledge(q) ==
    /\ q \in offered
    /\ pending[q] # <<>>
    /\ Write(q, Tail(pending[q]))
    /\ offered' = IF Len(pending[q]) > 1 THEN offered ELSE offered \ {q}
    /\ UNCHANGED doomed

\* The reader is gone: the message stays and is offered again later.
Withdraw(q) ==
    /\ offered' = offered \ {q}
    /\ UNCHANGED <<pending, durable, doomed>>

\* Queues are closed, by a restart or by their owner: what is on the device is
\* what remains.  The deletion of some may be asked for, and some of those that
\* were to be deleted, now or before, lose what is on the device for good.
Close(queues, asked, lost) ==
    /\ doomed' = doomed \cup asked
    /\ lost \subseteq doomed'
    /\ durable' = [q \in Queue |-> IF q \in lost THEN <<>> ELSE durable[q]]
    /\ pending' = [q \in Queue |-> IF q \in queues \cup lost THEN durable'[q] ELSE pending[q]]
    /\ offered' = offered \ (queues \cup lost)

Next ==
    \/ \E q \in Queue :
        \/ \E m \in Message : Send(q, m)
        \/ Offer(q) \/ Acknowledge(q) \/ Withdraw(q)
    \/ \E queues, asked, lost \in SUBSET Queue : Close(queues, asked, lost)

Spec == Init /\ [][Next]_vars

=============================================================================
