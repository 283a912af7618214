------------------------- MODULE MessageQueueManager -------------------------
(***************************************************************************)
(* Message queues of the modular framework (bin/component): the rows of    *)
(* the ledger page that name them, the storages of the open ones, their    *)
(* files, readers, senders and watchers, and the operations that           *)
(* ObtainMessageQueue, DeleteMessageQueue, GetMessageSender and            *)
(* DeleteNamespace run side by side in an OperationCollection.             *)
(*                                                                         *)
(* The calls an operation makes on the page reach it in order and take     *)
(* effect there one by one; the answers come back in tasks of their own.   *)
(* StartTransaction, two writes and Commit are sent together and are one   *)
(* step of the page.  A message is a number, the one it was sent with.     *)
(***************************************************************************)
EXTENDS Naturals, Sequences, FiniteSets

CONSTANTS
    Name,         \* queue names of one component namespace
    Token,        \* the tokens GenerateQueueToken returns
    None,
    MaxCalls,     \* operations and watcher calls made
    MaxMessages,  \* messages sent
    MaxFaults,    \* page calls and file writes that fail
    MaxCrashes

ASSUME NoneAssumption == None \notin Name \cup Token
ASSUME BoundAssumption == /\ MaxCalls \in Nat /\ MaxMessages \in Nat
                          /\ MaxFaults \in Nat /\ MaxCrashes \in Nat

VARIABLES
    named,        \* ledger: the token of each name
    infos,        \* ledger: the name of each token
    files,        \* the messages in the file of each token
    queues,       \* message_queues_: the open storages
    tokens,       \* message_queue_tokens_: the token of each name
    pendingWatch, \* pending_watcher_callbacks_: names
    calls,        \* operations under way, by number
    page,         \* requests the page has not handled yet
    started,      \* calls made so far
    sent,         \* messages sent so far
    generated,    \* tokens generated so far
    watching,     \* names somebody registered a watcher for, in this process
    doomed,       \* tokens of the queues that were to be deleted
    raced,        \* what has happened that the properties except
    faults, crashes

vars == <<named, infos, files, queues, tokens, pendingWatch, calls, page, started,
          sent, generated, watching, doomed, raced, faults, crashes>>

ledger == <<named, infos>>
manager == <<tokens, pendingWatch, watching>>
budget == <<started, sent, generated, faults, crashes>>

Event == {"overlap", "readError", "replaced", "deleted", "namespace", "dropped"}

Storage == [messages : Seq(1..MaxMessages),
            ackPending : BOOLEAN,  \* receive_ack_pending_
            reader : BOOLEAN,      \* message_receiver_ is bound
            offered : BOOLEAN,     \* this reader has an OnReceive to answer
            senders : BOOLEAN,     \* message_sender_bindings_ is not empty
            watcher : BOOLEAN,     \* watcher_ is set
            told : BOOLEAN]        \* watcher_ was called for what is queued

Call == [kind : {"obtain", "delete", "sender", "namespace"},
         at : {"snapshot", "answer", "commit", "done"},
         name : Name \cup {None},
         token : Token \cup {None},
         found : SUBSET (Name \X Token)]

Open(t) == t \in DOMAIN queues
IsEmpty(t) == queues[t].messages = <<>>

\* Functions whose domain grows and shrinks.
With(f, x, v) == [y \in DOMAIN f \cup {x} |-> IF y = x THEN v ELSE f[y]]
Without(f, x) == [y \in DOMAIN f \ {x} |-> f[y]]

Init ==
    /\ named = [n \in Name |-> None]
    /\ infos = [t \in Token |-> None]
    /\ files = [t \in Token |-> <<>>]
    /\ queues = <<>>
    /\ tokens = [n \in Name |-> None]
    /\ pendingWatch = {}
    /\ calls = <<>>
    /\ page = <<>>
    /\ started = 0 /\ sent = 0 /\ generated = {} /\ faults = 0 /\ crashes = 0
    /\ watching = {}
    /\ doomed = {} /\ raced = {}

-----------------------------------------------------------------------------
(* MessageQueueStorage *)

\* MaybeSendNextMessage: the oldest message goes to the reader, one at a time.
MaybeSendNextMessage(s) ==
    IF s.reader /\ ~s.ackPending /\ s.messages # <<>>
    THEN [s EXCEPT !.ackPending = TRUE, !.offered = TRUE]
    ELSE s

\* PersistentQueue::Save writes the whole queue.  WriteFile may fail before
\* or after it has emptied the file; the caller is not told.
Save(t, messages) ==
    \/ /\ files' = [files EXCEPT ![t] = messages]
       /\ UNCHANGED faults
    \/ /\ faults < MaxFaults
       /\ faults' = faults + 1
       /\ files' \in {files, [files EXCEPT ![t] = <<>>]}

Send(t) ==
    /\ Open(t) /\ queues[t].senders
    /\ sent < MaxMessages
    /\ sent' = sent + 1
    /\ LET s == [queues[t] EXCEPT !.messages = Append(@, sent + 1), !.told = queues[t].watcher]
       IN /\ Save(t, s.messages)
          /\ queues' = [queues EXCEPT ![t] = MaybeSendNextMessage(s)]
    /\ UNCHANGED <<ledger, manager, calls, page, started, generated, doomed, raced, crashes>>

\* RegisterReceiver: Bind drops the reader there was, and with it the answer
\* to its OnReceive; receive_ack_pending_ stays as it is.
RegisterReceiver(t) ==
    /\ Open(t)
    /\ queues' = [queues EXCEPT
                    ![t] = MaybeSendNextMessage([@ EXCEPT !.reader = TRUE, !.offered = FALSE])]
    /\ raced' = raced \cup (IF queues[t].offered THEN {"replaced"} ELSE {})
    /\ UNCHANGED <<ledger, manager, files, calls, page, budget, doomed>>

\* Mutant: the error handler forgets that the answer will never come.
ReaderClosedMutant(t) ==
    /\ Open(t) /\ queues[t].reader
    /\ queues' = [queues EXCEPT ![t].reader = FALSE, ![t].offered = FALSE]
    /\ UNCHANGED <<ledger, manager, files, calls, page, budget, doomed, raced>>

\* The reader's connection is lost: the error handler.
ReaderClosed(t) ==
    /\ Open(t) /\ queues[t].reader
    /\ queues' = [queues EXCEPT ![t].reader = FALSE, ![t].offered = FALSE,
                                ![t].ackPending = FALSE]
    /\ UNCHANGED <<ledger, manager, files, calls, page, budget, doomed, raced>>

\* Mutant: the answer drops the newest message, not the one it is about.
ReceivedMutant(t) ==
    /\ Open(t) /\ queues[t].offered
    /\ LET s == [queues[t] EXCEPT !.ackPending = FALSE, !.offered = FALSE,
                                  !.messages = SubSeq(@, 1, Len(@) - 1)]
       IN /\ Save(t, s.messages)
          /\ queues' = [queues EXCEPT ![t] = MaybeSendNextMessage(s)]
    /\ UNCHANGED <<ledger, manager, calls, page, started, sent, generated, doomed, raced, crashes>>

\* The reader answers OnReceive: the message leaves the queue and the file.
Received(t) ==
    /\ Open(t) /\ queues[t].offered
    /\ LET s == [queues[t] EXCEPT !.ackPending = FALSE, !.offered = FALSE, !.messages = Tail(@)]
       IN /\ Save(t, s.messages)
          /\ queues' = [queues EXCEPT ![t] = MaybeSendNextMessage(s)]
    /\ UNCHANGED <<ledger, manager, calls, page, started, sent, generated, doomed, raced, crashes>>

\* Mutant: a watcher is not told of the messages that are already there.
WatchedMutant(s) == [s EXCEPT !.watcher = TRUE]

\* MessageQueueStorage::RegisterWatcher
Watched(s) == [s EXCEPT !.watcher = TRUE, !.told = @ \/ s.messages # <<>>]

-----------------------------------------------------------------------------
(* MessageQueueManager: storages and watchers *)

\* GetMessageQueueStorage and the binding that is added to what it returns: a
\* new storage reads its file and takes over the watcher registered for its name.
GetMessageQueueStorage(n, t, sender) ==
    IF Open(t)
    THEN /\ queues' = [queues EXCEPT ![t].senders = @ \/ sender]
         /\ UNCHANGED <<tokens, pendingWatch>>
    ELSE LET s == [messages |-> files[t], ackPending |-> FALSE, reader |-> FALSE,
                   offered |-> FALSE, senders |-> sender, watcher |-> FALSE, told |-> FALSE]
         IN /\ queues' = With(queues, t, IF n \in pendingWatch THEN Watched(s) ELSE s)
            /\ tokens' = [tokens EXCEPT ![n] = t]
            /\ pendingWatch' = pendingWatch \ {n}

\* ClearMessageQueueStorage closes the queue; its file stays.
ClearMessageQueueStorage(n, t) ==
    /\ queues' = Without(queues, t)
    /\ pendingWatch' = pendingWatch \ {n}
    /\ tokens' = [tokens EXCEPT ![n] = None]

\* RegisterWatcher, as AgentRunner calls it for a task with a queue trigger.
RegisterWatcher(n) ==
    /\ n \notin watching
    /\ started < MaxCalls
    /\ started' = started + 1
    /\ watching' = watching \cup {n}
    /\ IF tokens[n] = None
       THEN pendingWatch' = pendingWatch \cup {n} /\ UNCHANGED queues
       ELSE queues' = [queues EXCEPT ![tokens[n]] = Watched(@)] /\ UNCHANGED pendingWatch
    /\ UNCHANGED <<ledger, files, tokens, calls, page, sent, generated, doomed, raced, faults,
                   crashes>>

\* The process ends and starts again: the ledger and the files remain.
Restart ==
    /\ queues' = <<>> /\ calls' = <<>> /\ page' = <<>>
    /\ tokens' = [n \in Name |-> None]
    /\ pendingWatch' = {} /\ watching' = {}
    /\ UNCHANGED <<ledger, files, sent, generated, doomed, faults>>

\* DropWatcher, as AgentRunner calls it for a task that is deleted or gets
\* another queue.  The condition is the wrong way round: a name that has a
\* token loses it, and its storage keeps the watcher; for a name without one
\* the null pointer is used, which ends the process.
DropWatcher(n) ==
    /\ n \in watching
    /\ started < MaxCalls
    /\ started' = started + 1
    /\ raced' = raced \cup {"dropped"}
    /\ \/ /\ tokens[n] # None
          /\ tokens' = [tokens EXCEPT ![n] = None]
          /\ watching' = watching \ {n}
          /\ UNCHANGED <<ledger, files, queues, pendingWatch, calls, page, sent, generated, doomed,
                         faults>>
       \/ /\ tokens[n] = None
          /\ Restart
    /\ UNCHANGED crashes

-----------------------------------------------------------------------------
(* The operations *)

\* An operation is made and runs: its first call asks for a snapshot.
Start(kind, n, t) ==
    /\ started < MaxCalls
    /\ started' = started + 1
    /\ calls' = With(calls, started + 1, [kind |-> kind, at |-> "snapshot", name |-> n,
                                          token |-> t, found |-> {}])
    /\ page' = Append(page, [do |-> "snapshot", of |-> started + 1])
    /\ UNCHANGED <<ledger, manager, files, queues, sent, generated, doomed, raced, faults, crashes>>

ObtainMessageQueue(n) == Start("obtain", n, None)
DeleteMessageQueue(n) == Start("delete", n, None)
DeleteNamespace == Start("namespace", None, None)

\* GetMessageSender: a component has the token of some queue.
GetMessageSender(t) ==
    /\ t \in generated
    /\ IF Open(t)
       THEN /\ queues' = [queues EXCEPT ![t].senders = TRUE]
            /\ UNCHANGED <<ledger, manager, files, calls, page, budget, doomed, raced>>
       ELSE Start("sender", None, t)

\* The page takes a snapshot for an operation: GetQueueTokenCall and its like.
PageSnapshots(i) ==
    LET c == calls[i]
    IN /\ c.at = "snapshot"
       /\ calls' = [calls EXCEPT ![i] =
            [c EXCEPT !.at = "answer",
                      !.token = IF c.kind \in {"obtain", "delete"} THEN named[c.name] ELSE @,
                      !.name = IF c.kind = "sender" THEN infos[c.token] ELSE @,
                      !.found = IF c.kind = "namespace"
                                THEN {p \in Name \X Token : named[p[1]] = p[2]} ELSE {}]]
       /\ UNCHANGED <<ledger, raced, faults>>

\* GetSnapshot or Get fails: the token read is null, as if there were none.
PageSnapshotFails(i) ==
    /\ calls[i].at = "snapshot"
    /\ faults < MaxFaults
    /\ faults' = faults + 1
    /\ calls' = IF calls[i].kind = "obtain"
                THEN [calls EXCEPT ![i].at = "answer"]
                ELSE Without(calls, i)
    /\ raced' = raced \cup (IF calls[i].kind = "obtain" THEN {"readError"} ELSE {})
    /\ UNCHANGED ledger

\* The transaction that makes a queue is committed, or fails and the request
\* is dropped.
PageCreates(i) ==
    /\ calls[i].kind = "obtain" /\ calls[i].at = "commit"
    /\ \/ /\ named' = [named EXCEPT ![calls[i].name] = calls[i].token]
          /\ infos' = [infos EXCEPT ![calls[i].token] = calls[i].name]
          /\ calls' = [calls EXCEPT ![i].at = "done"]
          /\ UNCHANGED faults
       \/ /\ faults < MaxFaults
          /\ faults' = faults + 1
          /\ calls' = Without(calls, i)
          /\ UNCHANGED ledger
    /\ UNCHANGED raced

\* The transaction that deletes a queue is committed, or fails.
PageDeletes(i) ==
    /\ calls[i].kind = "delete" /\ calls[i].at = "commit"
    /\ \/ /\ named' = [named EXCEPT ![calls[i].name] = None]
          /\ infos' = [infos EXCEPT ![calls[i].token] = None]
          /\ UNCHANGED faults
       \/ /\ faults < MaxFaults
          /\ faults' = faults + 1
          /\ UNCHANGED ledger
    /\ calls' = Without(calls, i)
    /\ UNCHANGED raced

\* A Delete of DeleteNamespaceCall::DeleteKeys: one row, no transaction.
PageErases(request) ==
    /\ \/ /\ request.do = "erase"
          /\ named' = [named EXCEPT ![request.of] = None]
          /\ UNCHANGED infos
       \/ /\ request.do = "forget"
          /\ infos' = [infos EXCEPT ![request.of] = None]
          /\ UNCHANGED named
    /\ UNCHANGED <<calls, raced, faults>>

\* The page handles its requests in the order they were made.
PageHandles ==
    /\ page # <<>>
    /\ page' = Tail(page)
    /\ \/ /\ Head(page).do = "snapshot"
          /\ PageSnapshots(Head(page).of) \/ PageSnapshotFails(Head(page).of)
       \/ Head(page).do = "commit" /\ PageCreates(Head(page).of)
       \/ Head(page).do = "commit" /\ PageDeletes(Head(page).of)
       \/ PageErases(Head(page))
    /\ UNCHANGED <<manager, files, queues, started, sent, generated, doomed, crashes>>

\* ObtainMessageQueueCall: the token was found.
ObtainFinds(i) ==
    /\ calls[i].kind = "obtain" /\ calls[i].at = "answer" /\ calls[i].token # None
    /\ GetMessageQueueStorage(calls[i].name, calls[i].token, FALSE)
    /\ calls' = Without(calls, i)
    /\ UNCHANGED <<ledger, watching, files, page, budget, doomed, raced>>

\* Another call for the name has not finished.
Overlaps(i) == {j \in DOMAIN calls \ {i} : calls[j].name = calls[i].name}

\* Cont: there is no token, a new queue is made.
ObtainCreates(i) ==
    /\ calls[i].kind = "obtain" /\ calls[i].at = "answer" /\ calls[i].token = None
    /\ \E t \in Token \ generated :
        /\ generated' = generated \cup {t}
        /\ calls' = [calls EXCEPT ![i].at = "commit", ![i].token = t]
    /\ page' = Append(page, [do |-> "commit", of |-> i])
    /\ raced' = raced \cup (IF Overlaps(i) # {} THEN {"overlap"} ELSE {})
    /\ UNCHANGED <<ledger, manager, files, queues, started, sent, doomed, faults, crashes>>

\* Finish after the commit.
ObtainFinishes(i) ==
    /\ calls[i].kind = "obtain" /\ calls[i].at = "done"
    /\ GetMessageQueueStorage(calls[i].name, calls[i].token, FALSE)
    /\ calls' = Without(calls, i)
    /\ UNCHANGED <<ledger, watching, files, page, budget, doomed, raced>>

\* DeleteMessageQueueCall: the storage is cleared before the commit is answered.
DeleteFinds(i) ==
    /\ calls[i].kind = "delete" /\ calls[i].at = "answer" /\ calls[i].token # None
    /\ ClearMessageQueueStorage(calls[i].name, calls[i].token)
    /\ calls' = [calls EXCEPT ![i].at = "commit"]
    /\ page' = Append(page, [do |-> "commit", of |-> i])
    /\ doomed' = doomed \cup {calls[i].token}
    /\ raced' = raced \cup {"deleted"}
    /\ UNCHANGED <<ledger, watching, files, budget>>

\* The callbacks that find nothing end their operation.
NothingFound(i) ==
    /\ calls[i].at = "answer"
    /\ \/ calls[i].kind = "delete" /\ calls[i].token = None
       \/ calls[i].kind = "sender" /\ calls[i].name = None
    /\ calls' = Without(calls, i)
    /\ UNCHANGED <<ledger, manager, files, queues, page, budget, doomed, raced>>

\* GetMessageSenderCall
SenderFinds(i) ==
    /\ calls[i].kind = "sender" /\ calls[i].at = "answer" /\ calls[i].name # None
    /\ GetMessageQueueStorage(calls[i].name, calls[i].token, TRUE)
    /\ calls' = Without(calls, i)
    /\ UNCHANGED <<ledger, watching, files, page, budget, doomed, raced>>

\* DeleteNamespaceCall::DeleteKeys: the rows are deleted one by one, in some
\* order of the names; storages that are open stay open.
NamespaceFinds(i) ==
    /\ calls[i].kind = "namespace" /\ calls[i].at = "answer"
    /\ \E order \in [1..Cardinality(calls[i].found) -> calls[i].found] :
        /\ {order[k] : k \in DOMAIN order} = calls[i].found
        /\ page' = page \o [k \in 1..2 * Len(order) |->
                                IF k % 2 = 1 THEN [do |-> "erase", of |-> order[(k + 1) \div 2][1]]
                                             ELSE [do |-> "forget", of |-> order[k \div 2][2]]]
    /\ calls' = Without(calls, i)
    /\ doomed' = doomed \cup {p[2] : p \in calls[i].found}
    /\ raced' = raced \cup (IF calls[i].found = {} THEN {} ELSE {"namespace"})
    /\ UNCHANGED <<ledger, manager, files, queues, budget>>

Crash ==
    /\ crashes < MaxCrashes
    /\ crashes' = crashes + 1
    /\ Restart
    /\ UNCHANGED <<started, raced>>

Answered == \E i \in DOMAIN calls :
    \/ ObtainFinds(i) \/ ObtainCreates(i) \/ ObtainFinishes(i)
    \/ DeleteFinds(i) \/ NothingFound(i) \/ SenderFinds(i) \/ NamespaceFinds(i)

Client ==
    \/ \E n \in Name : ObtainMessageQueue(n) \/ DeleteMessageQueue(n) 
                     \/ RegisterWatcher(n) \/ DropWatcher(n)
    \/ DeleteNamespace
    \/ \E t \in Token : GetMessageSender(t) \/ Send(t) \/ RegisterReceiver(t) \/ ReaderClosed(t)

Next ==
    \/ Client
    \/ PageHandles
    \/ Answered
    \/ \E t \in Token : Received(t)
    \/ Crash

Spec == Init /\ [][Next]_vars

-----------------------------------------------------------------------------
(* Properties *)

TypeOK ==
    /\ named \in [Name -> Token \cup {None}]
    /\ infos \in [Token -> Name \cup {None}]
    /\ files \in [Token -> Seq(1..MaxMessages)]
    /\ DOMAIN queues \subseteq Token
    /\ \A t \in DOMAIN queues : queues[t] \in Storage
    /\ tokens \in [Name -> Token \cup {None}]
    /\ pendingWatch \subseteq Name /\ watching \subseteq Name
    /\ DOMAIN calls \subseteq 1..started
    /\ \A i \in DOMAIN calls : calls[i] \in Call
    /\ \A k \in DOMAIN page : page[k].do \in {"snapshot", "commit"} => page[k].of \in DOMAIN calls
    /\ started \in 0..MaxCalls /\ sent \in 0..MaxMessages
    /\ generated \subseteq Token /\ doomed \subseteq generated
    /\ raced \subseteq Event
    /\ faults \in 0..MaxFaults /\ crashes \in 0..MaxCrashes

WillOpen(c) == c.kind = "obtain" \/ (c.kind = "sender" /\ c.name # None)

\* Something leads to the queue: it is open, a row of the ledger names it, or an
\* operation that will open it has its token.
Leads(t) ==
    \/ Open(t)
    \/ infos[t] # None \/ \E n \in Name : named[n] = t
    \/ \E i \in DOMAIN calls : calls[i].token = t /\ WillOpen(calls[i])

\* The queues seen from outside: an open one holds its messages, a closed one
\* what its file holds, if something leads to it.
Durable == [t \in Token |-> IF Leads(t) THEN files[t] ELSE <<>>]
Pending == [t \in Token |-> IF Open(t) THEN queues[t].messages ELSE Durable[t]]

Promise == INSTANCE MessageQueues WITH
    Queue <- Token, Message <- 1..MaxMessages,
    pending <- Pending, durable <- Durable,
    offered <- {t \in DOMAIN queues : queues[t].offered}

\* Every step of the manager, its operations, crashes and failed writes
\* included, is a step the promise of message_queue.fidl allows: messages are
\* offered in order, and none leaves its queue before it is acknowledged.  The
\* messages of a closed queue are lost only after the deletion of that very queue
\* was asked for, and once nothing leads to them they never come back.
KeepsPromise == Promise!Spec

\* A registered watcher is called for every message in an open queue of its
\* name, also when the watcher came first, when the message was sent before the
\* last restart, and when a sender opened the queue.  Excepted are names that
\* were deleted or have two queues, whose watcher stays with the old storage,
\* and what DropWatcher leaves behind.
WatcherIsTold ==
    raced \cap {"overlap", "readError", "namespace", "deleted", "dropped"} = {} =>
        \A n \in watching, t \in DOMAIN queues :
            infos[t] = n /\ queues[t].messages # <<>> => queues[t].told

\* A reader of a queue that holds messages has been given the oldest one,
\* whatever became of the readers before it: of one that went away without an
\* answer, too (message_queue.fidl: "a future MessageReader for this message
\* queue will receive the unacknowledged message again").  Excepted is a reader
\* that replaces one which has not answered.
ReaderIsServed ==
    "replaced" \notin raced =>
        \A t \in DOMAIN queues : queues[t].reader /\ ~IsEmpty(t) => queues[t].offered

=============================================================================
