--------------------- MODULE MessageQueueManagerProofs ---------------------
(***************************************************************************)
(* Proofs about MessageQueueManager, for every set of names and tokens and *)
(* every bound: its types, that it implements MessageQueues, that a reader *)
(* is given the oldest message, and that a watcher is told of every        *)
(* message in the queue of its name.                                       *)
(***************************************************************************)
EXTENDS MessageQueueManager, TLAPS, SequenceTheorems, FiniteSetTheorems

\* What an operation has asked of the page, and the rows DeleteKeys deletes.
CallRequest == [do : {"snapshot", "commit"}, of : Nat]
RowRequest == [do : {"erase"}, of : Name] \cup [do : {"forget"}, of : Token]

\* A call knows the name or the token it is about, and what its step needs.
CallOK(c) ==
    /\ c \in Call
    /\ c.kind \in {"obtain", "delete"} => c.name \in Name
    /\ c.kind = "sender" => c.token \in Token
    /\ c.kind \in {"sender", "namespace"} => c.at \in {"snapshot", "answer"}
    /\ c.kind \in {"obtain", "delete"} /\ c.at \in {"commit", "done"} => c.token \in Token
    /\ c.kind = "delete" => c.at # "done"
    /\ IsFiniteSet(c.found)

RowsType ==
    /\ named \in [Name -> Token \cup {None}]
    /\ infos \in [Token -> Name \cup {None}]

\* There are finitely many queues, although there may be any number of names.
FiniteRows == IsFiniteSet({p \in Name \X Token : named[p[1]] = p[2]})

QueuesType ==
    /\ files \in [Token -> Seq(1..MaxMessages)]
    /\ DOMAIN queues \subseteq Token /\ queues \in [DOMAIN queues -> Storage]

ManagerType ==
    /\ tokens \in [Name -> Token \cup {None}]
    /\ pendingWatch \subseteq Name /\ watching \subseteq Name

CallsType ==
    /\ DOMAIN calls \subseteq 1..started /\ calls \in [DOMAIN calls -> Call]
    /\ \A i \in DOMAIN calls : CallOK(calls[i])
    /\ page \in Seq(CallRequest \cup RowRequest)

BudgetType ==
    /\ started \in 0..MaxCalls /\ sent \in 0..MaxMessages
    /\ generated \subseteq Token
    /\ raced \subseteq Event
    /\ faults \in 0..MaxFaults /\ crashes \in 0..MaxCrashes

TypeInv == RowsType /\ FiniteRows /\ QueuesType /\ ManagerType /\ CallsType /\ BudgetType

OfCall(k) == page[k].do \in {"snapshot", "commit"}

\* A call waits for one request at most, the one it has stopped at.
PageInv ==
    /\ \A k \in DOMAIN page :
          OfCall(k) => page[k].of \in DOMAIN calls /\ calls[page[k].of].at = page[k].do
    /\ \A j, k \in DOMAIN page :
          OfCall(j) /\ OfCall(k) /\ page[j].of = page[k].of => j = k

\* An OnReceive that can be answered was made to the reader there is, about a
\* message that is there, and is expected.
StorageOK(s) ==
    /\ s.offered => s.reader /\ s.ackPending /\ s.messages # <<>>
    /\ s.watcher /\ s.messages # <<>> => s.told

StorageInv == \A t \in DOMAIN queues : StorageOK(queues[t])

ServedInv ==
    "replaced" \notin raced =>
        \A t \in DOMAIN queues :
            /\ queues[t].ackPending => queues[t].offered
            /\ queues[t].reader /\ ~IsEmpty(t) => queues[t].offered

-----------------------------------------------------------------------------
(* Which queues may have messages on the device *)

\* The queues that have their row, and those that were to be deleted.
Kept == {t \in Token : infos[t] # None} \cup doomed

\* A call that opens a queue or deletes one has the token of such a queue.
CallKept(c, kept, doom, tokensMade) ==
    /\ c.kind = "obtain" /\ c.token # None => c.token \in tokensMade
    /\ c.kind = "obtain" /\ c.token # None /\ c.at # "commit" => c.token \in kept
    /\ c.kind = "delete" /\ c.token # None => c.token \in kept
    /\ c.kind = "delete" /\ c.at = "commit" => c.token \in doom
    /\ c.kind = "sender" /\ c.name # None => c.token \in kept
    /\ \A p \in c.found : p[2] \in kept

RowsKept ==
    /\ Kept \subseteq generated
    /\ \A n \in Name : named[n] # None => named[n] \in Kept

FilesKept ==
    /\ \A t \in Token : files[t] # <<>> => t \in Kept
    /\ DOMAIN queues \subseteq Kept

CallsKept == \A i \in DOMAIN calls : CallKept(calls[i], Kept, doomed, generated)

\* The row of a token goes only if its queue was to be deleted.
RequestsKept == \A k \in DOMAIN page : page[k].do = "forget" => page[k].of \in doomed

DoomInv == RowsKept /\ FilesKept /\ CallsKept /\ RequestsKept

-----------------------------------------------------------------------------
(* What holds while no event of Race has happened *)

Race == {"overlap", "readError", "namespace", "deleted", "dropped"}

\* The two kinds of rows name the same queues, with tokens that were generated.
RowsAgree ==
    /\ \A n \in Name, t \in Token : named[n] = t <=> infos[t] = n
    /\ \A t \in Token : infos[t] # None => t \in generated

\* What is open is known under its name, and the other way round.
OpenAgree ==
    /\ \A t \in DOMAIN queues : infos[t] \in Name /\ tokens[infos[t]] = t
    /\ \A n \in Name : tokens[n] # None => tokens[n] \in DOMAIN queues /\ infos[tokens[n]] = n

\* A watcher waits for the queue of its name, or is with it.
WatchersPlaced ==
    \A n \in watching :
        IF tokens[n] = None THEN n \in pendingWatch ELSE queues[tokens[n]].watcher

\* What a call has read is still so.
CallsCurrent ==
    \A i \in DOMAIN calls : LET c == calls[i] IN
        /\ c.kind = "delete" => c.at # "commit"
        /\ c.kind = "obtain" /\ c.at = "answer" => named[c.name] = c.token
        /\ c.kind = "obtain" /\ c.at = "commit" =>
             named[c.name] = None /\ infos[c.token] = None /\ c.token \in generated
        /\ c.kind = "obtain" /\ c.at = "done" => infos[c.token] = c.name
        /\ c.kind = "sender" /\ c.at = "answer" /\ c.name # None => infos[c.token] = c.name

\* A call that makes a queue has its name and its token to itself: what else is
\* under way for the name has yet to read the rows, behind it.
Creating(i) == calls[i].kind = "obtain" /\ calls[i].at = "commit"

CreatorsAlone ==
    /\ \A i, j \in DOMAIN calls :
          /\ i # j /\ Creating(i) /\ calls[j].kind = "obtain"
          => /\ calls[j].name = calls[i].name => calls[j].at = "snapshot"
             /\ Creating(j) => calls[j].token # calls[i].token
    /\ \A i \in DOMAIN calls :
          Creating(i) => \E k \in DOMAIN page : page[k].do = "commit" /\ page[k].of = i
    /\ \A j, k \in DOMAIN page :
          /\ page[j].do = "commit" /\ page[k].do = "snapshot"
          /\ calls[page[k].of].kind = "obtain"
          /\ calls[page[j].of].name = calls[page[k].of].name
          => j < k
    /\ \A k \in DOMAIN page : OfCall(k)

RaceInv ==
    raced \cap Race = {} =>
        RowsAgree /\ OpenAgree /\ WatchersPlaced /\ CallsCurrent /\ CreatorsAlone

\* The inductive invariant.
IInv == TypeInv /\ PageInv /\ StorageInv /\ ServedInv /\ DoomInv /\ RaceInv

-----------------------------------------------------------------------------
(* Storages *)

\* No queue is open, no call is under way.
LEMMA EmptyFunction ==
    ASSUME NEW S
    PROVE  DOMAIN <<>> = {} /\ <<>> \in [{} -> S]
  <1>1. <<>> \in Seq(S) /\ Len(<<>>) = 0
    OBVIOUS
  <1>2. DOMAIN <<>> = 1..0
    BY <1>1
  <1>3. 1..0 = {}
    OBVIOUS
  <1>4. <<>> \in [1..0 -> S]
    BY <1>1, LenProperties
  <1> QED
    BY <1>2, <1>3, <1>4

\* MaybeSendNextMessage gives a reader without an open OnReceive the oldest
\* message, and changes nothing else.
LEMMA MaybeSendEffect ==
    ASSUME NEW s \in Storage
    PROVE  LET m == MaybeSendNextMessage(s)
               sends == s.reader /\ ~s.ackPending /\ s.messages # <<>>
           IN /\ m \in Storage
              /\ m.messages = s.messages /\ m.reader = s.reader
              /\ m.watcher = s.watcher /\ m.told = s.told
              /\ m.offered <=> s.offered \/ sends
              /\ m.ackPending <=> s.ackPending \/ sends
  BY DEF MaybeSendNextMessage, Storage

\* A watcher that is registered is told of what is there.
LEMMA WatchedEffect ==
    ASSUME NEW s \in Storage
    PROVE  LET w == Watched(s)
           IN /\ w \in Storage
              /\ w.messages = s.messages /\ w.reader = s.reader
              /\ w.offered = s.offered /\ w.ackPending = s.ackPending
              /\ w.watcher /\ (w.messages # <<>> => w.told)
  BY DEF Watched, Storage

\* The storage of a queue that has just been opened.
NewStorage(t, sender) ==
    [messages |-> files[t], ackPending |-> FALSE, reader |-> FALSE,
     offered |-> FALSE, senders |-> sender, watcher |-> FALSE, told |-> FALSE]

LEMMA NewStorageType ==
    ASSUME QueuesType, NEW t \in Token, NEW sender \in BOOLEAN
    PROVE  /\ NewStorage(t, sender) \in Storage
           /\ ~NewStorage(t, sender).reader /\ ~NewStorage(t, sender).offered
           /\ ~NewStorage(t, sender).ackPending /\ ~NewStorage(t, sender).watcher
           /\ NewStorage(t, sender).messages = files[t]
  <1>1. files[t] \in Seq(1..MaxMessages)
    BY DEF QueuesType
  <1> QED
    BY <1>1 DEF NewStorage, Storage

-----------------------------------------------------------------------------
(* What the steps do to the storages and the files *)

\* Save writes the queue, nothing, or an empty file.
LEMMA SaveEffect ==
    ASSUME QueuesType, BudgetType, NEW t \in Token, NEW m \in Seq(1..MaxMessages), Save(t, m)
    PROVE  /\ files' \in [Token -> Seq(1..MaxMessages)]
           /\ \E d \in {m, files[t], <<>>} : files' = [files EXCEPT ![t] = d]
           /\ faults' \in 0..MaxFaults
  <1>1. files \in [Token -> Seq(1..MaxMessages)] /\ <<>> \in Seq(1..MaxMessages)
    BY DEF QueuesType
  <1>2. \/ files' = [files EXCEPT ![t] = m]
        \/ files' = files
        \/ files' = [files EXCEPT ![t] = <<>>]
    BY DEF Save
  <1>3. files = [files EXCEPT ![t] = files[t]]
    BY <1>1
  <1>4. \E d \in {m, files[t], <<>>} : files' = [files EXCEPT ![t] = d]
    BY <1>2, <1>3
  <1>5. files' \in [Token -> Seq(1..MaxMessages)]
    BY <1>1, <1>2
  <1>6. faults' \in 0..MaxFaults
    BY BoundAssumption DEF Save, BudgetType
  <1> QED
    BY <1>4, <1>5, <1>6

\* One storage becomes s, the others stay.
OneStorage(t, s) ==
    /\ t \in DOMAIN queues /\ t \in Token
    /\ s \in Storage
    /\ queues' = [queues EXCEPT ![t] = s]

\* One storage that changes keeps the types.
LEMMA OneStorageType ==
    ASSUME QueuesType, NEW t, NEW s, OneStorage(t, s)
    PROVE  /\ DOMAIN queues' = DOMAIN queues
           /\ queues' \in [DOMAIN queues' -> Storage]
           /\ queues'[t] = s
           /\ \A u \in DOMAIN queues : u # t => queues'[u] = queues[u]
  BY DEF QueuesType, OneStorage

\* Send appends a message, and sends it if the reader waits for one.
LEMMA SendEffect ==
    ASSUME QueuesType, BudgetType, NEW t \in Token, Send(t)
    PROVE  \E s : LET old == queues[t]
                      sends == old.reader /\ ~old.ackPending
                  IN /\ OneStorage(t, s)
                     /\ s.messages = Append(old.messages, sent + 1) /\ s.messages # <<>>
                     /\ s.reader = old.reader /\ s.watcher = old.watcher
                     /\ s.told = old.watcher
                     /\ s.offered <=> old.offered \/ sends
                     /\ s.ackPending <=> old.ackPending \/ sends
                     /\ Save(t, s.messages)
                     /\ sent + 1 \in 1..MaxMessages
  <1> DEFINE old == queues[t]
             new == [old EXCEPT !.messages = Append(@, sent + 1), !.told = old.watcher]
             s == MaybeSendNextMessage(new)
  <1>1. t \in DOMAIN queues /\ old \in Storage
    BY DEF Send, Open, QueuesType
  <1>2. sent + 1 \in 1..MaxMessages
    BY BoundAssumption DEF Send, BudgetType
  <1>3. old.messages \in Seq(1..MaxMessages)
    BY <1>1 DEF Storage
  <1>4. /\ Append(old.messages, sent + 1) \in Seq(1..MaxMessages)
        /\ Append(old.messages, sent + 1) # <<>>
    BY <1>2, <1>3, AppendProperties
  <1>5. /\ new \in Storage
        /\ new.messages = Append(old.messages, sent + 1)
        /\ new.reader = old.reader /\ new.watcher = old.watcher
        /\ new.told = old.watcher
        /\ new.offered = old.offered /\ new.ackPending = old.ackPending
    BY <1>1, <1>4 DEF Storage
  <1>6. Save(t, new.messages) /\ queues' = [queues EXCEPT ![t] = s]
    BY DEF Send
  <1> HIDE DEF new
  <1>7. /\ s \in Storage
        /\ s.messages = new.messages /\ s.reader = new.reader
        /\ s.watcher = new.watcher /\ s.told = new.told
        /\ s.offered <=> new.offered \/ (new.reader /\ ~new.ackPending /\ new.messages # <<>>)
        /\ s.ackPending <=> new.ackPending \/ (new.reader /\ ~new.ackPending /\ new.messages # <<>>)
    BY <1>5, MaybeSendEffect
  <1> HIDE DEF s
  <1>8. OneStorage(t, s)
    BY <1>1, <1>6, <1>7 DEF OneStorage
  <1> QED
    BY <1>2, <1>4, <1>5, <1>6, <1>7, <1>8

\* A new reader gets the oldest message unless an answer is awaited.
LEMMA RegisterReceiverEffect ==
    ASSUME QueuesType, NEW t \in Token, RegisterReceiver(t)
    PROVE  \E s : LET old == queues[t]
                      sends == ~old.ackPending /\ old.messages # <<>>
                  IN /\ OneStorage(t, s)
                     /\ s.messages = old.messages /\ s.reader
                     /\ s.watcher = old.watcher /\ s.told = old.told
                     /\ s.offered <=> sends
                     /\ s.ackPending <=> old.ackPending \/ sends
  <1> DEFINE old == queues[t]
             new == [old EXCEPT !.reader = TRUE, !.offered = FALSE]
             s == MaybeSendNextMessage(new)
  <1>1. t \in DOMAIN queues /\ old \in Storage
    BY DEF RegisterReceiver, Open, QueuesType
  <1>2. /\ new \in Storage
        /\ new.messages = old.messages /\ new.reader /\ ~new.offered
        /\ new.watcher = old.watcher /\ new.told = old.told /\ new.ackPending = old.ackPending
    BY <1>1 DEF Storage
  <1>3. queues' = [queues EXCEPT ![t] = s]
    BY <1>1 DEF RegisterReceiver
  <1> HIDE DEF new
  <1>4. /\ s \in Storage
        /\ s.messages = new.messages /\ s.reader = new.reader
        /\ s.watcher = new.watcher /\ s.told = new.told
        /\ s.offered <=> new.offered \/ (new.reader /\ ~new.ackPending /\ new.messages # <<>>)
        /\ s.ackPending <=> new.ackPending \/ (new.reader /\ ~new.ackPending /\ new.messages # <<>>)
    BY <1>2, MaybeSendEffect
  <1> HIDE DEF s
  <1>5. OneStorage(t, s)
    BY <1>1, <1>3, <1>4 DEF OneStorage
  <1> QED
    BY <1>2, <1>4, <1>5

\* A reader that is gone leaves nothing open.
LEMMA ReaderClosedEffect ==
    ASSUME QueuesType, NEW t \in Token, ReaderClosed(t)
    PROVE  \E s : LET old == queues[t]
                  IN /\ OneStorage(t, s)
                     /\ s.messages = old.messages /\ ~s.reader
                     /\ s.watcher = old.watcher /\ s.told = old.told
                     /\ ~s.offered /\ ~s.ackPending
  <1> DEFINE old == queues[t]
             s == [old EXCEPT !.reader = FALSE, !.offered = FALSE, !.ackPending = FALSE]
  <1>1. t \in DOMAIN queues /\ old \in Storage
    BY DEF ReaderClosed, Open, QueuesType
  <1>2. /\ s \in Storage
        /\ s.messages = old.messages /\ ~s.reader
        /\ s.watcher = old.watcher /\ s.told = old.told
        /\ ~s.offered /\ ~s.ackPending
    BY <1>1 DEF Storage
  <1>3. queues' = [queues EXCEPT ![t] = s]
    BY <1>1 DEF ReaderClosed, QueuesType
  <1> HIDE DEF s
  <1> QED
    BY <1>1, <1>2, <1>3 DEF OneStorage

\* An answer removes the oldest message, and the next one is sent.
LEMMA ReceivedEffect ==
    ASSUME QueuesType, StorageInv, NEW t \in Token, Received(t)
    PROVE  \E s : LET old == queues[t]
                  IN /\ OneStorage(t, s)
                     /\ old.offered /\ old.messages # <<>> /\ old.messages \in Seq(1..MaxMessages)
                     /\ s.messages = Tail(old.messages)
                     /\ s.messages \in Seq(1..MaxMessages)
                     /\ s.reader /\ s.watcher = old.watcher /\ s.told = old.told
                     /\ s.offered <=> s.messages # <<>>
                     /\ s.ackPending <=> s.messages # <<>>
                     /\ Save(t, s.messages)
  <1> DEFINE old == queues[t]
             new == [old EXCEPT !.ackPending = FALSE, !.offered = FALSE, !.messages = Tail(@)]
             s == MaybeSendNextMessage(new)
  <1>1. t \in DOMAIN queues /\ old \in Storage /\ old.offered
    BY DEF Received, Open, QueuesType
  <1>2. old.reader /\ old.messages # <<>>
    BY <1>1 DEF StorageInv, StorageOK
  <1>3. old.messages \in Seq(1..MaxMessages) /\ Tail(old.messages) \in Seq(1..MaxMessages)
    BY <1>1, <1>2 DEF Storage
  <1>4. /\ new \in Storage
        /\ new.messages = Tail(old.messages)
        /\ new.reader /\ ~new.offered /\ ~new.ackPending
        /\ new.watcher = old.watcher /\ new.told = old.told
    BY <1>1, <1>2, <1>3 DEF Storage
  <1>5. Save(t, new.messages) /\ queues' = [queues EXCEPT ![t] = s]
    BY DEF Received
  <1> HIDE DEF new
  <1>6. /\ s \in Storage
        /\ s.messages = new.messages /\ s.reader = new.reader
        /\ s.watcher = new.watcher /\ s.told = new.told
        /\ s.offered <=> new.offered \/ (new.reader /\ ~new.ackPending /\ new.messages # <<>>)
        /\ s.ackPending <=> new.ackPending \/ (new.reader /\ ~new.ackPending /\ new.messages # <<>>)
    BY <1>4, MaybeSendEffect
  <1> HIDE DEF s
  <1>7. OneStorage(t, s)
    BY <1>1, <1>5, <1>6 DEF OneStorage
  <1> QED
    BY <1>1, <1>2, <1>3, <1>4, <1>5, <1>6, <1>7

\* Two storages that differ in their senders only.
SameStorage(old, s) ==
    /\ s.messages = old.messages /\ s.reader = old.reader /\ s.offered = old.offered
    /\ s.ackPending = old.ackPending /\ s.watcher = old.watcher /\ s.told = old.told

\* GetMessageQueueStorage keeps what is open and opens the queue with what its
\* file holds and the watcher that waited.
LEMMA GetStorageEffect ==
    ASSUME QueuesType, NEW n, NEW t \in Token, NEW sender \in BOOLEAN,
           GetMessageQueueStorage(n, t, sender)
    PROVE  /\ DOMAIN queues' = DOMAIN queues \cup {t}
           /\ queues' \in [DOMAIN queues' -> Storage]
           /\ \A u \in DOMAIN queues : SameStorage(queues[u], queues'[u])
           /\ t \in DOMAIN queues => UNCHANGED <<tokens, pendingWatch>>
           /\ t \notin DOMAIN queues =>
                /\ queues'[t].messages = files[t]
                /\ ~queues'[t].reader /\ ~queues'[t].offered /\ ~queues'[t].ackPending
                /\ StorageOK(queues'[t])
                /\ n \in pendingWatch => queues'[t].watcher
                /\ tokens' = [tokens EXCEPT ![n] = t]
                /\ pendingWatch' = pendingWatch \ {n}
  <1>1. CASE t \in DOMAIN queues
    <2> DEFINE s == [queues[t] EXCEPT !.senders = @ \/ sender]
    <2>1. queues[t] \in Storage /\ \A u \in DOMAIN queues : queues[u] \in Storage
      BY <1>1 DEF QueuesType
    <2>2. s \in Storage /\ SameStorage(queues[t], s)
      BY <2>1 DEF Storage, SameStorage
    <2>3. queues' = [queues EXCEPT ![t] = s] /\ UNCHANGED <<tokens, pendingWatch>>
      BY <1>1 DEF GetMessageQueueStorage, Open, QueuesType
    <2> HIDE DEF s
    <2>4. DOMAIN queues' = DOMAIN queues /\ queues' \in [DOMAIN queues -> Storage]
      BY <2>2, <2>3 DEF QueuesType
    <2>5. \A u \in DOMAIN queues : SameStorage(queues[u], queues'[u])
      BY <2>2, <2>3 DEF QueuesType, SameStorage
    <2> QED
      BY <1>1, <2>3, <2>4, <2>5
  <1>2. CASE t \notin DOMAIN queues
    <2> DEFINE new == NewStorage(t, sender)
               s == IF n \in pendingWatch THEN Watched(new) ELSE new
    <2>1. /\ new \in Storage /\ ~new.reader /\ ~new.offered /\ ~new.ackPending /\ ~new.watcher
          /\ new.messages = files[t]
      BY NewStorageType
    <2>2. /\ queues' = With(queues, t, s)
          /\ tokens' = [tokens EXCEPT ![n] = t]
          /\ pendingWatch' = pendingWatch \ {n}
      BY <1>2 DEF GetMessageQueueStorage, Open, NewStorage
    <2> HIDE DEF new
    <2>3. /\ s \in Storage /\ ~s.reader /\ ~s.offered /\ ~s.ackPending
          /\ s.messages = files[t] /\ (n \in pendingWatch => s.watcher)
          /\ (s.watcher /\ s.messages # <<>> => s.told)
      BY <2>1, WatchedEffect
    <2> HIDE DEF s
    <2>4. StorageOK(s)
      BY <2>3 DEF StorageOK
    <2>5. /\ DOMAIN queues' = DOMAIN queues \cup {t}
          /\ queues' \in [DOMAIN queues' -> Storage]
          /\ queues'[t] = s
          /\ \A u \in DOMAIN queues : u # t => queues'[u] = queues[u]
      <3>1. queues \in [DOMAIN queues -> Storage]
        BY DEF QueuesType
      <3>2. /\ DOMAIN With(queues, t, s) = DOMAIN queues \cup {t}
            /\ With(queues, t, s) \in [DOMAIN With(queues, t, s) -> Storage]
            /\ With(queues, t, s)[t] = s
            /\ \A u \in DOMAIN queues : u # t => With(queues, t, s)[u] = queues[u]
        BY <2>3, <3>1 DEF With
      <3> QED
        BY <2>2, <3>2
    <2> QED
      BY <1>2, <2>2, <2>3, <2>4, <2>5 DEF SameStorage
  <1> QED
    BY <1>1, <1>2

-----------------------------------------------------------------------------
(* What the steps do to the calls and the requests *)

Request == CallRequest \cup RowRequest

\* A call is replaced, and stays in order.
LEMMA CallReplaced ==
    ASSUME CallsType, NEW i \in DOMAIN calls, NEW c, CallOK(c),
           calls' = [calls EXCEPT ![i] = c]
    PROVE  /\ DOMAIN calls' = DOMAIN calls
           /\ calls' \in [DOMAIN calls' -> Call]
           /\ calls'[i] = c
           /\ \A j \in DOMAIN calls : j # i => calls'[j] = calls[j]
           /\ \A j \in DOMAIN calls' : CallOK(calls'[j])
  <1>1. calls \in [DOMAIN calls -> Call] /\ c \in Call
    BY DEF CallsType, CallOK
  <1>2. /\ DOMAIN calls' = DOMAIN calls
        /\ calls' \in [DOMAIN calls' -> Call]
        /\ calls'[i] = c
        /\ \A j \in DOMAIN calls : j # i => calls'[j] = calls[j]
    BY <1>1
  <1> QED
    BY <1>2 DEF CallsType

\* A call ends.
LEMMA CallRemoved ==
    ASSUME CallsType, NEW i, calls' = Without(calls, i)
    PROVE  /\ DOMAIN calls' = DOMAIN calls \ {i}
           /\ calls' \in [DOMAIN calls' -> Call]
           /\ \A j \in DOMAIN calls : j # i => calls'[j] = calls[j]
           /\ \A j \in DOMAIN calls' : CallOK(calls'[j])
  <1>1. calls \in [DOMAIN calls -> Call]
    BY DEF CallsType
  <1>2. /\ DOMAIN calls' = DOMAIN calls \ {i}
        /\ calls' \in [DOMAIN calls' -> Call]
        /\ \A j \in DOMAIN calls : j # i => calls'[j] = calls[j]
    BY <1>1 DEF Without
  <1> QED
    BY <1>2 DEF CallsType

\* The page takes its first request.
LEMMA RequestTaken ==
    ASSUME CallsType, page # <<>>, page' = Tail(page)
    PROVE  /\ page' \in Seq(Request) /\ Head(page) = page[1]
           /\ 1 \in DOMAIN page /\ page[1] \in Request
           /\ \A k \in DOMAIN page' : k + 1 \in DOMAIN page /\ page'[k] = page[k + 1]
           /\ \A k \in DOMAIN page : k # 1 => k - 1 \in DOMAIN page' /\ page'[k - 1] = page[k]
           /\ DOMAIN page \subseteq Nat /\ DOMAIN page' \subseteq Nat
  <1>1. page \in Seq(Request)
    BY DEF CallsType, Request
  <1>2. /\ Head(page) \in Request /\ Tail(page) \in Seq(Request)
        /\ Len(Tail(page)) = Len(page) - 1
        /\ \A i \in 1 .. Len(Tail(page)) : Tail(page)[i] = page[i + 1]
    BY <1>1, HeadTailProperties
  <1>3. Len(page) \in Nat /\ DOMAIN page = 1..Len(page) /\ Head(page) = page[1]
    BY <1>1
  <1>4. DOMAIN page' = 1..(Len(page) - 1)
    BY <1>2
  <1>5. Len(page) # 0
    BY <1>1
  <1> QED
    BY <1>2, <1>3, <1>4, <1>5

\* A request is added behind the others.
LEMMA RequestMade ==
    ASSUME CallsType, NEW r \in Request, page' = Append(page, r)
    PROVE  /\ page' \in Seq(Request)
           /\ Len(page) + 1 \notin DOMAIN page
           /\ DOMAIN page' = DOMAIN page \cup {Len(page) + 1}
           /\ page'[Len(page) + 1] = r
           /\ \A k \in DOMAIN page : page'[k] = page[k] /\ k \in Nat /\ k < Len(page) + 1
  <1>1. page \in Seq(Request)
    BY DEF CallsType, Request
  <1>2. /\ page' \in Seq(Request) /\ Len(page') = Len(page) + 1
        /\ \A k \in 1..Len(page) : page'[k] = page[k]
        /\ page'[Len(page) + 1] = r
    BY <1>1, AppendProperties
  <1>3. /\ Len(page) \in Nat /\ DOMAIN page = 1..Len(page)
        /\ DOMAIN page' = 1..(Len(page) + 1)
    BY <1>1, <1>2
  <1> QED
    BY <1>2, <1>3

\* A call that waits for nothing changes or ends.
LEMMA PageKept ==
    ASSUME PageInv, UNCHANGED page, NEW i, calls[i].at \notin {"snapshot", "commit"},
           \A j \in DOMAIN calls : j # i => j \in DOMAIN calls' /\ calls'[j] = calls[j]
    PROVE  PageInv'
  BY DEF PageInv, OfCall

\* The call whose request is taken changes or ends.
LEMMA PageTaken ==
    ASSUME CallsType, PageInv, page # <<>>, page' = Tail(page), OfCall(1),
           \A j \in DOMAIN calls : j # page[1].of => j \in DOMAIN calls' /\ calls'[j] = calls[j]
    PROVE  PageInv'
  <1>1. /\ 1 \in DOMAIN page
        /\ \A k \in DOMAIN page' : k + 1 \in DOMAIN page /\ page'[k] = page[k + 1]
        /\ DOMAIN page' \subseteq Nat
    BY RequestTaken
  <1>2. ASSUME NEW k \in DOMAIN page', OfCall(k)'
        PROVE  page'[k].of \in DOMAIN calls' /\ calls'[page'[k].of].at = page'[k].do
    <2>1. k + 1 \in DOMAIN page /\ page'[k] = page[k + 1] /\ k + 1 # 1
      BY <1>1
    <2>2. OfCall(k + 1)
      BY <1>2, <2>1 DEF OfCall
    <2>3. page[k + 1].of # page[1].of
      BY <1>1, <2>1, <2>2 DEF PageInv
    <2> QED
      BY <2>1, <2>2, <2>3 DEF PageInv
  <1>3. ASSUME NEW j \in DOMAIN page', NEW k \in DOMAIN page', OfCall(j)', OfCall(k)',
               page'[j].of = page'[k].of
        PROVE  j = k
    <2>1. /\ j + 1 \in DOMAIN page /\ page'[j] = page[j + 1]
          /\ k + 1 \in DOMAIN page /\ page'[k] = page[k + 1]
      BY <1>1
    <2>2. OfCall(j + 1) /\ OfCall(k + 1)
      BY <1>3, <2>1 DEF OfCall
    <2>3. j + 1 = k + 1
      BY <1>3, <2>1, <2>2 DEF PageInv
    <2> QED
      BY <1>1, <2>3
  <1> QED
    BY <1>2, <1>3 DEF PageInv

\* A row is deleted.
LEMMA PageTakenRow ==
    ASSUME CallsType, PageInv, page # <<>>, page' = Tail(page), UNCHANGED calls
    PROVE  PageInv'
  <1>1. /\ \A k \in DOMAIN page' : k + 1 \in DOMAIN page /\ page'[k] = page[k + 1]
        /\ DOMAIN page' \subseteq Nat
    BY RequestTaken
  <1>2. ASSUME NEW k \in DOMAIN page', OfCall(k)'
        PROVE  page'[k].of \in DOMAIN calls' /\ calls'[page'[k].of].at = page'[k].do
    BY <1>1, <1>2 DEF PageInv, OfCall
  <1>3. ASSUME NEW j \in DOMAIN page', NEW k \in DOMAIN page', OfCall(j)', OfCall(k)',
               page'[j].of = page'[k].of
        PROVE  j = k
    <2>1. /\ j + 1 \in DOMAIN page /\ page'[j] = page[j + 1]
          /\ k + 1 \in DOMAIN page /\ page'[k] = page[k + 1]
      BY <1>1
    <2>2. OfCall(j + 1) /\ OfCall(k + 1)
      BY <1>3, <2>1 DEF OfCall
    <2>3. j + 1 = k + 1
      BY <1>3, <2>1, <2>2 DEF PageInv
    <2> QED
      BY <1>1, <2>3
  <1> QED
    BY <1>2, <1>3 DEF PageInv

\* A call that waits for nothing makes a request.
LEMMA PageMade ==
    ASSUME CallsType, PageInv, NEW i, NEW what \in {"snapshot", "commit"},
           i \in Nat, page' = Append(page, [do |-> what, of |-> i]),
           i \in DOMAIN calls => calls[i].at \notin {"snapshot", "commit"},
           i \in DOMAIN calls' /\ calls'[i].at = what,
           \A j \in DOMAIN calls : j # i => j \in DOMAIN calls' /\ calls'[j] = calls[j]
    PROVE  PageInv' /\ page' \in Seq(Request)
  <1> DEFINE r == [do |-> what, of |-> i]
             last == Len(page) + 1
  <1>1. r \in Request /\ r.do = what /\ r.of = i
    BY DEF Request, CallRequest
  <1> HIDE DEF r
  <1>2. /\ page' \in Seq(Request)
        /\ last \notin DOMAIN page
        /\ DOMAIN page' = DOMAIN page \cup {last}
        /\ page'[last] = r
        /\ \A k \in DOMAIN page : page'[k] = page[k]
    BY <1>1, RequestMade DEF r
  <1> HIDE DEF last
  <1>3. \A k \in DOMAIN page : OfCall(k) => page[k].of # i
    BY DEF PageInv, OfCall
  <1>4. \A k \in DOMAIN page : OfCall(k)' <=> OfCall(k)
    BY <1>2 DEF OfCall
  <1>5. ASSUME NEW k \in DOMAIN page', OfCall(k)'
        PROVE  page'[k].of \in DOMAIN calls' /\ calls'[page'[k].of].at = page'[k].do
    <2>1. CASE k = last
      BY <1>1, <1>2, <2>1
    <2>2. CASE k \in DOMAIN page
      BY <1>2, <1>3, <1>4, <1>5, <2>2 DEF PageInv
    <2> QED
      BY <1>2, <2>1, <2>2
  <1>6. ASSUME NEW j \in DOMAIN page', NEW k \in DOMAIN page', OfCall(j)', OfCall(k)',
               page'[j].of = page'[k].of
        PROVE  j = k
    BY <1>1, <1>2, <1>3, <1>4, <1>6 DEF PageInv
  <1> QED
    BY <1>2, <1>5, <1>6 DEF PageInv

\* An operation is made: its call is new, and asks for a snapshot.
LEMMA StartEffect ==
    ASSUME TypeInv, PageInv, NEW kind, NEW n, NEW t, Start(kind, n, t),
           CallOK([kind |-> kind, at |-> "snapshot", name |-> n, token |-> t, found |-> {}])
    PROVE  /\ CallsType' /\ PageInv' /\ started' \in 0..MaxCalls
           /\ started + 1 \notin DOMAIN calls
           /\ DOMAIN calls' = DOMAIN calls \cup {started + 1}
           /\ calls'[started + 1] =
                [kind |-> kind, at |-> "snapshot", name |-> n, token |-> t, found |-> {}]
           /\ \A j \in DOMAIN calls : calls'[j] = calls[j]
  <1> DEFINE i == started + 1
             c == [kind |-> kind, at |-> "snapshot", name |-> n, token |-> t, found |-> {}]
  <1>1. /\ calls' = With(calls, i, c) /\ page' = Append(page, [do |-> "snapshot", of |-> i])
        /\ started' = i /\ started < MaxCalls
    BY DEF Start
  <1>2. started \in Nat /\ i \in Nat /\ i \in 0..MaxCalls /\ i \notin DOMAIN calls
    BY <1>1, BoundAssumption DEF TypeInv, CallsType, BudgetType
  <1>3. c \in Call /\ c.at = "snapshot"
    BY DEF CallOK
  <1> HIDE DEF c
  <1>4. calls \in [DOMAIN calls -> Call]
    BY DEF TypeInv, CallsType
  <1>5. /\ DOMAIN calls' = DOMAIN calls \cup {i}
        /\ calls' \in [DOMAIN calls' -> Call]
        /\ calls'[i] = c
        /\ \A j \in DOMAIN calls : j # i => calls'[j] = calls[j]
    BY <1>1, <1>3, <1>4 DEF With
  <1>6. PageInv' /\ page' \in Seq(Request)
    <2>1. i \in Nat /\ page' = Append(page, [do |-> "snapshot", of |-> i])
      BY <1>1, <1>2
    <2>2. i \in DOMAIN calls' /\ calls'[i].at = "snapshot"
      BY <1>3, <1>5
    <2>3. \A j \in DOMAIN calls : j # i => j \in DOMAIN calls' /\ calls'[j] = calls[j]
      BY <1>5
    <2> HIDE DEF i
    <2> QED
      BY <1>2, <2>1, <2>2, <2>3, PageMade DEF TypeInv
  <1>7. \A j \in DOMAIN calls' : CallOK(calls'[j])
    <2>1. CallOK(c)
      BY DEF c
    <2> QED
      BY <1>2, <1>5, <2>1 DEF TypeInv, CallsType
  <1>8. DOMAIN calls' \subseteq 1..started'
    BY <1>1, <1>2, <1>5 DEF TypeInv, CallsType
  <1> QED
    BY <1>1, <1>2, <1>5, <1>6, <1>7, <1>8 DEF CallsType, Request, c

\* The calls that are made know what they are about.
LEMMA NewCallOK ==
    /\ \A n \in Name, kind \in {"obtain", "delete"} :
          CallOK([kind |-> kind, at |-> "snapshot", name |-> n, token |-> None, found |-> {}])
    /\ \A t \in Token :
          CallOK([kind |-> "sender", at |-> "snapshot", name |-> None, token |-> t, found |-> {}])
    /\ CallOK([kind |-> "namespace", at |-> "snapshot", name |-> None, token |-> None, found |-> {}])
  BY FS_EmptySet DEF CallOK, Call

\* The snapshot of the page fills the call, and so does one that fails.
LEMMA SnapshotCallOK ==
    ASSUME RowsType, FiniteRows, NEW c, CallOK(c), c.at = "snapshot"
    PROVE  LET d == [c EXCEPT !.at = "answer",
                        !.token = IF c.kind \in {"obtain", "delete"} THEN named[c.name] ELSE @,
                        !.name = IF c.kind = "sender" THEN infos[c.token] ELSE @,
                        !.found = IF c.kind = "namespace"
                                  THEN {p \in Name \X Token : named[p[1]] = p[2]} ELSE {}]
           IN /\ CallOK(d) /\ d.at = "answer" /\ d.kind = c.kind
              /\ d.token = IF c.kind \in {"obtain", "delete"} THEN named[c.name] ELSE c.token
              /\ d.name = IF c.kind = "sender" THEN infos[c.token] ELSE c.name
              /\ \A p \in d.found : p \in Name \X Token /\ named[p[1]] = p[2]
  <1> DEFINE tk == IF c.kind \in {"obtain", "delete"} THEN named[c.name] ELSE c.token
             nm == IF c.kind = "sender" THEN infos[c.token] ELSE c.name
             fd == IF c.kind = "namespace"
                   THEN {p \in Name \X Token : named[p[1]] = p[2]} ELSE {}
             d == [c EXCEPT !.at = "answer", !.token = tk, !.name = nm, !.found = fd]
  <1>1. c \in Call
    BY DEF CallOK
  <1>2. tk \in Token \cup {None}
    BY <1>1 DEF CallOK, RowsType, Call
  <1>3. nm \in Name \cup {None}
    BY <1>1 DEF CallOK, RowsType, Call
  <1>4. fd \in SUBSET (Name \X Token) /\ IsFiniteSet(fd)
    BY FS_EmptySet DEF FiniteRows
  <1>5. /\ c.kind \in {"obtain", "delete"} => nm = c.name
        /\ c.kind = "sender" => tk = c.token
    OBVIOUS
  <1> HIDE DEF tk, nm, fd
  <1>6. /\ d \in Call /\ d.kind = c.kind /\ d.at = "answer" /\ d.token = tk /\ d.name = nm
        /\ d.found = fd
    BY <1>1, <1>2, <1>3, <1>4 DEF Call
  <1>7. CallOK(d)
    <2> HIDE DEF d
    <2> QED
      BY <1>4, <1>5, <1>6 DEF CallOK
  <1> QED
    BY <1>6, <1>7 DEF tk, nm, fd

\* A call that goes on to another step.
LEMMA CallGoesOn ==
    ASSUME NEW c, CallOK(c), NEW at, NEW t \in Token \cup {None},
           \/ at = "answer"
           \/ at = "commit" /\ c.kind \in {"obtain", "delete"} /\ t \in Token
           \/ at = "done" /\ c.kind = "obtain" /\ t \in Token,
           c.kind = "sender" => t = c.token
    PROVE  LET d == [c EXCEPT !.at = at, !.token = t]
           IN CallOK(d) /\ d.at = at /\ d.token = t /\ d.kind = c.kind /\ d.name = c.name
  <1> DEFINE d == [c EXCEPT !.at = at, !.token = t]
  <1>1. c \in Call /\ IsFiniteSet(c.found)
    BY DEF CallOK
  <1>2. /\ d \in Call /\ d.kind = c.kind /\ d.at = at /\ d.token = t /\ d.name = c.name
        /\ d.found = c.found
    BY <1>1 DEF Call
  <1> HIDE DEF d
  <1>3. CallOK(d)
    BY <1>1, <1>2 DEF CallOK
  <1> QED
    BY <1>2, <1>3 DEF d

\* A request is of a call that waits for it.
LEMMA FirstRequest ==
    ASSUME TypeInv, PageInv, PageHandles
    PROVE  /\ Head(page) = page[1] /\ 1 \in DOMAIN page
           /\ page # <<>> /\ page' = Tail(page) /\ page' \in Seq(Request)
           /\ UNCHANGED started
           /\ \/ /\ page[1] \in CallRequest /\ OfCall(1)
                 /\ page[1].of \in DOMAIN calls /\ CallOK(calls[page[1].of])
                 /\ calls[page[1].of].at = page[1].do
              \/ page[1] \in RowRequest /\ ~OfCall(1)
  <1>1. page # <<>> /\ page' = Tail(page) /\ UNCHANGED started
    BY DEF PageHandles
  <1>2. /\ page' \in Seq(Request) /\ Head(page) = page[1]
        /\ 1 \in DOMAIN page /\ page[1] \in Request
    BY <1>1, RequestTaken DEF TypeInv
  <1>3. CASE page[1] \in CallRequest
    <2>1. OfCall(1)
      BY <1>3 DEF CallRequest, OfCall
    <2> QED
      BY <1>1, <1>2, <1>3, <2>1 DEF PageInv, TypeInv, CallsType
  <1>4. CASE page[1] \in RowRequest
    BY <1>1, <1>2, <1>4 DEF RowRequest, OfCall
  <1> QED
    BY <1>2, <1>3, <1>4 DEF Request

\* The call read the rows.
LEMMA SnapshotEffect ==
    ASSUME TypeInv, NEW i \in DOMAIN calls, PageSnapshots(i)
    PROVE  \E d : /\ calls' = [calls EXCEPT ![i] = d]
                  /\ CallOK(d) /\ d.at = "answer" /\ d.kind = calls[i].kind
                  /\ d.token = IF d.kind \in {"obtain", "delete"} THEN named[d.name]
                               ELSE calls[i].token
                  /\ d.name = IF d.kind = "sender" THEN infos[d.token] ELSE calls[i].name
                  /\ \A p \in d.found : p \in Name \X Token /\ named[p[1]] = p[2]
  <1> DEFINE c == calls[i]
             d == [c EXCEPT !.at = "answer",
                      !.token = IF c.kind \in {"obtain", "delete"} THEN named[c.name] ELSE @,
                      !.name = IF c.kind = "sender" THEN infos[c.token] ELSE @,
                      !.found = IF c.kind = "namespace"
                                THEN {p \in Name \X Token : named[p[1]] = p[2]} ELSE {}]
  <1>1. CallOK(c) /\ c.at = "snapshot"
    BY DEF TypeInv, CallsType, PageSnapshots
  <1>2. calls' = [calls EXCEPT ![i] = d]
    BY DEF PageSnapshots
  <1>3. /\ CallOK(d) /\ d.at = "answer" /\ d.kind = c.kind
        /\ d.token = IF c.kind \in {"obtain", "delete"} THEN named[c.name] ELSE c.token
        /\ d.name = IF c.kind = "sender" THEN infos[c.token] ELSE c.name
        /\ \A p \in d.found : p \in Name \X Token /\ named[p[1]] = p[2]
    BY <1>1, SnapshotCallOK DEF TypeInv
  <1> HIDE DEF d
  <1>4. /\ d.token = IF d.kind \in {"obtain", "delete"} THEN named[d.name] ELSE c.token
        /\ d.name = IF d.kind = "sender" THEN infos[d.token] ELSE c.name
    BY <1>3
  <1> QED
    BY <1>2, <1>3, <1>4

\* The queue was made.
LEMMA CreateEffect ==
    ASSUME TypeInv, NEW i \in DOMAIN calls, PageCreates(i), calls' # Without(calls, i)
    PROVE  /\ named' = [named EXCEPT ![calls[i].name] = calls[i].token]
           /\ infos' = [infos EXCEPT ![calls[i].token] = calls[i].name]
           /\ \E d : /\ calls' = [calls EXCEPT ![i] = d]
                     /\ CallOK(d) /\ d.at = "done" /\ d.kind = "obtain"
                     /\ d.token = calls[i].token /\ d.name = calls[i].name
                     /\ d.found = calls[i].found
  <1> DEFINE c == calls[i]
             d == [c EXCEPT !.at = "done", !.token = c.token]
  <1>1. CallOK(c) /\ c.at = "commit" /\ c.kind = "obtain" /\ c \in Call
    BY DEF TypeInv, CallsType, PageCreates, CallOK
  <1>2. c.token \in Token
    BY <1>1 DEF CallOK
  <1>3. /\ CallOK(d) /\ d.at = "done" /\ d.token = c.token /\ d.kind = c.kind
        /\ d.name = c.name /\ d.found = c.found
    <2>1. /\ d \in Call /\ d.kind = c.kind /\ d.at = "done" /\ d.token = c.token
          /\ d.name = c.name /\ d.found = c.found
      BY <1>1, <1>2 DEF Call
    <2> HIDE DEF d
    <2>2. CallOK(d)
      BY <1>1, <1>2, <2>1 DEF CallOK
    <2> QED
      BY <2>1, <2>2
  <1>4. /\ named' = [named EXCEPT ![calls[i].name] = calls[i].token]
        /\ infos' = [infos EXCEPT ![calls[i].token] = calls[i].name]
        /\ calls' = [calls EXCEPT ![i].at = "done"]
    BY DEF PageCreates
  <1>5. calls' = [calls EXCEPT ![i] = d]
    BY <1>1, <1>4 DEF Call, TypeInv, CallsType
  <1> HIDE DEF d
  <1> QED
    BY <1>1, <1>3, <1>4, <1>5

\* A read that fails looks like a read that finds no token.
LEMMA SnapshotFailsEffect ==
    ASSUME TypeInv, NEW i \in DOMAIN calls, PageSnapshotFails(i)
    PROVE  \/ calls' = Without(calls, i)
           \/ /\ "readError" \in raced'
              /\ \E d : /\ calls' = [calls EXCEPT ![i] = d] /\ CallOK(d)
                        /\ d.at = "answer" /\ calls[i].at = "snapshot" /\ d.kind = "obtain"
                        /\ d.kind = calls[i].kind /\ d.token = calls[i].token
                        /\ d.found = calls[i].found
  <1> DEFINE c == calls[i]
             d == [c EXCEPT !.at = "answer", !.token = c.token]
  <1>1. CallOK(c) /\ c \in Call /\ c.token \in Token \cup {None}
    BY DEF TypeInv, CallsType, CallOK, Call
  <1>2. CallOK(d)
    BY <1>1, CallGoesOn
  <1>5. d.at = "answer" /\ d.token = c.token /\ d.kind = c.kind /\ d.found = c.found
    BY <1>1 DEF Call
  <1>3. CASE c.kind = "obtain"
    <2>1. /\ calls' = [calls EXCEPT ![i].at = "answer"] /\ "readError" \in raced'
          /\ c.at = "snapshot"
      BY <1>3 DEF PageSnapshotFails
    <2>2. calls' = [calls EXCEPT ![i] = d]
      BY <1>1, <2>1 DEF Call, TypeInv, CallsType
    <2> HIDE DEF d
    <2> QED
      BY <1>2, <1>3, <1>5, <2>1, <2>2
  <1>4. CASE c.kind # "obtain"
    BY <1>4 DEF PageSnapshotFails
  <1> QED
    BY <1>3, <1>4

\* Whatever the page does, it keeps the calls and the requests in order.
LEMMA PageHandlesCalls ==
    ASSUME TypeInv, PageInv, PageHandles
    PROVE  CallsType' /\ PageInv'
  <1> DEFINE i == page[1].of
  <1>0. /\ Head(page) = page[1] /\ page # <<>> /\ page' = Tail(page) /\ page' \in Seq(Request)
        /\ UNCHANGED started
    BY FirstRequest
  <1>1. CASE /\ page[1] \in CallRequest /\ OfCall(1)
             /\ i \in DOMAIN calls /\ CallOK(calls[i])
             /\ calls[i].at = page[1].do
    <2>1. \/ calls' = Without(calls, i)
          \/ \E d : calls' = [calls EXCEPT ![i] = d] /\ CallOK(d)
      <3>1. page[1].do \notin {"erase", "forget"}
        BY <1>1 DEF CallRequest
      <3>2. PageSnapshots(i) \/ PageSnapshotFails(i) \/ PageCreates(i) \/ PageDeletes(i)
        BY <1>0, <3>1 DEF PageHandles, PageErases
      <3>3. CASE PageSnapshots(i)
        BY <1>1, <3>3, SnapshotEffect
      <3>4. CASE PageSnapshotFails(i)
        BY <1>1, <3>4, SnapshotFailsEffect
      <3>5. CASE PageCreates(i)
        BY <1>1, <3>5, CreateEffect
      <3>6. CASE PageDeletes(i)
        BY <3>6 DEF PageDeletes
      <3> QED
        BY <3>2, <3>3, <3>4, <3>5, <3>6
    <2> HIDE DEF i
    <2>2. /\ DOMAIN calls' \subseteq DOMAIN calls
          /\ calls' \in [DOMAIN calls' -> Call]
          /\ \A j \in DOMAIN calls : j # i => j \in DOMAIN calls' /\ calls'[j] = calls[j]
          /\ \A j \in DOMAIN calls' : CallOK(calls'[j])
      <3>1. CASE calls' = Without(calls, i)
        <4>1. CallsType
          BY DEF TypeInv
        <4>2. /\ DOMAIN calls' = DOMAIN calls \ {i}
              /\ calls' \in [DOMAIN calls' -> Call]
              /\ \A j \in DOMAIN calls : j # i => calls'[j] = calls[j]
              /\ \A j \in DOMAIN calls' : CallOK(calls'[j])
          BY <3>1, <4>1, CallRemoved
        <4> QED
          BY <4>2
      <3>2. CASE \E d : calls' = [calls EXCEPT ![i] = d] /\ CallOK(d)
        <4>1. PICK d : calls' = [calls EXCEPT ![i] = d] /\ CallOK(d)
          BY <3>2
        <4> QED
          BY <1>1, <4>1, CallReplaced DEF TypeInv
      <3> QED
        BY <2>1, <3>1, <3>2
    <2>3. PageInv'
      BY <1>0, <1>1, <2>2, PageTaken DEF TypeInv, i
    <2>4. CallsType'
      BY <1>0, <2>2 DEF TypeInv, CallsType, Request
    <2> QED
      BY <2>3, <2>4
  <1>2. CASE page[1] \in RowRequest /\ ~OfCall(1)
    <2>1. page[1].do \notin {"snapshot", "commit"}
      BY <1>2 DEF OfCall
    <2>2. UNCHANGED calls
      BY <1>0, <2>1 DEF PageHandles, PageErases
    <2>3. PageInv'
      BY <1>0, <2>2, PageTakenRow DEF TypeInv
    <2> QED
      BY <1>0, <2>2, <2>3 DEF TypeInv, CallsType, Request
  <1> QED
    BY <1>1, <1>2, FirstRequest

\* DeleteKeys asks for rows only, and for none if it found none.
LEMMA NamespaceRows ==
    ASSUME TypeInv, NEW i \in DOMAIN calls, NamespaceFinds(i)
    PROVE  \E rows \in Seq(RowRequest) :
              /\ page' = page \o rows /\ (calls[i].found = {} => rows = <<>>)
              /\ \A k \in DOMAIN rows :
                    rows[k].do = "forget" => \E p \in calls[i].found : rows[k].of = p[2]
  <1> DEFINE found == calls[i].found
             n == Cardinality(found)
  <1>1. found \in SUBSET (Name \X Token) /\ IsFiniteSet(found)
    BY DEF TypeInv, CallsType, CallOK, Call
  <1>2. n \in Nat
    BY <1>1, FS_CardinalityType
  <1>3. PICK order \in [1..n -> found] :
              page' = page \o [k \in 1..2 * Len(order) |->
                                  IF k % 2 = 1 THEN [do |-> "erase", of |-> order[(k + 1) \div 2][1]]
                                               ELSE [do |-> "forget", of |-> order[k \div 2][2]]]
    BY DEF NamespaceFinds
  <1> HIDE DEF n
  <1>4. Len(order) = n
    BY <1>2, <1>3
  <1> DEFINE rows == [k \in 1..2 * Len(order) |->
                        IF k % 2 = 1 THEN [do |-> "erase", of |-> order[(k + 1) \div 2][1]]
                                     ELSE [do |-> "forget", of |-> order[k \div 2][2]]]
  <1>5. ASSUME NEW k \in 1..2 * n
        PROVE  /\ k % 2 = 1 => (k + 1) \div 2 \in 1..n
               /\ k % 2 # 1 => k \div 2 \in 1..n
    BY <1>2
  <1>6. \A k \in 1..n : order[k][1] \in Name /\ order[k][2] \in Token
    BY <1>1, <1>3
  <1>7. ASSUME NEW k \in 1..2 * n PROVE rows[k] \in RowRequest
    <2>1. CASE k % 2 = 1
      <3>1. rows[k] = [do |-> "erase", of |-> order[(k + 1) \div 2][1]]
        BY <1>4, <2>1
      <3>2. order[(k + 1) \div 2][1] \in Name
        BY <1>5, <1>6, <2>1
      <3> QED
        BY <3>1, <3>2 DEF RowRequest
    <2>2. CASE k % 2 # 1
      <3>1. rows[k] = [do |-> "forget", of |-> order[k \div 2][2]]
        BY <1>4, <2>2
      <3>2. order[k \div 2][2] \in Token
        BY <1>5, <1>6, <2>2
      <3> QED
        BY <3>1, <3>2 DEF RowRequest
    <2> QED
      BY <2>1, <2>2
  <1>8. rows \in [1..2 * n -> RowRequest]
    BY <1>4, <1>7
  <1>12. ASSUME NEW k \in 1..2 * n, rows[k].do = "forget"
         PROVE  \E p \in found : rows[k].of = p[2]
    <2>1. k % 2 # 1
      BY <1>4, <1>12
    <2>2. k \div 2 \in 1..n /\ rows[k] = [do |-> "forget", of |-> order[k \div 2][2]]
      BY <1>4, <1>5, <2>1
    <2>3. PICK p \in found : p = order[k \div 2]
      BY <1>3, <2>2
    <2>4. rows[k].of = p[2]
      BY <2>2, <2>3
    <2> QED
      BY <2>4
  <1> HIDE DEF rows
  <1>9. rows \in Seq(RowRequest) /\ Len(rows) = 2 * n
    BY <1>2, <1>8
  <1>10. found = {} => n = 0
    BY FS_EmptySet DEF n
  <1>11. found = {} => rows = <<>>
    BY <1>9, <1>10, EmptySeq
  <1>13. DOMAIN rows = 1..2 * n
    BY <1>8
  <1> QED
    BY <1>3, <1>9, <1>11, <1>12, <1>13 DEF rows

\* A new queue gets a token of its own, and its call asks for the transaction.
LEMMA ObtainCreatesEffect ==
    ASSUME TypeInv, NEW i \in DOMAIN calls, ObtainCreates(i)
    PROVE  \E t \in Token \ generated : \E d :
              /\ generated' = generated \cup {t}
              /\ calls' = [calls EXCEPT ![i] = d]
              /\ CallOK(d) /\ d.at = "commit" /\ d.kind = "obtain"
              /\ d.token = t /\ d.name = calls[i].name /\ d.found = calls[i].found
  <1> DEFINE c == calls[i]
  <1>1. PICK t \in Token \ generated :
              /\ generated' = generated \cup {t}
              /\ calls' = [calls EXCEPT ![i].at = "commit", ![i].token = t]
    BY DEF ObtainCreates
  <1> DEFINE d == [c EXCEPT !.at = "commit", !.token = t]
  <1>2. CallOK(c) /\ c.kind = "obtain" /\ c \in Call
    BY DEF TypeInv, CallsType, ObtainCreates, CallOK
  <1>3. /\ d \in Call /\ d.kind = c.kind /\ d.at = "commit" /\ d.token = t
        /\ d.name = c.name /\ d.found = c.found
    BY <1>2 DEF Call
  <1>4. calls' = [calls EXCEPT ![i] = d]
    BY <1>1, <1>2 DEF Call, TypeInv, CallsType
  <1> HIDE DEF d
  <1>5. CallOK(d)
    BY <1>2, <1>3 DEF CallOK
  <1> QED
    BY <1>1, <1>2, <1>3, <1>4, <1>5

\* So does the call that deletes a queue.
LEMMA DeleteFindsEffect ==
    ASSUME TypeInv, NEW i \in DOMAIN calls, DeleteFinds(i)
    PROVE  \E d : /\ calls' = [calls EXCEPT ![i] = d] /\ CallOK(d) /\ d.at = "commit"
                  /\ d.kind = "delete" /\ d.token = calls[i].token /\ d.token \in Token
                  /\ d.found = calls[i].found
  <1> DEFINE c == calls[i]
             d == [c EXCEPT !.at = "commit"]
  <1>2. CallOK(c) /\ c.kind = "delete" /\ c \in Call /\ c.token \in Token
    BY DEF TypeInv, CallsType, DeleteFinds, CallOK, Call
  <1>3. /\ d \in Call /\ d.kind = c.kind /\ d.at = "commit" /\ d.token = c.token
        /\ d.name = c.name /\ d.found = c.found
    BY <1>2 DEF Call
  <1>4. calls' = [calls EXCEPT ![i] = d]
    BY <1>2 DEF Call, TypeInv, CallsType, DeleteFinds
  <1> HIDE DEF d
  <1>5. CallOK(d)
    BY <1>2, <1>3 DEF CallOK
  <1> QED
    BY <1>2, <1>3, <1>4, <1>5

\* Whatever comes of an answer, the calls and the requests stay in order.
LEMMA AnsweredCalls ==
    ASSUME TypeInv, PageInv, NEW i \in DOMAIN calls,
           \/ ObtainFinds(i) \/ ObtainCreates(i) \/ ObtainFinishes(i)
           \/ DeleteFinds(i) \/ NothingFound(i) \/ SenderFinds(i) \/ NamespaceFinds(i)
    PROVE  CallsType' /\ PageInv'
  <1>0. CallsType
    BY DEF TypeInv
  <1>a. /\ UNCHANGED started /\ calls[i].at \notin {"snapshot", "commit"}
        /\ page \in Seq(Request) /\ i \in Nat /\ started \in Nat
    <2>1. UNCHANGED started /\ calls[i].at \in {"answer", "done"}
      BY DEF ObtainFinds, ObtainCreates, ObtainFinishes, DeleteFinds, NothingFound, SenderFinds,
             NamespaceFinds, budget
    <2>2. page \in Seq(Request) /\ i \in Nat /\ started \in Nat
      BY DEF TypeInv, CallsType, BudgetType, Request
    <2> QED
      BY <2>1, <2>2
  <1>1. CASE ObtainFinds(i) \/ ObtainFinishes(i) \/ NothingFound(i) \/ SenderFinds(i)
    <2>1. calls' = Without(calls, i) /\ UNCHANGED page
      BY <1>1 DEF ObtainFinds, ObtainFinishes, NothingFound, SenderFinds
    <2>2. /\ DOMAIN calls' = DOMAIN calls \ {i}
          /\ calls' \in [DOMAIN calls' -> Call]
          /\ \A j \in DOMAIN calls : j # i => calls'[j] = calls[j]
          /\ \A j \in DOMAIN calls' : CallOK(calls'[j])
      BY <1>0, <2>1, CallRemoved
    <2>3. PageInv'
      BY <1>a, <2>1, <2>2, PageKept
    <2> QED
      BY <1>0, <1>a, <2>1, <2>2, <2>3 DEF CallsType
  <1>2. CASE ObtainCreates(i) \/ DeleteFinds(i)
    <2>1. \E d : calls' = [calls EXCEPT ![i] = d] /\ CallOK(d) /\ d.at = "commit"
      BY <1>2, ObtainCreatesEffect, DeleteFindsEffect
    <2>2. PICK d : calls' = [calls EXCEPT ![i] = d] /\ CallOK(d) /\ d.at = "commit"
      BY <2>1
    <2>3. /\ DOMAIN calls' = DOMAIN calls
          /\ calls' \in [DOMAIN calls' -> Call]
          /\ calls'[i] = d
          /\ \A j \in DOMAIN calls : j # i => calls'[j] = calls[j]
          /\ \A j \in DOMAIN calls' : CallOK(calls'[j])
      BY <1>0, <2>2, CallReplaced
    <2>4. page' = Append(page, [do |-> "commit", of |-> i])
      BY <1>2 DEF ObtainCreates, DeleteFinds
    <2>5. PageInv' /\ page' \in Seq(Request)
      BY <1>0, <1>a, <2>2, <2>3, <2>4, PageMade
    <2> QED
      BY <1>0, <1>a, <2>3, <2>5 DEF CallsType, Request
  <1>3. CASE NamespaceFinds(i)
    <2>1. calls' = Without(calls, i)
      BY <1>3 DEF NamespaceFinds
    <2>2. /\ DOMAIN calls' = DOMAIN calls \ {i}
          /\ calls' \in [DOMAIN calls' -> Call]
          /\ \A j \in DOMAIN calls : j # i => calls'[j] = calls[j]
          /\ \A j \in DOMAIN calls' : CallOK(calls'[j])
      BY <1>0, <2>1, CallRemoved
    <2>3. PICK rows \in Seq(RowRequest) : page' = page \o rows
      BY <1>3, NamespaceRows
    <2>4. rows \in Seq(Request) /\ \A k \in DOMAIN rows : rows[k] \in RowRequest
      BY <2>3 DEF Request
    <2>5. /\ page' \in Seq(Request)
          /\ DOMAIN page' = 1..(Len(page) + Len(rows))
          /\ DOMAIN page = 1..Len(page) /\ DOMAIN rows = 1..Len(rows)
          /\ Len(page) \in Nat /\ Len(rows) \in Nat
          /\ \A k \in 1..(Len(page) + Len(rows)) :
                page'[k] = IF k <= Len(page) THEN page[k] ELSE rows[k - Len(page)]
      BY <1>a, <2>3, <2>4, ConcatProperties
    <2>6. \A k \in DOMAIN page' : OfCall(k)' => k \in DOMAIN page /\ page'[k] = page[k]
      <3> SUFFICES ASSUME NEW k \in DOMAIN page', k \notin DOMAIN page PROVE ~OfCall(k)'
        BY <2>5
      <3>1. k - Len(page) \in DOMAIN rows /\ page'[k] = rows[k - Len(page)]
        BY <2>5
      <3> QED
        BY <2>4, <3>1 DEF OfCall, RowRequest
    <2>7. \A k \in DOMAIN page' : OfCall(k)' => OfCall(k) /\ page[k].of # i
      BY <1>a, <2>6 DEF OfCall, PageInv
    <2>8. ASSUME NEW k \in DOMAIN page', OfCall(k)'
          PROVE  page'[k].of \in DOMAIN calls' /\ calls'[page'[k].of].at = page'[k].do
      BY <2>2, <2>6, <2>7, <2>8 DEF PageInv
    <2>9. ASSUME NEW j \in DOMAIN page', NEW k \in DOMAIN page', OfCall(j)', OfCall(k)',
                 page'[j].of = page'[k].of
          PROVE  j = k
      BY <2>6, <2>7, <2>9 DEF PageInv
    <2>10. PageInv'
      BY <2>8, <2>9 DEF PageInv
    <2> QED
      BY <1>0, <1>a, <2>2, <2>5, <2>10 DEF CallsType, Request
  <1> QED
    BY <1>1, <1>2, <1>3

\* Every step keeps the calls and the requests in order.
LEMMA CallsStep ==
    ASSUME TypeInv, PageInv, Next
    PROVE  CallsType' /\ PageInv'
  <1>1. ASSUME UNCHANGED <<calls, page>>, started' \in {started, started + 1}
        PROVE  CallsType' /\ PageInv'
    <2>1. started \in Nat
      BY DEF TypeInv, BudgetType
    <2> QED
      BY <1>1, <2>1 DEF TypeInv, CallsType, PageInv, OfCall
  <1>2. ASSUME Restart, started' \in {started, started + 1}
        PROVE  CallsType' /\ PageInv'
    <2>1. started' \in Nat
      BY <1>2 DEF TypeInv, BudgetType
    <2>2. calls' = <<>> /\ page' = <<>>
      BY <1>2 DEF Restart
    <2>3. DOMAIN calls' = {} /\ calls' \in [{} -> Call] /\ DOMAIN page' = {}
      BY <2>2, EmptyFunction
    <2>4. page' \in Seq(Request)
      BY <2>2
    <2> QED
      BY <2>1, <2>3, <2>4 DEF CallsType, PageInv, Request
  <1>3. CASE PageHandles
    BY <1>3, PageHandlesCalls
  <1>4. CASE Answered
    BY <1>4, AnsweredCalls DEF Answered
  <1>5. CASE Crash
    BY <1>2, <1>5 DEF Crash
  <1>6. CASE \E t \in Token : Received(t)
    BY <1>1, <1>6 DEF Received
  <1>7. CASE Client
    <2>1. ASSUME NEW n \in Name, RegisterWatcher(n) PROVE CallsType' /\ PageInv'
      BY <1>1, <2>1 DEF RegisterWatcher
    <2>2. ASSUME NEW n \in Name, DropWatcher(n) PROVE CallsType' /\ PageInv'
      BY <1>1, <1>2, <2>2 DEF DropWatcher
    <2>3. ASSUME NEW n \in Name, ObtainMessageQueue(n) \/ DeleteMessageQueue(n)
          PROVE  CallsType' /\ PageInv'
      BY <2>3, NewCallOK, StartEffect DEF ObtainMessageQueue, DeleteMessageQueue
    <2>4. CASE DeleteNamespace
      BY <2>4, NewCallOK, StartEffect DEF DeleteNamespace
    <2>5. ASSUME NEW t \in Token, GetMessageSender(t) PROVE CallsType' /\ PageInv'
      <3>1. CASE Open(t)
        BY <1>1, <2>5, <3>1 DEF GetMessageSender, budget
      <3>2. CASE ~Open(t)
        BY <2>5, <3>2, NewCallOK, StartEffect DEF GetMessageSender
      <3> QED
        BY <3>1, <3>2
    <2>6. ASSUME NEW t \in Token, Send(t) \/ RegisterReceiver(t) \/ ReaderClosed(t)
          PROVE  CallsType' /\ PageInv'
      BY <1>1, <2>6 DEF Send, RegisterReceiver, ReaderClosed, budget
    <2> QED
      BY <1>7, <2>1, <2>2, <2>3, <2>4, <2>5, <2>6 DEF Client
  <1> QED
    BY <1>3, <1>4, <1>5, <1>6, <1>7 DEF Next

-----------------------------------------------------------------------------
(* The other types *)

\* The rows change by one queue at a time.
LEMMA RowsStep ==
    ASSUME TypeInv, PageInv, Next
    PROVE  RowsType' /\ FiniteRows'
  <1> DEFINE Rows == {p \in Name \X Token : named[p[1]] = p[2]}
  <1>0. /\ named \in [Name -> Token \cup {None}] /\ infos \in [Token -> Name \cup {None}]
        /\ IsFiniteSet(Rows)
    BY DEF TypeInv, RowsType, FiniteRows
  <1>1. ASSUME UNCHANGED <<named, infos>> PROVE RowsType' /\ FiniteRows'
    BY <1>0, <1>1 DEF RowsType, FiniteRows
  <1>2. ASSUME named' \in [Name -> Token \cup {None}], infos' \in [Token -> Name \cup {None}],
               NEW n, NEW t,
               \A p \in Name \X Token : named'[p[1]] = p[2] => p \in Rows \/ p = <<n, t>>
        PROVE  RowsType' /\ FiniteRows'
    <2>1. IsFiniteSet(Rows \cup {<<n, t>>})
      BY <1>0, FS_AddElement
    <2>2. {p \in Name \X Token : named'[p[1]] = p[2]} \subseteq Rows \cup {<<n, t>>}
      BY <1>2
    <2>3. FiniteRows'
      BY <2>1, <2>2, FS_Subset DEF FiniteRows
    <2> QED
      BY <1>2, <2>3 DEF RowsType
  <1>3. CASE PageHandles
    <2> DEFINE i == page[1].of
    <2>0. Head(page) = page[1]
      BY <1>3, FirstRequest
    <2>1. CASE /\ page[1] \in CallRequest /\ OfCall(1)
               /\ i \in DOMAIN calls /\ CallOK(calls[i])
               /\ calls[i].at = page[1].do
      <3>1. page[1].do \notin {"erase", "forget"}
        BY <2>1 DEF CallRequest
      <3>2. PageSnapshots(i) \/ PageSnapshotFails(i) \/ PageCreates(i) \/ PageDeletes(i)
        BY <1>3, <2>0, <3>1 DEF PageHandles, PageErases
      <3>3. CASE UNCHANGED <<named, infos>>
        BY <1>1, <3>3
      <3>4. ASSUME PageCreates(i), ~UNCHANGED <<named, infos>> PROVE RowsType' /\ FiniteRows'
        <4> DEFINE n == calls[i].name
                   t == calls[i].token
        <4>1. /\ named' = [named EXCEPT ![n] = t] /\ infos' = [infos EXCEPT ![t] = n]
              /\ calls[i].kind = "obtain" /\ calls[i].at = "commit"
          BY <3>4 DEF PageCreates, ledger
        <4>2. n \in Name /\ t \in Token
          BY <2>1, <4>1 DEF CallOK
        <4> HIDE DEF n, t
        <4>3. named' \in [Name -> Token \cup {None}] /\ infos' \in [Token -> Name \cup {None}]
          BY <1>0, <4>1, <4>2
        <4>4. \A p \in Name \X Token : named'[p[1]] = p[2] => p \in Rows \/ p = <<n, t>>
          BY <1>0, <4>1, <4>2
        <4> QED
          BY <1>2, <4>3, <4>4
      <3>5. ASSUME PageDeletes(i), ~UNCHANGED <<named, infos>> PROVE RowsType' /\ FiniteRows'
        <4> DEFINE n == calls[i].name
                   t == calls[i].token
        <4>1. /\ named' = [named EXCEPT ![n] = None] /\ infos' = [infos EXCEPT ![t] = None]
          BY <3>5 DEF PageDeletes, ledger
        <4> HIDE DEF n, t
        <4>3. named' \in [Name -> Token \cup {None}] /\ infos' \in [Token -> Name \cup {None}]
          BY <1>0, <4>1
        <4>4. \A p \in Name \X Token : named'[p[1]] = p[2] => p \in Rows \/ p = <<n, t>>
          BY <1>0, <4>1, NoneAssumption
        <4> QED
          BY <1>2, <4>3, <4>4
      <3> QED
        BY <3>2, <3>3, <3>4, <3>5 DEF PageSnapshots, PageSnapshotFails, ledger
    <2>2. CASE page[1] \in RowRequest /\ ~OfCall(1)
      <3>1. PageErases(page[1])
        BY <1>3, <2>0, <2>2 DEF PageHandles, OfCall
      <3> DEFINE x == page[1].of
      <3>2. \/ named' = [named EXCEPT ![x] = None] /\ infos' = infos
            \/ infos' = [infos EXCEPT ![x] = None] /\ named' = named
        BY <3>1 DEF PageErases
      <3> HIDE DEF x
      <3>3. named' \in [Name -> Token \cup {None}] /\ infos' \in [Token -> Name \cup {None}]
        BY <1>0, <3>2
      <3>4. \A p \in Name \X Token : named'[p[1]] = p[2] => p \in Rows \/ p = <<x, None>>
        BY <1>0, <3>2, NoneAssumption
      <3> QED
        BY <1>2, <3>3, <3>4
    <2> QED
      BY <1>3, <2>1, <2>2, FirstRequest
  <1>4. CASE ~PageHandles
    <2>1. UNCHANGED <<named, infos>>
      BY <1>4 DEF Next, Client, Answered, ObtainMessageQueue, DeleteMessageQueue, DeleteNamespace,
         Start, GetMessageSender, RegisterWatcher, DropWatcher, Send, RegisterReceiver,
         ReaderClosed, Received, Crash, Restart, ObtainFinds, ObtainCreates, ObtainFinishes,
         DeleteFinds, NothingFound, SenderFinds, NamespaceFinds, ledger
    <2> QED
      BY <1>1, <2>1
  <1> QED
    BY <1>3, <1>4

\* The three calls that open a queue know its name and token.
Opens(n, t) ==
    \E i \in DOMAIN calls, sender \in BOOLEAN :
        /\ \/ ObtainFinds(i) /\ sender = FALSE
           \/ ObtainFinishes(i) /\ sender = FALSE
           \/ SenderFinds(i) /\ sender = TRUE
        /\ n = calls[i].name /\ t = calls[i].token
        /\ n \in Name /\ t \in Token
        /\ GetMessageQueueStorage(n, t, sender)

LEMMA OpenSteps ==
    ASSUME TypeInv, NEW i \in DOMAIN calls, ObtainFinds(i) \/ ObtainFinishes(i) \/ SenderFinds(i)
    PROVE  /\ Opens(calls[i].name, calls[i].token)
           /\ UNCHANGED <<files, watching, budget, raced, named, infos, page>>
           /\ calls' = Without(calls, i)
  <1> DEFINE n == calls[i].name
             t == calls[i].token
  <1>0. CallOK(calls[i]) /\ n \in Name \cup {None} /\ t \in Token \cup {None}
    BY DEF TypeInv, CallsType, CallOK, Call
  <1>1. n \in Name /\ t \in Token
    BY <1>0 DEF CallOK, ObtainFinds, ObtainFinishes, SenderFinds
  <1>2. /\ UNCHANGED <<files, watching, budget, raced, named, infos, page>>
        /\ calls' = Without(calls, i)
    BY DEF ObtainFinds, ObtainFinishes, SenderFinds, ledger
  <1>3. CASE ObtainFinds(i) \/ ObtainFinishes(i)
    <2>1. GetMessageQueueStorage(n, t, FALSE)
      BY <1>3 DEF ObtainFinds, ObtainFinishes
    <2> QED
      BY <1>1, <1>2, <1>3, <2>1 DEF Opens
  <1>4. CASE SenderFinds(i)
    <2>1. GetMessageQueueStorage(n, t, TRUE)
      BY <1>4 DEF SenderFinds
    <2> QED
      BY <1>1, <1>2, <1>4, <2>1 DEF Opens
  <1> QED
    BY <1>3, <1>4

\* A queue is closed.
LEMMA ClearEffect ==
    ASSUME QueuesType, NEW n, NEW t, ClearMessageQueueStorage(n, t)
    PROVE  /\ DOMAIN queues' = DOMAIN queues \ {t}
           /\ queues' \in [DOMAIN queues' -> Storage]
           /\ \A u \in DOMAIN queues' : queues'[u] = queues[u]
  <1>1. queues \in [DOMAIN queues -> Storage] /\ queues' = Without(queues, t)
    BY DEF QueuesType, ClearMessageQueueStorage
  <1> QED
    BY <1>1 DEF Without

\* A watcher is registered with an open queue, or waits.
LEMMA RegisterWatcherEffect ==
    ASSUME QueuesType, NEW n, RegisterWatcher(n)
    PROVE  /\ DOMAIN queues' = DOMAIN queues
           /\ queues' \in [DOMAIN queues' -> Storage]
           /\ \A u \in DOMAIN queues :
                queues'[u] = IF u = tokens[n] /\ tokens[n] # None THEN Watched(queues[u])
                             ELSE queues[u]
  <1>1. queues \in [DOMAIN queues -> Storage]
    BY DEF QueuesType
  <1>2. CASE tokens[n] = None
    BY <1>1, <1>2 DEF RegisterWatcher
  <1>3. CASE tokens[n] # None
    <2>1. queues' = [queues EXCEPT ![tokens[n]] = Watched(queues[tokens[n]])]
      BY <1>3 DEF RegisterWatcher
    <2>2. \A u \in DOMAIN queues : Watched(queues[u]) \in Storage
      BY <1>1, WatchedEffect
    <2> QED
      BY <1>1, <1>3, <2>1, <2>2
  <1> QED
    BY <1>2, <1>3

\* GetMessageSender adds a sender to an open queue.
LEMMA SenderAddedEffect ==
    ASSUME QueuesType, NEW t, t \in DOMAIN queues, queues' = [queues EXCEPT ![t].senders = TRUE]
    PROVE  /\ DOMAIN queues' = DOMAIN queues
           /\ queues' \in [DOMAIN queues' -> Storage]
           /\ \A u \in DOMAIN queues : SameStorage(queues[u], queues'[u])
  <1> DEFINE s == [queues[t] EXCEPT !.senders = TRUE]
  <1>1. queues \in [DOMAIN queues -> Storage] /\ queues[t] \in Storage
    BY DEF QueuesType
  <1>2. s \in Storage /\ SameStorage(queues[t], s)
    BY <1>1 DEF Storage, SameStorage
  <1>3. queues' = [queues EXCEPT ![t] = s]
    BY <1>1
  <1> HIDE DEF s
  <1>4. DOMAIN queues' = DOMAIN queues /\ queues' \in [DOMAIN queues' -> Storage]
    BY <1>1, <1>2, <1>3
  <1> QED
    BY <1>1, <1>2, <1>3, <1>4 DEF SameStorage

\* Storages that keep all but their senders, or are closed, stay in order.
LEMMA StoragesKept ==
    ASSUME StorageInv, ServedInv, raced \subseteq raced',
           \A u \in DOMAIN queues' : u \in DOMAIN queues /\ SameStorage(queues[u], queues'[u])
    PROVE  StorageInv' /\ ServedInv'
  <1>1. StorageInv'
    BY DEF StorageInv, StorageOK, SameStorage
  <1>2. ServedInv'
    BY DEF ServedInv, SameStorage, IsEmpty
  <1> QED
    BY <1>1, <1>2

\* One storage becomes s, which is in order and serves its reader.
LEMMA StorageReplaced ==
    ASSUME QueuesType, StorageInv, ServedInv, NEW t, NEW s, OneStorage(t, s), StorageOK(s),
           raced \subseteq raced',
           "replaced" \notin raced' =>
               (s.ackPending => s.offered) /\ (s.reader /\ s.messages # <<>> => s.offered)
    PROVE  DOMAIN queues' \subseteq Token /\ queues' \in [DOMAIN queues' -> Storage]
           /\ StorageInv' /\ ServedInv'
  <1>1. /\ DOMAIN queues' = DOMAIN queues
        /\ queues' \in [DOMAIN queues' -> Storage]
        /\ queues'[t] = s
        /\ \A u \in DOMAIN queues : u # t => queues'[u] = queues[u]
    BY OneStorageType
  <1>2. StorageInv'
    BY <1>1 DEF StorageInv
  <1>3. ServedInv'
    BY <1>1 DEF ServedInv, IsEmpty
  <1> QED
    BY <1>1, <1>2, <1>3 DEF QueuesType

\* Every step keeps the storages in order and serves the readers.
LEMMA QueuesStep ==
    ASSUME TypeInv, PageInv, StorageInv, ServedInv, Next
    PROVE  QueuesType' /\ StorageInv' /\ ServedInv'
  <1> DEFINE Goal == QueuesType' /\ StorageInv' /\ ServedInv'
  <1>0. QueuesType /\ BudgetType
    BY DEF TypeInv
  <1>1. ASSUME UNCHANGED <<queues, files>>, raced \subseteq raced' PROVE Goal
    <2>1. StorageInv' /\ ServedInv'
      BY <1>1, StoragesKept DEF SameStorage
    <2> QED
      BY <1>0, <1>1, <2>1 DEF QueuesType
  <1>2. ASSUME NEW t \in Token, Send(t) PROVE Goal
    <2> DEFINE old == queues[t]
    <2>1. PICK s : /\ OneStorage(t, s)
                   /\ s.messages = Append(old.messages, sent + 1) /\ s.messages # <<>>
                   /\ s.reader = old.reader /\ s.watcher = old.watcher
                   /\ s.told = old.watcher
                   /\ s.offered <=> old.offered \/ (old.reader /\ ~old.ackPending)
                   /\ s.ackPending <=> old.ackPending \/ (old.reader /\ ~old.ackPending)
                   /\ Save(t, s.messages)
      BY <1>0, <1>2, SendEffect
    <2>2. UNCHANGED raced /\ t \in DOMAIN queues /\ s.messages \in Seq(1..MaxMessages)
      BY <1>2, <2>1 DEF Send, Open, OneStorage, Storage
    <2>3. StorageOK(old)
      BY <2>2 DEF StorageInv
    <2>4. StorageOK(s)
      BY <2>1, <2>3 DEF StorageOK
    <2>5. "replaced" \notin raced' =>
               (s.ackPending => s.offered) /\ (s.reader /\ s.messages # <<>> => s.offered)
      BY <2>1, <2>2 DEF ServedInv, IsEmpty
    <2>6. DOMAIN queues' \subseteq Token /\ queues' \in [DOMAIN queues' -> Storage]
          /\ StorageInv' /\ ServedInv'
      BY <1>0, <2>1, <2>2, <2>4, <2>5, StorageReplaced
    <2>7. files' \in [Token -> Seq(1..MaxMessages)]
      BY <1>0, <2>1, <2>2, SaveEffect
    <2> QED
      BY <2>6, <2>7 DEF QueuesType
  <1>3. ASSUME NEW t \in Token, RegisterReceiver(t) PROVE Goal
    <2> DEFINE old == queues[t]
               sends == ~old.ackPending /\ old.messages # <<>>
    <2>1. PICK s : /\ OneStorage(t, s)
                   /\ s.messages = old.messages /\ s.reader
                   /\ s.watcher = old.watcher /\ s.told = old.told
                   /\ s.offered <=> sends
                   /\ s.ackPending <=> old.ackPending \/ sends
      BY <1>0, <1>3, RegisterReceiverEffect
    <2>2. /\ raced \subseteq raced' /\ t \in DOMAIN queues /\ UNCHANGED files
          /\ (old.offered => "replaced" \in raced')
      BY <1>3 DEF RegisterReceiver, Open
    <2>3. StorageOK(old)
      BY <2>2 DEF StorageInv
    <2>4. StorageOK(s)
      BY <2>1, <2>3 DEF StorageOK
    <2>5. "replaced" \notin raced' =>
               (s.ackPending => s.offered) /\ (s.reader /\ s.messages # <<>> => s.offered)
      BY <2>1, <2>2 DEF ServedInv
    <2>6. DOMAIN queues' \subseteq Token /\ queues' \in [DOMAIN queues' -> Storage]
          /\ StorageInv' /\ ServedInv'
      BY <1>0, <2>1, <2>2, <2>4, <2>5, StorageReplaced
    <2> QED
      BY <1>0, <2>2, <2>6 DEF QueuesType
  <1>4. ASSUME NEW t \in Token, ReaderClosed(t) PROVE Goal
    <2> DEFINE old == queues[t]
    <2>1. PICK s : /\ OneStorage(t, s)
                   /\ s.messages = old.messages /\ ~s.reader
                   /\ s.watcher = old.watcher /\ s.told = old.told
                   /\ ~s.offered /\ ~s.ackPending
      BY <1>0, <1>4, ReaderClosedEffect
    <2>2. UNCHANGED <<raced, files>> /\ t \in DOMAIN queues
      BY <1>4 DEF ReaderClosed, Open
    <2>3. StorageOK(old)
      BY <2>2 DEF StorageInv
    <2>4. StorageOK(s)
      BY <2>1, <2>3 DEF StorageOK
    <2>6. DOMAIN queues' \subseteq Token /\ queues' \in [DOMAIN queues' -> Storage]
          /\ StorageInv' /\ ServedInv'
      BY <1>0, <2>1, <2>2, <2>4, StorageReplaced
    <2> QED
      BY <1>0, <2>2, <2>6 DEF QueuesType
  <1>5. ASSUME NEW t \in Token, Received(t) PROVE Goal
    <2> DEFINE old == queues[t]
    <2>1. PICK s : /\ OneStorage(t, s)
                   /\ old.messages # <<>>
                   /\ s.messages \in Seq(1..MaxMessages)
                   /\ s.reader /\ s.watcher = old.watcher /\ s.told = old.told
                   /\ s.offered <=> s.messages # <<>>
                   /\ s.ackPending <=> s.messages # <<>>
                   /\ Save(t, s.messages)
      BY <1>0, <1>5, ReceivedEffect
    <2>2. UNCHANGED raced /\ t \in DOMAIN queues
      BY <1>5 DEF Received, Open
    <2>3. StorageOK(old)
      BY <2>2 DEF StorageInv
    <2>4. StorageOK(s)
      BY <2>1, <2>3 DEF StorageOK
    <2>6. DOMAIN queues' \subseteq Token /\ queues' \in [DOMAIN queues' -> Storage]
          /\ StorageInv' /\ ServedInv'
      BY <1>0, <2>1, <2>2, <2>4, StorageReplaced
    <2>7. files' \in [Token -> Seq(1..MaxMessages)]
      BY <1>0, <2>1, SaveEffect
    <2> QED
      BY <2>6, <2>7 DEF QueuesType
  <1>6. ASSUME NEW n \in Name, RegisterWatcher(n) PROVE Goal
    <2>1. /\ DOMAIN queues' = DOMAIN queues
          /\ queues' \in [DOMAIN queues' -> Storage]
          /\ \A u \in DOMAIN queues :
                queues'[u] = IF u = tokens[n] /\ tokens[n] # None THEN Watched(queues[u])
                             ELSE queues[u]
      BY <1>0, <1>6, RegisterWatcherEffect
    <2>2. UNCHANGED <<raced, files>>
      BY <1>6 DEF RegisterWatcher
    <2>3. ASSUME NEW u \in DOMAIN queues
          PROVE  /\ queues'[u].messages = queues[u].messages
                 /\ queues'[u].reader = queues[u].reader
                 /\ queues'[u].offered = queues[u].offered
                 /\ queues'[u].ackPending = queues[u].ackPending
                 /\ queues'[u] = queues[u] \/ (queues'[u].messages # <<>> => queues'[u].told)
      <3>1. queues[u] \in Storage
        BY <1>0 DEF QueuesType
      <3> QED
        BY <2>1, <3>1, WatchedEffect
    <2>4. StorageInv'
      BY <2>1, <2>3 DEF StorageInv, StorageOK
    <2>5. ServedInv'
      BY <2>1, <2>2, <2>3 DEF ServedInv, IsEmpty
    <2> QED
      BY <1>0, <2>1, <2>2, <2>4, <2>5 DEF QueuesType
  <1>7. ASSUME Restart, raced \subseteq raced' PROVE Goal
    <2>1. queues' = <<>> /\ UNCHANGED files
      BY <1>7 DEF Restart
    <2>2. DOMAIN queues' = {} /\ queues' \in [{} -> Storage]
      BY <2>1, EmptyFunction
    <2> QED
      BY <1>0, <2>1, <2>2 DEF QueuesType, StorageInv, ServedInv
  <1>8. ASSUME NEW n \in Name, DropWatcher(n) PROVE Goal
    BY <1>1, <1>7, <1>8 DEF DropWatcher
  <1>9. CASE Crash
    BY <1>7, <1>9 DEF Crash
  <1>10. ASSUME NEW t \in Token, GetMessageSender(t) PROVE Goal
    <2>1. CASE Open(t)
      <3>1. queues' = [queues EXCEPT ![t].senders = TRUE] /\ UNCHANGED <<files, raced>>
        BY <1>10, <2>1 DEF GetMessageSender
      <3>2. /\ DOMAIN queues' = DOMAIN queues
            /\ queues' \in [DOMAIN queues' -> Storage]
            /\ \A u \in DOMAIN queues : SameStorage(queues[u], queues'[u])
        BY <1>0, <2>1, <3>1, SenderAddedEffect DEF Open
      <3>3. StorageInv' /\ ServedInv'
        BY <3>1, <3>2, StoragesKept
      <3> QED
        BY <1>0, <3>1, <3>2, <3>3 DEF QueuesType
    <2>2. CASE ~Open(t)
      BY <1>1, <1>10, <2>2 DEF GetMessageSender, Start
    <2> QED
      BY <2>1, <2>2
  <1>11. ASSUME NEW i \in DOMAIN calls, ObtainFinds(i) \/ ObtainFinishes(i) \/ SenderFinds(i)
         PROVE  Goal
    <2> DEFINE n == calls[i].name
               t == calls[i].token
    <2>1. Opens(n, t) /\ UNCHANGED <<files, raced>>
      BY <1>11, OpenSteps
    <2>2. t \in Token /\ \E sender \in BOOLEAN : GetMessageQueueStorage(n, t, sender)
      BY <2>1 DEF Opens
    <2> HIDE DEF n, t
    <2>3. /\ DOMAIN queues' = DOMAIN queues \cup {t}
          /\ queues' \in [DOMAIN queues' -> Storage]
          /\ \A u \in DOMAIN queues : SameStorage(queues[u], queues'[u])
          /\ t \notin DOMAIN queues =>
                /\ ~queues'[t].reader /\ ~queues'[t].ackPending
                /\ StorageOK(queues'[t])
      BY <1>0, <2>2, GetStorageEffect
    <2>4. StorageInv'
      BY <2>3 DEF StorageInv, StorageOK, SameStorage
    <2>5. ServedInv'
      BY <2>1, <2>3 DEF ServedInv, SameStorage, IsEmpty
    <2> QED
      BY <1>0, <2>1, <2>2, <2>3, <2>4, <2>5 DEF QueuesType
  <1>12. ASSUME NEW i \in DOMAIN calls, DeleteFinds(i) PROVE Goal
    <2>1. ClearMessageQueueStorage(calls[i].name, calls[i].token)
          /\ UNCHANGED files /\ raced \subseteq raced'
      BY <1>12 DEF DeleteFinds
    <2>2. /\ DOMAIN queues' \subseteq DOMAIN queues
          /\ queues' \in [DOMAIN queues' -> Storage]
          /\ \A u \in DOMAIN queues' : queues'[u] = queues[u]
      BY <1>0, <2>1, ClearEffect
    <2>3. StorageInv' /\ ServedInv'
      BY <2>1, <2>2, StoragesKept DEF SameStorage
    <2> QED
      BY <1>0, <2>1, <2>2, <2>3 DEF QueuesType
  <1>13. ASSUME NEW i \in DOMAIN calls, ObtainCreates(i) \/ NothingFound(i) \/ NamespaceFinds(i)
         PROVE  Goal
    BY <1>1, <1>13 DEF ObtainCreates, NothingFound, NamespaceFinds
  <1>14. CASE Answered
    BY <1>11, <1>12, <1>13, <1>14 DEF Answered
  <1>15. CASE PageHandles
    <2>1. UNCHANGED <<queues, files>> /\ raced \subseteq raced'
      BY <1>15 DEF PageHandles, PageSnapshots, PageSnapshotFails, PageCreates, PageDeletes,
                   PageErases
    <2> QED
      BY <1>1, <2>1
  <1>16. CASE Client
    <2>1. ASSUME NEW n \in Name, ObtainMessageQueue(n) \/ DeleteMessageQueue(n) PROVE Goal
      BY <1>1, <2>1 DEF ObtainMessageQueue, DeleteMessageQueue, Start
    <2>2. CASE DeleteNamespace
      BY <1>1, <2>2 DEF DeleteNamespace, Start
    <2> QED
      BY <1>2, <1>3, <1>4, <1>6, <1>8, <1>10, <1>16, <2>1, <2>2 DEF Client
  <1> QED
    BY <1>5, <1>9, <1>14, <1>15, <1>16 DEF Next

\* Every step keeps the types of the maps of the manager.
LEMMA ManagerStep ==
    ASSUME TypeInv, PageInv, Next
    PROVE  ManagerType'
  <1>0. ManagerType /\ QueuesType
    BY DEF TypeInv
  <1>1. ASSUME UNCHANGED <<tokens, pendingWatch, watching>> PROVE ManagerType'
    BY <1>0, <1>1 DEF ManagerType
  <1>2. ASSUME Restart PROVE ManagerType'
    BY <1>2 DEF ManagerType, Restart
  <1>3. ASSUME NEW n \in Name, RegisterWatcher(n) \/ DropWatcher(n) PROVE ManagerType'
    <2>1. CASE RegisterWatcher(n)
      BY <1>0, <2>1 DEF ManagerType, RegisterWatcher
    <2>2. CASE DropWatcher(n)
      BY <1>0, <1>2, <2>2 DEF ManagerType, DropWatcher
    <2> QED
      BY <1>3, <2>1, <2>2
  <1>4. ASSUME NEW i \in DOMAIN calls, ObtainFinds(i) \/ ObtainFinishes(i) \/ SenderFinds(i)
        PROVE  ManagerType'
    <2> DEFINE n == calls[i].name
               t == calls[i].token
    <2>1. Opens(n, t) /\ UNCHANGED watching
      BY <1>4, OpenSteps
    <2>2. n \in Name /\ t \in Token /\ \E sender \in BOOLEAN : GetMessageQueueStorage(n, t, sender)
      BY <2>1 DEF Opens
    <2> HIDE DEF n, t
    <2>3. \/ UNCHANGED <<tokens, pendingWatch>>
          \/ tokens' = [tokens EXCEPT ![n] = t] /\ pendingWatch' = pendingWatch \ {n}
      BY <2>2 DEF GetMessageQueueStorage
    <2> QED
      BY <1>0, <2>1, <2>2, <2>3 DEF ManagerType
  <1>5. ASSUME NEW i \in DOMAIN calls, DeleteFinds(i) PROVE ManagerType'
    BY <1>0, <1>5 DEF DeleteFinds, ClearMessageQueueStorage, ManagerType
  <1>6. ASSUME NEW i \in DOMAIN calls, ObtainCreates(i) \/ NothingFound(i) \/ NamespaceFinds(i)
        PROVE  ManagerType'
    BY <1>1, <1>6 DEF ObtainCreates, NothingFound, NamespaceFinds, manager
  <1>7. CASE Answered
    BY <1>4, <1>5, <1>6, <1>7 DEF Answered
  <1>8. CASE PageHandles
    BY <1>1, <1>8 DEF PageHandles, manager
  <1>9. CASE Crash
    BY <1>2, <1>9 DEF Crash
  <1>10. CASE \E t \in Token : Received(t)
    BY <1>1, <1>10 DEF Received, manager
  <1>11. CASE Client
    <2>1. ASSUME NEW n \in Name, ObtainMessageQueue(n) \/ DeleteMessageQueue(n) PROVE ManagerType'
      BY <1>1, <2>1 DEF ObtainMessageQueue, DeleteMessageQueue, Start, manager
    <2>2. CASE DeleteNamespace
      BY <1>1, <2>2 DEF DeleteNamespace, Start, manager
    <2>3. ASSUME NEW t \in Token,
                 GetMessageSender(t) \/ Send(t) \/ RegisterReceiver(t) \/ ReaderClosed(t)
          PROVE  ManagerType'
      BY <1>1, <2>3 DEF GetMessageSender, Start, Send, RegisterReceiver, ReaderClosed, manager
    <2> QED
      BY <1>3, <1>11, <2>1, <2>2, <2>3 DEF Client
  <1> QED
    BY <1>7, <1>8, <1>9, <1>10, <1>11 DEF Next

\* Every step keeps within the bounds.
LEMMA BudgetStep ==
    ASSUME TypeInv, PageInv, StorageInv, Next
    PROVE  BudgetType'
  <1> USE BoundAssumption
  <1>0. BudgetType /\ QueuesType
    BY DEF TypeInv
  <1>1. ASSUME started' \in {started, started + 1}, started' = started \/ started < MaxCalls,
               UNCHANGED <<sent, generated, faults, crashes>>,
               raced' \subseteq raced \cup Event
        PROVE  BudgetType'
    BY <1>0, <1>1 DEF BudgetType
  <1>2. ASSUME NEW t \in Token, Send(t) PROVE BudgetType'
    <2>1. PICK s : OneStorage(t, s) /\ Save(t, s.messages) /\ sent + 1 \in 1..MaxMessages
      BY <1>0, <1>2, SendEffect
    <2>2. s.messages \in Seq(1..MaxMessages)
      BY <2>1 DEF OneStorage, Storage
    <2>3. faults' \in 0..MaxFaults
      BY <1>0, <2>1, <2>2, SaveEffect
    <2>4. sent' = sent + 1 /\ UNCHANGED <<started, generated, raced, crashes>>
      BY <1>2 DEF Send
    <2> QED
      BY <1>0, <2>1, <2>3, <2>4 DEF BudgetType
  <1>3. ASSUME NEW t \in Token, Received(t) PROVE BudgetType'
    <2>1. PICK s : s.messages \in Seq(1..MaxMessages) /\ Save(t, s.messages)
      BY <1>0, <1>3, ReceivedEffect
    <2>2. faults' \in 0..MaxFaults
      BY <1>0, <2>1, SaveEffect
    <2>3. UNCHANGED <<started, sent, generated, raced, crashes>>
      BY <1>3 DEF Received
    <2> QED
      BY <1>0, <2>2, <2>3 DEF BudgetType
  <1>4. ASSUME NEW n \in Name, RegisterWatcher(n) \/ DropWatcher(n) PROVE BudgetType'
    BY <1>0, <1>1, <1>4 DEF RegisterWatcher, DropWatcher, Restart, Event
  <1>5. ASSUME NEW kind, NEW n, NEW t, Start(kind, n, t) PROVE BudgetType'
    BY <1>0, <1>1, <1>5 DEF Start
  <1>6. ASSUME NEW t \in Token, GetMessageSender(t) \/ RegisterReceiver(t) \/ ReaderClosed(t)
        PROVE  BudgetType'
    <2>1. CASE GetMessageSender(t) /\ ~Open(t)
      BY <1>5, <2>1 DEF GetMessageSender
    <2>2. CASE GetMessageSender(t) /\ Open(t)
      BY <1>1, <2>2 DEF GetMessageSender, budget
    <2>3. CASE RegisterReceiver(t) \/ ReaderClosed(t)
      BY <1>1, <2>3 DEF RegisterReceiver, ReaderClosed, budget, Event
    <2> QED
      BY <1>6, <2>1, <2>2, <2>3
  <1>7. CASE Client
    BY <1>2, <1>4, <1>5, <1>6, <1>7 DEF Client, ObtainMessageQueue, DeleteMessageQueue,
       DeleteNamespace
  <1>8. CASE PageHandles
    <2>1. /\ UNCHANGED <<started, sent, generated, crashes>>
          /\ faults' = faults \/ (faults < MaxFaults /\ faults' = faults + 1)
          /\ raced' \subseteq raced \cup Event
      BY <1>8 DEF PageHandles, PageSnapshots, PageSnapshotFails, PageCreates, PageDeletes,
                  PageErases, Event
    <2> QED
      BY <1>0, <2>1 DEF BudgetType
  <1>9. CASE Crash
    BY <1>0, <1>9 DEF Crash, Restart, BudgetType
  <1>10. ASSUME NEW i \in DOMAIN calls, ObtainCreates(i) PROVE BudgetType'
    BY <1>0, <1>10 DEF ObtainCreates, BudgetType, Event
  <1>11. ASSUME NEW i \in DOMAIN calls,
                \/ ObtainFinds(i) \/ ObtainFinishes(i) \/ SenderFinds(i) \/ DeleteFinds(i)
                \/ NothingFound(i) \/ NamespaceFinds(i)
         PROVE  BudgetType'
    BY <1>1, <1>11 DEF ObtainFinds, ObtainFinishes, SenderFinds, DeleteFinds, NothingFound,
                       NamespaceFinds, budget, Event
  <1> QED
    BY <1>3, <1>7, <1>8, <1>9, <1>10, <1>11 DEF Next, Answered

-----------------------------------------------------------------------------
(* DoomInv: which queues may have messages, and what leads to them *)

\* Nothing leads back to a queue whose token was generated before.
NoWayBack == \A t \in generated : Leads(t)' => Leads(t)

\* What was a queue's stays so, for a call as well.
LEMMA CallStaysKept ==
    ASSUME NEW c, NEW K, NEW D, NEW G, CallKept(c, K, D, G),
           NEW L, NEW E, NEW H, K \subseteq L, D \subseteq E, G \subseteq H
    PROVE  CallKept(c, L, E, H)
  BY DEF CallKept

\* What a step has to respect.
Respects ==
    /\ Kept \subseteq Kept' /\ doomed \subseteq doomed' /\ generated \subseteq generated'
    /\ Kept' \subseteq generated'
    /\ \A n \in Name : named'[n] # None =>
          named'[n] = named[n] \/ (named'[n] \in Kept' /\ Leads(named'[n]))
    /\ \A t \in Token : infos'[t] # None => infos[t] # None \/ Leads(t)
    /\ \A t \in Token : files'[t] # <<>> => files[t] # <<>> \/ t \in Kept
    /\ \A t \in DOMAIN queues' : t \in DOMAIN queues \/ (t \in Kept' /\ Leads(t))
    /\ \A j \in DOMAIN calls' :
          \/ j \in DOMAIN calls /\ calls'[j] = calls[j]
          \/ /\ CallKept(calls'[j], Kept', doomed', generated')
             /\ WillOpen(calls'[j]) /\ calls'[j].token \in generated => Leads(calls'[j].token)
    /\ \A k \in DOMAIN page' : page'[k].do = "forget" => page'[k].of \in doomed'

LEMMA RespectsKeeps ==
    ASSUME TypeInv, DoomInv, Respects
    PROVE  DoomInv' /\ NoWayBack
  <1>1. RowsKept'
    BY DEF Respects, DoomInv, RowsKept
  <1>2. FilesKept'
    BY DEF Respects, DoomInv, FilesKept
  <1>3. CallsKept'
    <2> SUFFICES ASSUME NEW j \in DOMAIN calls'
                 PROVE  CallKept(calls'[j], Kept', doomed', generated')
      BY DEF CallsKept
    <2>1. CASE j \in DOMAIN calls /\ calls'[j] = calls[j]
      <3>1. CallKept(calls[j], Kept, doomed, generated)
        BY <2>1 DEF DoomInv, CallsKept
      <3>2. Kept \subseteq Kept' /\ doomed \subseteq doomed' /\ generated \subseteq generated'
        BY DEF Respects
      <3> QED
        BY <2>1, <3>1, <3>2, CallStaysKept
    <2> QED
      BY <2>1 DEF Respects
  <1>4. RequestsKept'
    BY DEF Respects, RequestsKept
  <1>5. NoWayBack
    <2> SUFFICES ASSUME NEW t \in generated, Leads(t)' PROVE Leads(t)
      BY DEF NoWayBack
    <2>0. t \in Token
      BY DEF TypeInv, BudgetType
    <2>1. CASE t \in DOMAIN queues'
      BY <2>1 DEF Respects, Leads, Open
    <2>2. CASE infos'[t] # None
      BY <2>0, <2>2 DEF Respects, Leads
    <2>3. CASE \E n \in Name : named'[n] = t
      <3>1. PICK n \in Name : named'[n] = t
        BY <2>3
      <3>2. t # None
        BY <2>0, NoneAssumption
      <3> QED
        BY <3>1, <3>2 DEF Respects, Leads
    <2>4. CASE \E j \in DOMAIN calls' : calls'[j].token = t /\ WillOpen(calls'[j])
      <3>1. PICK j \in DOMAIN calls' : calls'[j].token = t /\ WillOpen(calls'[j])
        BY <2>4
      <3>2. CASE j \in DOMAIN calls /\ calls'[j] = calls[j]
        BY <3>1, <3>2 DEF Leads
      <3> QED
        BY <3>1, <3>2 DEF Respects
    <2>5. \/ t \in DOMAIN queues' \/ infos'[t] # None \/ \E n \in Name : named'[n] = t
          \/ \E j \in DOMAIN calls' : calls'[j].token = t /\ WillOpen(calls'[j])
      BY DEF Leads, Open, WillOpen
    <2> QED
      BY <2>1, <2>2, <2>3, <2>4, <2>5
  <1> QED
    BY <1>1, <1>2, <1>3, <1>4, <1>5 DEF DoomInv

\* A step that leaves the rows, the calls and the requests alone, and opens
\* nothing.
LEMMA StorageStepRespects ==
    ASSUME TypeInv, DoomInv, UNCHANGED <<named, infos, calls, page, generated, doomed>>,
           DOMAIN queues' \subseteq DOMAIN queues,
           \A t \in Token : files'[t] # <<>> => files[t] # <<>> \/ t \in DOMAIN queues
    PROVE  Respects
  <1>1. Kept' = Kept
    BY DEF Kept
  <1>2. \A t \in Token : files'[t] # <<>> => files[t] # <<>> \/ t \in Kept
    BY DEF DoomInv, FilesKept
  <1>3. Kept \subseteq generated
    BY DEF DoomInv, RowsKept
  <1>4. \A k \in DOMAIN page' : page'[k].do = "forget" => page'[k].of \in doomed'
    BY DEF DoomInv, RequestsKept
  <1> QED
    BY <1>1, <1>2, <1>3, <1>4 DEF Respects

\* The process ends: no call and no open queue is left.
LEMMA RestartRespects ==
    ASSUME TypeInv, DoomInv, Restart
    PROVE  Respects
  <1>1. /\ UNCHANGED <<named, infos, files, generated, doomed>>
        /\ DOMAIN queues' = {} /\ DOMAIN calls' = {} /\ DOMAIN page' = {}
    BY EmptyFunction DEF Restart, ledger
  <1>2. Kept' = Kept
    BY <1>1 DEF Kept
  <1>3. Kept \subseteq generated
    BY DEF DoomInv, RowsKept
  <1> QED
    BY <1>1, <1>2, <1>3 DEF Respects

\* An operation is made, which knows no queue yet that it would open.
LEMMA StartRespects ==
    ASSUME TypeInv, PageInv, DoomInv, NEW kind, NEW n, NEW t, Start(kind, n, t),
           CallOK([kind |-> kind, at |-> "snapshot", name |-> n, token |-> t, found |-> {}]),
           kind = "sender" => n = None, kind # "sender" => t = None
    PROVE  Respects
  <1> DEFINE i == started + 1
             c == [kind |-> kind, at |-> "snapshot", name |-> n, token |-> t, found |-> {}]
             r == [do |-> "snapshot", of |-> i]
  <1>1. /\ UNCHANGED <<named, infos, files, queues, generated, doomed>>
        /\ page' = Append(page, r)
    BY DEF Start, ledger
  <1>2. /\ DOMAIN calls' = DOMAIN calls \cup {i}
        /\ calls'[i] = c
        /\ \A j \in DOMAIN calls : calls'[j] = calls[j]
    BY StartEffect
  <1>3. Kept' = Kept
    BY <1>1 DEF Kept
  <1>4. Kept \subseteq generated
    BY DEF DoomInv, RowsKept
  <1>5. CallKept(c, Kept', doomed', generated')
    BY DEF CallKept
  <1>6. WillOpen(c) /\ c.token \in generated => FALSE
    <2>1. generated \subseteq Token
      BY DEF TypeInv, BudgetType
    <2> QED
      BY <2>1, NoneAssumption DEF WillOpen
  <1>7. i \in Nat /\ r \in Request
    BY DEF TypeInv, BudgetType, Request, CallRequest
  <1>8. \A k \in DOMAIN page' : page'[k].do = "forget" => page'[k].of \in doomed'
    <2>1. r.do # "forget"
      OBVIOUS
    <2> HIDE DEF r
    <2>2. /\ DOMAIN page' = DOMAIN page \cup {Len(page) + 1}
          /\ page'[Len(page) + 1] = r
          /\ \A k \in DOMAIN page : page'[k] = page[k]
      BY <1>1, <1>7, RequestMade DEF TypeInv
    <2> QED
      BY <1>1, <2>1, <2>2 DEF DoomInv, RequestsKept
  <1> HIDE DEF c, i
  <1>9. \A j \in DOMAIN calls' :
          \/ j \in DOMAIN calls /\ calls'[j] = calls[j]
          \/ /\ CallKept(calls'[j], Kept', doomed', generated')
             /\ WillOpen(calls'[j]) /\ calls'[j].token \in generated => Leads(calls'[j].token)
    BY <1>2, <1>5, <1>6
  <1> QED
    BY <1>1, <1>3, <1>4, <1>8, <1>9 DEF Respects

\* The requests behind the first one stay.
LEMMA RequestsTaken ==
    ASSUME TypeInv, DoomInv, page # <<>>, page' = Tail(page), UNCHANGED doomed
    PROVE  \A k \in DOMAIN page' : page'[k].do = "forget" => page'[k].of \in doomed'
  <1>1. \A k \in DOMAIN page' : k + 1 \in DOMAIN page /\ page'[k] = page[k + 1]
    BY RequestTaken DEF TypeInv
  <1> QED
    BY <1>1 DEF DoomInv, RequestsKept

\* One call becomes d or ends, and the rows stay.
LEMMA OneCallRespects ==
    ASSUME TypeInv, DoomInv, UNCHANGED <<named, infos, files, generated, doomed>>,
           DOMAIN queues' \subseteq DOMAIN queues,
           \A k \in DOMAIN page' : page'[k].do = "forget" => page'[k].of \in doomed',
           NEW i \in DOMAIN calls, NEW d,
           \/ calls' = Without(calls, i)
           \/ /\ calls' = [calls EXCEPT ![i] = d] /\ CallOK(d)
              /\ CallKept(d, Kept, doomed, generated)
              /\ WillOpen(d) /\ d.token \in generated => Leads(d.token)
    PROVE  Respects
  <1>1. Kept' = Kept
    BY DEF Kept
  <1>2. Kept \subseteq generated
    BY DEF DoomInv, RowsKept
  <1>3. \A j \in DOMAIN calls' :
          \/ j \in DOMAIN calls /\ calls'[j] = calls[j]
          \/ /\ CallKept(calls'[j], Kept', doomed', generated')
             /\ WillOpen(calls'[j]) /\ calls'[j].token \in generated => Leads(calls'[j].token)
    <2>1. CASE calls' = Without(calls, i)
      <3>1. /\ DOMAIN calls' = DOMAIN calls \ {i}
            /\ \A j \in DOMAIN calls : j # i => calls'[j] = calls[j]
        BY <2>1, CallRemoved DEF TypeInv
      <3> QED
        BY <3>1
    <2>2. CASE /\ calls' = [calls EXCEPT ![i] = d] /\ CallOK(d)
               /\ CallKept(d, Kept, doomed, generated)
               /\ WillOpen(d) /\ d.token \in generated => Leads(d.token)
      <3>1. /\ DOMAIN calls' = DOMAIN calls /\ calls'[i] = d
            /\ \A j \in DOMAIN calls : j # i => calls'[j] = calls[j]
        BY <2>2, CallReplaced DEF TypeInv
      <3> QED
        BY <1>1, <2>2, <3>1
    <2> QED
      BY <2>1, <2>2
  <1> QED
    BY <1>1, <1>2, <1>3 DEF Respects

\* The page answers a snapshot: what a call reads has its row.
LEMMA SnapshotRespects ==
    ASSUME TypeInv, PageInv, DoomInv, NEW i \in DOMAIN calls,
           UNCHANGED <<files, queues, generated, doomed>>,
           \A k \in DOMAIN page' : page'[k].do = "forget" => page'[k].of \in doomed',
           PageSnapshots(i) \/ PageSnapshotFails(i)
    PROVE  Respects
  <1>1. UNCHANGED <<named, infos>>
    BY DEF PageSnapshots, PageSnapshotFails, ledger
  <1>2. CASE PageSnapshots(i)
    <2>1. PICK d : /\ calls' = [calls EXCEPT ![i] = d]
                   /\ CallOK(d) /\ d.at = "answer" /\ d.kind = calls[i].kind
                   /\ d.token = IF d.kind \in {"obtain", "delete"} THEN named[d.name]
                                ELSE calls[i].token
                   /\ d.name = IF d.kind = "sender" THEN infos[d.token] ELSE calls[i].name
                   /\ \A p \in d.found : p \in Name \X Token /\ named[p[1]] = p[2]
      BY <1>2, SnapshotEffect
    <2>2. /\ d.kind \in {"obtain", "delete"} => d.name \in Name
          /\ d.kind = "sender" => d.token \in Token
      BY <2>1 DEF CallOK
    <2>3. \A n \in Name : named[n] # None => named[n] \in Kept /\ named[n] \in generated
      BY DEF DoomInv, RowsKept
    <2>4. \A p \in d.found : p[2] \in Kept
      BY <2>1, <2>3, NoneAssumption
    <2>5. d.kind = "sender" /\ d.name # None => d.token \in Kept
      BY <2>1, <2>2 DEF Kept
    <2>6. CallKept(d, Kept, doomed, generated)
      BY <2>1, <2>2, <2>3, <2>4, <2>5 DEF CallKept
    <2>7. WillOpen(d) /\ d.token \in generated => Leads(d.token)
      BY <2>1, <2>2 DEF WillOpen, Leads
    <2> QED
      BY <1>1, <2>1, <2>6, <2>7, OneCallRespects
  <1>3. CASE PageSnapshotFails(i)
    <2>1. CASE calls' = Without(calls, i)
      BY <1>1, <2>1, OneCallRespects
    <2>2. CASE \E d : /\ calls' = [calls EXCEPT ![i] = d] /\ CallOK(d)
                      /\ d.at = "answer" /\ calls[i].at = "snapshot" /\ d.kind = "obtain"
                      /\ d.kind = calls[i].kind /\ d.token = calls[i].token
                      /\ d.found = calls[i].found
      <3>1. PICK d : /\ calls' = [calls EXCEPT ![i] = d] /\ CallOK(d)
                     /\ d.at = "answer" /\ calls[i].at = "snapshot" /\ d.kind = "obtain"
                     /\ d.kind = calls[i].kind /\ d.token = calls[i].token
                     /\ d.found = calls[i].found
        BY <2>2
      <3>2. CallKept(calls[i], Kept, doomed, generated)
        BY DEF DoomInv, CallsKept
      <3>3. CallKept(d, Kept, doomed, generated)
        BY <3>1, <3>2 DEF CallKept
      <3>4. WillOpen(d) /\ d.token \in generated => Leads(d.token)
        BY <3>1 DEF WillOpen, Leads
      <3> QED
        BY <1>1, <3>1, <3>3, <3>4, OneCallRespects
    <2> QED
      BY <1>3, <2>1, <2>2, SnapshotFailsEffect
  <1> QED
    BY <1>2, <1>3

\* A queue gets its rows, and the call had its token.
LEMMA CreateRespects ==
    ASSUME TypeInv, PageInv, DoomInv, NEW i \in DOMAIN calls,
           UNCHANGED <<files, queues, generated, doomed>>,
           \A k \in DOMAIN page' : page'[k].do = "forget" => page'[k].of \in doomed',
           PageCreates(i)
    PROVE  Respects
  <1> DEFINE n == calls[i].name
             t == calls[i].token
  <1>0. /\ CallKept(calls[i], Kept, doomed, generated)
        /\ CallOK(calls[i]) /\ calls[i].kind = "obtain" /\ calls[i].at = "commit"
    BY DEF DoomInv, CallsKept, TypeInv, CallsType, PageCreates
  <1>1. n \in Name /\ t \in Token /\ t # None /\ n # None
    BY <1>0, NoneAssumption DEF CallOK
  <1>2. CASE calls' = Without(calls, i)
    <2>1. CASE UNCHANGED <<named, infos>>
      BY <1>2, <2>1, OneCallRespects
    <2>2. CASE ~UNCHANGED <<named, infos>>
      <3>1. calls' = [calls EXCEPT ![i].at = "done"]
        BY <2>2 DEF PageCreates, ledger
      <3>2. i \in DOMAIN calls' /\ i \notin DOMAIN calls'
        <4>1. DOMAIN Without(calls, i) = DOMAIN calls \ {i}
          BY DEF Without
        <4> QED
          BY <1>2, <3>1, <4>1
      <3> QED
        BY <3>2
    <2> QED
      BY <2>1, <2>2
  <1>3. CASE calls' # Without(calls, i)
    <2>1. PICK d : /\ calls' = [calls EXCEPT ![i] = d]
                   /\ CallOK(d) /\ d.at = "done" /\ d.kind = "obtain"
                   /\ d.token = t /\ d.name = n /\ d.found = calls[i].found
      BY <1>3, CreateEffect
    <2>2. named' = [named EXCEPT ![n] = t] /\ infos' = [infos EXCEPT ![t] = n]
      BY <1>3, CreateEffect
    <2>3. t \in generated /\ Leads(t)
      BY <1>0, <1>1 DEF CallKept, Leads, WillOpen
    <2>4. \A p \in calls[i].found : p[2] \in Kept
      BY <1>0 DEF CallKept
    <2> HIDE DEF n, t
    <2>5. /\ \A u \in Token : infos'[u] = IF u = t THEN n ELSE infos[u]
          /\ \A m \in Name : named'[m] = IF m = n THEN t ELSE named[m]
      BY <1>1, <2>2 DEF TypeInv, RowsType
    <2>6. Kept' = Kept \cup {t}
      BY <1>1, <2>5 DEF Kept
    <2>7. Kept \subseteq generated
      BY DEF DoomInv, RowsKept
    <2>8. CallKept(d, Kept', doomed', generated')
      BY <2>1, <2>3, <2>4, <2>6 DEF CallKept
    <2>9. /\ DOMAIN calls' = DOMAIN calls /\ calls'[i] = d
          /\ \A j \in DOMAIN calls : j # i => calls'[j] = calls[j]
      BY <2>1, CallReplaced DEF TypeInv
    <2>10. \A j \in DOMAIN calls' :
             \/ j \in DOMAIN calls /\ calls'[j] = calls[j]
             \/ /\ CallKept(calls'[j], Kept', doomed', generated')
                /\ WillOpen(calls'[j]) /\ calls'[j].token \in generated => Leads(calls'[j].token)
      BY <2>1, <2>3, <2>8, <2>9
    <2> QED
      BY <2>3, <2>5, <2>6, <2>7, <2>10 DEF Respects
  <1> QED
    BY <1>2, <1>3

\* Rows are deleted: that of a token only if its queue was to be deleted.
LEMMA RowsGoneRespects ==
    ASSUME TypeInv, DoomInv, UNCHANGED <<files, queues, generated, doomed>>,
           \A k \in DOMAIN page' : page'[k].do = "forget" => page'[k].of \in doomed',
           \A j \in DOMAIN calls' : j \in DOMAIN calls /\ calls'[j] = calls[j],
           \A n \in Name : named'[n] \in {named[n], None},
           \A t \in Token : infos'[t] = infos[t] \/ (infos'[t] = None /\ t \in doomed)
    PROVE  Respects
  <1>1. Kept' = Kept
    BY DEF Kept
  <1>2. Kept \subseteq generated
    BY DEF DoomInv, RowsKept
  <1> QED
    BY <1>1, <1>2 DEF Respects

LEMMA PageHandlesRespects ==
    ASSUME TypeInv, PageInv, DoomInv, PageHandles
    PROVE  Respects
  <1> DEFINE i == page[1].of
  <1>0. /\ Head(page) = page[1] /\ 1 \in DOMAIN page
        /\ UNCHANGED <<files, queues, generated, doomed>>
        /\ \A k \in DOMAIN page' : page'[k].do = "forget" => page'[k].of \in doomed'
    <2>1. /\ Head(page) = page[1] /\ 1 \in DOMAIN page /\ page # <<>> /\ page' = Tail(page)
      BY FirstRequest
    <2>2. UNCHANGED <<files, queues, generated, doomed>>
      BY DEF PageHandles
    <2> QED
      BY <2>1, <2>2, RequestsTaken
  <1>1. CASE /\ page[1] \in CallRequest /\ OfCall(1)
             /\ i \in DOMAIN calls /\ CallOK(calls[i])
             /\ calls[i].at = page[1].do
    <2>1. page[1].do \notin {"erase", "forget"}
      BY <1>1 DEF CallRequest
    <2>2. PageSnapshots(i) \/ PageSnapshotFails(i) \/ PageCreates(i) \/ PageDeletes(i)
      BY <1>0, <2>1 DEF PageHandles, PageErases
    <2>3. CASE PageDeletes(i)
      <3> DEFINE n == calls[i].name
                 t == calls[i].token
      <3>1. /\ calls' = Without(calls, i) /\ t \in doomed
            /\ \/ named' = [named EXCEPT ![n] = None] /\ infos' = [infos EXCEPT ![t] = None]
               \/ UNCHANGED <<named, infos>>
        BY <1>1, <2>3 DEF PageDeletes, ledger, DoomInv, CallsKept, CallKept
      <3>2. \A j \in DOMAIN calls' : j \in DOMAIN calls /\ calls'[j] = calls[j]
        <4>1. /\ DOMAIN calls' = DOMAIN calls \ {i}
              /\ \A j \in DOMAIN calls : j # i => calls'[j] = calls[j]
          BY <3>1, CallRemoved DEF TypeInv
        <4> QED
          BY <4>1
      <3> HIDE DEF n, t
      <3>3. /\ \A m \in Name : named'[m] \in {named[m], None}
            /\ \A u \in Token : infos'[u] = infos[u] \/ (infos'[u] = None /\ u \in doomed)
        BY <3>1 DEF TypeInv, RowsType
      <3> QED
        BY <1>0, <3>2, <3>3, RowsGoneRespects
    <2> QED
      BY <1>0, <1>1, <2>2, <2>3, SnapshotRespects, CreateRespects
  <1>2. CASE page[1] \in RowRequest /\ ~OfCall(1)
    <2>1. PageErases(page[1])
      BY <1>0, <1>2 DEF PageHandles, OfCall
    <2>2. UNCHANGED calls
      BY <2>1 DEF PageErases
    <2>3. page[1].do = "forget" => i \in doomed
      BY <1>0 DEF DoomInv, RequestsKept
    <2>4. \/ named' = [named EXCEPT ![i] = None] /\ infos' = infos
          \/ infos' = [infos EXCEPT ![i] = None] /\ named' = named /\ i \in doomed
      BY <2>1, <2>3 DEF PageErases
    <2> HIDE DEF i
    <2>5. /\ \A m \in Name : named'[m] \in {named[m], None}
          /\ \A u \in Token : infos'[u] = infos[u] \/ (infos'[u] = None /\ u \in doomed)
      BY <2>4 DEF TypeInv, RowsType
    <2> QED
      BY <1>0, <2>2, <2>5, RowsGoneRespects
  <1> QED
    BY <1>1, <1>2, FirstRequest

\* A storage is opened, or was open, and no other.
LEMMA StorageOfToken ==
    ASSUME QueuesType, NEW n, NEW t \in Token, NEW sender \in BOOLEAN,
           GetMessageQueueStorage(n, t, sender)
    PROVE  DOMAIN queues' = DOMAIN queues \cup {t}
  BY GetStorageEffect, SMTT(40)

\* A queue is opened by a call that has its token.
LEMMA OpensRespects ==
    ASSUME TypeInv, DoomInv, NEW i \in DOMAIN calls,
           ObtainFinds(i) \/ ObtainFinishes(i) \/ SenderFinds(i)
    PROVE  Respects /\ calls[i].token \in Token /\ Leads(calls[i].token)
  <1> DEFINE n == calls[i].name
             t == calls[i].token
  <1>1. /\ Opens(n, t) /\ calls' = Without(calls, i)
        /\ UNCHANGED <<files, named, infos, page, budget>>
    BY OpenSteps
  <1>2. t \in Token /\ (\E sender \in BOOLEAN : GetMessageQueueStorage(n, t, sender))
    BY <1>1 DEF Opens
  <1>3. WillOpen(calls[i]) /\ (calls[i].kind = "obtain" => calls[i].at # "commit")
    BY DEF ObtainFinds, ObtainFinishes, SenderFinds, WillOpen
  <1>4. t \in Kept /\ Leads(t)
    <2>1. CallKept(calls[i], Kept, doomed, generated) /\ t # None
      BY <1>2, NoneAssumption DEF DoomInv, CallsKept
    <2> QED
      BY <1>3, <2>1 DEF CallKept, WillOpen, Leads
  <1>5. UNCHANGED <<generated, doomed>>
    BY <1>1 DEF budget, ObtainFinds, ObtainFinishes, SenderFinds
  <1> HIDE DEF n, t
  <1>6. DOMAIN queues' = DOMAIN queues \cup {t}
    <2>1. PICK sender \in BOOLEAN : GetMessageQueueStorage(n, t, sender)
      BY <1>2
    <2>2. QueuesType /\ t \in Token
      BY <1>2 DEF TypeInv
    <2> QED
      BY <2>1, <2>2, StorageOfToken, SMTT(40)
  <1>7. \A j \in DOMAIN calls' : j \in DOMAIN calls /\ calls'[j] = calls[j]
    <2>1. /\ DOMAIN calls' = DOMAIN calls \ {i}
          /\ \A j \in DOMAIN calls : j # i => calls'[j] = calls[j]
      BY <1>1, CallRemoved DEF TypeInv
    <2> QED
      BY <2>1
  <1>8. Kept' = Kept
    BY <1>1, <1>5 DEF Kept
  <1>9. Kept \subseteq generated
    BY DEF DoomInv, RowsKept
  <1>10. \A k \in DOMAIN page' : page'[k].do = "forget" => page'[k].of \in doomed'
    BY <1>1, <1>5 DEF DoomInv, RequestsKept
  <1>11. Respects
    BY <1>1, <1>4, <1>5, <1>6, <1>7, <1>8, <1>9, <1>10 DEF Respects
  <1> QED
    BY <1>2, <1>4, <1>11 DEF t

\* A request for a transaction is added behind the others.
LEMMA CommitMade ==
    ASSUME TypeInv, DoomInv, NEW i \in DOMAIN calls, doomed \subseteq doomed',
           page' = Append(page, [do |-> "commit", of |-> i])
    PROVE  \A k \in DOMAIN page' : page'[k].do = "forget" => page'[k].of \in doomed'
  <1> DEFINE r == [do |-> "commit", of |-> i]
  <1>1. i \in Nat
    BY DEF TypeInv, CallsType, BudgetType
  <1>2. r \in Request /\ r.do # "forget"
    BY <1>1 DEF Request, CallRequest
  <1> HIDE DEF r
  <1>3. page' = Append(page, r)
    BY DEF r
  <1>4. /\ DOMAIN page' = DOMAIN page \cup {Len(page) + 1}
        /\ page'[Len(page) + 1] = r
        /\ \A k \in DOMAIN page : page'[k] = page[k]
    BY <1>2, <1>3, RequestMade DEF TypeInv
  <1> QED
    BY <1>2, <1>4 DEF DoomInv, RequestsKept

\* A new token leads to nothing that was there.
LEMMA ObtainCreatesRespects ==
    ASSUME TypeInv, PageInv, DoomInv, NEW i \in DOMAIN calls, ObtainCreates(i)
    PROVE  Respects
  <1>1. PICK t, d :
              /\ t \in Token \ generated /\ generated' = generated \cup {t}
              /\ calls' = [calls EXCEPT ![i] = d]
              /\ CallOK(d) /\ d.at = "commit" /\ d.kind = "obtain"
              /\ d.token = t /\ d.name = calls[i].name /\ d.found = calls[i].found
    BY ObtainCreatesEffect
  <1>2. /\ UNCHANGED <<named, infos, files, queues, doomed>>
        /\ page' = Append(page, [do |-> "commit", of |-> i])
    BY DEF ObtainCreates, ledger
  <1>3. Kept' = Kept
    BY <1>2 DEF Kept
  <1>4. Kept \subseteq generated
    BY DEF DoomInv, RowsKept
  <1>5. CallKept(d, Kept', doomed', generated')
    <2>1. CallKept(calls[i], Kept, doomed, generated)
      BY DEF DoomInv, CallsKept
    <2> QED
      BY <1>1, <1>3, <2>1 DEF CallKept
  <1>6. \A j \in DOMAIN calls' :
          \/ j \in DOMAIN calls /\ calls'[j] = calls[j]
          \/ /\ CallKept(calls'[j], Kept', doomed', generated')
             /\ WillOpen(calls'[j]) /\ calls'[j].token \in generated => Leads(calls'[j].token)
    <2>1. /\ DOMAIN calls' = DOMAIN calls /\ calls'[i] = d
          /\ \A j \in DOMAIN calls : j # i => calls'[j] = calls[j]
      BY <1>1, CallReplaced DEF TypeInv
    <2> QED
      BY <1>1, <1>5, <2>1
  <1>7. \A k \in DOMAIN page' : page'[k].do = "forget" => page'[k].of \in doomed'
    BY <1>2, CommitMade
  <1> QED
    BY <1>1, <1>2, <1>3, <1>4, <1>6, <1>7 DEF Respects

\* The owner asks for the deletion of a queue that had its rows.
LEMMA DeleteFindsRespects ==
    ASSUME TypeInv, PageInv, DoomInv, NEW i \in DOMAIN calls, DeleteFinds(i)
    PROVE  Respects
  <1> DEFINE t == calls[i].token
  <1>1. PICK d : /\ calls' = [calls EXCEPT ![i] = d] /\ CallOK(d) /\ d.at = "commit"
                 /\ d.kind = "delete" /\ d.token = t /\ t \in Token /\ d.found = calls[i].found
    BY DeleteFindsEffect
  <1>2. /\ UNCHANGED <<named, infos, files, generated>> /\ doomed' = doomed \cup {t}
        /\ page' = Append(page, [do |-> "commit", of |-> i])
        /\ ClearMessageQueueStorage(calls[i].name, t)
    BY DEF DeleteFinds, ledger, budget
  <1>3. CallKept(calls[i], Kept, doomed, generated) /\ calls[i].kind = "delete" /\ t # None
    BY DEF DoomInv, CallsKept, DeleteFinds
  <1>4. t \in Kept
    BY <1>3 DEF CallKept
  <1> HIDE DEF t
  <1>5. Kept' = Kept
    BY <1>2, <1>4 DEF Kept
  <1>6. Kept \subseteq generated
    BY DEF DoomInv, RowsKept
  <1>7. DOMAIN queues' = DOMAIN queues \ {t}
    BY <1>2, ClearEffect DEF TypeInv
  <1>8. CallKept(d, Kept', doomed', generated') /\ ~WillOpen(d)
    BY <1>1, <1>2, <1>3, <1>4, <1>5 DEF CallKept, WillOpen
  <1>9. \A j \in DOMAIN calls' :
          \/ j \in DOMAIN calls /\ calls'[j] = calls[j]
          \/ /\ CallKept(calls'[j], Kept', doomed', generated')
             /\ WillOpen(calls'[j]) /\ calls'[j].token \in generated => Leads(calls'[j].token)
    <2>1. /\ DOMAIN calls' = DOMAIN calls /\ calls'[i] = d
          /\ \A j \in DOMAIN calls : j # i => calls'[j] = calls[j]
      BY <1>1, CallReplaced DEF TypeInv
    <2> QED
      BY <1>8, <2>1
  <1>10. \A k \in DOMAIN page' : page'[k].do = "forget" => page'[k].of \in doomed'
    BY <1>2, CommitMade
  <1> QED
    BY <1>2, <1>5, <1>6, <1>7, <1>9, <1>10 DEF Respects

\* ... and of a namespace: the rows that go are those that were found.
LEMMA NamespaceRespects ==
    ASSUME TypeInv, PageInv, DoomInv, NEW i \in DOMAIN calls, NamespaceFinds(i)
    PROVE  Respects
  <1> DEFINE gone == {p[2] : p \in calls[i].found}
  <1>1. /\ UNCHANGED <<named, infos, files, queues, generated>> /\ doomed' = doomed \cup gone
        /\ calls' = Without(calls, i)
    BY DEF NamespaceFinds, ledger, budget
  <1>2. gone \subseteq Kept
    BY DEF DoomInv, CallsKept, CallKept
  <1>3. Kept' = Kept
    <2> HIDE DEF gone
    <2> QED
      BY <1>1, <1>2 DEF Kept
  <1>4. Kept \subseteq generated
    BY DEF DoomInv, RowsKept
  <1>5. \A j \in DOMAIN calls' : j \in DOMAIN calls /\ calls'[j] = calls[j]
    <2>1. /\ DOMAIN calls' = DOMAIN calls \ {i}
          /\ \A j \in DOMAIN calls : j # i => calls'[j] = calls[j]
      BY <1>1, CallRemoved DEF TypeInv
    <2> QED
      BY <2>1
  <1>6. \A k \in DOMAIN page' : page'[k].do = "forget" => page'[k].of \in doomed'
    <2>1. PICK rows \in Seq(RowRequest) :
              /\ page' = page \o rows
              /\ \A k \in DOMAIN rows :
                    rows[k].do = "forget" => \E p \in calls[i].found : rows[k].of = p[2]
      BY NamespaceRows
    <2>2. page \in Seq(Request) /\ rows \in Seq(Request)
      BY <2>1 DEF TypeInv, CallsType, Request
    <2>3. /\ DOMAIN page' = 1..(Len(page) + Len(rows))
          /\ DOMAIN page = 1..Len(page) /\ DOMAIN rows = 1..Len(rows)
          /\ Len(page) \in Nat /\ Len(rows) \in Nat
          /\ \A k \in 1..(Len(page) + Len(rows)) :
                page'[k] = IF k <= Len(page) THEN page[k] ELSE rows[k - Len(page)]
      BY <2>1, <2>2, ConcatProperties
    <2> SUFFICES ASSUME NEW k \in DOMAIN page', page'[k].do = "forget"
                 PROVE  page'[k].of \in doomed'
      OBVIOUS
    <2>4. CASE k <= Len(page)
      <3>1. k \in DOMAIN page /\ page'[k] = page[k]
        BY <2>3, <2>4
      <3> QED
        BY <1>1, <3>1 DEF DoomInv, RequestsKept
    <2>5. CASE ~(k <= Len(page))
      <3>1. k - Len(page) \in DOMAIN rows /\ page'[k] = rows[k - Len(page)]
        BY <2>3, <2>5
      <3>2. \E p \in calls[i].found : page'[k].of = p[2]
        BY <2>1, <3>1
      <3>3. page'[k].of \in gone
        BY <3>2
      <3> QED
        BY <1>1, <3>3
    <2> QED
      BY <2>4, <2>5
  <1> HIDE DEF gone
  <1> QED
    BY <1>1, <1>3, <1>4, <1>5, <1>6 DEF Respects

\* Every step respects what DoomInv says.
LEMMA StepRespects ==
    ASSUME TypeInv, PageInv, StorageInv, DoomInv, Next
    PROVE  Respects
  <1>0. QueuesType /\ BudgetType
    BY DEF TypeInv
  <1>1. ASSUME NEW t \in Token, Send(t) \/ Received(t) PROVE Respects
    <2>1. /\ UNCHANGED <<named, infos, calls, page, generated, doomed>>
          /\ t \in DOMAIN queues
      BY <1>1 DEF Send, Received, ledger, Open
    <2>2. PICK s : OneStorage(t, s) /\ Save(t, s.messages)
      BY <1>0, <1>1, SendEffect, ReceivedEffect
    <2>3. s.messages \in Seq(1..MaxMessages)
      BY <2>2 DEF OneStorage, Storage
    <2>4. DOMAIN queues' = DOMAIN queues
      BY <1>0, <2>2, OneStorageType
    <2>5. PICK d \in {s.messages, files[t], <<>>} : files' = [files EXCEPT ![t] = d]
      BY <1>0, <2>2, <2>3, SaveEffect
    <2>6. \A u \in Token : files'[u] # <<>> => files[u] # <<>> \/ u \in DOMAIN queues
      BY <1>0, <2>1, <2>5 DEF QueuesType
    <2> QED
      BY <2>1, <2>4, <2>6, StorageStepRespects
  <1>2. ASSUME NEW t \in Token, RegisterReceiver(t) \/ ReaderClosed(t) PROVE Respects
    <2>1. UNCHANGED <<named, infos, calls, page, generated, doomed, files>>
      BY <1>2 DEF RegisterReceiver, ReaderClosed, ledger, budget
    <2>2. PICK s : OneStorage(t, s)
      BY <1>0, <1>2, RegisterReceiverEffect, ReaderClosedEffect
    <2>3. DOMAIN queues' = DOMAIN queues
      BY <1>0, <2>2, OneStorageType
    <2> QED
      BY <2>1, <2>3, StorageStepRespects
  <1>3. ASSUME NEW n \in Name, RegisterWatcher(n) PROVE Respects
    <2>1. UNCHANGED <<named, infos, calls, page, generated, doomed, files>>
      BY <1>3 DEF RegisterWatcher, ledger
    <2>2. DOMAIN queues' = DOMAIN queues
      BY <1>0, <1>3, RegisterWatcherEffect
    <2> QED
      BY <2>1, <2>2, StorageStepRespects
  <1>4. ASSUME NEW n \in Name, DropWatcher(n) PROVE Respects
    <2>1. CASE Restart
      BY <2>1, RestartRespects
    <2>2. CASE ~Restart
      <3>1. UNCHANGED <<named, infos, calls, page, generated, doomed, files, queues>>
        BY <1>4, <2>2 DEF DropWatcher, ledger
      <3> QED
        BY <3>1, StorageStepRespects
    <2> QED
      BY <2>1, <2>2
  <1>5. ASSUME NEW n \in Name, ObtainMessageQueue(n) \/ DeleteMessageQueue(n) PROVE Respects
    BY <1>5, NewCallOK, StartRespects DEF ObtainMessageQueue, DeleteMessageQueue
  <1>6. CASE DeleteNamespace
    BY <1>6, NewCallOK, StartRespects DEF DeleteNamespace
  <1>7. ASSUME NEW t \in Token, GetMessageSender(t) PROVE Respects
    <2>1. CASE Open(t)
      <3>1. /\ UNCHANGED <<named, infos, calls, page, generated, doomed, files>>
            /\ queues' = [queues EXCEPT ![t].senders = TRUE]
        BY <1>7, <2>1 DEF GetMessageSender, ledger, budget
      <3>2. DOMAIN queues' = DOMAIN queues
        BY <3>1
      <3> QED
        BY <3>1, <3>2, StorageStepRespects
    <2>2. CASE ~Open(t)
      BY <1>7, <2>2, NewCallOK, StartRespects DEF GetMessageSender
    <2> QED
      BY <2>1, <2>2
  <1>8. ASSUME NEW i \in DOMAIN calls, NothingFound(i) PROVE Respects
    <2>1. /\ UNCHANGED <<named, infos, files, generated, doomed, queues, page>>
          /\ calls' = Without(calls, i)
      BY <1>8 DEF NothingFound, ledger, budget
    <2>2. \A k \in DOMAIN page' : page'[k].do = "forget" => page'[k].of \in doomed'
      BY <2>1 DEF DoomInv, RequestsKept
    <2> QED
      BY <2>1, <2>2, OneCallRespects
  <1>9. CASE Answered
    BY <1>8, <1>9, OpensRespects, ObtainCreatesRespects, DeleteFindsRespects, NamespaceRespects
       DEF Answered
  <1>10. CASE Client
    BY <1>1, <1>2, <1>3, <1>4, <1>5, <1>6, <1>7, <1>10 DEF Client
  <1>11. CASE Crash
    BY <1>11, RestartRespects DEF Crash
  <1> QED
    BY <1>1, <1>9, <1>10, <1>11, PageHandlesRespects DEF Next

-----------------------------------------------------------------------------
(* The refinement: what each step is, seen from outside *)

Offered == {t \in DOMAIN queues : queues[t].offered}

\* One storage becomes s: what is seen of the others stays.
LEMMA OneSeen ==
    ASSUME QueuesType, NEW t, NEW s, OneStorage(t, s), UNCHANGED <<named, infos, calls>>,
           \A u \in Token : u # t => files'[u] = files[u]
    PROVE  /\ Pending' = [Pending EXCEPT ![t] = s.messages]
           /\ Durable' = [Durable EXCEPT ![t] = files'[t]]
           /\ Pending[t] = queues[t].messages /\ Durable[t] = files[t]
           /\ s.offered => Offered' = Offered \cup {t}
           /\ ~s.offered => Offered' = Offered \ {t}
           /\ t \in Offered <=> queues[t].offered
  <1>1. /\ DOMAIN queues' = DOMAIN queues
        /\ queues' \in [DOMAIN queues' -> Storage]
        /\ queues'[t] = s
        /\ \A u \in DOMAIN queues : u # t => queues'[u] = queues[u]
    BY OneStorageType
  <1>2. t \in Token /\ t \in DOMAIN queues
    BY DEF OneStorage
  <1>3. \A u \in Token : Leads(u)' <=> Leads(u)
    BY <1>1 DEF Leads, Open
  <1>4. Leads(t)
    BY <1>2 DEF Leads, Open
  <1>5. Durable' = [u \in Token |-> IF Leads(u)' THEN files'[u] ELSE <<>>]
    BY DEF Durable
  <1>6. \A u \in Token : Durable'[u] = IF u = t THEN files'[t] ELSE Durable[u]
    BY <1>2, <1>3, <1>4, <1>5 DEF Durable
  <1>7. Durable' = [Durable EXCEPT ![t] = files'[t]] /\ Durable[t] = files[t]
    BY <1>2, <1>4, <1>5, <1>6 DEF Durable
  <1>8. \A u \in Token : Pending'[u] = IF u = t THEN s.messages ELSE Pending[u]
    BY <1>1, <1>2, <1>6 DEF Pending, Open
  <1>9. Pending' = [Pending EXCEPT ![t] = s.messages]
    BY <1>8 DEF Pending
  <1>10. Pending[t] = queues[t].messages
    BY <1>2 DEF Pending, Open
  <1>11. /\ s.offered => Offered' = Offered \cup {t}
         /\ ~s.offered => Offered' = Offered \ {t}
         /\ t \in Offered <=> queues[t].offered
    BY <1>1, <1>2 DEF Offered
  <1> QED
    BY <1>7, <1>9, <1>10, <1>11

\* Send is Send: the message is last, and is offered if the reader waits.
LEMMA SendImplements ==
    ASSUME QueuesType, BudgetType, NEW t \in Token, Send(t)
    PROVE  Promise!Next
  <1> DEFINE old == queues[t]
  <1>1. PICK s : /\ OneStorage(t, s)
                 /\ s.messages = Append(old.messages, sent + 1)
                 /\ s.offered <=> old.offered \/ (old.reader /\ ~old.ackPending)
                 /\ Save(t, s.messages) /\ sent + 1 \in 1..MaxMessages
    BY SendEffect
  <1>2. s.messages \in Seq(1..MaxMessages)
    BY <1>1 DEF OneStorage, Storage
  <1>3. \E d \in {s.messages, files[t], <<>>} : files' = [files EXCEPT ![t] = d]
    BY <1>1, <1>2, SaveEffect
  <1>4. /\ \A u \in Token : u # t => files'[u] = files[u]
        /\ UNCHANGED <<named, infos, calls, doomed>>
    BY <1>3 DEF QueuesType, Send, ledger
  <1>5. /\ Pending' = [Pending EXCEPT ![t] = s.messages]
        /\ Durable' = [Durable EXCEPT ![t] = files'[t]]
        /\ Pending[t] = old.messages /\ Durable[t] = files[t]
        /\ s.offered => Offered' = Offered \cup {t}
        /\ ~s.offered => Offered' = Offered \ {t}
        /\ t \in Offered <=> old.offered
    BY <1>1, <1>4, OneSeen
  <1>6. Offered' \in {Offered, Offered \cup {t}}
    BY <1>1, <1>5
  <1>7. PICK m \in 1..MaxMessages : m = sent + 1
    BY <1>1
  <1>8. Pending' = [Pending EXCEPT ![t] = Append(Pending[t], m)]
    BY <1>1, <1>5, <1>7
  <1>9. \E d \in {Append(Pending[t], m), Durable[t], <<>>} : Durable' = [Durable EXCEPT ![t] = d]
    <2>1. PICK d \in {s.messages, files[t], <<>>} : files' = [files EXCEPT ![t] = d]
      BY <1>3
    <2>2. files'[t] = d
      BY <2>1 DEF QueuesType
    <2>3. d \in {Append(Pending[t], m), Durable[t], <<>>}
      BY <1>1, <1>5, <2>1, <1>7
    <2> QED
      BY <1>5, <2>2, <2>3
  <1>10. Promise!Send(t, m)
    BY <1>4, <1>6, <1>8, <1>9 DEF Promise!Send, Promise!Write, Offered
  <1> QED
    BY <1>7, <1>10 DEF Promise!Next

\* Received is Acknowledge: the oldest message leaves the queue, and the next
\* one is with the reader.
LEMMA ReceivedImplements ==
    ASSUME QueuesType, BudgetType, StorageInv, NEW t \in Token, Received(t)
    PROVE  Promise!Next
  <1> DEFINE old == queues[t]
  <1>1. PICK s : /\ OneStorage(t, s)
                 /\ old.offered /\ old.messages # <<>> /\ old.messages \in Seq(1..MaxMessages)
                 /\ s.messages = Tail(old.messages)
                 /\ s.messages \in Seq(1..MaxMessages)
                 /\ s.offered <=> s.messages # <<>>
                 /\ Save(t, s.messages)
    BY ReceivedEffect
  <1>3. \E d \in {s.messages, files[t], <<>>} : files' = [files EXCEPT ![t] = d]
    BY <1>1, SaveEffect
  <1>4. /\ \A u \in Token : u # t => files'[u] = files[u]
        /\ UNCHANGED <<named, infos, calls, doomed>>
    BY <1>3 DEF QueuesType, Received, ledger
  <1>5. /\ Pending' = [Pending EXCEPT ![t] = s.messages]
        /\ Durable' = [Durable EXCEPT ![t] = files'[t]]
        /\ Pending[t] = old.messages /\ Durable[t] = files[t]
        /\ s.offered => Offered' = Offered \cup {t}
        /\ ~s.offered => Offered' = Offered \ {t}
        /\ t \in Offered <=> old.offered
    BY <1>1, <1>4, OneSeen
  <1>6. s.messages # <<>> <=> Len(old.messages) > 1
    <2>1. Len(s.messages) = Len(old.messages) - 1 /\ Len(old.messages) \in Nat
      BY <1>1, HeadTailProperties
    <2>2. s.messages # <<>> <=> Len(s.messages) # 0
      BY <1>1, EmptySeq
    <2>3. Len(old.messages) # 0
      BY <1>1, EmptySeq
    <2> QED
      BY <2>1, <2>2, <2>3
  <1>7. Offered' = IF Len(Pending[t]) > 1 THEN Offered ELSE Offered \ {t}
    BY <1>1, <1>5, <1>6
  <1>8. Pending' = [Pending EXCEPT ![t] = Tail(Pending[t])] /\ Pending[t] # <<>> /\ t \in Offered
    BY <1>1, <1>5
  <1>9. \E d \in {Tail(Pending[t]), Durable[t], <<>>} : Durable' = [Durable EXCEPT ![t] = d]
    <2>1. PICK d \in {s.messages, files[t], <<>>} : files' = [files EXCEPT ![t] = d]
      BY <1>3
    <2>2. files'[t] = d
      BY <2>1 DEF QueuesType
    <2>3. d \in {Tail(Pending[t]), Durable[t], <<>>}
      BY <1>1, <1>5, <2>1
    <2> QED
      BY <1>5, <2>2, <2>3
  <1>10. Promise!Acknowledge(t)
    BY <1>4, <1>7, <1>8, <1>9 DEF Promise!Acknowledge, Promise!Write, Offered
  <1> QED
    BY <1>10 DEF Promise!Next

\* A new reader is offered the oldest message, takes the place of one that has
\* not answered, or gets nothing.
LEMMA RegisterReceiverImplements ==
    ASSUME QueuesType, StorageInv, NEW t \in Token, RegisterReceiver(t)
    PROVE  Promise!Next
  <1> DEFINE old == queues[t]
             sends == ~old.ackPending /\ old.messages # <<>>
  <1>1. PICK s : /\ OneStorage(t, s)
                 /\ s.messages = old.messages
                 /\ s.offered <=> sends
    BY RegisterReceiverEffect
  <1>2. UNCHANGED <<files, named, infos, calls, doomed>>
    BY DEF RegisterReceiver, ledger
  <1>3. /\ Pending' = [Pending EXCEPT ![t] = s.messages]
        /\ Durable' = [Durable EXCEPT ![t] = files'[t]]
        /\ Pending[t] = old.messages /\ Durable[t] = files[t]
        /\ s.offered => Offered' = Offered \cup {t}
        /\ ~s.offered => Offered' = Offered \ {t}
        /\ t \in Offered <=> old.offered
    BY <1>1, <1>2, OneSeen
  <1>4. Pending' = Pending /\ Durable' = Durable
    <2>1. /\ Pending' = [Pending EXCEPT ![t] = Pending[t]]
          /\ Durable' = [Durable EXCEPT ![t] = Durable[t]]
      BY <1>1, <1>2, <1>3
    <2>2. Pending = [u \in Token |-> Pending[u]] /\ Durable = [u \in Token |-> Durable[u]]
      BY DEF Pending, Durable
    <2> QED
      BY <2>1, <2>2
  <1>5. CASE sends
    <2>1. Promise!Offer(t)
      BY <1>1, <1>2, <1>3, <1>4, <1>5 DEF Promise!Offer, Offered
    <2> QED
      BY <2>1 DEF Promise!Next
  <1>6. CASE ~sends
    <2>1. Promise!Withdraw(t)
      BY <1>1, <1>2, <1>3, <1>4, <1>6 DEF Promise!Withdraw, Offered
    <2> QED
      BY <2>1 DEF Promise!Next
  <1> QED
    BY <1>5, <1>6

\* A reader that is gone withdraws the offer.
LEMMA ReaderClosedImplements ==
    ASSUME QueuesType, NEW t \in Token, ReaderClosed(t)
    PROVE  Promise!Next
  <1>1. PICK s : OneStorage(t, s) /\ s.messages = queues[t].messages /\ ~s.offered
    BY ReaderClosedEffect
  <1>2. UNCHANGED <<files, named, infos, calls, doomed>>
    BY DEF ReaderClosed, ledger
  <1>3. /\ Pending' = [Pending EXCEPT ![t] = s.messages]
        /\ Durable' = [Durable EXCEPT ![t] = files'[t]]
        /\ Pending[t] = queues[t].messages /\ Durable[t] = files[t]
        /\ Offered' = Offered \ {t}
    BY <1>1, <1>2, OneSeen
  <1>4. Pending' = Pending /\ Durable' = Durable
    <2>1. /\ Pending' = [Pending EXCEPT ![t] = Pending[t]]
          /\ Durable' = [Durable EXCEPT ![t] = Durable[t]]
      BY <1>1, <1>2, <1>3
    <2>2. Pending = [u \in Token |-> Pending[u]] /\ Durable = [u \in Token |-> Durable[u]]
      BY DEF Pending, Durable
    <2> QED
      BY <2>1, <2>2
  <1>5. Promise!Withdraw(t)
    BY <1>2, <1>3, <1>4 DEF Promise!Withdraw, Offered
  <1> QED
    BY <1>5 DEF Promise!Next

\* All other steps are Close: they leave the files and what open queues hold,
\* may close queues and open some with what their files hold, and may be the
\* last that led to a queue.
LEMMA ClosedImplements ==
    ASSUME TypeInv, DoomInv, Respects, BudgetType', UNCHANGED files,
           \A u \in DOMAIN queues' :
              /\ u \in DOMAIN queues => /\ queues'[u].messages = queues[u].messages
                                        /\ queues'[u].offered = queues[u].offered
              /\ u \notin DOMAIN queues => queues'[u].messages = files[u] /\ ~queues'[u].offered
    PROVE  Promise!Next
  <1> DEFINE S == DOMAIN queues \ DOMAIN queues'
             asked == doomed' \ doomed
             lost == {u \in Token : Leads(u) /\ ~Leads(u)' /\ files[u] # <<>>}
  <1>0. DOMAIN queues \subseteq Token /\ DOMAIN queues' \subseteq Token /\ doomed' \subseteq Token
    <2>1. DOMAIN queues \subseteq Token
      BY DEF TypeInv, QueuesType
    <2>2. Kept' \subseteq Token /\ doomed' \subseteq Kept'
      BY DEF Respects, Kept, BudgetType
    <2> QED
      BY <2>1, <2>2 DEF Respects
  <1>1. doomed' = doomed \cup asked
    BY DEF Respects
  <1>2. ASSUME NEW u \in Token
        PROVE  /\ u \in DOMAIN queues => Leads(u)
               /\ u \in DOMAIN queues' => Leads(u)'
               /\ u \in DOMAIN queues' => Leads(u)
    <2>1. u \in DOMAIN queues => Leads(u)
      BY DEF Leads, Open
    <2>2. u \in DOMAIN queues' => Leads(u)'
      BY DEF Leads, Open
    <2>3. u \in DOMAIN queues' => Leads(u)
      BY <2>1 DEF Respects
    <2> QED
      BY <2>1, <2>2, <2>3
  <1>3. lost \subseteq doomed'
    <2> SUFFICES ASSUME NEW u \in Token, ~Leads(u)', files[u] # <<>> PROVE u \in doomed'
      OBVIOUS
    <2>1. u \in Kept'
      BY DEF DoomInv, FilesKept, Respects
    <2>2. infos'[u] = None
      BY DEF Leads
    <2> QED
      BY <2>1, <2>2 DEF Kept
  <1>4. ASSUME NEW u \in Token
        PROVE  (IF Leads(u)' THEN files[u] ELSE <<>>)
               = IF u \in lost THEN <<>> ELSE IF Leads(u) THEN files[u] ELSE <<>>
    <2>1. CASE u \in generated
      <3>1. Leads(u)' => Leads(u)
        BY <2>1, RespectsKeeps DEF NoWayBack
      <3> QED
        BY <3>1
    <2>2. CASE u \notin generated
      <3>1. files[u] = <<>>
        BY <2>2 DEF DoomInv, FilesKept, RowsKept
      <3> QED
        BY <3>1
    <2> QED
      BY <2>1, <2>2
  <1>5. ASSUME NEW u \in Token
        PROVE  u \in lost => u \notin DOMAIN queues'
    BY <1>2
  <1> HIDE DEF lost, asked
  <1>6. Durable' = [u \in Token |-> IF Leads(u)' THEN files'[u] ELSE <<>>]
    BY DEF Durable
  <1>7. Durable' = [q \in Token |-> IF q \in lost THEN <<>> ELSE Durable[q]]
    <2>1. \A u \in Token : Durable'[u] = IF u \in lost THEN <<>> ELSE Durable[u]
      BY <1>4, <1>6 DEF Durable
    <2> QED
      BY <1>6, <2>1
  <1>8. Pending' = [q \in Token |-> IF q \in S \cup lost THEN Durable'[q] ELSE Pending[q]]
    <2>1. Pending' = [q \in Token |-> IF q \in DOMAIN queues' THEN queues'[q].messages
                                      ELSE Durable'[q]]
      BY DEF Pending, Open
    <2>2. \A u \in Token : Pending[u] = IF u \in DOMAIN queues THEN queues[u].messages
                                        ELSE Durable[u]
      BY DEF Pending, Open
    <2>3. \A u \in Token : u \in DOMAIN queues' /\ u \notin DOMAIN queues => Durable[u] = files[u]
      BY <1>2 DEF Durable
    <2>4. \A u \in Token : Pending'[u] = IF u \in S \cup lost THEN Durable'[u] ELSE Pending[u]
      <3> SUFFICES ASSUME NEW u \in Token
                   PROVE  Pending'[u] = IF u \in S \cup lost THEN Durable'[u] ELSE Pending[u]
        OBVIOUS
      <3>1. CASE u \in DOMAIN queues'
        BY <1>5, <2>1, <2>2, <2>3, <3>1
      <3>2. CASE u \notin DOMAIN queues'
        <4>1. Pending'[u] = Durable'[u]
          BY <2>1, <3>2
        <4>2. u \notin S \cup lost => u \notin DOMAIN queues /\ Durable'[u] = Durable[u]
          BY <1>7, <3>2
        <4> QED
          BY <2>2, <4>1, <4>2
      <3> QED
        BY <3>1, <3>2
    <2> QED
      BY <2>1, <2>4
  <1>9. Offered' = Offered \ (S \cup lost)
    BY <1>0, <1>5 DEF Offered
  <1>10. S \in SUBSET Token /\ asked \in SUBSET Token /\ lost \in SUBSET Token
    BY <1>0 DEF asked, lost
  <1> HIDE DEF S
  <1>11. PICK A \in SUBSET Token, B \in SUBSET Token, C \in SUBSET Token :
              A = S /\ B = asked /\ C = lost
    BY <1>10
  <1>12. Promise!Close(A, B, C)
    BY <1>1, <1>3, <1>7, <1>8, <1>9, <1>11 DEF Promise!Close, Offered
  <1> QED
    BY <1>12 DEF Promise!Next

\* What is seen of the storages when one is opened.
OpenedSeen ==
    \A u \in DOMAIN queues' :
        /\ u \in DOMAIN queues => /\ queues'[u].messages = queues[u].messages
                                  /\ queues'[u].offered = queues[u].offered
        /\ u \notin DOMAIN queues => queues'[u].messages = files[u] /\ ~queues'[u].offered

LEMMA StorageOpened ==
    ASSUME QueuesType, NEW n, NEW t \in Token, NEW sender \in BOOLEAN,
           GetMessageQueueStorage(n, t, sender)
    PROVE  OpenedSeen
  <1>0. queues \in [DOMAIN queues -> Storage]
    BY DEF QueuesType
  <1>1. CASE t \in DOMAIN queues
    <2>1. queues' = [queues EXCEPT ![t] = [queues[t] EXCEPT !.senders = @ \/ sender]]
      BY <1>0, <1>1 DEF GetMessageQueueStorage, Open
    <2>2. \A u \in DOMAIN queues : queues[u] \in Storage
      BY <1>0
    <2> QED
      BY <1>0, <2>1, <2>2 DEF OpenedSeen, Storage
  <1>2. CASE t \notin DOMAIN queues
    <2> DEFINE new == NewStorage(t, sender)
               s == IF n \in pendingWatch THEN Watched(new) ELSE new
    <2>1. new \in Storage /\ ~new.offered /\ new.messages = files[t]
      BY NewStorageType
    <2>2. queues' = With(queues, t, s)
      BY <1>2 DEF GetMessageQueueStorage, Open, NewStorage
    <2> HIDE DEF new
    <2>3. s.messages = files[t] /\ ~s.offered
      BY <2>1, WatchedEffect
    <2> HIDE DEF s
    <2>4. /\ DOMAIN With(queues, t, s) = DOMAIN queues \cup {t}
          /\ With(queues, t, s)[t] = s
          /\ \A u \in DOMAIN queues : u # t => With(queues, t, s)[u] = queues[u]
      BY DEF With
    <2>5. /\ DOMAIN queues' = DOMAIN queues \cup {t} /\ queues'[t] = s
          /\ \A u \in DOMAIN queues : u # t => queues'[u] = queues[u]
      BY <2>2, <2>4
    <2> QED
      BY <1>2, <2>3, <2>5 DEF OpenedSeen
  <1> QED
    BY <1>1, <1>2

\* A queue that is opened holds what its file holds, as it did closed.
LEMMA OpensImplements ==
    ASSUME TypeInv, DoomInv, Respects, BudgetType', NEW i \in DOMAIN calls,
           ObtainFinds(i) \/ ObtainFinishes(i) \/ SenderFinds(i)
    PROVE  Promise!Next
  <1>1. Opens(calls[i].name, calls[i].token) /\ UNCHANGED files
    BY OpenSteps
  <1>2. QueuesType
    BY DEF TypeInv
  <1>3. PICK n \in Name, t \in Token, sender \in BOOLEAN : GetMessageQueueStorage(n, t, sender)
    BY <1>1 DEF Opens
  <1>4. OpenedSeen
    BY <1>2, <1>3, StorageOpened
  <1> QED
    BY <1>1, <1>4, ClosedImplements DEF OpenedSeen

\* Every step of the manager is a step of the promise or a stutter.
LEMMA StepImplements ==
    ASSUME TypeInv, PageInv, StorageInv, DoomInv, [Next]_vars
    PROVE  Promise!Next \/ UNCHANGED Promise!vars
  <1>1. CASE UNCHANGED vars
    <2>1. UNCHANGED <<named, infos, files, queues, calls, doomed>>
      BY <1>1 DEF vars
    <2>2. \A u \in Token : Leads(u)' <=> Leads(u)
      BY <2>1 DEF Leads, Open
    <2>3. Durable' = [u \in Token |-> IF Leads(u)' THEN files'[u] ELSE <<>>]
      BY DEF Durable
    <2>4. Durable' = Durable
      BY <2>1, <2>2, <2>3 DEF Durable
    <2>5. Pending' = Pending
      BY <2>1, <2>4 DEF Pending, Open
    <2> QED
      BY <2>1, <2>4, <2>5 DEF Promise!vars
  <1>2. CASE Next
    <2> DEFINE Same(u) == /\ queues'[u].messages = queues[u].messages
                          /\ queues'[u].offered = queues[u].offered
    <2>0. QueuesType /\ BudgetType
      BY DEF TypeInv
    <2>1. Respects /\ BudgetType'
      BY <1>2, BudgetStep, StepRespects
    <2>2. ASSUME UNCHANGED files,
                 \A u \in DOMAIN queues' : u \in DOMAIN queues /\ Same(u)
          PROVE  Promise!Next
      BY <2>1, <2>2, ClosedImplements
    <2>3. ASSUME Restart PROVE Promise!Next
      <3>1. DOMAIN queues' = {} /\ UNCHANGED files
        BY <2>3, EmptyFunction DEF Restart
      <3> QED
        BY <2>2, <3>1
    <2>4. ASSUME NEW n \in Name, RegisterWatcher(n) PROVE Promise!Next
      <3>1. /\ DOMAIN queues' = DOMAIN queues
            /\ \A u \in DOMAIN queues :
                  queues'[u] = IF u = tokens[n] /\ tokens[n] # None THEN Watched(queues[u])
                               ELSE queues[u]
        BY <2>0, <2>4, RegisterWatcherEffect
      <3>2. UNCHANGED files
        BY <2>4 DEF RegisterWatcher
      <3>3. ASSUME NEW u \in DOMAIN queues PROVE Same(u)
        <4>1. queues[u] \in Storage
          BY <2>0 DEF QueuesType
        <4> QED
          BY <3>1, <4>1, WatchedEffect
      <3> QED
        BY <2>2, <3>1, <3>2, <3>3
    <2>5. ASSUME UNCHANGED <<queues, files>> PROVE Promise!Next
      BY <2>2, <2>5
    <2>6. ASSUME NEW n \in Name, DropWatcher(n) PROVE Promise!Next
      BY <2>3, <2>5, <2>6 DEF DropWatcher
    <2>7. ASSUME NEW t \in Token, GetMessageSender(t) PROVE Promise!Next
      <3>1. CASE Open(t)
        <4>1. queues' = [queues EXCEPT ![t].senders = TRUE] /\ UNCHANGED files
          BY <2>7, <3>1 DEF GetMessageSender
        <4>2. /\ DOMAIN queues' = DOMAIN queues
              /\ \A u \in DOMAIN queues : SameStorage(queues[u], queues'[u])
          BY <2>0, <3>1, <4>1, SenderAddedEffect DEF Open
        <4>3. \A u \in DOMAIN queues' : u \in DOMAIN queues /\ Same(u)
          BY <4>2 DEF SameStorage
        <4> QED
          BY <2>2, <4>1, <4>3
      <3>2. CASE ~Open(t)
        BY <2>5, <2>7, <3>2 DEF GetMessageSender, Start
      <3> QED
        BY <3>1, <3>2
    <2>8. ASSUME NEW i \in DOMAIN calls, ObtainFinds(i) \/ ObtainFinishes(i) \/ SenderFinds(i)
          PROVE  Promise!Next
      BY <2>1, <2>8, OpensImplements
    <2>9. ASSUME NEW i \in DOMAIN calls, DeleteFinds(i) PROVE Promise!Next
      <3>1. ClearMessageQueueStorage(calls[i].name, calls[i].token) /\ UNCHANGED files
        BY <2>9 DEF DeleteFinds
      <3>2. /\ DOMAIN queues' = DOMAIN queues \ {calls[i].token}
            /\ \A u \in DOMAIN queues' : queues'[u] = queues[u]
        BY <2>0, <3>1, ClearEffect
      <3>3. \A u \in DOMAIN queues' : u \in DOMAIN queues /\ Same(u)
        BY <3>2
      <3> QED
        BY <2>2, <3>1, <3>3
    <2>10. ASSUME NEW i \in DOMAIN calls, ObtainCreates(i) \/ NothingFound(i) \/ NamespaceFinds(i)
           PROVE  Promise!Next
      BY <2>5, <2>10 DEF ObtainCreates, NothingFound, NamespaceFinds
    <2>11. CASE Answered
      BY <2>8, <2>9, <2>10, <2>11 DEF Answered
    <2>12. CASE Client
      <3>1. ASSUME NEW n \in Name, ObtainMessageQueue(n) \/ DeleteMessageQueue(n)
            PROVE  Promise!Next
        BY <2>5, <3>1 DEF ObtainMessageQueue, DeleteMessageQueue, Start
      <3>2. CASE DeleteNamespace
        BY <2>5, <3>2 DEF DeleteNamespace, Start
      <3>3. ASSUME NEW t \in Token, Send(t) \/ RegisterReceiver(t) \/ ReaderClosed(t)
            PROVE  Promise!Next
        BY <2>0, <3>3, SendImplements, RegisterReceiverImplements, ReaderClosedImplements
      <3> QED
        BY <2>4, <2>6, <2>7, <2>12, <3>1, <3>2, <3>3 DEF Client
    <2>13. CASE PageHandles
      BY <2>5, <2>13 DEF PageHandles
    <2>14. CASE \E t \in Token : Received(t)
      BY <2>0, <2>14, ReceivedImplements
    <2>15. CASE Crash
      BY <2>3, <2>15 DEF Crash
    <2> QED
      BY <1>2, <2>11, <2>12, <2>13, <2>14, <2>15 DEF Next
  <1> QED
    BY <1>1, <1>2

-----------------------------------------------------------------------------
(* RaceInv *)

\* What has happened stays known.
LEMMA RacedGrows ==
    ASSUME Next
    PROVE  raced \subseteq raced'
  <1>1. CASE Client
    BY <1>1 DEF Client, ObtainMessageQueue, DeleteMessageQueue, DeleteNamespace, Start,
       GetMessageSender, RegisterWatcher, DropWatcher, Send, RegisterReceiver, ReaderClosed
  <1>2. CASE PageHandles
    BY <1>2 DEF PageHandles, PageSnapshots, PageSnapshotFails, PageCreates, PageDeletes, PageErases
  <1>3. CASE Answered
    BY <1>3 DEF Answered, ObtainFinds, ObtainCreates, ObtainFinishes, DeleteFinds, NothingFound,
       SenderFinds, NamespaceFinds
  <1>4. CASE Crash \/ \E t \in Token : Received(t)
    BY <1>4 DEF Crash, Received
  <1> QED
    BY <1>1, <1>2, <1>3, <1>4 DEF Next

Calm == RowsAgree /\ OpenAgree /\ WatchersPlaced /\ CallsCurrent /\ CreatorsAlone

\* No queue is opened or closed and no watcher is lost.
LEMMA QueuesCalm ==
    ASSUME ManagerType, OpenAgree, WatchersPlaced,
           UNCHANGED <<infos, tokens, pendingWatch, watching>>,
           DOMAIN queues' = DOMAIN queues,
           \A u \in DOMAIN queues : queues[u].watcher => queues'[u].watcher
    PROVE  OpenAgree' /\ WatchersPlaced'
  <1>1. OpenAgree'
    BY DEF OpenAgree
  <1>2. WatchersPlaced'
    BY DEF OpenAgree, WatchersPlaced, ManagerType
  <1> QED
    BY <1>1, <1>2

\* The rows and what is asked of them stay.
LEMMA RowsCalm ==
    ASSUME RowsAgree, CallsCurrent, CreatorsAlone,
           UNCHANGED <<named, infos, generated, calls, page>>
    PROVE  RowsAgree' /\ CallsCurrent' /\ CreatorsAlone'
  <1>1. RowsAgree'
    BY DEF RowsAgree
  <1>2. CallsCurrent'
    BY DEF CallsCurrent
  <1>3. CreatorsAlone'
    BY DEF CreatorsAlone, Creating, OfCall
  <1> QED
    BY <1>1, <1>2, <1>3

\* The steps of a storage: senders, readers and answers.
LEMMA StorageStepsCalm ==
    ASSUME TypeInv, StorageInv, Calm, NEW t \in Token,
           \/ Send(t) \/ Received(t) \/ RegisterReceiver(t) \/ ReaderClosed(t)
           \/ Open(t) /\ GetMessageSender(t)
    PROVE  Calm'
  <1>0. QueuesType /\ BudgetType /\ ManagerType
    BY DEF TypeInv
  <1>1. UNCHANGED <<named, infos, generated, calls, page, tokens, pendingWatch, watching>>
    BY DEF Send, Received, RegisterReceiver, ReaderClosed, GetMessageSender, ledger, manager, budget
  <1>2. /\ DOMAIN queues' = DOMAIN queues
        /\ \A u \in DOMAIN queues : queues[u].watcher => queues'[u].watcher
    <2>1. ASSUME NEW s, OneStorage(t, s), s.watcher = queues[t].watcher
          PROVE  /\ DOMAIN queues' = DOMAIN queues
                 /\ \A u \in DOMAIN queues : queues[u].watcher => queues'[u].watcher
      <3>1. /\ DOMAIN queues' = DOMAIN queues
            /\ queues'[t] = s
            /\ \A u \in DOMAIN queues : u # t => queues'[u] = queues[u]
        BY <1>0, <2>1, OneStorageType
      <3> QED
        BY <2>1, <3>1
    <2>2. CASE Send(t)
      BY <1>0, <2>1, <2>2, SendEffect
    <2>3. CASE Received(t)
      BY <1>0, <2>1, <2>3, ReceivedEffect
    <2>4. CASE RegisterReceiver(t)
      BY <1>0, <2>1, <2>4, RegisterReceiverEffect
    <2>5. CASE ReaderClosed(t)
      BY <1>0, <2>1, <2>5, ReaderClosedEffect
    <2>6. CASE Open(t) /\ GetMessageSender(t)
      <3>1. queues' = [queues EXCEPT ![t].senders = TRUE] /\ t \in DOMAIN queues
        BY <2>6 DEF GetMessageSender, Open
      <3>2. /\ DOMAIN queues' = DOMAIN queues
            /\ \A u \in DOMAIN queues : SameStorage(queues[u], queues'[u])
        BY <1>0, <3>1, SenderAddedEffect
      <3> QED
        BY <3>2 DEF SameStorage
    <2> QED
      BY <2>2, <2>3, <2>4, <2>5, <2>6
  <1> QED
    BY <1>0, <1>1, <1>2, QueuesCalm, RowsCalm DEF Calm

\* A watcher is placed with the open queue of its name, or waits for it.
LEMMA RegisterWatcherCalm ==
    ASSUME TypeInv, Calm, NEW n \in Name, RegisterWatcher(n)
    PROVE  Calm'
  <1>0. QueuesType /\ ManagerType
    BY DEF TypeInv
  <1>1. /\ DOMAIN queues' = DOMAIN queues
        /\ \A u \in DOMAIN queues :
              queues'[u] = IF u = tokens[n] /\ tokens[n] # None THEN Watched(queues[u])
                           ELSE queues[u]
    BY <1>0, RegisterWatcherEffect
  <1>2. UNCHANGED <<named, infos, generated, calls, page, tokens>> /\ watching' = watching \cup {n}
    BY DEF RegisterWatcher, ledger
  <1>3. \A u \in DOMAIN queues : /\ queues[u].watcher => queues'[u].watcher
                                 /\ u = tokens[n] /\ tokens[n] # None => queues'[u].watcher
    <2>1. \A u \in DOMAIN queues : queues[u] \in Storage
      BY <1>0 DEF QueuesType
    <2> QED
      BY <1>1, <2>1, WatchedEffect
  <1>4. OpenAgree'
    BY <1>1, <1>2 DEF OpenAgree, Calm
  <1>5. pendingWatch \subseteq pendingWatch' /\ (tokens[n] = None => n \in pendingWatch')
    BY DEF RegisterWatcher
  <1>6. WatchersPlaced'
    <2> SUFFICES ASSUME NEW m \in watching'
                 PROVE  IF tokens[m] = None THEN m \in pendingWatch' ELSE queues'[tokens[m]].watcher
      BY <1>2 DEF WatchersPlaced
    <2>1. m \in Name /\ (tokens[m] # None => tokens[m] \in DOMAIN queues)
      BY <1>0, <1>2 DEF ManagerType, OpenAgree, Calm
    <2>2. CASE m = n
      BY <1>3, <1>5, <2>1, <2>2
    <2>3. CASE m # n
      BY <1>2, <1>3, <1>5, <2>1, <2>3 DEF WatchersPlaced, Calm
    <2> QED
      BY <2>2, <2>3
  <1> QED
    BY <1>2, <1>4, <1>6, RowsCalm DEF Calm

\* A new operation comes last.
LEMMA StartCalm ==
    ASSUME TypeInv, PageInv, Calm, NEW kind, NEW n, NEW t, Start(kind, n, t),
           CallOK([kind |-> kind, at |-> "snapshot", name |-> n, token |-> t, found |-> {}])
    PROVE  Calm'
  <1> DEFINE i == started + 1
             last == Len(page) + 1
             c == [kind |-> kind, at |-> "snapshot", name |-> n, token |-> t, found |-> {}]
  <1>0. QueuesType /\ ManagerType /\ CallsType
    BY DEF TypeInv
  <1>1. UNCHANGED <<named, infos, generated, tokens, pendingWatch, watching, queues>>
    BY DEF Start, ledger, manager
  <1>2. /\ i \notin DOMAIN calls
        /\ DOMAIN calls' = DOMAIN calls \cup {i}
        /\ calls'[i] = c
        /\ \A j \in DOMAIN calls : calls'[j] = calls[j]
    BY StartEffect
  <1>3. c.at = "snapshot"
    OBVIOUS
  <1>4. /\ page' = Append(page, [do |-> "snapshot", of |-> i])
        /\ [do |-> "snapshot", of |-> i] \in Request
    BY DEF Start, TypeInv, BudgetType, Request, CallRequest
  <1>5. /\ last \notin DOMAIN page
        /\ DOMAIN page' = DOMAIN page \cup {last}
        /\ page'[last].do = "snapshot" /\ page'[last].of = i
        /\ \A k \in DOMAIN page : page'[k] = page[k] /\ k \in Nat /\ k < last
    BY <1>0, <1>4, RequestMade
  <1> HIDE DEF i, last, c
  <1>6. RowsAgree' /\ OpenAgree' /\ WatchersPlaced'
    BY <1>0, <1>1, QueuesCalm DEF Calm, RowsAgree
  <1>7. CallsCurrent'
    BY <1>1, <1>2, <1>3 DEF Calm, CallsCurrent
  <1>8. \A k \in DOMAIN page : OfCall(k) /\ page[k].of \in DOMAIN calls
    BY DEF Calm, CreatorsAlone, PageInv
  <1>9. \A j \in DOMAIN calls' : Creating(j)' => j \in DOMAIN calls /\ Creating(j)
    BY <1>2, <1>3 DEF Creating
  <1>10. CreatorsAlone'
    <2>1. ASSUME NEW j \in DOMAIN calls', NEW k \in DOMAIN calls', j # k, Creating(j)',
                 calls'[k].kind = "obtain"
          PROVE  /\ calls'[k].name = calls'[j].name => calls'[k].at = "snapshot"
                 /\ Creating(k)' => calls'[k].token # calls'[j].token
      BY <1>2, <1>3, <1>9, <2>1 DEF Calm, CreatorsAlone
    <2>2. ASSUME NEW j \in DOMAIN calls', Creating(j)'
          PROVE  \E k \in DOMAIN page' : page'[k].do = "commit" /\ page'[k].of = j
      BY <1>5, <1>9, <2>2 DEF Calm, CreatorsAlone
    <2>3. ASSUME NEW j \in DOMAIN page', NEW k \in DOMAIN page',
                 page'[j].do = "commit", page'[k].do = "snapshot",
                 calls'[page'[k].of].kind = "obtain",
                 calls'[page'[j].of].name = calls'[page'[k].of].name
          PROVE  j < k
      <3>1. j \in DOMAIN page
        BY <1>5, <2>3
      <3>2. CASE k = last
        BY <1>5, <3>1, <3>2
      <3>3. CASE k \in DOMAIN page
        BY <1>2, <1>5, <1>8, <2>3, <3>1, <3>3 DEF Calm, CreatorsAlone
      <3> QED
        BY <1>5, <3>2, <3>3
    <2>4. \A k \in DOMAIN page' : OfCall(k)'
      BY <1>5, <1>8 DEF OfCall
    <2> QED
      BY <2>1, <2>2, <2>3, <2>4 DEF CreatorsAlone
  <1> QED
    BY <1>6, <1>7, <1>10 DEF Calm

\* After a restart nothing is open and nothing under way.
LEMMA RestartCalm ==
    ASSUME Calm, Restart
    PROVE  Calm'
  <1>1. /\ queues' = <<>> /\ calls' = <<>> /\ page' = <<>>
        /\ tokens' = [m \in Name |-> None] /\ watching' = {}
        /\ UNCHANGED <<named, infos, generated>>
    BY DEF Restart, ledger
  <1>2. DOMAIN queues' = {} /\ DOMAIN calls' = {} /\ DOMAIN page' = {}
    BY <1>1, EmptyFunction
  <1>3. RowsAgree' /\ OpenAgree' /\ WatchersPlaced'
    BY <1>1, <1>2 DEF Calm, RowsAgree, OpenAgree, WatchersPlaced
  <1>4. CallsCurrent' /\ CreatorsAlone'
    BY <1>2 DEF CallsCurrent, CreatorsAlone
  <1> QED
    BY <1>3, <1>4 DEF Calm
\* The first request is taken: its call goes on, or ends, and no call that makes
\* a queue is met by another that has read the rows.
LEMMA CreatorsTaken ==
    ASSUME CallsType, PageInv, CreatorsAlone, page # <<>>, page' = Tail(page),
           NEW i, i = page[1].of,
           DOMAIN calls' \subseteq DOMAIN calls,
           \A j \in DOMAIN calls : j # i => j \in DOMAIN calls' /\ calls'[j] = calls[j],
           i \in DOMAIN calls' =>
              /\ calls'[i].at \notin {"snapshot", "commit"}
              /\ calls'[i].kind = calls[i].kind
              /\ calls[i].kind = "obtain" => calls'[i].name = calls[i].name
    PROVE  /\ CreatorsAlone'
           /\ \A j \in DOMAIN calls :
                 j # i /\ Creating(j) /\ calls[i].kind = "obtain" => calls[j].name # calls[i].name
  <1>1. /\ 1 \in DOMAIN page
        /\ \A k \in DOMAIN page' : k + 1 \in DOMAIN page /\ page'[k] = page[k + 1]
        /\ \A k \in DOMAIN page : k # 1 => k - 1 \in DOMAIN page' /\ page'[k - 1] = page[k]
        /\ DOMAIN page \subseteq Nat /\ DOMAIN page' \subseteq Nat
        /\ \A k \in DOMAIN page : k # 0
    BY RequestTaken DEF CallsType
  <1>2. /\ OfCall(1) /\ i \in DOMAIN calls /\ calls[i].at = page[1].do
        /\ \A k \in DOMAIN page : OfCall(k) /\ page[k].of \in DOMAIN calls
        /\ \A k \in DOMAIN page : k # 1 => page[k].of # i
    BY <1>1 DEF CreatorsAlone, PageInv
  <1>3. ASSUME NEW j \in DOMAIN calls, j # i, Creating(j), calls[i].kind = "obtain"
        PROVE  calls[j].name # calls[i].name
    <2>1. PICK k \in DOMAIN page : page[k].do = "commit" /\ page[k].of = j
      BY <1>3 DEF CreatorsAlone
    <2>2. CASE page[1].do = "snapshot"
      <3>1. calls[j].name = calls[i].name => k < 1
        BY <1>1, <1>3, <2>1, <2>2 DEF CreatorsAlone
      <3> QED
        BY <1>1, <3>1
    <2>3. CASE page[1].do = "commit"
      <3>1. Creating(i)
        BY <1>2, <1>3, <2>3 DEF Creating
      <3> QED
        BY <1>2, <1>3, <3>1 DEF CreatorsAlone, Creating
    <2> QED
      BY <1>2, <2>2, <2>3 DEF OfCall
  <1>4. \A j \in DOMAIN calls' : Creating(j)' => j # i /\ Creating(j)
    BY DEF Creating
  <1>5. ASSUME NEW j \in DOMAIN calls', NEW k \in DOMAIN calls', j # k, Creating(j)',
               calls'[k].kind = "obtain"
        PROVE  /\ calls'[k].name = calls'[j].name => calls'[k].at = "snapshot"
               /\ Creating(k)' => calls'[k].token # calls'[j].token
    <2>1. j \in DOMAIN calls /\ k \in DOMAIN calls /\ j # i /\ Creating(j) /\ calls'[j] = calls[j]
      BY <1>4, <1>5
    <2>2. CASE k = i
      BY <1>3, <1>4, <1>5, <2>1, <2>2
    <2>3. CASE k # i
      BY <1>4, <1>5, <2>1, <2>3 DEF CreatorsAlone
    <2> QED
      BY <2>2, <2>3
  <1>6. ASSUME NEW j \in DOMAIN calls', Creating(j)'
        PROVE  \E k \in DOMAIN page' : page'[k].do = "commit" /\ page'[k].of = j
    <2>1. j \in DOMAIN calls /\ j # i /\ Creating(j)
      BY <1>4, <1>6
    <2>2. PICK k \in DOMAIN page : page[k].do = "commit" /\ page[k].of = j
      BY <2>1 DEF CreatorsAlone
    <2>3. k - 1 \in DOMAIN page' /\ page'[k - 1] = page[k]
      BY <1>1, <2>1, <2>2
    <2> QED
      BY <2>2, <2>3
  <1>7. ASSUME NEW j \in DOMAIN page', NEW k \in DOMAIN page',
               page'[j].do = "commit", page'[k].do = "snapshot",
               calls'[page'[k].of].kind = "obtain",
               calls'[page'[j].of].name = calls'[page'[k].of].name
        PROVE  j < k
    <2>1. /\ j + 1 \in DOMAIN page /\ page'[j] = page[j + 1] /\ j + 1 # 1
          /\ k + 1 \in DOMAIN page /\ page'[k] = page[k + 1] /\ k + 1 # 1
      BY <1>1
    <2>2. /\ page[j + 1].of \in DOMAIN calls /\ page[j + 1].of # i
          /\ page[k + 1].of \in DOMAIN calls /\ page[k + 1].of # i
      BY <1>2, <2>1
    <2>3. /\ calls'[page[j + 1].of] = calls[page[j + 1].of]
          /\ calls'[page[k + 1].of] = calls[page[k + 1].of]
      BY <2>2
    <2>4. j + 1 < k + 1
      BY <1>7, <2>1, <2>3 DEF CreatorsAlone
    <2> QED
      BY <1>1, <2>4
  <1>8. ASSUME NEW k \in DOMAIN page' PROVE OfCall(k)'
    BY <1>1, <1>2 DEF OfCall
  <1> QED
    BY <1>3, <1>5, <1>6, <1>7, <1>8 DEF CreatorsAlone

\* The rows of a queue that is made agree, and leave alone what is open.
LEMMA CreatedRows ==
    ASSUME TypeInv, Calm, NEW i \in DOMAIN calls, Creating(i),
           named' = [named EXCEPT ![calls[i].name] = calls[i].token],
           infos' = [infos EXCEPT ![calls[i].token] = calls[i].name],
           UNCHANGED <<queues, tokens, pendingWatch, watching, generated>>
    PROVE  /\ RowsAgree' /\ OpenAgree' /\ WatchersPlaced'
           /\ calls[i].name \in Name /\ calls[i].token \in Token
           /\ infos[calls[i].token] = None
  <1> DEFINE n == calls[i].name
             t == calls[i].token
  <1>1. n \in Name /\ t \in Token
    BY DEF TypeInv, CallsType, CallOK, Creating
  <1>2. named[n] = None /\ infos[t] = None /\ t \in generated
    BY DEF Calm, CallsCurrent, Creating
  <1>3. named' = [named EXCEPT ![n] = t] /\ infos' = [infos EXCEPT ![t] = n]
    OBVIOUS
  <1> HIDE DEF n, t
  <1>4. named \in [Name -> Token \cup {None}] /\ infos \in [Token -> Name \cup {None}]
    BY DEF TypeInv, RowsType
  <1>5. /\ named'[n] = t /\ \A m \in Name : m # n => named'[m] = named[m]
        /\ infos'[t] = n /\ \A u \in Token : u # t => infos'[u] = infos[u]
    BY <1>1, <1>3, <1>4
  <1>6. RowsAgree'
    <2>1. ASSUME NEW m \in Name, NEW u \in Token PROVE named'[m] = u <=> infos'[u] = m
      BY <1>1, <1>2, <1>5, NoneAssumption DEF Calm, RowsAgree
    <2>2. ASSUME NEW u \in Token, infos'[u] # None PROVE u \in generated'
      BY <1>2, <1>5, <2>2 DEF Calm, RowsAgree
    <2> QED
      BY <2>1, <2>2 DEF RowsAgree
  <1>7. OpenAgree'
    <2>1. ASSUME NEW u \in DOMAIN queues' PROVE infos'[u] \in Name /\ tokens'[infos'[u]] = u
      <3>1. u \in Token /\ infos[u] \in Name /\ tokens[infos[u]] = u
        BY <2>1 DEF Calm, OpenAgree, TypeInv, QueuesType
      <3> QED
        BY <1>2, <1>5, <3>1, NoneAssumption
    <2>2. ASSUME NEW m \in Name, tokens'[m] # None
          PROVE  tokens'[m] \in DOMAIN queues' /\ infos'[tokens'[m]] = m
      <3>1. tokens[m] \in DOMAIN queues /\ tokens[m] \in Token /\ infos[tokens[m]] = m
        BY <2>2 DEF Calm, OpenAgree, TypeInv, QueuesType
      <3> QED
        BY <1>2, <1>5, <3>1, NoneAssumption
    <2> QED
      BY <2>1, <2>2 DEF OpenAgree
  <1>8. WatchersPlaced'
    BY DEF Calm, WatchersPlaced
  <1> QED
    BY <1>1, <1>2, <1>6, <1>7, <1>8 DEF n, t
\* What the page does, as long as nothing is deleted and no read fails.
LEMMA PageHandlesCalm ==
    ASSUME TypeInv, PageInv, Calm, PageHandles, raced' \cap Race = {}
    PROVE  Calm'
  <1> DEFINE i == page[1].of
  <1>0. CallsType /\ QueuesType /\ ManagerType
    BY DEF TypeInv
  <1>1. /\ Head(page) = page[1] /\ page # <<>> /\ page' = Tail(page)
        /\ OfCall(1) /\ i \in DOMAIN calls /\ CallOK(calls[i]) /\ calls[i].at = page[1].do
        /\ page[1].do \notin {"erase", "forget"}
    <2>1. 1 \in DOMAIN page
      BY FirstRequest
    <2>2. OfCall(1)
      BY <2>1 DEF Calm, CreatorsAlone
    <2> QED
      BY <2>2, FirstRequest DEF OfCall
  <1>2. UNCHANGED <<queues, tokens, pendingWatch, watching, generated>>
    BY DEF PageHandles, manager
  <1>3. PageSnapshots(i) \/ PageSnapshotFails(i) \/ PageCreates(i)
    <2>1. PageSnapshots(i) \/ PageSnapshotFails(i) \/ PageCreates(i) \/ PageDeletes(i)
      BY <1>1 DEF PageHandles, PageErases
    <2>2. ~PageDeletes(i)
      BY <1>1 DEF PageDeletes, Calm, CallsCurrent
    <2> QED
      BY <2>1, <2>2
  <1>4. CASE calls' = Without(calls, i) /\ UNCHANGED <<named, infos>>
    <2>1. /\ DOMAIN calls' = DOMAIN calls \ {i}
          /\ \A j \in DOMAIN calls : j # i => calls'[j] = calls[j]
      BY <1>0, <1>4, CallRemoved
    <2> HIDE DEF i
    <2>2. CreatorsAlone'
      BY <1>0, <1>1, <2>1, CreatorsTaken DEF Calm, i
    <2>3. CallsCurrent'
      BY <1>2, <1>4, <2>1 DEF Calm, CallsCurrent
    <2>4. RowsAgree' /\ OpenAgree' /\ WatchersPlaced'
      BY <1>0, <1>2, <1>4, QueuesCalm DEF Calm, RowsAgree
    <2> QED
      BY <2>2, <2>3, <2>4 DEF Calm
  <1>5. CASE PageSnapshots(i)
    <2>1. PICK d : /\ calls' = [calls EXCEPT ![i] = d]
                   /\ CallOK(d) /\ d.at = "answer" /\ d.kind = calls[i].kind
                   /\ d.token = IF d.kind \in {"obtain", "delete"} THEN named[d.name]
                                ELSE calls[i].token
                   /\ d.name = IF d.kind = "sender" THEN infos[d.token] ELSE calls[i].name
      BY <1>1, <1>5, SnapshotEffect
    <2>2. UNCHANGED <<named, infos>>
      BY <1>5 DEF PageSnapshots, ledger
    <2> HIDE DEF i
    <2>3. /\ DOMAIN calls' = DOMAIN calls /\ calls'[i] = d
          /\ \A j \in DOMAIN calls : j # i => calls'[j] = calls[j]
      BY <1>0, <1>1, <2>1, CallReplaced
    <2>4. /\ d.at \notin {"snapshot", "commit"}
          /\ calls[i].kind = "obtain" => d.name = calls[i].name
      BY <2>1
    <2>5. CreatorsAlone'
      BY <1>0, <1>1, <2>1, <2>3, <2>4, CreatorsTaken DEF Calm, i
    <2>6. CallsCurrent'
      BY <1>2, <2>1, <2>2, <2>3, ZenonT(40) DEF Calm, CallsCurrent
    <2>7. RowsAgree' /\ OpenAgree' /\ WatchersPlaced'
      BY <1>0, <1>2, <2>2, QueuesCalm DEF Calm, RowsAgree
    <2> QED
      BY <2>5, <2>6, <2>7 DEF Calm
  <1>6. CASE PageSnapshotFails(i)
    <2>1. "readError" \notin raced'
      BY DEF Race
    <2>2. calls' = Without(calls, i) /\ UNCHANGED <<named, infos>>
      BY <1>1, <1>6, <2>1, SnapshotFailsEffect DEF PageSnapshotFails, ledger
    <2> QED
      BY <1>4, <2>2
  <1>7. CASE PageCreates(i)
    <2>1. Creating(i)
      BY <1>7 DEF PageCreates, Creating
    <2>2. CASE calls' = Without(calls, i)
      <3>1. calls' # [calls EXCEPT ![i].at = "done"]
        <4>1. i \notin DOMAIN calls' /\ i \in DOMAIN calls
          BY <1>1, <2>2 DEF Without
        <4> QED
          BY <4>1
      <3>2. UNCHANGED <<named, infos>>
        BY <1>7, <3>1 DEF PageCreates, ledger
      <3> QED
        BY <1>4, <2>2, <3>2
    <2>3. CASE calls' # Without(calls, i)
      <3>1. /\ named' = [named EXCEPT ![calls[i].name] = calls[i].token]
            /\ infos' = [infos EXCEPT ![calls[i].token] = calls[i].name]
            /\ \E d : /\ calls' = [calls EXCEPT ![i] = d]
                      /\ CallOK(d) /\ d.at = "done" /\ d.kind = "obtain"
                      /\ d.token = calls[i].token /\ d.name = calls[i].name
        BY <1>1, <1>7, <2>3, CreateEffect
      <3>2. PICK d : /\ calls' = [calls EXCEPT ![i] = d]
                     /\ CallOK(d) /\ d.at = "done" /\ d.kind = "obtain"
                     /\ d.token = calls[i].token /\ d.name = calls[i].name
        BY <3>1
      <3> HIDE DEF i
      <3>3. /\ DOMAIN calls' = DOMAIN calls /\ calls'[i] = d
            /\ \A j \in DOMAIN calls : j # i => calls'[j] = calls[j]
        BY <1>0, <1>1, <3>2, CallReplaced
      <3>4. /\ RowsAgree' /\ OpenAgree' /\ WatchersPlaced'
            /\ calls[i].name \in Name /\ calls[i].token \in Token
            /\ infos[calls[i].token] = None
        BY <1>1, <1>2, <2>1, <3>1, CreatedRows
      <3>5. calls[i].kind = "obtain"
        BY <2>1 DEF Creating
      <3>6. /\ CreatorsAlone'
            /\ \A j \in DOMAIN calls :
                 j # i /\ Creating(j) /\ calls[i].kind = "obtain" => calls[j].name # calls[i].name
        BY <1>0, <1>1, <3>2, <3>3, <3>5, CreatorsTaken DEF Calm, i
      <3>7. /\ \A m \in Name : m # calls[i].name => named'[m] = named[m]
            /\ infos'[calls[i].token] = calls[i].name
            /\ \A u \in Token : u # calls[i].token => infos'[u] = infos[u]
        BY <3>1, <3>4 DEF TypeInv, RowsType
      <3>8. CallsCurrent'
        <4>1. ASSUME NEW j \in DOMAIN calls, j # i
              PROVE  LET c == calls[j] IN
                     /\ c.kind = "delete" => c.at # "commit"
                     /\ c.kind = "obtain" /\ c.at = "answer" => named'[c.name] = c.token
                     /\ c.kind = "obtain" /\ c.at = "commit" =>
                          named'[c.name] = None /\ infos'[c.token] = None /\ c.token \in generated
                     /\ c.kind = "obtain" /\ c.at = "done" => infos'[c.token] = c.name
                     /\ c.kind = "sender" /\ c.at = "answer" /\ c.name # None =>
                          infos'[c.token] = c.name
          <5> DEFINE c == calls[j]
          <5>1. CallOK(c)
            BY <4>1 DEF TypeInv, CallsType
          <5>2. c.kind = "delete" => c.at # "commit"
            BY <4>1 DEF Calm, CallsCurrent
          <5>3. ASSUME c.kind = "obtain", c.at = "answer" PROVE named'[c.name] = c.token
            <6>1. c.name \in Name /\ c.name # calls[i].name
              BY <2>1, <1>1, <4>1, <5>1, <5>3 DEF Calm, CreatorsAlone, CallOK
            <6> QED
              BY <3>7, <4>1, <5>3, <6>1 DEF Calm, CallsCurrent
          <5>4. ASSUME c.kind = "obtain", c.at = "commit"
                PROVE  named'[c.name] = None /\ infos'[c.token] = None /\ c.token \in generated
            <6>1. Creating(j) /\ c.name \in Name /\ c.token \in Token
              BY <5>1, <5>4 DEF Creating, CallOK
            <6>2. c.name # calls[i].name /\ c.token # calls[i].token
              BY <1>1, <2>1, <3>5, <3>6, <4>1, <5>4, <6>1 DEF Calm, CreatorsAlone
            <6> QED
              BY <3>7, <4>1, <5>4, <6>1, <6>2 DEF Calm, CallsCurrent
          <5>5. ASSUME c.kind = "obtain", c.at = "done" PROVE infos'[c.token] = c.name
            <6>1. c.token \in Token /\ c.name \in Name /\ infos[c.token] = c.name
              BY <4>1, <5>1, <5>5 DEF CallOK, Calm, CallsCurrent
            <6>2. c.token # calls[i].token
              BY <3>4, <6>1, NoneAssumption
            <6> QED
              BY <3>7, <6>1, <6>2
          <5>6. ASSUME c.kind = "sender", c.at = "answer", c.name # None
                PROVE  infos'[c.token] = c.name
            <6>1. c.token \in Token /\ infos[c.token] = c.name
              BY <4>1, <5>1, <5>6 DEF CallOK, Calm, CallsCurrent
            <6>2. c.token # calls[i].token
              BY <3>4, <5>6, <6>1
            <6> QED
              BY <3>7, <6>1, <6>2
          <5> QED
            BY <5>2, <5>3, <5>4, <5>5, <5>6
        <4> QED
          BY <1>2, <3>2, <3>3, <3>7, <4>1 DEF CallsCurrent
      <3> QED
        BY <3>4, <3>6, <3>8 DEF Calm
    <2> QED
      BY <2>2, <2>3
  <1> QED
    BY <1>3, <1>5, <1>6, <1>7
\* A call that waits for nothing ends.
LEMMA CallEndsCalm ==
    ASSUME TypeInv, PageInv, Calm, NEW i \in DOMAIN calls, calls[i].at \notin {"snapshot", "commit"},
           calls' = Without(calls, i), UNCHANGED <<named, infos, generated, page>>
    PROVE  RowsAgree' /\ CallsCurrent' /\ CreatorsAlone'
  <1>0. CallsType
    BY DEF TypeInv
  <1>1. /\ DOMAIN calls' = DOMAIN calls \ {i}
        /\ \A j \in DOMAIN calls : j # i => calls'[j] = calls[j]
    BY <1>0, CallRemoved
  <1>2. RowsAgree'
    BY DEF Calm, RowsAgree
  <1>3. CallsCurrent'
    BY <1>1 DEF Calm, CallsCurrent
  <1>4. \A k \in DOMAIN page : OfCall(k) /\ page[k].of \in DOMAIN calls /\ page[k].of # i
    BY DEF Calm, CreatorsAlone, PageInv, OfCall
  <1>5. CreatorsAlone'
    <2>1. \A j \in DOMAIN calls' : j \in DOMAIN calls /\ calls'[j] = calls[j]
                                   /\ (Creating(j)' <=> Creating(j))
      BY <1>1 DEF Creating
    <2>2. \A k \in DOMAIN page : calls'[page[k].of] = calls[page[k].of]
      BY <1>1, <1>4
    <2> QED
      BY <1>4, <2>1, <2>2 DEF Calm, CreatorsAlone, OfCall
  <1> QED
    BY <1>2, <1>3, <1>5

\* The queue of a name is opened under its token, and takes over the watcher.
LEMMA OpensCalm ==
    ASSUME TypeInv, PageInv, Calm, NEW i \in DOMAIN calls,
           ObtainFinds(i) \/ ObtainFinishes(i) \/ SenderFinds(i)
    PROVE  Calm'
  <1> DEFINE n == calls[i].name
             t == calls[i].token
  <1>0. QueuesType /\ ManagerType /\ RowsType
    BY DEF TypeInv
  <1>1. /\ Opens(n, t)
        /\ UNCHANGED <<files, watching, budget, raced, named, infos, page>>
        /\ calls' = Without(calls, i)
    BY OpenSteps
  <1>2. n \in Name /\ t \in Token
    BY <1>1 DEF Opens
  <1>3. infos[t] = n
    <2>1. CASE ObtainFinds(i)
      BY <1>2, <2>1 DEF ObtainFinds, Calm, CallsCurrent, RowsAgree
    <2>2. CASE ObtainFinishes(i) \/ SenderFinds(i)
      BY <2>2 DEF ObtainFinishes, SenderFinds, Calm, CallsCurrent
    <2> QED
      BY <2>1, <2>2
  <1>4. calls[i].at \notin {"snapshot", "commit"}
    BY DEF ObtainFinds, ObtainFinishes, SenderFinds
  <1>5. RowsAgree' /\ CallsCurrent' /\ CreatorsAlone'
    BY <1>1, <1>4, CallEndsCalm DEF budget
  <1> HIDE DEF n, t
  <1>6. PICK sender \in BOOLEAN : GetMessageQueueStorage(n, t, sender)
    BY <1>1 DEF Opens
  <1>7. /\ DOMAIN queues' = DOMAIN queues \cup {t}
        /\ \A u \in DOMAIN queues : SameStorage(queues[u], queues'[u])
        /\ t \in DOMAIN queues => UNCHANGED <<tokens, pendingWatch>>
        /\ t \notin DOMAIN queues =>
             /\ n \in pendingWatch => queues'[t].watcher
             /\ tokens' = [tokens EXCEPT ![n] = t]
             /\ pendingWatch' = pendingWatch \ {n}
    <2>1. /\ DOMAIN queues' = DOMAIN queues \cup {t}
          /\ queues' \in [DOMAIN queues' -> Storage]
          /\ \A u \in DOMAIN queues : SameStorage(queues[u], queues'[u])
          /\ t \in DOMAIN queues => UNCHANGED <<tokens, pendingWatch>>
          /\ t \notin DOMAIN queues =>
               /\ queues'[t].messages = files[t]
               /\ ~queues'[t].reader /\ ~queues'[t].offered /\ ~queues'[t].ackPending
               /\ StorageOK(queues'[t])
               /\ n \in pendingWatch => queues'[t].watcher
               /\ tokens' = [tokens EXCEPT ![n] = t]
               /\ pendingWatch' = pendingWatch \ {n}
      BY <1>0, <1>2, <1>6, GetStorageEffect
    <2> QED
      BY <2>1
  <1>8. \A u \in DOMAIN queues : queues'[u].watcher = queues[u].watcher
    BY <1>7 DEF SameStorage
  <1>9. CASE t \in DOMAIN queues
    <2>1. DOMAIN queues' = DOMAIN queues /\ UNCHANGED <<infos, tokens, pendingWatch, watching>>
      BY <1>1, <1>7, <1>9
    <2>2. OpenAgree' /\ WatchersPlaced'
      BY <1>0, <1>8, <2>1, QueuesCalm DEF Calm
    <2> QED
      BY <1>5, <2>2 DEF Calm
  <1>10. CASE t \notin DOMAIN queues
    <2>1. tokens[n] = None
      BY <1>0, <1>2, <1>3, <1>10 DEF Calm, OpenAgree, RowsAgree, ManagerType
    <2>2. /\ tokens'[n] = t /\ t # None
          /\ \A m \in Name : m # n => tokens'[m] = tokens[m]
      BY <1>0, <1>2, <1>7, <1>10, NoneAssumption DEF ManagerType
    <2>3. OpenAgree'
      <3>1. ASSUME NEW u \in DOMAIN queues' PROVE infos'[u] \in Name /\ tokens'[infos'[u]] = u
        <4>1. CASE u = t
          BY <1>1, <1>2, <1>3, <2>2, <4>1
        <4>2. CASE u \in DOMAIN queues
          <5>1. infos[u] \in Name /\ tokens[infos[u]] = u /\ u \in Token
            BY <1>0, <4>2 DEF Calm, OpenAgree, QueuesType
          <5>2. infos[u] # n
            BY <2>1, <5>1, NoneAssumption
          <5> QED
            BY <1>1, <2>2, <5>1, <5>2
        <4> QED
          BY <1>7, <3>1, <4>1, <4>2
      <3>2. ASSUME NEW m \in Name, tokens'[m] # None
            PROVE  tokens'[m] \in DOMAIN queues' /\ infos'[tokens'[m]] = m
        <4>1. CASE m = n
          BY <1>1, <1>3, <1>7, <2>2, <4>1
        <4>2. CASE m # n
          BY <1>1, <1>7, <2>2, <3>2, <4>2 DEF Calm, OpenAgree
        <4> QED
          BY <4>1, <4>2
      <3> QED
        BY <3>1, <3>2 DEF OpenAgree
    <2>4. WatchersPlaced'
      <3> SUFFICES ASSUME NEW m \in watching'
                   PROVE  IF tokens'[m] = None THEN m \in pendingWatch'
                          ELSE queues'[tokens'[m]].watcher
        BY DEF WatchersPlaced
      <3>1. m \in Name /\ m \in watching
        BY <1>0, <1>1 DEF ManagerType
      <3>2. CASE m = n
        <4>1. n \in pendingWatch
          BY <2>1, <3>1, <3>2 DEF Calm, WatchersPlaced
        <4> QED
          BY <1>7, <1>10, <2>2, <3>2, <4>1
      <3>3. CASE m # n
        <4>1. tokens'[m] = tokens[m]
          BY <2>2, <3>1, <3>3
        <4>2. CASE tokens[m] = None
          BY <1>7, <1>10, <3>1, <3>3, <4>1, <4>2 DEF Calm, WatchersPlaced
        <4>3. CASE tokens[m] # None
          <5>1. tokens[m] \in DOMAIN queues /\ queues[tokens[m]].watcher
            BY <3>1, <4>3 DEF Calm, WatchersPlaced, OpenAgree
          <5> QED
            BY <1>8, <4>1, <4>3, <5>1
        <4> QED
          BY <4>2, <4>3
      <3> QED
        BY <3>2, <3>3
    <2> QED
      BY <1>5, <2>3, <2>4 DEF Calm
  <1> QED
    BY <1>9, <1>10

\* A queue is made for a name that no other call is about.
LEMMA ObtainCreatesCalm ==
    ASSUME TypeInv, PageInv, Calm, NEW i \in DOMAIN calls, ObtainCreates(i), raced' \cap Race = {}
    PROVE  Calm'
  <1> DEFINE last == Len(page) + 1
  <1>0. QueuesType /\ ManagerType /\ CallsType /\ RowsType
    BY DEF TypeInv
  <1>a. PICK t \in Token \ generated : \E d :
              /\ generated' = generated \cup {t}
              /\ calls' = [calls EXCEPT ![i] = d]
              /\ CallOK(d) /\ d.at = "commit" /\ d.kind = "obtain"
              /\ d.token = t /\ d.name = calls[i].name
    BY ObtainCreatesEffect
  <1>1. PICK d :
              /\ generated' = generated \cup {t}
              /\ calls' = [calls EXCEPT ![i] = d]
              /\ CallOK(d) /\ d.at = "commit" /\ d.kind = "obtain"
              /\ d.token = t /\ d.name = calls[i].name
    BY <1>a
  <1>2. /\ DOMAIN calls' = DOMAIN calls /\ calls'[i] = d
        /\ \A j \in DOMAIN calls : j # i => calls'[j] = calls[j]
    BY <1>0, <1>1, CallReplaced
  <1>3. /\ UNCHANGED <<named, infos, queues, tokens, pendingWatch, watching>>
        /\ page' = Append(page, [do |-> "commit", of |-> i])
        /\ calls[i].kind = "obtain" /\ calls[i].at = "answer" /\ calls[i].token = None
    BY DEF ObtainCreates, ledger, manager
  <1>4. \A j \in DOMAIN calls : j # i => calls[j].name # d.name
    <2>1. Overlaps(i) = {}
      BY DEF ObtainCreates, Race
    <2> QED
      BY <1>1, <2>1 DEF Overlaps
  <1>5. i \in Nat /\ [do |-> "commit", of |-> i] \in Request
    BY <1>0 DEF TypeInv, BudgetType, CallsType, Request, CallRequest
  <1>6. /\ last \notin DOMAIN page
        /\ DOMAIN page' = DOMAIN page \cup {last}
        /\ page'[last].do = "commit" /\ page'[last].of = i
        /\ \A k \in DOMAIN page : page'[k] = page[k] /\ k \in Nat /\ k < last
    BY <1>0, <1>3, <1>5, RequestMade
  <1> HIDE DEF last
  <1>7. RowsAgree' /\ OpenAgree' /\ WatchersPlaced'
    BY <1>0, <1>1, <1>3, QueuesCalm DEF Calm, RowsAgree
  <1>8. infos[t] = None /\ named[d.name] = None
    BY <1>0, <1>1, <1>3 DEF Calm, RowsAgree, CallsCurrent
  <1>9. CallsCurrent'
    BY <1>1, <1>2, <1>3, <1>8 DEF Calm, CallsCurrent
  <1>10. \A k \in DOMAIN page : OfCall(k) /\ page[k].of \in DOMAIN calls /\ page[k].of # i
    BY <1>3 DEF Calm, CreatorsAlone, PageInv, OfCall
  <1>11. \A j \in DOMAIN calls : j # i => (Creating(j)' <=> Creating(j))
    BY <1>2 DEF Creating
  <1>12. CreatorsAlone'
    <2>1. ASSUME NEW j \in DOMAIN calls', NEW k \in DOMAIN calls', j # k, Creating(j)',
                 calls'[k].kind = "obtain"
          PROVE  /\ calls'[k].name = calls'[j].name => calls'[k].at = "snapshot"
                 /\ Creating(k)' => calls'[k].token # calls'[j].token
      <3>1. CASE j = i
        <4>1. k # i /\ calls'[k] = calls[k] /\ k \in DOMAIN calls
          BY <1>2, <2>1, <3>1
        <4>2. Creating(k) => calls[k].token \in generated
          BY <4>1 DEF Calm, CallsCurrent, Creating
        <4> QED
          BY <1>1, <1>2, <1>4, <1>11, <3>1, <4>1, <4>2
      <3>2. CASE k = i
        <4>1. j # i /\ calls'[j] = calls[j] /\ j \in DOMAIN calls
          BY <1>2, <2>1, <3>2
        <4>2. Creating(j) /\ calls[j].token \in generated
          BY <1>11, <2>1, <4>1 DEF Calm, CallsCurrent, Creating
        <4> QED
          BY <1>1, <1>2, <1>4, <3>2, <4>1, <4>2
      <3>3. CASE j # i /\ k # i
        BY <1>2, <1>11, <2>1, <3>3 DEF Calm, CreatorsAlone
      <3> QED
        BY <3>1, <3>2, <3>3
    <2>2. ASSUME NEW j \in DOMAIN calls', Creating(j)'
          PROVE  \E k \in DOMAIN page' : page'[k].do = "commit" /\ page'[k].of = j
      BY <1>2, <1>6, <1>11, <2>2 DEF Calm, CreatorsAlone
    <2>3. ASSUME NEW j \in DOMAIN page', NEW k \in DOMAIN page',
                 page'[j].do = "commit", page'[k].do = "snapshot",
                 calls'[page'[k].of].kind = "obtain",
                 calls'[page'[j].of].name = calls'[page'[k].of].name
          PROVE  j < k
      <3>1. k \in DOMAIN page /\ page[k].do = "snapshot"
        BY <1>6, <2>3
      <3>2. calls'[page'[k].of] = calls[page[k].of] /\ page[k].of \in DOMAIN calls /\ page[k].of # i
        BY <1>2, <1>6, <1>10, <3>1
      <3>3. CASE j = last
        BY <1>2, <1>4, <1>6, <2>3, <3>2, <3>3
      <3>4. CASE j \in DOMAIN page
        BY <1>2, <1>6, <1>10, <2>3, <3>1, <3>2, <3>4 DEF Calm, CreatorsAlone
      <3> QED
        BY <1>6, <3>3, <3>4
    <2>4. \A k \in DOMAIN page' : OfCall(k)'
      BY <1>6, <1>10 DEF OfCall
    <2> QED
      BY <2>1, <2>2, <2>3, <2>4 DEF CreatorsAlone
  <1> QED
    BY <1>7, <1>9, <1>12 DEF Calm
\* What follows an answer, as long as nothing is deleted and no calls overlap.
LEMMA AnsweredCalm ==
    ASSUME TypeInv, PageInv, Calm, Answered, raced' \cap Race = {}
    PROVE  Calm'
  <1>1. PICK i \in DOMAIN calls :
          \/ ObtainFinds(i) \/ ObtainCreates(i) \/ ObtainFinishes(i)
          \/ DeleteFinds(i) \/ NothingFound(i) \/ SenderFinds(i) \/ NamespaceFinds(i)
    BY DEF Answered
  <1>2. CASE ObtainFinds(i) \/ ObtainFinishes(i) \/ SenderFinds(i)
    BY <1>2, OpensCalm
  <1>3. CASE ObtainCreates(i)
    BY <1>3, ObtainCreatesCalm
  <1>4. CASE DeleteFinds(i)
    BY <1>4 DEF DeleteFinds, Race
  <1>5. ASSUME calls[i].at = "answer", calls' = Without(calls, i),
               UNCHANGED <<named, infos, generated, page, queues, tokens, pendingWatch, watching>>
        PROVE  Calm'
    <2>1. RowsAgree' /\ CallsCurrent' /\ CreatorsAlone'
      BY <1>5, CallEndsCalm
    <2>2. OpenAgree' /\ WatchersPlaced'
      BY <1>5, QueuesCalm DEF Calm, TypeInv
    <2> QED
      BY <2>1, <2>2 DEF Calm
  <1>6. CASE NothingFound(i)
    BY <1>5, <1>6 DEF NothingFound, ledger, manager, budget
  <1>7. CASE NamespaceFinds(i)
    <2>1. calls[i].found = {}
      BY <1>7 DEF NamespaceFinds, Race
    <2>2. PICK rows \in Seq(RowRequest) :
            page' = page \o rows /\ (calls[i].found = {} => rows = <<>>)
      BY <1>7, NamespaceRows
    <2>3. page \in Seq(Request)
      BY DEF TypeInv, CallsType, Request
    <2>4. page' = page
      BY <2>1, <2>2, <2>3, ConcatEmptySeq
    <2> QED
      BY <1>5, <1>7, <2>4 DEF NamespaceFinds, ledger, manager, budget
  <1> QED
    BY <1>1, <1>2, <1>3, <1>4, <1>6, <1>7

\* Every step keeps what holds until something happens that the property excepts.
LEMMA RaceStep ==
    ASSUME TypeInv, PageInv, StorageInv, RaceInv, [Next]_vars
    PROVE  RaceInv'
  <1>1. CASE UNCHANGED vars
    <2>1. /\ UNCHANGED <<named, infos, generated, calls, page, tokens, pendingWatch, watching>>
          /\ UNCHANGED <<queues, raced>>
      BY <1>1 DEF vars
    <2>2. Calm => Calm'
      BY <2>1, QueuesCalm, RowsCalm DEF Calm, TypeInv
    <2> QED
      BY <2>1, <2>2 DEF RaceInv, Calm
  <1>2. CASE Next
    <2> SUFFICES ASSUME raced' \cap Race = {} PROVE Calm'
      BY DEF RaceInv, Calm
    <2>1. Calm
      BY <1>2, RacedGrows DEF RaceInv, Calm
    <2>2. CASE PageHandles
      BY <2>1, <2>2, PageHandlesCalm
    <2>3. CASE Answered
      BY <2>1, <2>3, AnsweredCalm
    <2>4. CASE \E t \in Token : Received(t)
      BY <2>1, <2>4, StorageStepsCalm
    <2>5. CASE Crash
      BY <2>1, <2>5, RestartCalm DEF Crash
    <2>6. CASE Client
      <3>1. ASSUME NEW n \in Name, ObtainMessageQueue(n) \/ DeleteMessageQueue(n)
            PROVE  Calm'
        <4>1. PICK kind \in {"obtain", "delete"} : Start(kind, n, None)
          BY <3>1 DEF ObtainMessageQueue, DeleteMessageQueue
        <4>2. CallOK([kind |-> kind, at |-> "snapshot", name |-> n, token |-> None, found |-> {}])
          BY NewCallOK
        <4> QED
          BY <2>1, <4>1, <4>2, StartCalm
      <3>2. ASSUME NEW n \in Name, RegisterWatcher(n) PROVE Calm'
        BY <2>1, <3>2, RegisterWatcherCalm
      <3>3. ASSUME NEW n \in Name, DropWatcher(n) PROVE FALSE
        BY <3>3 DEF DropWatcher, Race
      <3>4. CASE DeleteNamespace
        <4>1. Start("namespace", None, None)
          BY <3>4 DEF DeleteNamespace
        <4>2. CallOK([kind |-> "namespace", at |-> "snapshot", name |-> None, token |-> None,
                      found |-> {}])
          BY NewCallOK
        <4> QED
          BY <2>1, <4>1, <4>2, StartCalm
      <3>5. ASSUME NEW t \in Token, Send(t) \/ RegisterReceiver(t) \/ ReaderClosed(t) PROVE Calm'
        BY <2>1, <3>5, StorageStepsCalm
      <3>6. ASSUME NEW t \in Token, GetMessageSender(t) PROVE Calm'
        <4>1. CASE Open(t)
          BY <2>1, <3>6, <4>1, StorageStepsCalm
        <4>2. CASE ~Open(t)
          <5>1. Start("sender", None, t)
            BY <3>6, <4>2 DEF GetMessageSender
          <5>2. CallOK([kind |-> "sender", at |-> "snapshot", name |-> None, token |-> t,
                        found |-> {}])
            BY NewCallOK
          <5> QED
            BY <2>1, <5>1, <5>2, StartCalm
        <4> QED
          BY <4>1, <4>2
      <3> QED
        BY <2>6, <3>1, <3>2, <3>3, <3>4, <3>5, <3>6 DEF Client
    <2> QED
      BY <1>2, <2>2, <2>3, <2>4, <2>5, <2>6 DEF Next
  <1> QED
    BY <1>1, <1>2
-----------------------------------------------------------------------------
(* The theorems *)

LEMMA InitIInv == Init => IInv
  <1> SUFFICES ASSUME Init PROVE IInv
    OBVIOUS
  <1>1. /\ DOMAIN queues = {} /\ queues \in [{} -> Storage]
        /\ DOMAIN calls = {} /\ calls \in [{} -> Call]
        /\ DOMAIN page = {} /\ page \in Seq(CallRequest \cup RowRequest)
    BY EmptyFunction, EmptySeq DEF Init
  <1>2. RowsType /\ ManagerType
    BY DEF Init, RowsType, ManagerType
  <1>3. FiniteRows
    <2>1. {p \in Name \X Token : named[p[1]] = p[2]} = {}
      BY NoneAssumption DEF Init
    <2> QED
      BY <2>1, FS_EmptySet DEF FiniteRows
  <1>4. QueuesType
    <2>1. <<>> \in Seq(1..MaxMessages)
      BY EmptySeq
    <2> QED
      BY <1>1, <2>1 DEF Init, QueuesType
  <1>5. CallsType
    BY <1>1 DEF CallsType
  <1>6. BudgetType
    BY BoundAssumption DEF Init, BudgetType
  <1>7. PageInv /\ StorageInv /\ ServedInv
    BY <1>1 DEF PageInv, StorageInv, ServedInv
  <1>8. RaceInv
    <2>1. RowsAgree
      BY NoneAssumption DEF Init, RowsAgree
    <2>2. OpenAgree /\ WatchersPlaced
      BY <1>1 DEF Init, OpenAgree, WatchersPlaced
    <2>3. CallsCurrent /\ CreatorsAlone
      BY <1>1 DEF CallsCurrent, CreatorsAlone
    <2> QED
      BY <2>1, <2>2, <2>3 DEF RaceInv
  <1>9. DoomInv
    <2>1. Kept = {} /\ RowsKept
      BY DEF Init, Kept, RowsKept
    <2>2. FilesKept /\ CallsKept /\ RequestsKept
      BY <1>1 DEF Init, FilesKept, CallsKept, RequestsKept
    <2> QED
      BY <2>1, <2>2 DEF DoomInv
  <1> QED
    BY <1>2, <1>3, <1>4, <1>5, <1>6, <1>7, <1>8, <1>9 DEF IInv, TypeInv

\* The parts of IInv other than RaceInv when nothing happens.
LEMMA StutterKeeps ==
    ASSUME IInv, UNCHANGED vars
    PROVE  TypeInv' /\ PageInv' /\ StorageInv' /\ ServedInv' /\ DoomInv'
  <1>1. /\ UNCHANGED <<named, infos, files, queues, tokens, pendingWatch, calls, page, started>>
        /\ UNCHANGED <<sent, generated, watching, doomed, raced, faults, crashes>>
    BY DEF vars
  <1>2. RowsType' /\ FiniteRows' /\ QueuesType' /\ ManagerType' /\ BudgetType'
    BY <1>1 DEF IInv, TypeInv, RowsType, FiniteRows, QueuesType, ManagerType, BudgetType
  <1>3. CallsType' /\ PageInv'
    BY <1>1 DEF IInv, TypeInv, CallsType, PageInv, OfCall
  <1>4. StorageInv' /\ ServedInv'
    BY <1>1 DEF IInv, StorageInv, ServedInv, IsEmpty
  <1>5. DoomInv'
    <2>1. Kept' = Kept
      BY <1>1 DEF Kept
    <2>2. RowsKept' /\ FilesKept' /\ RequestsKept'
      BY <1>1, <2>1 DEF IInv, DoomInv, RowsKept, FilesKept, RequestsKept
    <2>3. CallsKept'
      BY <1>1, <2>1 DEF IInv, DoomInv, CallsKept
    <2> QED
      BY <2>2, <2>3 DEF DoomInv
  <1> QED
    BY <1>2, <1>3, <1>4, <1>5 DEF TypeInv

\* The invariant is inductive: whatever order the page, the operations, the
\* readers, the senders and the watchers take, and however often the process
\* ends.
THEOREM Invariance == Spec => []IInv
  <1>1. Init => IInv
    BY InitIInv
  <1>2. IInv /\ [Next]_vars => IInv'
    <2> SUFFICES ASSUME IInv, [Next]_vars PROVE IInv'
      OBVIOUS
    <2>0. TypeInv /\ PageInv /\ StorageInv /\ ServedInv /\ DoomInv /\ RaceInv
      BY DEF IInv
    <2>1. RaceInv'
      BY <2>0, RaceStep
    <2>2. CASE Next
      <3>1. CallsType' /\ PageInv'
        BY <2>0, <2>2, CallsStep
      <3>2. RowsType' /\ FiniteRows'
        BY <2>0, <2>2, RowsStep
      <3>3. QueuesType' /\ StorageInv' /\ ServedInv'
        BY <2>0, <2>2, QueuesStep
      <3>4. ManagerType' /\ BudgetType'
        BY <2>0, <2>2, ManagerStep, BudgetStep
      <3>5. DoomInv'
        BY <2>0, <2>2, StepRespects, RespectsKeeps
      <3> QED
        BY <2>1, <3>1, <3>2, <3>3, <3>4, <3>5 DEF IInv, TypeInv
    <2>3. CASE UNCHANGED vars
      BY <2>1, <2>3, StutterKeeps DEF IInv
    <2> QED
      BY <2>2, <2>3
  <1> QED
    BY <1>1, <1>2, PTL DEF Spec

\* Every variable keeps its type, and every request the page has yet to handle
\* is of an operation that is under way: none outlives its operation.
THEOREM TypeCorrect == Spec => []TypeOK
  <1>1. IInv => TypeOK
    <2> SUFFICES ASSUME IInv PROVE TypeOK
      OBVIOUS
    <2>1. /\ RowsType /\ QueuesType /\ ManagerType /\ BudgetType /\ CallsType
          /\ \A k \in DOMAIN page : OfCall(k) => page[k].of \in DOMAIN calls
      BY DEF IInv, TypeInv, PageInv
    <2>2. \A t \in DOMAIN queues : queues[t] \in Storage
      BY <2>1 DEF QueuesType
    <2>3. \A i \in DOMAIN calls : calls[i] \in Call
      BY <2>1 DEF CallsType
    <2>4. doomed \subseteq generated
      BY DEF IInv, DoomInv, RowsKept, Kept
    <2> QED
      BY <2>1, <2>2, <2>3, <2>4 DEF TypeOK, RowsType, QueuesType, ManagerType, BudgetType, CallsType,
         OfCall
  <1> QED
    BY <1>1, Invariance, PTL

\* The manager implements the promise of message_queue.fidl: first in, first
\* out, and no message leaves its queue before its reader has acknowledged it,
\* for any number of queues, operations, restarts and failed writes.
THEOREM QueuesKeepPromise == Spec => KeepsPromise
  <1>1. Init => Promise!Init
    <2> SUFFICES ASSUME Init PROVE Promise!Init
      OBVIOUS
    <2>1. DOMAIN queues = {}
      BY EmptyFunction DEF Init
    <2>2. Durable = [t \in Token |-> <<>>]
      BY DEF Init, Durable
    <2>3. Pending = [t \in Token |-> <<>>]
      BY <2>1, <2>2 DEF Pending, Open
    <2> QED
      BY <2>1, <2>2, <2>3 DEF Init, Promise!Init
  <1>2. IInv /\ [Next]_vars => [Promise!Next]_(Promise!vars)
    BY StepImplements DEF IInv
  <1> QED
    BY <1>1, <1>2, Invariance, PTL DEF Spec, KeepsPromise, Promise!Spec

\* A watcher is told of every message in the open queue of its name, in
\* whatever order watcher, queue, sender and message come, across restarts.
THEOREM WatchersAreTold == Spec => []WatcherIsTold
  <1>1. IInv => WatcherIsTold
    <2> SUFFICES ASSUME IInv, raced \cap Race = {},
                        NEW n \in watching, NEW t \in DOMAIN queues,
                        infos[t] = n, queues[t].messages # <<>>
                 PROVE  queues[t].told
      BY DEF WatcherIsTold, Race
    <2>1. OpenAgree /\ WatchersPlaced
      BY DEF IInv, RaceInv
    <2>2. tokens[n] = t /\ t # None
      BY <2>1, NoneAssumption DEF OpenAgree, IInv, TypeInv, QueuesType
    <2>3. queues[t].watcher
      BY <2>1, <2>2 DEF WatchersPlaced
    <2> QED
      BY <2>3 DEF IInv, StorageInv, StorageOK
  <1> QED
    BY <1>1, Invariance, PTL

\* A reader of a queue that holds messages has been given the oldest one,
\* whatever became of the readers before it.
THEOREM ReadersAreServed == Spec => []ReaderIsServed
  <1>1. IInv => ReaderIsServed
    BY DEF IInv, ServedInv, ReaderIsServed
  <1> QED
    BY <1>1, Invariance, PTL

=============================================================================
