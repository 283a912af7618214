---------------------------- MODULE PageDelegate ----------------------------
(***************************************************************************)
(* One connection of a client to a page (bin/ledger/app): PageDelegate     *)
(* with its OperationSerializer, the BranchTracker that decides which      *)
(* commit the client sees, and the page watchers of the connection.        *)
(*                                                                         *)
(* The page's other writers (connections, sync, merges) add commits at any *)
(* time.  Everything runs on one loop: an action is one task.  A task that *)
(* answers an operation also starts the next one, and Rollback and failed  *)
(* implicit transactions still have to stop the tracker's transaction when *)
(* that is done; the steps of such a task are the actions with pc "next",  *)
(* DrainDone and TrailingStop, and no other action comes between them.     *)
(***************************************************************************)
EXTENDS Naturals, Sequences, FiniteSets

CONSTANTS
    Watcher,      \* bound: the watchers the client registers
    None,         \* nullptr
    MaxCommits,   \* bound: commits of the page
    MaxCalls,     \* bound: calls of the client
    MaxFaults     \* bound: failing database calls

ASSUME NoneAssumption == None \notin Nat \cup {<<>>}

VARIABLES
    parents,    \* the page: parents[c] are the parents of commit c, 1 is the first
    branch,     \* BranchTracker: current_commit_id_, current_commit_, transaction_in_progress_
    watchers,   \* its PageWatcherContainers
    journal,    \* PageDelegate::journal_: the base of the explicit transaction, or None
    queue,      \* queued_operations_ of the serializer
    pc,         \* how far the first operation of the queue is
    job,        \* what its callbacks hold: the commit read or made, and its kind
    trailing,   \* a StopTransaction(nullptr) to run when the next operation has started
    client,     \* the connection: "opening", "open", "closed"
    removed,    \* PageManager has deleted the PageDelegate
    own,        \* history: the last commit the client was told is made
    raced,      \* history: the unusual events met so far, see Races
    calls, faults

vars == <<parents, branch, watchers, journal, queue, pc, job, trailing, client, removed, own,
          raced, calls, faults>>

-----------------------------------------------------------------------------
(* The page *)

Commits == DOMAIN parents
Heads == {c \in Commits : \A d \in Commits : c \notin parents[d]}

\* c and its ancestors: the smallest set with c that is closed under parents.
Past(c) ==
    {x \in Commits : \A S \in SUBSET Commits :
                        c \in S /\ (\A y \in S : parents[y] \subseteq S) => x \in S}

-----------------------------------------------------------------------------
(* PageWatcherContainer.  current, last and sending are commits; sending is *)
(* the change in flight, whose diff is computed and then sent.              *)

NoWatcher == [pc |-> "none", last |-> None, current |-> None, sending |-> None, drain |-> FALSE]
Registered == {w \in Watcher : watchers[w].pc # "none"}

\* current_commit_ is empty while a change is in flight and no newer one waits.
Drained(w) == w.current = None \/ w.last = w.current

\* A commit is sent when the previous one has been taken; else on_drained_ runs.
SendCommit(w) ==
    IF w.pc # "idle" THEN w
    ELSE IF Drained(w) THEN [w EXCEPT !.drain = FALSE]
    ELSE [w EXCEPT !.pc = "diff", !.sending = w.current, !.current = None]

UpdateCommit(w, c) == SendCommit([w EXCEPT !.current = c])

\* The previous callback is run, whatever has been sent.
SetOnDrainedCallback(w, wanted) == [w EXCEPT !.drain = wanted /\ ~Drained(w)]

\* The commit in flight was taken: the next one is sent.
Taken(w) == SendCommit([w EXCEPT !.pc = "idle", !.last = w.sending, !.sending = None])

-----------------------------------------------------------------------------
(* BranchTracker *)

UpdateWatchers(c) ==
    watchers' = [w \in Watcher |->
                    IF w \in Registered THEN UpdateCommit(watchers[w], c) ELSE watchers[w]]

\* Mutant: commits are not followed in a transaction.
OnNewCommitsMutant(ps) ==
    LET c == Len(parents) + 1
    IN /\ parents' = Append(parents, ps)
       /\ IF client # "opening" /\ branch.id \in ps /\ ~branch.tx
          THEN branch' = [branch EXCEPT !.id = c, !.commit = c] /\ UpdateWatchers(c)
          ELSE UNCHANGED <<branch, watchers>>

\* Mutant: every new commit is followed.
OnNewCommitsAnyMutant(ps) ==
    LET c == Len(parents) + 1
    IN /\ parents' = Append(parents, ps)
       /\ IF client # "opening"
          THEN /\ branch' = [branch EXCEPT !.id = c, !.commit = c]
               /\ IF branch.tx THEN UNCHANGED watchers ELSE UpdateWatchers(c)
          ELSE UNCHANGED <<branch, watchers>>

\* OnNewCommits for the new last commit of the page: followed if it is a child
\* of the current one, shown to the watchers unless a transaction runs.
OnNewCommits(ps) ==
    LET c == Len(parents) + 1
    IN /\ parents' = Append(parents, ps)
       /\ IF client # "opening" /\ branch.id \in ps
          THEN /\ branch' = [branch EXCEPT !.id = c, !.commit = c]
               /\ IF branch.tx THEN UNCHANGED watchers ELSE UpdateWatchers(c)
          ELSE UNCHANGED <<branch, watchers>>

StartTransaction ==
    /\ branch' = [branch EXCEPT !.tx = TRUE]
    /\ watchers' = [w \in Watcher |-> SetOnDrainedCallback(watchers[w], w \in Registered)]

\* Mutant: the commit of the transaction is left to OnNewCommits.
StopTransactionMutant(c) ==
    IF ~branch.tx THEN UNCHANGED <<branch, watchers>>
    ELSE /\ branch' = [branch EXCEPT !.tx = FALSE]
         /\ watchers' = [w \in Watcher |->
               IF w \in Registered /\ branch.commit # None
               THEN UpdateCommit(SetOnDrainedCallback(watchers[w], FALSE), branch.commit)
               ELSE watchers[w]]

\* Mutant: the watchers are not told what the transaction brought.
StopTransactionSilentMutant(c) ==
    /\ branch' = IF ~branch.tx THEN branch
                 ELSE IF c = None THEN [branch EXCEPT !.tx = FALSE]
                 ELSE [id |-> c, commit |-> c, tx |-> FALSE]
    /\ UNCHANGED watchers

\* StopTransaction with the commit c of the transaction, or None.
StopTransaction(c) ==
    LET b == [id |-> IF c = None THEN branch.id ELSE c,
              commit |-> IF c = None THEN branch.commit ELSE c, tx |-> FALSE]
    IN IF ~branch.tx THEN UNCHANGED <<branch, watchers>>
       ELSE /\ branch' = b
            /\ watchers' = [w \in Watcher |->
                  IF w \in Registered /\ b.commit # None
                  THEN UpdateCommit(SetOnDrainedCallback(watchers[w], FALSE), b.commit)
                  ELSE watchers[w]]

-----------------------------------------------------------------------------
(* Events that explain why a client may not see what it should *)

Races ==
    { "init",     \* the page moved between the tracker's read of the heads and its answer
      "gap",      \* the branch moved between the read of a commit and its watcher's registration
      "moved",    \* it moved between the read of a transaction's base and its start
      "noop",     \* it moved in a transaction that changed nothing
      "overlap",  \* a transaction was started while another was in progress
      "stopped",  \* a transaction was stopped by the end of another
      "diff",     \* a change was given up because its diff failed
      "deleted" } \* the tracker was used after the delegate was deleted

Note(race, happened) == raced' = IF happened THEN raced \cup {race} ELSE raced
NoRace == raced' = raced

Fault == faults < MaxFaults /\ faults' = faults + 1
NoFault == faults' = faults

\* No step of the current task is left.
TaskDone ==
    /\ pc # "next" /\ ~trailing
    /\ ~(pc = "drain" /\ \A w \in Watcher : ~watchers[w].drain)

-----------------------------------------------------------------------------
(* The serializer *)

\* CheckEmpty, for the callers that may find the delegate empty.
CheckEmpty(q, registered) ==
    removed' = (removed \/ (client = "closed" /\ q = <<>> /\ registered = {}))

\* The operation calls its callback: the next one starts in the same task.
Answer ==
    /\ queue' = Tail(queue)
    /\ pc' = IF Tail(queue) = <<>> THEN "none" ELSE "next"
    /\ job' = [base |-> None, new |-> None, kind |-> None]
    /\ CheckEmpty(Tail(queue), Registered)

\* The operation goes on in a later task.
Goes(next, j) ==
    /\ pc' = next
    /\ job' = j
    /\ UNCHANGED <<queue, removed>>

Serialize(op) ==
    /\ queue' = Append(queue, op)
    /\ pc' = IF queue = <<>> THEN "next" ELSE pc

Init ==
    /\ parents = << {} >>
    /\ branch = [id |-> None, commit |-> None, tx |-> FALSE]
    /\ watchers = [w \in Watcher |-> NoWatcher]
    /\ journal = None
    /\ queue = <<>> /\ pc = "none"
    /\ job = [base |-> 1, new |-> None, kind |-> None]   \* Init has read the heads
    /\ trailing = FALSE
    /\ client = "opening" /\ removed = FALSE
    /\ own = 1 /\ raced = {} /\ calls = 0 /\ faults = 0

\* The answer of GetHeadCommitIds: the page is followed and the client served.
InitCommitAndSetWatcher ==
    /\ client = "opening"
    /\ branch' = [branch EXCEPT !.id = job.base]
    /\ Note("init", job.base \notin Heads)
    /\ client' = "open"
    /\ job' = [job EXCEPT !.base = None]
    /\ UNCHANGED <<parents, watchers, journal, queue, pc, trailing, removed, own, calls, faults>>

\* A call of the client; Put, PutReference and Delete are "write".
Call ==
    /\ client = "open" /\ TaskDone
    /\ calls < MaxCalls
    /\ calls' = calls + 1
    /\ \E op \in {"snapshot", "write", "start", "commit", "rollback"} : Serialize(op)
    /\ UNCHANGED <<parents, branch, watchers, journal, job, trailing, client, removed, own, raced, faults>>

\* The client closes the connection: the transaction is stopped in its turn.
Disconnect ==
    /\ client = "open" /\ TaskDone
    /\ client' = "closed"
    /\ Serialize("stop")
    /\ UNCHANGED <<parents, branch, watchers, journal, job, trailing, removed, own, raced, calls, faults>>

Next1(op) == pc = "next" /\ Head(queue) = op

\* GetSnapshot: GetCurrentCommitId is read now.
StartSnapshot ==
    /\ Next1("snapshot")
    /\ Goes("snapshot", [base |-> IF journal = None THEN branch.id ELSE journal,
                         new |-> None, kind |-> None])
    /\ UNCHANGED <<parents, branch, watchers, journal, trailing, client, own, raced, calls, faults>>

\* RunInTransaction
RunInTransaction ==
    IF journal # None
    THEN /\ Goes("put", [base |-> None, new |-> None, kind |-> "explicit"])
         /\ UNCHANGED <<branch, watchers, raced>>
    ELSE /\ StartTransaction
         /\ Note("overlap", branch.tx)
         /\ Goes("implicit", [base |-> branch.id, new |-> None, kind |-> "implicit"])

\* The value may still have to be stored: Put and PutReference wait for it.
StartWrite ==
    /\ Next1("write")
    /\ \/ RunInTransaction
       \/ /\ Goes("object", job)
          /\ UNCHANGED <<branch, watchers, raced>>
    /\ UNCHANGED <<parents, journal, trailing, client, own, calls, faults>>

ObjectAdded ==
    /\ pc = "object" /\ TaskDone
    /\ \/ Fault /\ Answer /\ UNCHANGED <<branch, watchers, raced>>
       \/ NoFault /\ RunInTransaction
    /\ UNCHANGED <<parents, journal, trailing, client, own, calls>>

\* StartTransaction: the base is read now, the journal comes later.
StartExplicit ==
    /\ Next1("start")
    /\ IF journal # None THEN Answer
       ELSE Goes("begin", [base |-> branch.id, new |-> None, kind |-> "explicit"])
    /\ UNCHANGED <<parents, branch, watchers, journal, trailing, client, own, raced, calls, faults>>

StartCommit ==
    /\ Next1("commit")
    /\ IF journal = None THEN Answer
       ELSE Goes("commit", [base |-> journal, new |-> None, kind |-> "explicit"])
    /\ journal' = None
    /\ UNCHANGED <<parents, branch, watchers, trailing, client, own, raced, calls, faults>>

StartRollback ==
    /\ Next1("rollback")
    /\ IF journal = None THEN Answer ELSE Goes("rollback", job)
    /\ journal' = None
    /\ UNCHANGED <<parents, branch, watchers, trailing, client, own, raced, calls, faults>>

\* The operation that Disconnect queued.
StartStop ==
    /\ Next1("stop")
    /\ StopTransaction(None)
    /\ Answer
    /\ UNCHANGED <<parents, journal, trailing, client, own, raced, calls, faults>>

-----------------------------------------------------------------------------
(* Answers of the storage *)

At(where) == pc = where /\ TaskDone

\* GetSnapshot ends: a watcher is registered for the commit that was read.
SnapshotRead ==
    /\ At("snapshot")
    /\ \/ Fault /\ UNCHANGED <<watchers, raced>>
       \/ NoFault /\ UNCHANGED <<watchers, raced>>
       \/ /\ NoFault
          /\ \E w \in Watcher \ Registered :
                watchers' = [watchers EXCEPT ![w] = [NoWatcher EXCEPT !.pc = "idle", !.last = job.base]]
          /\ Note("gap", ~branch.tx /\ branch.id # job.base)
    /\ Answer
    /\ UNCHANGED <<parents, branch, journal, trailing, client, own, calls>>

\* StartTransaction goes on: the answer waits for the watchers.
JournalCreated ==
    /\ At("begin")
    /\ \/ /\ Fault /\ Answer
          /\ UNCHANGED <<branch, watchers, journal, raced>>
       \/ /\ NoFault
          /\ journal' = job.base
          /\ StartTransaction
          /\ raced' = raced \cup (IF branch.tx THEN {"overlap"} ELSE {})
                            \cup (IF branch.id # job.base THEN {"moved"} ELSE {})
          /\ Goes("drain", job)
    /\ UNCHANGED <<parents, trailing, client, own, calls>>

\* The last watcher is drained.
DrainDone ==
    /\ pc = "drain" /\ \A w \in Watcher : ~watchers[w].drain
    /\ Answer
    /\ UNCHANGED <<parents, branch, watchers, journal, trailing, client, own, raced, calls, faults>>

\* The implicit journal is there, or not: then the client is answered and the
\* transaction stopped, in this order.
ImplicitStarted ==
    /\ At("implicit")
    /\ \/ NoFault /\ Goes("put", job) /\ UNCHANGED trailing
       \/ Fault /\ Answer /\ trailing' = TRUE
    /\ UNCHANGED <<parents, branch, watchers, journal, client, own, raced, calls>>

\* The entry is in the journal.
PutDone ==
    /\ At("put")
    /\ \/ NoFault /\ job.kind = "implicit" /\ Goes("commit", job) /\ UNCHANGED trailing
       \/ NoFault /\ job.kind = "explicit" /\ Answer /\ UNCHANGED trailing
       \/ Fault /\ Answer /\ trailing' = (job.kind = "implicit")
    /\ UNCHANGED <<parents, branch, watchers, journal, client, own, raced, calls>>

\* CommitJournal makes the commit, finds that nothing has changed, or fails.
CommitWritten ==
    /\ At("commit")
    /\ \/ /\ NoFault /\ Len(parents) < MaxCommits
          /\ OnNewCommits({job.base})
          /\ Goes("stop", [job EXCEPT !.new = Len(parents) + 1])
       \/ /\ NoFault
          /\ Goes("stop", [job EXCEPT !.new = job.base])
          /\ UNCHANGED <<parents, branch, watchers>>
       \/ /\ Fault
          /\ Goes("stop", job)
          /\ UNCHANGED <<parents, branch, watchers>>
    /\ UNCHANGED <<journal, trailing, client, own, raced, calls>>

\* Its callback: the transaction is stopped, then the client answered.
CommitAnswered ==
    /\ At("stop")
    /\ StopTransaction(job.new)
    /\ own' = IF job.new = None THEN own ELSE job.new
    /\ Note(IF branch.tx THEN "noop" ELSE "stopped",
            IF branch.tx THEN job.new = job.base /\ branch.id # job.base ELSE TRUE)
    /\ Answer
    /\ UNCHANGED <<parents, journal, trailing, client, calls, faults>>

\* Rollback answers the client before it stops the transaction.
RolledBack ==
    /\ At("rollback")
    /\ Answer
    /\ trailing' = TRUE
    /\ UNCHANGED <<parents, branch, watchers, journal, client, own, raced, calls, faults>>

TrailingStop ==
    /\ trailing /\ pc # "next"
    /\ StopTransaction(None)
    /\ trailing' = FALSE
    /\ Note("deleted", removed)
    /\ UNCHANGED <<parents, journal, queue, pc, job, client, removed, own, calls, faults>>

-----------------------------------------------------------------------------
(* The watchers and the rest of the page *)

Watches(w, where) == watchers[w].pc = where /\ TaskDone

\* ComputePageChange answers: an error gives the change up, an empty change is
\* not sent.
DiffDone(w) ==
    /\ Watches(w, "diff")
    /\ \/ /\ Fault
          /\ watchers' = [watchers EXCEPT ![w].pc = "idle", ![w].sending = None]
          /\ Note("diff", TRUE)
       \/ NoFault /\ NoRace /\ watchers' = [watchers EXCEPT ![w] = Taken(@)]
       \/ NoFault /\ NoRace /\ watchers' = [watchers EXCEPT ![w].pc = "client"]
    /\ UNCHANGED <<parents, branch, journal, queue, pc, job, trailing, client, removed, own, calls>>

\* The client answers OnChange, the last one of a paginated change.
ChangeTaken(w) ==
    /\ Watches(w, "client")
    /\ watchers' = [watchers EXCEPT ![w] = Taken(@)]
    /\ UNCHANGED <<parents, branch, journal, queue, pc, job, trailing, client, removed, own, raced,
                   calls, faults>>

\* Mutant: a watcher that goes away is still waited for.
WatcherGoneMutant(w) ==
    /\ w \in Registered /\ TaskDone
    /\ watchers' = [watchers EXCEPT ![w] = [NoWatcher EXCEPT !.drain = watchers[w].drain]]
    /\ CheckEmpty(queue, Registered \ {w})
    /\ UNCHANGED <<parents, branch, journal, queue, pc, job, trailing, client, own, raced, calls, faults>>

\* The client drops a watcher.
WatcherGone(w) ==
    /\ w \in Registered /\ TaskDone
    /\ watchers' = [watchers EXCEPT ![w] = NoWatcher]
    /\ CheckEmpty(queue, Registered \ {w})
    /\ UNCHANGED <<parents, branch, journal, queue, pc, job, trailing, client, own, raced, calls, faults>>

\* Another connection, sync or a merge adds a commit.  None comes on top of the
\* commit whose callback is still to run: that callback is a few tasks away,
\* a commit based on it takes more.
OtherCommit ==
    /\ TaskDone
    /\ Len(parents) < MaxCommits
    /\ \E ps \in {{p} : p \in Commits} \cup {Heads} :
          /\ Cardinality(ps) <= 2
          /\ pc = "stop" /\ job.new # job.base => job.new \notin ps
          /\ OnNewCommits(ps)
    /\ UNCHANGED <<journal, queue, pc, job, trailing, client, removed, own, raced, calls, faults>>

-----------------------------------------------------------------------------

Operation ==
    \/ StartSnapshot \/ StartWrite \/ StartExplicit \/ StartCommit \/ StartRollback \/ StartStop
    \/ ObjectAdded \/ SnapshotRead \/ JournalCreated \/ DrainDone \/ ImplicitStarted \/ PutDone
    \/ CommitWritten \/ CommitAnswered \/ RolledBack \/ TrailingStop

Next ==
    \/ InitCommitAndSetWatcher \/ Call \/ Disconnect \/ OtherCommit
    \/ Operation
    \/ \E w \in Watcher : DiffDone(w) \/ ChangeTaken(w) \/ WatcherGone(w)

\* The storage answers, the loop runs, and a client answers its OnChange calls.
Fairness ==
    /\ WF_vars(InitCommitAndSetWatcher)
    /\ WF_vars(Operation)
    /\ \A w \in Watcher : WF_vars(DiffDone(w) \/ ChangeTaken(w))

Spec == Init /\ [][Next]_vars /\ Fairness

-----------------------------------------------------------------------------
(* Properties *)

Commit == Commits \cup {None}

TypeOK ==
    /\ parents \in Seq(SUBSET Nat)
    /\ \A c \in Commits : parents[c] \subseteq 1..(c - 1)
    /\ branch \in [id : Commit, commit : Commit, tx : BOOLEAN]
    /\ watchers \in [Watcher -> [pc : {"none", "idle", "diff", "client"}, last : Commit,
                                 current : Commit, sending : Commit, drain : BOOLEAN]]
    /\ \A w \in Watcher : watchers[w].pc \in {"diff", "client"} <=> watchers[w].sending # None
    /\ journal \in Commit
    /\ queue \in Seq({"snapshot", "write", "start", "commit", "rollback", "stop"})
    /\ pc \in {"none", "next", "snapshot", "object", "implicit", "put", "begin", "drain", "commit",
               "stop", "rollback"}
    /\ pc = "none" <=> queue = <<>>
    /\ job \in [base : Commit, new : Commit, kind : {"explicit", "implicit", None}]
    /\ raced \subseteq Races /\ own \in Commits

\* What the client was told is made is part of what it sees from then on,
\* whoever commits, fails or closes meanwhile, as long as a transaction is not
\* ended by the late StopTransaction of the operation before it.
ReadYourWrites ==
    client # "opening" /\ "stopped" \notin raced => own \in Past(branch.id)

\* Outside transactions the branch is at a head, so that the next commit on it
\* is seen, unless it was lost while the tracker started, in a transaction
\* that changed nothing, or by overlapping transactions.
BranchIsHead ==
    client # "opening" /\ ~branch.tx /\ raced \cap {"init", "noop", "stopped"} = {}
        => branch.id \in Heads

\* The change a watcher is sent undoes nothing it has seen, unless the
\* transaction it comes from was based on an older commit.
WatchersMoveForward ==
    "moved" \notin raced =>
        \A w \in Watcher : watchers[w].sending # None => watchers[w].last \in Past(watchers[w].sending)

\* Every operation is answered, and the next one run, unless a watcher that the
\* transaction waits for has given its change up.
OperationsAnswered ==
    []<>(queue = <<>> \/ \E w \in Watcher : watchers[w].drain /\ watchers[w].pc = "idle")

\* When the page rests and no transaction is open, every watcher has been told
\* of the commit the client sees, or an event of Races took it from it.
WatchersCatchUp ==
    []<>(\/ client = "opening" \/ journal # None
         \/ raced \cap {"gap", "diff"} # {}
         \/ \A w \in Registered : watchers[w].last = branch.id)

=============================================================================
