------------------------------ MODULE PageStorage ------------------------------
(***************************************************************************)
(* The commit graph of one Ledger page, as PageStorageImpl keeps it in     *)
(* LevelDB (bin/ledger/storage/impl): commit rows, head rows, unsynced     *)
(* rows and implicit-journal rows, the local journals that create commits, *)
(* the commits that cloud sync adds, the lock that serialises the two      *)
(* (commit_serializer_), I/O errors, crashes and the recovery that Init    *)
(* runs after one.                                                         *)
(*                                                                         *)
(* A commit id is the hash of its content and its parents, so the graph of *)
(* the commits that could ever exist is a constant (Parents).              *)
(***************************************************************************)
EXTENDS Naturals, Sequences

CONSTANTS
    Commit,          \* ids of the commits other than the first one
    Root,            \* kFirstPageCommitId, in every page without being stored
    Parents,         \* the one or two parents of each commit
    Remote,          \* commits that other devices push to the cloud
    Journal,         \* journal ids
    None,            \* no base commit, no commit
    MaxBatch,        \* bound: commits in one call of AddCommitsFromSync
    MaxFaults,       \* bound: failed database operations
    MaxCrashes,      \* bound: crashes (or closings) of the page
    InOrder,         \* the cloud delivers a commit after its parents
    RecoveryFaults   \* database operations may also fail during Init

Sync == "sync"                     \* the coroutine of AddCommitsFromSync
Proc == Journal \cup {Sync}        \* the coroutines that take the lock
CommitOrRoot == Commit \cup {Root}

ASSUME CommitAssumption ==
    /\ Root \notin Commit
    /\ None \notin CommitOrRoot
    /\ Parents \in [Commit -> (SUBSET CommitOrRoot) \ {{}}]
    /\ \A c \in Commit : c \notin Parents[c]
    /\ Remote \subseteq Commit

ASSUME JournalAssumption == Sync \notin Journal

ASSUME BoundAssumption ==
    /\ MaxBatch \in Nat /\ MaxFaults \in Nat /\ MaxCrashes \in Nat
    /\ InOrder \in BOOLEAN /\ RecoveryFaults \in BOOLEAN

VARIABLES
    \* rows of the page's database
    commits,    \* CommitRow: the stored commits
    heads,      \* HeadRow
    unsynced,   \* UnsyncedCommitRow
    trees,      \* commits whose tree nodes and eager values are all stored
    implicit,   \* ImplicitJournalMetadataRow: the base of each implicit journal
    entries,    \* JournalEntryRow: the journals that have entries
    \* memory of the process
    phase,      \* "down", "recover" (Init is running) or "ready"
    journal,    \* the JournalImpl objects
    queue,      \* commit_serializer_: its first element holds the lock
    sync,       \* locals of SynchronousAddCommitsFromSync
    add,        \* locals of SynchronousAddCommits, run by the lock's holder
    \* history
    notified,   \* commits given to CommitWatcher::OnNewCommits
    made,       \* commits created from each journal
    acked,      \* implicit journals with an acknowledged entry
    released,   \* journals rolled back with their client's knowledge, or without effect
    faults, crashes

rows == <<commits, heads, unsynced, trees, implicit, entries>>
memory == <<phase, journal, queue, sync, add>>
vars == <<rows, memory, notified, made, acked, released, faults, crashes>>

-----------------------------------------------------------------------------
(* Types and initial state *)

\* pc of a journal: "none" no such object; "open" between StartCommit and
\* CommitJournal; "commit" in JournalImpl::Commit before the commit exists;
\* "add" in AddCommitFromLocal; "remove" and "rollback" before RemoveJournal;
\* "done" and "failed" after CommitJournal or RollbackJournal called back.
JournalPc == {"none", "open", "commit", "add", "remove", "rollback", "done", "failed"}

NoJournal == [pc |-> "none", explicit |-> FALSE, parents |-> {}, failedOp |-> FALSE,
              commit |-> None]

NoSync == [pc |-> "idle", batch |-> <<>>, new |-> <<>>, leaves |-> {}]

NoAdd == [pc |-> "idle", todo |-> <<>>, remaining |-> <<>>, progress |-> FALSE,
          added |-> {}, toAdd |-> {}, put |-> {}, del |-> {}, synced |-> {}]

JournalRecord ==
    [pc : JournalPc, explicit : BOOLEAN, parents : SUBSET CommitOrRoot,
     failedOp : BOOLEAN, commit : Commit \cup {None}]

SyncRecord ==
    [pc : {"idle", "check", "fetch", "add"}, batch : Seq(Commit), new : Seq(Commit),
     leaves : SUBSET Commit]

AddRecord ==
    [pc : {"idle", "loop", "execute"}, todo : Seq(Commit), remaining : Seq(Commit),
     progress : BOOLEAN, added : SUBSET Commit, toAdd : SUBSET Commit,
     put : SUBSET Commit, del : SUBSET CommitOrRoot, synced : SUBSET Commit]

RowsType ==
    /\ commits \subseteq Commit
    /\ heads \subseteq CommitOrRoot
    /\ unsynced \subseteq Commit
    /\ trees \subseteq Commit
    /\ implicit \in [Journal -> CommitOrRoot \cup {None}]
    /\ entries \subseteq Journal

MemoryType ==
    /\ phase \in {"down", "recover", "ready"}
    /\ journal \in [Journal -> JournalRecord]
    /\ queue \in Seq(Proc)
    /\ sync \in SyncRecord
    /\ add \in AddRecord

HistoryType ==
    /\ notified \subseteq Commit
    /\ made \in [Journal -> SUBSET Commit]
    /\ acked \subseteq Journal
    /\ released \subseteq Journal
    /\ faults \in Nat
    /\ crashes \in Nat

TypeOK == RowsType /\ MemoryType /\ HistoryType

\* A page that was never opened: an empty database.
Init ==
    /\ commits = {} /\ heads = {} /\ unsynced = {} /\ trees = {} /\ entries = {}
    /\ implicit = [j \in Journal |-> None]
    /\ phase = "down"
    /\ journal = [j \in Journal |-> NoJournal]
    /\ queue = <<>>
    /\ sync = NoSync
    /\ add = NoAdd
    /\ notified = {} /\ acked = {} /\ released = {}
    /\ made = [j \in Journal |-> {}]
    /\ faults = 0 /\ crashes = 0

-----------------------------------------------------------------------------
(* Helpers *)

\* ContainsCommit: the first commit is always there.
Stored == commits \cup {Root}

ElementsOf(s) == {s[i] : i \in 1..Len(s)}

HasChildIn(x, S) == \E c \in S : x \in Parents[c]

Leaves == {x \in Stored : ~HasChildIn(x, commits)}

\* A database operation may fail.
Fault ==
    /\ faults < MaxFaults
    /\ phase = "recover" => RecoveryFaults
    /\ faults' = faults + 1

Unlock == queue' = Tail(queue)

SetPc(j, pc) == journal' = [journal EXCEPT ![j].pc = pc]

-----------------------------------------------------------------------------
(* Init, crash *)

\* PageDb::RemoveExplicitJournals deletes the entries by their key prefix.
RemoveExplicitJournals == entries' = {j \in entries : implicit[j] # None}

\* SynchronousInit up to CommitJournal: the default head, the removal of the
\* explicit journals, and one JournalImpl per implicit journal row.
StartInit ==
    /\ phase = "down"
    /\ heads' = IF heads = {} THEN {Root} ELSE heads
    /\ RemoveExplicitJournals
    /\ phase' = "recover"
    /\ journal' = [j \in Journal |->
                     IF implicit[j] = None THEN NoJournal
                     ELSE [NoJournal EXCEPT !.pc = "commit", !.parents = {implicit[j]}]]
    /\ UNCHANGED <<commits, unsynced, trees, implicit, queue, sync, add, notified, made,
                   acked, released, faults, crashes>>

\* The waiter of SynchronousInit: every implicit journal is settled. An error
\* makes GetPageStorage fail, and the page is opened again later.
FinishInit ==
    /\ phase = "recover"
    /\ \A j \in Journal : journal[j].pc \in {"none", "done", "failed"}
    /\ phase' = IF \E j \in Journal : journal[j].pc = "failed" THEN "down" ELSE "ready"
    /\ UNCHANGED <<rows, journal, queue, sync, add, notified, made, acked, released,
                   faults, crashes>>

\* The process dies, or the page is closed and ~PageStorageImpl interrupts
\* every coroutine. The database keeps what Execute wrote.
Crash ==
    /\ phase # "down"
    /\ crashes < MaxCrashes
    /\ crashes' = crashes + 1
    /\ phase' = "down"
    /\ journal' = [j \in Journal |-> NoJournal]
    /\ queue' = <<>>
    /\ sync' = NoSync
    /\ add' = NoAdd
    /\ UNCHANGED <<rows, notified, made, acked, released, faults>>

-----------------------------------------------------------------------------
(* Journals *)

NeverUsed(j) ==
    /\ journal[j].pc = "none"
    /\ implicit[j] = None
    /\ made[j] = {}
    /\ j \notin acked \cup released \cup entries

\* PageDb::CreateJournalId: only implicit journals have a row of their own.
CreateJournalRow(j, base, isExplicit) ==
    implicit' = IF isExplicit THEN implicit ELSE [implicit EXCEPT ![j] = base]

\* PageDb::RemoveJournal: the metadata row and the entries, in one batch.
DeleteJournalRows(j) ==
    /\ implicit' = [implicit EXCEPT ![j] = None]
    /\ entries' = entries \ {j}

\* StartCommit: the base of an implicit journal is stored.
StartCommit(j, base, isExplicit) ==
    /\ phase = "ready"
    /\ NeverUsed(j)
    /\ base \in Stored
    /\ journal' = [journal EXCEPT ![j] = [NoJournal EXCEPT !.pc = "open", !.parents = {base},
                                                           !.explicit = isExplicit]]
    /\ CreateJournalRow(j, base, isExplicit)
    /\ UNCHANGED <<commits, heads, unsynced, trees, entries, phase, queue, sync, add,
                   notified, made, acked, released, faults, crashes>>

\* StartMergeCommit: always explicit.
StartMergeCommit(j, left, right) ==
    /\ phase = "ready"
    /\ NeverUsed(j)
    /\ {left, right} \subseteq Stored /\ left # right
    /\ \E c \in Commit : Parents[c] = {left, right}
    /\ journal' = [journal EXCEPT ![j] = [NoJournal EXCEPT !.pc = "open", !.explicit = TRUE,
                                                           !.parents = {left, right}]]
    /\ UNCHANGED <<rows, phase, queue, sync, add, notified, made, acked, released, faults,
                   crashes>>

\* Put and Delete: a row that survives a crash, then the acknowledgement.
PutEntry(j) ==
    /\ journal[j].pc = "open"
    /\ ~(journal[j].explicit /\ journal[j].failedOp)
    /\ \/ /\ entries' = entries \cup {j}
          /\ acked' = IF journal[j].explicit THEN acked ELSE acked \cup {j}
          /\ UNCHANGED <<journal, faults>>
       \/ /\ Fault
          /\ journal' = [journal EXCEPT ![j].failedOp = TRUE]
          /\ UNCHANGED <<entries, acked>>
    /\ UNCHANGED <<commits, heads, unsynced, trees, implicit, phase, queue, sync, add,
                   notified, made, released, crashes>>

\* CommitJournal: a failed operation of an explicit journal fails the commit,
\* which rolls the journal back.
CommitJournal(j) ==
    /\ journal[j].pc = "open"
    /\ SetPc(j, IF journal[j].explicit /\ journal[j].failedOp THEN "rollback" ELSE "commit")
    /\ UNCHANGED <<rows, phase, queue, sync, add, notified, made, acked, released, faults,
                   crashes>>

RollbackJournal(j) ==
    /\ journal[j].pc = "open"
    /\ SetPc(j, "rollback")
    /\ UNCHANGED <<rows, phase, queue, sync, add, notified, made, acked, released, faults,
                   crashes>>

\* Ids of commits that other coroutines are about to add.
InFlight == {journal[j].commit : j \in Journal}

\* FromContentAndParents: the id of a merge depends on its parents only, so it
\* may be known already; the timestamp makes the id of any other commit new.
MayCreate(j, c) ==
    /\ Parents[c] = journal[j].parents
    /\ \/ \E x, y \in Parents[c] : x # y
       \/ c \notin commits \cup Remote \cup InFlight

\* Mutant: the journal is removed before its commit is added.
CreateCommitMutant(j, c) ==
    /\ journal[j].pc = "commit"
    /\ j \in entries \/ \E x, y \in journal[j].parents : x # y
    /\ MayCreate(j, c)
    /\ journal' = [journal EXCEPT ![j] = [@ EXCEPT !.pc = "add", !.commit = c]]
    /\ trees' = trees \cup {c}
    /\ made' = [made EXCEPT ![j] = @ \cup {c}]
    /\ queue' = Append(queue, j)
    /\ implicit' = [implicit EXCEPT ![j] = None]
    /\ UNCHANGED <<commits, heads, unsynced, entries, phase, sync, add, notified,
                   acked, released, faults, crashes>>

\* Commit, CreateCommitFromChanges: the parents and the entries are read, the
\* tree nodes are written, and the commit is handed to AddCommitFromLocal.
CreateCommit(j, c) ==
    /\ journal[j].pc = "commit"
    /\ j \in entries \/ \E x, y \in journal[j].parents : x # y
    /\ MayCreate(j, c)
    /\ journal' = [journal EXCEPT ![j] = [@ EXCEPT !.pc = "add", !.commit = c]]
    /\ trees' = trees \cup {c}
    /\ made' = [made EXCEPT ![j] = @ \cup {c}]
    /\ queue' = Append(queue, j)
    /\ UNCHANGED <<commits, heads, unsynced, implicit, entries, phase, sync, add, notified,
                   acked, released, faults, crashes>>

\* The same, for changes that leave the tree as it is: the journal is rolled
\* back and CommitJournal succeeds with the parent.
CommitNoop(j) ==
    /\ journal[j].pc = "commit"
    /\ \A x, y \in journal[j].parents : x = y
    /\ DeleteJournalRows(j)
    /\ released' = released \cup {j}
    /\ SetPc(j, "done")
    /\ UNCHANGED <<commits, heads, unsynced, trees, phase, queue, sync, add, notified, made,
                   acked, faults, crashes>>

\* The parents or the entries cannot be read: Commit fails, and CommitJournal
\* rolls the journal back.
CommitReadError(j) ==
    /\ journal[j].pc = "commit"
    /\ Fault
    /\ SetPc(j, "rollback")
    /\ UNCHANGED <<rows, phase, queue, sync, add, notified, made, acked, released, crashes>>

\* RemoveJournal, after the commit was added or as a rollback. A client is told
\* of a rollback; nobody is told of one that Init caused.
RemoveJournal(j) ==
    /\ journal[j].pc \in {"remove", "rollback"}
    /\ \/ DeleteJournalRows(j) /\ UNCHANGED faults
       \/ Fault /\ UNCHANGED <<implicit, entries>>
    /\ released' = IF journal[j].pc = "rollback" /\ phase = "ready"
                     THEN released \cup {j} ELSE released
    /\ SetPc(j, IF journal[j].pc = "remove" THEN "done" ELSE "failed")
    /\ UNCHANGED <<commits, heads, unsynced, trees, phase, queue, sync, add, notified, made,
                   acked, crashes>>

-----------------------------------------------------------------------------
(* SynchronousAddCommitsFromSync *)

\* A batch of the cloud: commits of other devices, and commits of this device
\* that come back before or after MarkCommitSynced.
Batches ==
    {b \in UNION {[1..n -> Remote \cup commits] : n \in 1..MaxBatch} :
        \A i, k \in DOMAIN b :
            i < k => b[i] # b[k] /\ (InOrder => b[k] \notin Parents[b[i]])}

AddCommitsFromSync(b) ==
    /\ phase = "ready"
    /\ sync.pc = "idle"
    /\ sync' = [NoSync EXCEPT !.pc = "check", !.batch = b]
    /\ queue' = Append(queue, Sync)
    /\ UNCHANGED <<rows, phase, journal, add, notified, made, acked, released, faults,
                   crashes>>

SyncHoldsLock == queue # <<>> /\ Head(queue) = Sync

\* Mutant: a commit whose parent is a leaf is not taken for one.
LeavesWithMutant(leaves, c) == IF leaves \cap Parents[c] = {} THEN leaves \cup {c} ELSE leaves

\* The leaves of the new commits: a commit replaces its parents.
LeavesWith(leaves, c) == (leaves \ Parents[c]) \cup {c}

\* One iteration of the loop over the received commits.
SyncCheckNext ==
    /\ SyncHoldsLock /\ sync.pc = "check" /\ sync.batch # <<>>
    /\ LET c == Head(sync.batch) IN
         IF c \in Stored
           THEN /\ unsynced' = unsynced \ {c}
                /\ sync' = [sync EXCEPT !.batch = Tail(@)]
           ELSE /\ sync' = [sync EXCEPT !.batch = Tail(@), !.new = Append(@, c),
                                        !.leaves = LeavesWith(@, c)]
                /\ UNCHANGED unsynced
    /\ UNCHANGED <<commits, heads, trees, implicit, entries, phase, journal, queue, add,
                   notified, made, acked, released, faults, crashes>>

\* Returning from the function releases the lock.
SyncCheckError ==
    /\ SyncHoldsLock /\ sync.pc = "check"
    /\ Fault
    /\ sync' = NoSync
    /\ Unlock
    /\ UNCHANGED <<rows, phase, journal, add, notified, made, acked, released, crashes>>

SyncCheckDone ==
    /\ SyncHoldsLock /\ sync.pc = "check" /\ sync.batch = <<>>
    /\ sync' = IF sync.new = <<>> THEN NoSync ELSE [sync EXCEPT !.pc = "fetch"]
    /\ Unlock
    /\ UNCHANGED <<rows, phase, journal, add, notified, made, acked, released, faults,
                   crashes>>

\* GetObjectsFromSync for every leaf, without the lock; the network may fail.
SyncFetch ==
    /\ sync.pc = "fetch"
    /\ trees' = trees \cup sync.leaves
    /\ sync' = [sync EXCEPT !.pc = "add"]
    /\ queue' = Append(queue, Sync)
    /\ UNCHANGED <<commits, heads, unsynced, implicit, entries, phase, journal, add,
                   notified, made, acked, released, faults, crashes>>

SyncFetchError ==
    /\ sync.pc = "fetch"
    /\ sync' = NoSync
    /\ UNCHANGED <<rows, phase, journal, queue, add, notified, made, acked, released,
                   faults, crashes>>

\* MarkCommitSynced, called for an uploaded commit, takes no lock.
MarkCommitSynced(c) ==
    /\ phase = "ready"
    /\ c \in unsynced
    /\ unsynced' = unsynced \ {c}
    /\ UNCHANGED <<commits, heads, trees, implicit, entries, memory, notified, made, acked,
                   released, faults, crashes>>

-----------------------------------------------------------------------------
(* SynchronousAddCommits, under the lock *)

Owner == Head(queue)

OwnerCommits == IF Owner = Sync THEN sync.new ELSE <<journal[Owner].commit>>

StartAddCommits ==
    /\ queue # <<>>
    /\ add.pc = "idle"
    /\ IF Owner = Sync THEN sync.pc = "add" ELSE journal[Owner].pc = "add"
    /\ add' = [NoAdd EXCEPT !.pc = "loop", !.todo = OwnerCommits]
    /\ UNCHANGED <<rows, phase, journal, queue, sync, notified, made, acked, released,
                   faults, crashes>>

\* The commit is already here; a commit from the cloud is marked synced.
SkipPresentCommit(c) ==
    /\ c \in Stored
    /\ add' = [add EXCEPT !.todo = Tail(@),
                          !.synced = IF Owner = Sync THEN @ \cup {c} ELSE @]

\* Mutant: the row of a parent that was a head before the batch stays.
EraseHeadsMutant(a, ps) == [a EXCEPT !.toAdd = @ \ ps]

\* Mutant: put and deleted rows are swapped.
EraseHeadsSwapped(a, ps) ==
    [a EXCEPT !.toAdd = @ \ ps,
              !.del = @ \ (ps \ a.toAdd),
              !.put = @ \cup (ps \ a.toAdd)]

\* Parents leave the heads: those in heads_to_add are erased from it, for the
\* others the batch deletes the row.
EraseHeads(a, ps) ==
    [a EXCEPT !.toAdd = @ \ ps,
              !.put = @ \ (ps \ a.toAdd),
              !.del = @ \cup (ps \ a.toAdd)]

\* Mutant: the parents are not looked up.
MissingParentsMutant(c) == {}

MissingParents(c) == Parents[c] \ (add.added \cup Stored)

AddNewCommit(c) ==
    /\ c \notin Stored
    /\ MissingParents(c) = {}
    /\ add' = [EraseHeads(add, Parents[c]) EXCEPT
                 !.todo = Tail(@), !.progress = TRUE,
                 !.added = @ \cup {c}, !.toAdd = @ \cup {c}]

\* Mutant: a commit with a missing parent is dropped.
PostponeCommitMutant(c) ==
    /\ c \notin Stored
    /\ MissingParents(c) # {}
    /\ \E ps \in SUBSET (Parents[c] \ MissingParents(c)) :
         add' = [EraseHeads(add, ps) EXCEPT !.todo = Tail(@)]

\* A parent is missing: the commit is retried in the next iteration. A parent
\* that comes first in the order of the ids has left the heads by then.
PostponeCommit(c) ==
    /\ c \notin Stored
    /\ MissingParents(c) # {}
    /\ \E ps \in SUBSET (Parents[c] \ MissingParents(c)) :
         add' = [EraseHeads(add, ps) EXCEPT !.todo = Tail(@), !.remaining = Append(@, c)]

AddNext ==
    /\ add.pc = "loop" /\ add.todo # <<>>
    /\ LET c == Head(add.todo) IN
         SkipPresentCommit(c) \/ AddNewCommit(c) \/ PostponeCommit(c)
    /\ UNCHANGED <<rows, phase, journal, queue, sync, notified, made, acked, released,
                   faults, crashes>>

\* The end of the for loop: the heads found so far are put in the batch.
PutHeads(a) == [a EXCEPT !.put = @ \cup a.toAdd, !.del = @ \ a.toAdd]

\* Mutant: an error return keeps the lock.
ResumeMutant(ok) ==
    /\ IF ok THEN Unlock ELSE UNCHANGED queue
    /\ add' = NoAdd
    /\ IF Owner = Sync
         THEN sync' = NoSync /\ UNCHANGED <<journal, released>>
         ELSE /\ SetPc(Owner, IF ok THEN "remove" ELSE "failed")
              /\ released' = released
              /\ UNCHANGED sync

\* The caller of SynchronousAddCommits resumes with the given outcome. A journal
\* whose commit failed has valid_ = false, so its Rollback removes nothing.
Resume(ok) ==
    /\ Unlock
    /\ add' = NoAdd
    /\ IF Owner = Sync
         THEN sync' = NoSync /\ UNCHANGED <<journal, released>>
         ELSE /\ SetPc(Owner, IF ok THEN "remove" ELSE "failed")
              /\ released' = IF ok \/ phase # "ready" THEN released
                                                     ELSE released \cup {Owner}
              /\ UNCHANGED sync

\* The while loop goes on as long as an iteration added a commit; commits
\* that are left over make the whole call fail.
AddIterationEnd ==
    /\ add.pc = "loop" /\ add.todo = <<>>
    /\ \/ /\ add.remaining = <<>>
          /\ add' = [PutHeads(add) EXCEPT !.pc = "execute"]
          /\ UNCHANGED <<journal, queue, sync, released>>
       \/ /\ add.remaining # <<>> /\ add.progress
          /\ add' = [PutHeads(add) EXCEPT !.todo = add.remaining, !.remaining = <<>>,
                                          !.progress = FALSE]
          /\ UNCHANGED <<journal, queue, sync, released>>
       \/ /\ add.remaining # <<>> /\ ~add.progress
          /\ Resume(FALSE)
    /\ UNCHANGED <<rows, phase, notified, made, acked, faults, crashes>>

\* NotifyWatchers: no watcher is registered before Init has finished.
Notify == notified' = IF phase = "ready" THEN notified \cup add.added ELSE notified

\* Mutant: a local commit is marked unsynced even if it was already here.
UnsyncedAfterMutant ==
    IF Owner = Sync THEN unsynced \ add.synced ELSE unsynced \cup ElementsOf(OwnerCommits)

\* The unsynced rows after the batch: new local commits are marked unsynced.
UnsyncedAfter ==
    IF Owner = Sync THEN unsynced \ add.synced ELSE unsynced \cup add.added

Execute ==
    /\ add.pc = "execute"
    /\ commits' = commits \cup add.added
    /\ heads' = (heads \ add.del) \cup add.put
    /\ unsynced' = UnsyncedAfter
    /\ Notify
    /\ Resume(TRUE)
    /\ UNCHANGED <<trees, implicit, entries, phase, made, acked, faults, crashes>>

\* The batch is written atomically or not at all; the watchers are notified
\* in either case.
ExecuteError ==
    /\ add.pc = "execute"
    /\ Fault
    /\ Notify
    /\ Resume(FALSE)
    /\ UNCHANGED <<rows, phase, made, acked, crashes>>

\* Any earlier failure returns at once.
AddError ==
    /\ add.pc # "idle"
    /\ Fault
    /\ Resume(FALSE)
    /\ UNCHANGED <<rows, phase, notified, made, acked, crashes>>

-----------------------------------------------------------------------------
JournalStep(j) ==
    \/ \E c \in Commit : CreateCommit(j, c)
    \/ CommitNoop(j)
    \/ CommitReadError(j)
    \/ RemoveJournal(j)

SyncStep == SyncCheckNext \/ SyncCheckError \/ SyncCheckDone \/ SyncFetch \/ SyncFetchError

AddStep ==
    \/ StartAddCommits \/ AddNext \/ AddIterationEnd
    \/ Execute \/ ExecuteError \/ AddError

ClientStep(j) ==
    \/ \E base \in CommitOrRoot, isExplicit \in BOOLEAN : StartCommit(j, base, isExplicit)
    \/ \E left, right \in CommitOrRoot : StartMergeCommit(j, left, right)
    \/ PutEntry(j)
    \/ CommitJournal(j)
    \/ RollbackJournal(j)

CloudStep ==
    \/ \E b \in Batches : AddCommitsFromSync(b)
    \/ \E c \in Commit : MarkCommitSynced(c)

Next ==
    \/ StartInit
    \/ FinishInit
    \/ Crash
    \/ \E j \in Journal : ClientStep(j) \/ JournalStep(j)
    \/ CloudStep
    \/ SyncStep
    \/ AddStep

Spec == Init /\ [][Next]_vars

\* The task runner runs every posted task: what has started goes on.
Fairness ==
    /\ WF_vars(SyncStep)
    /\ WF_vars(AddStep)
    /\ \A j \in Journal : WF_vars(JournalStep(j))

FairSpec == Spec /\ Fairness

-----------------------------------------------------------------------------
(* Properties *)

\* The history is closed under parents, whatever the order in which commits
\* arrive: SynchronousAddCommits writes a commit only after, or together with,
\* its parents, and a crash never separates them.
ParentsStored == \A c \in commits : Parents[c] \subseteq Stored

\* No branch is forgotten: a commit without stored children is always a head,
\* so that it is merged and built upon. This holds for out-of-order batches
\* too, although a postponed merge has already erased one of its parents.
LeavesAreHeads == phase # "down" => Leaves \subseteq heads

\* The heads are exactly the leaves of the local history: what
\* GetHeadCommitIds answers is a conflict only if there is one.
HeadsAreLeaves == phase # "down" => heads = Leaves

\* A head can be read without the network, when commits arrive in order:
\* AddCommitsFromSync fetches objects for the leaves of the received batch
\* only, before it takes the lock again and decides which become heads.
HeadsHaveTrees == heads \subseteq trees \cup {Root}

\* "Synced commits cannot become unsynced": once a stored commit is marked
\* synced, adding it again from a local merge does not mark it for upload.
SyncedStaysSynced ==
    [][\A c \in commits \ unsynced : c \notin unsynced']_vars

\* An acknowledged change of an implicit journal is in a stored commit, or
\* still in the database for the next Init to commit, unless its client took
\* it back, was told of the failure, or the change had no effect.
ImplicitNotLost ==
    \A j \in acked \ released :
        \/ implicit[j] # None /\ j \in entries
        \/ made[j] \cap commits # {}

\* Every coroutine that asks for the commit lock gets it and gives it back: no
\* early return of the two critical sections keeps it.
LockIsReleased ==
    \A p \in Proc : p \in ElementsOf(queue) ~> p \notin ElementsOf(queue)

=============================================================================
