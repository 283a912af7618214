-------------------------- MODULE PageStorageProofs --------------------------
(***************************************************************************)
(* Proofs about PageStorage, for every graph of commits and every number   *)
(* of journals, faults and crashes. For batches in any order: types, the   *)
(* closure of the stored history under parents, that no leaf is missing    *)
(* from the heads, and that synced commits stay synced. For batches in the *)
(* order of the cloud: that the heads are exactly the leaves and can be    *)
(* read. Without faults during Init: that no acknowledged change is lost.  *)
(***************************************************************************)
EXTENDS PageStorage, TLAPS

\* The holder of the lock is in SynchronousAddCommits as long as add is in
\* use, so the first critical section of AddCommitsFromSync and the second
\* exclude each other.
LockHeld ==
    add.pc # "idle" =>
      /\ queue # <<>>
      /\ IF Owner = Sync THEN sync.pc = "add" ELSE journal[Owner].pc = "add"

\* Every journal handed to AddCommitFromLocal has its commit.
AddHasCommit == \A j \in Journal : journal[j].pc = "add" => journal[j].commit \in Commit

\* Before Init has finished there is no call of AddCommitsFromSync, and in a
\* page that is not open nothing runs.
PhaseInv ==
    /\ phase # "ready" => sync.pc = "idle"
    /\ phase = "down" => /\ add.pc = "idle"
                         /\ \A j \in Journal : journal[j].pc \in {"none", "done", "failed"}

LockInv == LockHeld /\ AddHasCommit /\ PhaseInv

\* Commits that SynchronousAddCommits has still to look at.
Pending == ElementsOf(add.todo) \cup ElementsOf(add.remaining)

\* The head rows that the batch would leave.
BatchHeads == (heads \ add.del) \cup add.put \cup add.toAdd

\* What the batch under construction promises: its commits are new and their
\* parents are stored or in the batch, and a commit that it leaves without a
\* child is a head or the parent of a commit that is still to be looked at.
BatchInv ==
    add.pc # "idle" =>
      /\ add.added \cap Stored = {}
      /\ \A c \in add.added : Parents[c] \subseteq Stored \cup add.added
      /\ \A x \in Stored \cup add.added :
           \/ HasChildIn(x, commits \cup add.added)
           \/ x \in BatchHeads
           \/ HasChildIn(x, Pending)
      /\ add.pc = "execute" => Pending = {} /\ add.toAdd \subseteq add.put

\* The heads cover the leaves, once the page has been opened.
CoverInv == Leaves \subseteq heads \/ (phase = "down" /\ commits = {} /\ heads = {})

IInv == TypeOK /\ LockInv /\ ParentsStored /\ CoverInv /\ BatchInv

-----------------------------------------------------------------------------
(* Lemmas on sequences *)

\* A non-empty sequence has the elements of its tail, and its head.
LEMMA ElementsOfTail ==
    ASSUME NEW S, NEW s \in Seq(S), s # <<>>
    PROVE  /\ Head(s) \in S
           /\ Tail(s) \in Seq(S)
           /\ ElementsOf(s) = {Head(s)} \cup ElementsOf(Tail(s))
<1>1. Head(s) \in S /\ Tail(s) \in Seq(S) /\ Len(s) \in Nat /\ Len(s) > 0
  OBVIOUS
<1>2. Head(s) = s[1] /\ Len(Tail(s)) = Len(s) - 1
  BY <1>1
<1>3. \A i \in 1..Len(Tail(s)) : Tail(s)[i] = s[i + 1]
  BY <1>1
<1>4. ElementsOf(s) \subseteq {Head(s)} \cup ElementsOf(Tail(s))
  <2> SUFFICES ASSUME NEW i \in 1..Len(s)
               PROVE  s[i] = Head(s) \/ \E k \in 1..Len(Tail(s)) : s[i] = Tail(s)[k]
    BY DEF ElementsOf
  <2>1. CASE i = 1
    BY <2>1, <1>2
  <2>2. CASE i # 1
    <3>1. i - 1 \in 1..Len(Tail(s)) /\ (i - 1) + 1 = i
      BY <2>2, <1>1, <1>2
    <3>2. Tail(s)[i - 1] = s[i]
      BY <3>1, <1>3
    <3> QED BY <3>1, <3>2
  <2> QED BY <2>1, <2>2
<1>5. {Head(s)} \cup ElementsOf(Tail(s)) \subseteq ElementsOf(s)
  <2>1. Head(s) \in ElementsOf(s)
    BY <1>1, <1>2 DEF ElementsOf
  <2>2. ASSUME NEW k \in 1..Len(Tail(s)) PROVE Tail(s)[k] \in ElementsOf(s)
    <3>1. k + 1 \in 1..Len(s) /\ Tail(s)[k] = s[k + 1]
      BY <1>1, <1>2, <1>3
    <3> QED BY <3>1 DEF ElementsOf
  <2> QED BY <2>1, <2>2 DEF ElementsOf
<1> QED BY <1>1, <1>4, <1>5

\* Append adds one element.
LEMMA ElementsOfAppend ==
    ASSUME NEW S, NEW s \in Seq(S), NEW c \in S
    PROVE  Append(s, c) \in Seq(S) /\ ElementsOf(Append(s, c)) = ElementsOf(s) \cup {c}
<1>1. Append(s, c) \in Seq(S) /\ Len(Append(s, c)) = Len(s) + 1 /\ Len(s) \in Nat
  OBVIOUS
<1>2. /\ \A i \in 1..Len(s) : Append(s, c)[i] = s[i]
      /\ Append(s, c)[Len(s) + 1] = c
  OBVIOUS
<1>3. ElementsOf(Append(s, c)) \subseteq ElementsOf(s) \cup {c}
  <2> SUFFICES ASSUME NEW i \in 1..(Len(s) + 1)
               PROVE  Append(s, c)[i] = c \/ \E k \in 1..Len(s) : Append(s, c)[i] = s[k]
    BY <1>1 DEF ElementsOf
  <2>1. CASE i \in 1..Len(s)
    BY <2>1, <1>2
  <2>2. CASE i \notin 1..Len(s)
    <3>1. i = Len(s) + 1
      BY <2>2, <1>1
    <3> QED BY <3>1, <1>2
  <2> QED BY <2>1, <2>2
<1>4. ElementsOf(s) \cup {c} \subseteq ElementsOf(Append(s, c))
  <2>1. c \in ElementsOf(Append(s, c))
    BY <1>1, <1>2 DEF ElementsOf
  <2>2. ASSUME NEW k \in 1..Len(s) PROVE s[k] \in ElementsOf(Append(s, c))
    <3>1. k \in 1..Len(Append(s, c)) /\ Append(s, c)[k] = s[k]
      BY <1>1, <1>2
    <3> QED BY <3>1 DEF ElementsOf
  <2> QED BY <2>1, <2>2 DEF ElementsOf
<1> QED BY <1>1, <1>3, <1>4

\* The empty sequence has no element.
LEMMA ElementsOfEmpty == ElementsOf(<<>>) = {}
BY DEF ElementsOf

-----------------------------------------------------------------------------
(* Type correctness *)

USE CommitAssumption, JournalAssumption, BoundAssumption

\* The commits that the holder of the lock hands to SynchronousAddCommits.
LEMMA OwnerCommitsType ==
    ASSUME TypeOK, AddHasCommit, queue # <<>>,
           IF Owner = Sync THEN sync.pc = "add" ELSE journal[Owner].pc = "add"
    PROVE  OwnerCommits \in Seq(Commit)
<1>1. Owner \in Proc
  BY DEF TypeOK, MemoryType, Owner
<1>2. CASE Owner = Sync
  BY <1>2 DEF TypeOK, MemoryType, SyncRecord, OwnerCommits
<1>3. CASE Owner # Sync
  <2>1. journal[Owner].commit \in Commit
    BY <1>1, <1>3 DEF AddHasCommit, Proc
  <2> QED BY <2>1, <1>3 DEF OwnerCommits
<1> QED BY <1>2, <1>3

\* Moving a journal to another control point keeps the types.
LEMMA SetPcType ==
    ASSUME NEW j \in Journal, NEW pc \in JournalPc, journal \in [Journal -> JournalRecord],
           SetPc(j, pc)
    PROVE  /\ journal' \in [Journal -> JournalRecord]
           /\ journal'[j].pc = pc /\ journal'[j].commit = journal[j].commit
           /\ \A k \in Journal \ {j} : journal'[k] = journal[k]
BY DEF SetPc, JournalRecord

\* Starting, editing and ending a journal keeps the types.
LEMMA ClientTypeStep ==
    ASSUME TypeOK, NEW j \in Journal, ClientStep(j)
    PROVE  TypeOK'
<1> USE DEF TypeOK, CommitOrRoot
<1>1. ASSUME NEW base \in CommitOrRoot, NEW isExplicit \in BOOLEAN,
             StartCommit(j, base, isExplicit)
      PROVE  TypeOK'
  <2>1. RowsType' /\ HistoryType'
    BY <1>1 DEF StartCommit, CreateJournalRow, RowsType, HistoryType
  <2>2. [NoJournal EXCEPT !.pc = "open", !.parents = {base}, !.explicit = isExplicit]
           \in JournalRecord
    BY DEF NoJournal, JournalRecord, JournalPc
  <2>3. MemoryType'
    BY <1>1, <2>2 DEF StartCommit, MemoryType
  <2> QED BY <2>1, <2>3
<1>2. ASSUME NEW left \in CommitOrRoot, NEW right \in CommitOrRoot,
             StartMergeCommit(j, left, right)
      PROVE  TypeOK'
  <2>1. RowsType' /\ HistoryType'
    BY <1>2 DEF StartMergeCommit, rows, RowsType, HistoryType
  <2>2. [NoJournal EXCEPT !.pc = "open", !.explicit = TRUE, !.parents = {left, right}]
           \in JournalRecord
    BY DEF NoJournal, JournalRecord, JournalPc
  <2>3. MemoryType'
    BY <1>2, <2>2 DEF StartMergeCommit, MemoryType
  <2> QED BY <2>1, <2>3
<1>3. CASE PutEntry(j)
  <2>1. RowsType' /\ HistoryType'
    BY <1>3 DEF PutEntry, Fault, RowsType, HistoryType
  <2>2. journal' \in [Journal -> JournalRecord]
    <3>1. [journal[j] EXCEPT !.failedOp = TRUE] \in JournalRecord
      BY ZenonT(40) DEF MemoryType, JournalRecord
    <3> QED BY <1>3, <3>1 DEF PutEntry, MemoryType
  <2>3. MemoryType'
    BY <1>3, <2>2 DEF PutEntry, MemoryType
  <2> QED BY <2>1, <2>3
<1>4. CASE CommitJournal(j)
  <2>1. RowsType' /\ HistoryType'
    BY <1>4 DEF CommitJournal, rows, RowsType, HistoryType
  <2>2. MemoryType'
    BY <1>4, SetPcType DEF CommitJournal, MemoryType, JournalPc
  <2> QED BY <2>1, <2>2
<1>5. CASE RollbackJournal(j)
  <2>1. RowsType' /\ HistoryType'
    BY <1>5 DEF RollbackJournal, rows, RowsType, HistoryType
  <2>2. MemoryType'
    BY <1>5, SetPcType DEF RollbackJournal, MemoryType, JournalPc
  <2> QED BY <2>1, <2>2
<1> QED BY <1>1, <1>2, <1>3, <1>4, <1>5 DEF ClientStep

\* So does turning a journal into a commit, or removing it.
LEMMA JournalTypeStep ==
    ASSUME TypeOK, NEW j \in Journal, JournalStep(j)
    PROVE  TypeOK'
<1> USE DEF TypeOK, CommitOrRoot
<1>1. ASSUME NEW c \in Commit, CreateCommit(j, c) PROVE TypeOK'
  <2>1. RowsType' /\ HistoryType'
    BY <1>1 DEF CreateCommit, RowsType, HistoryType
  <2>2. journal' \in [Journal -> JournalRecord]
    <3>1. [journal[j] EXCEPT !.pc = "add", !.commit = c] \in JournalRecord
      BY ZenonT(40) DEF MemoryType, JournalRecord, JournalPc
    <3> QED BY <1>1, <3>1 DEF CreateCommit, MemoryType
  <2>3. queue' \in Seq(Proc)
    BY <1>1 DEF CreateCommit, MemoryType, Proc
  <2>4. MemoryType'
    BY <1>1, <2>2, <2>3 DEF CreateCommit, MemoryType
  <2> QED BY <2>1, <2>4
<1>2. CASE CommitNoop(j)
  <2>1. RowsType' /\ HistoryType'
    BY <1>2 DEF CommitNoop, DeleteJournalRows, RowsType, HistoryType
  <2>2. MemoryType'
    BY <1>2, SetPcType DEF CommitNoop, MemoryType, JournalPc
  <2> QED BY <2>1, <2>2
<1>3. CASE CommitReadError(j)
  <2>1. RowsType' /\ HistoryType'
    BY <1>3 DEF CommitReadError, Fault, rows, RowsType, HistoryType
  <2>2. MemoryType'
    BY <1>3, SetPcType DEF CommitReadError, MemoryType, JournalPc
  <2> QED BY <2>1, <2>2
<1>4. CASE RemoveJournal(j)
  <2>1. RowsType' /\ HistoryType'
    BY <1>4 DEF RemoveJournal, DeleteJournalRows, Fault, RowsType, HistoryType
  <2>2. MemoryType'
    BY <1>4, SetPcType DEF RemoveJournal, MemoryType, JournalPc
  <2> QED BY <2>1, <2>2
<1> QED BY <1>1, <1>2, <1>3, <1>4 DEF JournalStep

\* The cloud's calls and the first section of AddCommitsFromSync keep them.
LEMMA SyncTypeStep ==
    ASSUME TypeOK, CloudStep \/ SyncStep
    PROVE  TypeOK'
<1> USE DEF TypeOK
<1>0. Append(queue, Sync) \in Seq(Proc)
  BY DEF MemoryType, Proc
<1>1. NoSync \in SyncRecord
  BY DEF NoSync, SyncRecord
<1>2. ASSUME NEW b \in Batches, AddCommitsFromSync(b) PROVE TypeOK'
  <2>1. RowsType' /\ HistoryType'
    BY <1>2 DEF AddCommitsFromSync, rows, RowsType, HistoryType
  <2>2. b \in Seq(Commit)
    BY DEF Batches, RowsType
  <2>3. [NoSync EXCEPT !.pc = "check", !.batch = b] \in SyncRecord
    BY <1>1, <2>2 DEF SyncRecord
  <2>4. MemoryType'
    BY <1>0, <1>2, <2>3 DEF AddCommitsFromSync, MemoryType
  <2> QED BY <2>1, <2>4
<1>3. ASSUME NEW c \in Commit, MarkCommitSynced(c) PROVE TypeOK'
  BY <1>3 DEF MarkCommitSynced, memory, RowsType, MemoryType, HistoryType
<1>4. CASE SyncCheckNext
  <2>1. RowsType' /\ HistoryType'
    BY <1>4 DEF SyncCheckNext, RowsType, HistoryType
  <2>2. Head(sync.batch) \in Commit /\ Tail(sync.batch) \in Seq(Commit)
    BY <1>4 DEF SyncCheckNext, MemoryType, SyncRecord
  <2> DEFINE c == Head(sync.batch)
  <2>a. [sync EXCEPT !.batch = Tail(sync.batch)] \in SyncRecord
    BY <2>2 DEF MemoryType, SyncRecord
  <2>b. Append(sync.new, c) \in Seq(Commit) /\ LeavesWith(sync.leaves, c) \subseteq Commit
    BY <2>2 DEF LeavesWith, MemoryType, SyncRecord
  <2>c. [sync EXCEPT !.batch = Tail(sync.batch), !.new = Append(sync.new, c),
                     !.leaves = LeavesWith(sync.leaves, c)] \in SyncRecord
    <3> HIDE DEF c
    <3> QED BY <2>2, <2>b DEF MemoryType, SyncRecord
  <2>3. sync' \in SyncRecord
    BY <1>4, <2>a, <2>c DEF SyncCheckNext
  <2>4. MemoryType'
    BY <1>4, <2>3 DEF SyncCheckNext, MemoryType
  <2> QED BY <2>1, <2>4
<1>5. ASSUME SyncHoldsLock PROVE Tail(queue) \in Seq(Proc)
  BY <1>5 DEF SyncHoldsLock, MemoryType
<1>6. CASE SyncCheckError
  BY <1>1, <1>5, <1>6 DEF SyncCheckError, Unlock, Fault, rows, RowsType, MemoryType, HistoryType
<1>7. CASE SyncCheckDone
  <2>1. [sync EXCEPT !.pc = "fetch"] \in SyncRecord
    BY DEF MemoryType, SyncRecord
  <2> QED BY <1>1, <1>5, <1>7, <2>1 DEF SyncCheckDone, Unlock, rows, RowsType, MemoryType,
                                        HistoryType
<1>8. CASE SyncFetch
  <2>1. [sync EXCEPT !.pc = "add"] \in SyncRecord /\ sync.leaves \subseteq Commit
    BY DEF MemoryType, SyncRecord
  <2> QED BY <1>0, <1>8, <2>1 DEF SyncFetch, RowsType, MemoryType, HistoryType
<1>9. CASE SyncFetchError
  BY <1>1, <1>9 DEF SyncFetchError, rows, RowsType, MemoryType, HistoryType
<1> QED BY <1>2, <1>3, <1>4, <1>6, <1>7, <1>8, <1>9 DEF CloudStep, SyncStep

\* What the caller of SynchronousAddCommits does when it resumes.
LEMMA ResumeType ==
    ASSUME TypeOK, LockInv, NEW ok \in BOOLEAN, add.pc # "idle", Resume(ok)
    PROVE  /\ add' = NoAdd /\ NoAdd \in AddRecord
           /\ queue' \in Seq(Proc)
           /\ journal' \in [Journal -> JournalRecord]
           /\ released' \subseteq Journal
           /\ AddHasCommit'
           /\ sync' \in SyncRecord /\ (sync' = sync \/ sync' = NoSync)
<1>1. Owner \in Proc /\ queue # <<>> /\ queue' \in Seq(Proc)
  BY DEF LockInv, LockHeld, TypeOK, MemoryType, Owner, Resume, Unlock
<1>2. NoAdd \in AddRecord /\ NoSync \in SyncRecord
  BY DEF NoAdd, AddRecord, NoSync, SyncRecord
<1>3. CASE Owner = Sync
  BY <1>1, <1>2, <1>3 DEF Resume, TypeOK, MemoryType, HistoryType, LockInv, AddHasCommit
<1>4. CASE Owner # Sync
  <2>1. Owner \in Journal
    BY <1>1, <1>4 DEF Proc
  <2> DEFINE pc == IF ok THEN "remove" ELSE "failed"
  <2>2. SetPc(Owner, pc) /\ pc \in JournalPc /\ pc # "add"
    BY <1>4 DEF Resume, JournalPc
  <2>3. /\ journal' \in [Journal -> JournalRecord]
        /\ journal'[Owner].pc = pc
        /\ \A k \in Journal \ {Owner} : journal'[k] = journal[k]
    <3> HIDE DEF pc
    <3> QED BY <2>1, <2>2, SetPcType DEF TypeOK, MemoryType
  <2>4. AddHasCommit'
    <3> HIDE DEF pc
    <3> QED BY <2>1, <2>2, <2>3 DEF LockInv, AddHasCommit
  <2> QED BY <1>1, <1>2, <1>4, <2>1, <2>3, <2>4 DEF Resume, TypeOK, MemoryType, HistoryType
<1> QED BY <1>3, <1>4

\* SynchronousAddCommits keeps the types.
LEMMA AddTypeStep ==
    ASSUME TypeOK, LockInv, AddStep
    PROVE  TypeOK'
<1> USE DEF TypeOK, CommitOrRoot
<1>1. CASE StartAddCommits
  <2>1. OwnerCommits \in Seq(Commit)
    BY <1>1, OwnerCommitsType DEF StartAddCommits, LockInv
  <2>2. NoAdd \in AddRecord
    BY DEF NoAdd, AddRecord
  <2>3. [NoAdd EXCEPT !.pc = "loop", !.todo = OwnerCommits] \in AddRecord
    BY <2>1, <2>2 DEF AddRecord
  <2> QED BY <1>1, <2>3 DEF StartAddCommits, rows, RowsType, MemoryType, HistoryType
<1>2. CASE AddNext
  <2> DEFINE c == Head(add.todo)
  <2>1. c \in Commit /\ Tail(add.todo) \in Seq(Commit)
    BY <1>2 DEF AddNext, MemoryType, AddRecord
  <2>2. Parents[c] \subseteq CommitOrRoot
    BY <2>1
  <2> HIDE DEF c
  <2>3. ASSUME SkipPresentCommit(c) PROVE add' \in AddRecord
    BY <2>1, <2>3 DEF SkipPresentCommit, MemoryType, AddRecord, c
  <2>4. ASSUME NEW ps \in SUBSET CommitOrRoot
        PROVE  EraseHeads(add, ps) \in AddRecord /\ EraseHeads(add, ps).todo = add.todo
               /\ EraseHeads(add, ps).remaining = add.remaining
    BY DEF EraseHeads, MemoryType, AddRecord
  <2>5. ASSUME AddNewCommit(c) PROVE add' \in AddRecord
    <3> DEFINE a == EraseHeads(add, Parents[c])
    <3>1. a \in AddRecord /\ a.todo = add.todo
      BY <2>2, <2>4
    <3> HIDE DEF a
    <3>2. [a EXCEPT !.todo = Tail(a.todo), !.progress = TRUE, !.added = a.added \cup {c},
                    !.toAdd = a.toAdd \cup {c}] \in AddRecord
      BY <2>1, <3>1 DEF AddRecord
    <3> QED BY <2>5, <3>2 DEF AddNewCommit, a
  <2>6. ASSUME PostponeCommit(c) PROVE add' \in AddRecord
    <3>1. PICK ps \in SUBSET (Parents[c] \ MissingParents(c)) :
            add' = [EraseHeads(add, ps) EXCEPT !.todo = Tail(@), !.remaining = Append(@, c)]
      BY <2>6 DEF PostponeCommit
    <3> DEFINE a == EraseHeads(add, ps)
    <3>2. a \in AddRecord /\ a.todo = add.todo /\ a.remaining = add.remaining
      BY <2>2, <2>4
    <3>3. Append(a.remaining, c) \in Seq(Commit)
      BY <2>1, <3>2 DEF MemoryType, AddRecord
    <3> HIDE DEF a
    <3>4. [a EXCEPT !.todo = Tail(a.todo), !.remaining = Append(a.remaining, c)] \in AddRecord
      BY <2>1, <3>2, <3>3 DEF AddRecord
    <3> QED BY <3>1, <3>4 DEF a
  <2>7. add' \in AddRecord
    BY <1>2, <2>3, <2>5, <2>6 DEF AddNext, c
  <2> QED BY <1>2, <2>7 DEF AddNext, rows, RowsType, MemoryType, HistoryType
<1>3. CASE AddIterationEnd
  <2>1. PutHeads(add) \in AddRecord
    BY DEF PutHeads, MemoryType, AddRecord
  <2>2. CASE Resume(FALSE)
    BY <1>3, <2>2, ResumeType DEF AddIterationEnd, rows, RowsType, MemoryType, HistoryType
  <2>3. CASE ~Resume(FALSE)
    <3>1. add.remaining \in Seq(Commit) /\ <<>> \in Seq(Commit)
      BY DEF MemoryType, AddRecord
    <3> DEFINE a == PutHeads(add)
    <3>2. a \in AddRecord
      BY <2>1
    <3> HIDE DEF a
    <3>3. /\ [a EXCEPT !.pc = "execute"] \in AddRecord
          /\ [a EXCEPT !.todo = add.remaining, !.remaining = <<>>, !.progress = FALSE] \in AddRecord
      BY <3>1, <3>2 DEF AddRecord
    <3>4. add' \in AddRecord
      BY <1>3, <2>3, <3>3 DEF AddIterationEnd, a
    <3> QED BY <1>3, <2>3, <3>4 DEF AddIterationEnd, rows, RowsType, MemoryType, HistoryType
  <2> QED BY <2>2, <2>3
<1>4. CASE Execute
  <2>1. /\ add.added \subseteq Commit /\ add.put \subseteq Commit
        /\ add.pc # "idle" /\ Resume(TRUE)
    BY <1>4 DEF Execute, MemoryType, AddRecord
  <2>2. MemoryType' /\ released' \subseteq Journal
    BY <1>4, <2>1, ResumeType DEF Execute, MemoryType
  <2>3. RowsType' /\ HistoryType'
    BY <1>4, <2>1, <2>2 DEF Execute, UnsyncedAfter, Notify, RowsType, HistoryType
  <2> QED BY <2>2, <2>3
<1>5. CASE ExecuteError
  <2>1. add.added \subseteq Commit /\ add.pc # "idle" /\ Resume(FALSE)
    BY <1>5 DEF ExecuteError, MemoryType, AddRecord
  <2>2. MemoryType' /\ released' \subseteq Journal
    BY <1>5, <2>1, ResumeType DEF ExecuteError, MemoryType
  <2>3. RowsType' /\ HistoryType'
    BY <1>5, <2>1, <2>2 DEF ExecuteError, Fault, Notify, rows, RowsType, HistoryType
  <2> QED BY <2>2, <2>3
<1>6. CASE AddError
  <2>1. add.pc # "idle" /\ Resume(FALSE)
    BY <1>6 DEF AddError
  <2>2. MemoryType' /\ released' \subseteq Journal
    BY <1>6, <2>1, ResumeType DEF AddError, MemoryType
  <2>3. RowsType' /\ HistoryType'
    BY <1>6, <2>2 DEF AddError, Fault, rows, RowsType, HistoryType
  <2> QED BY <2>2, <2>3
<1> QED BY <1>1, <1>2, <1>3, <1>4, <1>5, <1>6 DEF AddStep

\* Every step keeps the types.
LEMMA TypeStep == TypeOK /\ LockInv /\ [Next]_vars => TypeOK'
<1> SUFFICES ASSUME TypeOK, LockInv, [Next]_vars PROVE TypeOK'
  OBVIOUS
<1>1. CASE StartInit
  <2>1. RowsType' /\ HistoryType'
    BY <1>1 DEF StartInit, RemoveExplicitJournals, TypeOK, RowsType, HistoryType, CommitOrRoot
  <2>2. MemoryType'
    BY <1>1, ZenonT(40) DEF StartInit, TypeOK, RowsType, MemoryType, JournalRecord, JournalPc, NoJournal,
                CommitOrRoot
  <2> QED BY <2>1, <2>2 DEF TypeOK
<1>2. CASE FinishInit
  BY <1>2 DEF FinishInit, rows, TypeOK, RowsType, MemoryType, HistoryType
<1>3. CASE Crash
  <2>1. NoJournal \in JournalRecord /\ NoSync \in SyncRecord /\ NoAdd \in AddRecord
    BY DEF NoJournal, JournalRecord, JournalPc, NoSync, SyncRecord, NoAdd, AddRecord
  <2> QED BY <1>3, <2>1 DEF Crash, rows, TypeOK, RowsType, MemoryType, HistoryType
<1>4. CASE UNCHANGED vars
  BY <1>4 DEF vars, rows, memory, TypeOK, RowsType, MemoryType, HistoryType
<1> QED BY <1>1, <1>2, <1>3, <1>4, ClientTypeStep, JournalTypeStep, SyncTypeStep, AddTypeStep
        DEF Next


-----------------------------------------------------------------------------
(* The lock *)

\* A step that moves a journal which is not in AddCommitFromLocal, and leaves
\* the lock alone, keeps the lock discipline.
LEMMA JournalMove ==
    ASSUME TypeOK, LockInv, NEW j \in Journal, journal[j].pc # "add",
           NEW r, journal' = [journal EXCEPT ![j] = r],
           r.pc # "add" \/ r.commit \in Commit,
           queue' = queue \/ queue' = Append(queue, j),
           phase # "down", UNCHANGED <<phase, sync, add>>
    PROVE  LockInv'
<1>1. \A k \in Journal \ {j} : journal'[k] = journal[k]
  BY DEF TypeOK, MemoryType
<1>2. journal'[j] = r
  BY DEF TypeOK, MemoryType
<1>3. AddHasCommit'
  BY <1>1, <1>2 DEF LockInv, AddHasCommit
<1>4. LockHeld'
  <2> SUFFICES ASSUME add.pc # "idle" PROVE LockHeld'
    BY DEF LockHeld
  <2>1. queue # <<>> /\ Owner \in Proc /\ queue \in Seq(Proc)
    BY DEF LockInv, LockHeld, TypeOK, MemoryType, Owner
  <2>2. queue' # <<>> /\ Owner' = Owner
    BY <2>1 DEF Owner, Proc
  <2>3. Owner # Sync => Owner \in Journal \ {j}
    BY <2>1 DEF LockInv, LockHeld, Proc
  <2> QED BY <1>1, <2>2, <2>3 DEF LockInv, LockHeld
<1> QED BY <1>3, <1>4 DEF LockInv, PhaseInv

\* Steps of clients and of journals.
LEMMA JournalLockStep ==
    ASSUME TypeOK, LockInv, NEW j \in Journal, ClientStep(j) \/ JournalStep(j)
    PROVE  LockInv'
<1> USE DEF CommitOrRoot
<1>a. phase # "down"
  BY DEF LockInv, PhaseInv, ClientStep, JournalStep, StartCommit, StartMergeCommit, PutEntry,
         CommitJournal, RollbackJournal, CreateCommit, CommitNoop, CommitReadError, RemoveJournal
<1>0. ASSUME NEW pc \in JournalPc \ {"add"}, SetPc(j, pc)
      PROVE  LET r == [journal[j] EXCEPT !.pc = pc]
             IN  journal' = [journal EXCEPT ![j] = r] /\ r.pc # "add"
  BY <1>0 DEF SetPc, TypeOK, MemoryType, JournalRecord
<1>1. ASSUME NEW base \in CommitOrRoot, NEW isExplicit \in BOOLEAN,
             StartCommit(j, base, isExplicit)
      PROVE  LockInv'
  BY <1>1, <1>a, JournalMove DEF StartCommit, NeverUsed, NoJournal
<1>2. ASSUME NEW left \in CommitOrRoot, NEW right \in CommitOrRoot,
             StartMergeCommit(j, left, right)
      PROVE  LockInv'
  BY <1>2, <1>a, JournalMove DEF StartMergeCommit, NeverUsed, NoJournal
<1>3. CASE PutEntry(j)
  <2> DEFINE r == [journal[j] EXCEPT !.failedOp = TRUE]
  <2>1. r.pc = "open"
    BY <1>3 DEF PutEntry, TypeOK, MemoryType, JournalRecord
  <2>2. CASE journal' = journal
    BY <1>3, <2>2 DEF PutEntry, LockInv, LockHeld, AddHasCommit, PhaseInv, Owner
  <2>3. CASE journal' = [journal EXCEPT ![j] = r]
    <3> HIDE DEF r
    <3> QED BY <1>3, <2>1, <2>3, <1>a, JournalMove DEF PutEntry
  <2> QED BY <1>3, <2>2, <2>3 DEF PutEntry
<1>4. CASE CommitJournal(j) \/ RollbackJournal(j)
  <2>1. PICK pc \in JournalPc \ {"add"} : SetPc(j, pc)
    BY <1>4 DEF CommitJournal, RollbackJournal, JournalPc
  <2> QED BY <1>4, <1>0, <2>1, <1>a, JournalMove DEF CommitJournal, RollbackJournal
<1>5. ASSUME NEW c \in Commit, CreateCommit(j, c) PROVE LockInv'
  <2> DEFINE r == [journal[j] EXCEPT !.pc = "add", !.commit = c]
  <2>1. r.commit = c /\ journal[j].pc # "add"
    BY <1>5 DEF CreateCommit, TypeOK, MemoryType, JournalRecord
  <2>2. journal' = [journal EXCEPT ![j] = r]
    BY <1>5 DEF CreateCommit
  <2> HIDE DEF r
  <2> QED BY <1>5, <2>1, <2>2, <1>a, JournalMove DEF CreateCommit
<1>6. CASE CommitNoop(j) \/ CommitReadError(j) \/ RemoveJournal(j)
  <2>1. PICK pc \in JournalPc \ {"add"} : SetPc(j, pc)
    BY <1>6 DEF CommitNoop, CommitReadError, RemoveJournal, JournalPc
  <2> QED BY <1>6, <1>0, <2>1, <1>a, JournalMove DEF CommitNoop, CommitReadError, RemoveJournal
<1> QED BY <1>1, <1>2, <1>3, <1>4, <1>5, <1>6 DEF ClientStep, JournalStep

\* Steps of the cloud and of AddCommitsFromSync outside SynchronousAddCommits.
LEMMA SyncLockStep ==
    ASSUME TypeOK, LockInv, CloudStep \/ SyncStep
    PROVE  LockInv'
<1> USE DEF LockInv, AddHasCommit, PhaseInv
<1>0. ASSUME sync.pc # "add", queue' = queue \/ queue' = Append(queue, Sync),
             UNCHANGED <<journal, add>>
      PROVE  LockHeld'
  <2> SUFFICES ASSUME add.pc # "idle" PROVE LockHeld'
    BY <1>0 DEF LockHeld
  <2>1. queue # <<>> /\ Owner # Sync /\ queue \in Seq(Proc)
    BY <1>0 DEF LockHeld, TypeOK, MemoryType
  <2>2. queue' # <<>> /\ Owner' = Owner
    BY <1>0, <2>1 DEF Owner, Proc
  <2> QED BY <1>0, <2>1, <2>2 DEF LockHeld
<1>1. ASSUME NEW b \in Batches, AddCommitsFromSync(b) PROVE LockInv'
  BY <1>0, <1>1 DEF AddCommitsFromSync
<1>2. ASSUME NEW c \in Commit, MarkCommitSynced(c) PROVE LockInv'
  BY <1>2 DEF MarkCommitSynced, memory, LockHeld, Owner
<1>3. CASE SyncCheckNext
  <2>1. sync'.pc = "check"
    BY <1>3 DEF SyncCheckNext, TypeOK, MemoryType, SyncRecord
  <2> QED BY <1>0, <1>3, <2>1 DEF SyncCheckNext
<1>4. ASSUME SyncHoldsLock, sync.pc = "check" PROVE add.pc = "idle" /\ phase = "ready"
  BY <1>4 DEF SyncHoldsLock, LockHeld, Owner, TypeOK, MemoryType
<1>5. CASE SyncCheckError
  BY <1>4, <1>5 DEF SyncCheckError, NoSync, LockHeld
<1>6. CASE SyncCheckDone
  BY <1>4, <1>6 DEF SyncCheckDone, NoSync, LockHeld
<1>7. CASE SyncFetch
  <2>1. phase = "ready" /\ sync.pc # "add"
    BY <1>7 DEF SyncFetch, TypeOK, MemoryType
  <2> QED BY <1>0, <1>7, <2>1 DEF SyncFetch
<1>8. CASE SyncFetchError
  BY <1>0, <1>8 DEF SyncFetchError, NoSync
<1> QED BY <1>1, <1>2, <1>3, <1>5, <1>6, <1>7, <1>8 DEF CloudStep, SyncStep

\* Steps of SynchronousAddCommits.
LEMMA AddLockStep ==
    ASSUME TypeOK, LockInv, AddStep
    PROVE  LockInv'
<1>1. CASE StartAddCommits
  <2>1. Owner \in Proc
    BY <1>1 DEF StartAddCommits, TypeOK, MemoryType, Owner
  <2>2. phase # "down"
    BY <1>1, <2>1 DEF StartAddCommits, LockInv, PhaseInv, Proc
  <2> QED BY <1>1, <2>2 DEF StartAddCommits, LockInv, LockHeld, AddHasCommit, PhaseInv, Owner
<1>2. ASSUME UNCHANGED <<phase, journal, queue, sync>>, add.pc # "idle" PROVE LockInv'
  BY <1>2 DEF LockInv, LockHeld, AddHasCommit, PhaseInv, Owner
<1>3. ASSUME NEW ok \in BOOLEAN, add.pc # "idle", Resume(ok), phase' = phase PROVE LockInv'
  BY <1>3, ResumeType DEF LockInv, LockHeld, PhaseInv, NoAdd, NoSync
<1>4. CASE AddNext
  BY <1>2, <1>4 DEF AddNext
<1>5. CASE AddIterationEnd
  BY <1>2, <1>3, <1>5 DEF AddIterationEnd
<1>6. CASE Execute
  BY <1>3, <1>6 DEF Execute
<1>7. CASE ExecuteError
  BY <1>3, <1>7 DEF ExecuteError
<1>8. CASE AddError
  BY <1>3, <1>8 DEF AddError
<1> QED BY <1>1, <1>4, <1>5, <1>6, <1>7, <1>8 DEF AddStep

\* Every step keeps the lock discipline.
LEMMA LockStep == TypeOK /\ LockInv /\ [Next]_vars => LockInv'
<1> SUFFICES ASSUME TypeOK, LockInv, [Next]_vars PROVE LockInv'
  OBVIOUS
<1>1. CASE StartInit
  BY <1>1 DEF StartInit, NoJournal, LockInv, LockHeld, AddHasCommit, PhaseInv
<1>2. CASE FinishInit
  <2>1. add.pc = "idle"
    <3> SUFFICES ASSUME add.pc # "idle" PROVE FALSE
      BY DEF TypeOK, MemoryType
    <3>1. Owner \in Proc
      BY DEF TypeOK, MemoryType, LockInv, LockHeld, Owner
    <3> QED BY <1>2, <3>1 DEF FinishInit, LockInv, LockHeld, PhaseInv, Proc
  <2> QED BY <1>2, <2>1 DEF FinishInit, LockInv, LockHeld, AddHasCommit, PhaseInv
<1>3. CASE Crash
  BY <1>3 DEF Crash, NoJournal, NoSync, NoAdd, LockInv, LockHeld, AddHasCommit, PhaseInv
<1>4. CASE UNCHANGED vars
  BY <1>4 DEF vars, memory, LockInv, LockHeld, AddHasCommit, PhaseInv, Owner
<1> QED BY <1>1, <1>2, <1>3, <1>4, JournalLockStep, SyncLockStep, AddLockStep DEF Next


-----------------------------------------------------------------------------
(* The graph *)

\* What one iteration of the loop must keep, for the heads and the batch that
\* a step leaves. A commit is taken from todo; it is stored, or added, or
\* postponed; parents that leave the heads are parents of an added or a
\* postponed commit.
LEMMA AddNextBatch ==
    ASSUME IInv, AddNext
    PROVE  BatchInv'
<1> DEFINE c == Head(add.todo)
<1>0. add.pc = "loop" /\ add.todo # <<>> /\ UNCHANGED <<commits, heads>>
  BY DEF AddNext, rows
<1>1. /\ c \in Commit
      /\ Tail(add.todo) \in Seq(Commit)
      /\ ElementsOf(add.todo) = {c} \cup ElementsOf(Tail(add.todo))
      /\ add.remaining \in Seq(Commit)
      /\ add \in AddRecord
  BY <1>0, ElementsOfTail DEF IInv, TypeOK, MemoryType, AddRecord
<1>2. /\ add.added \cap Stored = {}
      /\ \A d \in add.added : Parents[d] \subseteq Stored \cup add.added
      /\ \A x \in Stored \cup add.added :
           \/ HasChildIn(x, commits \cup add.added)
           \/ x \in BatchHeads
           \/ HasChildIn(x, Pending)
  BY <1>0 DEF IInv, BatchInv
<1>3. Stored' = Stored
  BY <1>0 DEF Stored
<1> HIDE DEF c
<1>4. ASSUME SkipPresentCommit(c) PROVE BatchInv'
  <2>1. /\ add'.todo = Tail(add.todo) /\ add'.remaining = add.remaining
        /\ add'.added = add.added /\ add'.pc = "loop" /\ c \in Stored
        /\ add'.toAdd = add.toAdd /\ add'.put = add.put /\ add'.del = add.del
    BY <1>0, <1>1, <1>4 DEF SkipPresentCommit, AddRecord
  <2>2. BatchHeads' = BatchHeads /\ Pending = {c} \cup Pending'
    BY <1>0, <1>1, <2>1 DEF BatchHeads, Pending
  <2>3. c \in commits
    BY <1>1, <2>1 DEF Stored
  <2> QED BY <1>0, <1>2, <1>3, <2>1, <2>2, <2>3 DEF BatchInv, HasChildIn
<1>5. ASSUME NEW ps \in SUBSET Parents[c], NEW a, a = EraseHeads(add, ps)
      PROVE  /\ a \in AddRecord
             /\ a.todo = add.todo /\ a.remaining = add.remaining /\ a.added = add.added
             /\ a.pc = add.pc
             /\ \A x : x \in BatchHeads /\ x \notin ps =>
                         x \in (heads \ a.del) \cup a.put \cup a.toAdd
  <2>1. ps \subseteq CommitOrRoot
    BY <1>1
  <2> QED BY <1>1, <1>5, <2>1 DEF EraseHeads, AddRecord, BatchHeads
<1>6. ASSUME AddNewCommit(c) PROVE BatchInv'
  <2> DEFINE a == EraseHeads(add, Parents[c])
  <2>1. /\ a \in AddRecord
        /\ a.todo = add.todo /\ a.remaining = add.remaining /\ a.added = add.added
        /\ a.pc = add.pc
        /\ \A x : x \in BatchHeads /\ x \notin Parents[c] =>
                    x \in (heads \ a.del) \cup a.put \cup a.toAdd
    BY <1>5
  <2>2. add' = [a EXCEPT !.todo = Tail(a.todo), !.progress = TRUE,
                         !.added = a.added \cup {c}, !.toAdd = a.toAdd \cup {c}]
    BY <1>6 DEF AddNewCommit
  <2> HIDE DEF a
  <2>3. /\ add'.todo = Tail(add.todo) /\ add'.remaining = add.remaining
        /\ add'.added = add.added \cup {c} /\ add'.pc = "loop"
        /\ add'.toAdd = a.toAdd \cup {c} /\ add'.put = a.put /\ add'.del = a.del
    BY <1>0, <2>1, <2>2 DEF AddRecord
  <2>4. c \notin Stored /\ Parents[c] \subseteq Stored \cup add.added
    BY <1>6 DEF AddNewCommit, MissingParents
  <2>5. Pending = {c} \cup Pending'
    BY <1>1, <2>3 DEF Pending
  <2>6. add'.added \cap Stored' = {}
    BY <1>2, <1>3, <2>3, <2>4
  <2>7. \A d \in add'.added : Parents[d] \subseteq Stored' \cup add'.added
    BY <1>2, <1>3, <2>3, <2>4
  <2>8. ASSUME NEW x \in Stored' \cup add'.added
        PROVE  \/ HasChildIn(x, commits' \cup add'.added)
               \/ x \in BatchHeads'
               \/ HasChildIn(x, Pending')
    <3>1. CASE x = c
      BY <2>3, <3>1 DEF BatchHeads
    <3>2. CASE x \in Parents[c]
      BY <2>3, <3>2 DEF HasChildIn
    <3>3. CASE x # c /\ x \notin Parents[c]
      <4>1. x \in Stored \cup add.added
        BY <1>3, <2>3, <3>3
      <4>2. CASE HasChildIn(x, commits \cup add.added)
        BY <1>0, <2>3, <4>2 DEF HasChildIn
      <4>3. CASE x \in BatchHeads
        BY <1>0, <2>1, <2>3, <3>3, <4>3 DEF BatchHeads
      <4>4. CASE HasChildIn(x, Pending)
        BY <2>5, <3>3, <4>4 DEF HasChildIn
      <4> QED BY <1>2, <4>1, <4>2, <4>3, <4>4
    <3> QED BY <3>1, <3>2, <3>3
  <2> QED BY <2>3, <2>6, <2>7, <2>8 DEF BatchInv
<1>7. ASSUME PostponeCommit(c) PROVE BatchInv'
  <2>1. PICK ps \in SUBSET (Parents[c] \ MissingParents(c)) :
          add' = [EraseHeads(add, ps) EXCEPT !.todo = Tail(@), !.remaining = Append(@, c)]
    BY <1>7 DEF PostponeCommit
  <2> DEFINE a == EraseHeads(add, ps)
  <2>2. /\ a \in AddRecord
        /\ a.todo = add.todo /\ a.remaining = add.remaining /\ a.added = add.added
        /\ a.pc = add.pc
        /\ \A x : x \in BatchHeads /\ x \notin ps =>
                    x \in (heads \ a.del) \cup a.put \cup a.toAdd
    <3>1. ps \in SUBSET Parents[c]
      OBVIOUS
    <3> QED BY <1>5, <3>1
  <2>3. add' = [a EXCEPT !.todo = Tail(a.todo), !.remaining = Append(a.remaining, c)]
    BY <2>1
  <2> HIDE DEF a
  <2>4. /\ add'.todo = Tail(add.todo) /\ add'.remaining = Append(add.remaining, c)
        /\ add'.added = add.added /\ add'.pc = "loop"
        /\ add'.toAdd = a.toAdd /\ add'.put = a.put /\ add'.del = a.del
    BY <1>0, <2>2, <2>3 DEF AddRecord
  <2>5. Pending' = Pending
    BY <1>1, <2>4, ElementsOfAppend DEF Pending
  <2>6. c \in Pending
    BY <1>1 DEF Pending
  <2>7. ASSUME NEW x \in Stored' \cup add'.added
        PROVE  \/ HasChildIn(x, commits' \cup add'.added)
               \/ x \in BatchHeads'
               \/ HasChildIn(x, Pending')
    <3>1. CASE x \in ps
      BY <2>5, <2>6, <3>1 DEF HasChildIn
    <3>2. CASE x \notin ps
      <4>1. x \in BatchHeads => x \in BatchHeads'
        BY <1>0, <2>2, <2>4, <3>2 DEF BatchHeads
      <4> QED BY <1>0, <1>2, <1>3, <2>4, <2>5, <4>1
    <3> QED BY <3>1, <3>2
  <2> QED BY <1>2, <1>3, <2>4, <2>7 DEF BatchInv
<1> QED BY <1>4, <1>6, <1>7 DEF AddNext, c

\* The end of an iteration moves heads from heads_to_add to the batch.
LEMMA IterationEndBatch ==
    ASSUME IInv, AddIterationEnd
    PROVE  BatchInv'
<1> DEFINE a == PutHeads(add)
<1>1. /\ add.pc = "loop" /\ add.todo = <<>> /\ UNCHANGED <<commits, heads>>
      /\ add \in AddRecord
  BY DEF AddIterationEnd, rows, IInv, TypeOK, MemoryType
<1>2. /\ a \in AddRecord
      /\ a.todo = add.todo /\ a.remaining = add.remaining /\ a.added = add.added
      /\ a.toAdd = add.toAdd /\ a.toAdd \subseteq a.put /\ a.pc = add.pc
      /\ (heads \ a.del) \cup a.put \cup a.toAdd = BatchHeads
  BY <1>1 DEF PutHeads, AddRecord, BatchHeads
<1> HIDE DEF a
<1>3. ASSUME Resume(FALSE) PROVE BatchInv'
  BY <1>3 DEF Resume, NoAdd, BatchInv
<1>4. ASSUME add.remaining = <<>>, add' = [a EXCEPT !.pc = "execute"] PROVE BatchInv'
  <2>1. /\ add'.todo = <<>> /\ add'.remaining = <<>> /\ add'.added = add.added
        /\ add'.toAdd = a.toAdd /\ add'.put = a.put /\ add'.del = a.del
    BY <1>1, <1>2, <1>4 DEF AddRecord
  <2>2. Pending = {} /\ Pending' = {} /\ BatchHeads' = BatchHeads /\ Stored' = Stored
    BY <1>1, <1>2, <1>4, <2>1, ElementsOfEmpty DEF Pending, BatchHeads, Stored
  <2> QED BY <1>1, <1>2, <2>1, <2>2 DEF IInv, BatchInv
<1>5. ASSUME add' = [a EXCEPT !.todo = add.remaining, !.remaining = <<>>, !.progress = FALSE]
      PROVE  BatchInv'
  <2>1. /\ add'.todo = add.remaining /\ add'.remaining = <<>> /\ add'.added = add.added
        /\ add'.toAdd = a.toAdd /\ add'.put = a.put /\ add'.del = a.del /\ add'.pc = "loop"
    BY <1>1, <1>2, <1>5 DEF AddRecord
  <2>2. Pending' = Pending /\ BatchHeads' = BatchHeads /\ Stored' = Stored
    BY <1>1, <1>2, <2>1 DEF Pending, BatchHeads, Stored
  <2> QED BY <1>1, <2>1, <2>2 DEF IInv, BatchInv
<1> QED BY <1>3, <1>4, <1>5 DEF AddIterationEnd, a

\* Writing the batch adds its commits and leaves the heads it promised.
LEMMA ExecuteGraph ==
    ASSUME IInv, Execute
    PROVE  ParentsStored' /\ CoverInv' /\ BatchInv'
<1>1. /\ commits' = commits \cup add.added
      /\ heads' = (heads \ add.del) \cup add.put
      /\ add.pc = "execute" /\ add' = NoAdd
  BY DEF Execute, Resume
<1>2. Stored' = Stored \cup add.added
  BY <1>1 DEF Stored
<1>3. ParentsStored'
  BY <1>1, <1>2 DEF IInv, BatchInv, ParentsStored
<1>4. Leaves' \subseteq heads'
  <2> SUFFICES ASSUME NEW x \in Stored', ~HasChildIn(x, commits') PROVE x \in heads'
    BY DEF Leaves
  <2>1. x \in BatchHeads
    BY <1>1, <1>2 DEF IInv, BatchInv, HasChildIn
  <2> QED BY <1>1, <2>1 DEF IInv, BatchInv, BatchHeads
<1> QED BY <1>1, <1>3, <1>4 DEF CoverInv, BatchInv, NoAdd

\* Every step keeps the graph and the batch in order.
LEMMA GraphStep ==
    ASSUME IInv, [Next]_vars, LockInv'
    PROVE  ParentsStored' /\ CoverInv' /\ BatchInv'
<1> USE DEF IInv
<1>1. CASE StartInit
  <2>1. add' = add /\ add.pc = "idle" /\ commits' = commits
    BY <1>1 DEF StartInit, LockInv, PhaseInv
  <2>2. heads' = IF heads = {} THEN {Root} ELSE heads
    BY <1>1 DEF StartInit
  <2>3. Leaves' = Leaves /\ (commits = {} => Leaves \subseteq {Root})
    BY <2>1 DEF Leaves, Stored, HasChildIn
  <2> QED BY <2>1, <2>2, <2>3 DEF CoverInv, BatchInv, ParentsStored, Stored
<1>2. CASE FinishInit
  BY <1>2 DEF FinishInit, rows, CoverInv, BatchInv, ParentsStored, Stored, Leaves, HasChildIn,
              BatchHeads, Pending
<1>3. CASE Crash
  BY <1>3 DEF Crash, NoAdd, rows, CoverInv, BatchInv, ParentsStored, Stored, Leaves, HasChildIn
<1>4. ASSUME UNCHANGED <<commits, heads, add, phase>>
      PROVE  ParentsStored' /\ CoverInv' /\ BatchInv'
  BY <1>4 DEF CoverInv, BatchInv, ParentsStored, Stored, Leaves, HasChildIn, BatchHeads, Pending
<1>5. ASSUME NEW j \in Journal, ClientStep(j) \/ JournalStep(j)
      PROVE  ParentsStored' /\ CoverInv' /\ BatchInv'
  BY <1>4, <1>5 DEF ClientStep, StartCommit, StartMergeCommit, PutEntry, CommitJournal,
       RollbackJournal, JournalStep, CreateCommit, CommitNoop, CommitReadError, RemoveJournal, rows
<1>6. CASE CloudStep \/ SyncStep
  BY <1>4, <1>6 DEF CloudStep, AddCommitsFromSync, MarkCommitSynced, SyncStep, SyncCheckNext,
       SyncCheckError, SyncCheckDone, SyncFetch, SyncFetchError, rows, memory
<1>7. ASSUME UNCHANGED <<commits, heads, phase>> PROVE ParentsStored' /\ CoverInv'
  BY <1>7 DEF CoverInv, ParentsStored, Stored, Leaves, HasChildIn
<1>8. CASE StartAddCommits
  <2>1. UNCHANGED <<commits, heads, phase>>
    BY <1>8 DEF StartAddCommits, rows
  <2>2. /\ add'.pc = "loop" /\ add'.added = {} /\ add'.toAdd = {} /\ add'.put = {}
        /\ add'.del = {}
    BY <1>8 DEF StartAddCommits, NoAdd
  <2>3. Leaves \subseteq heads
    BY <2>1, <2>2 DEF LockInv, PhaseInv, CoverInv
  <2> QED BY <1>7, <2>1, <2>2, <2>3 DEF BatchInv, BatchHeads, Leaves, Stored, HasChildIn
<1>9. CASE AddNext
  BY <1>7, <1>9, AddNextBatch DEF AddNext, rows
<1>10. CASE AddIterationEnd
  BY <1>7, <1>10, IterationEndBatch DEF AddIterationEnd, rows
<1>11. CASE Execute
  BY <1>11, ExecuteGraph
<1>12. CASE ExecuteError \/ AddError
  BY <1>7, <1>12 DEF ExecuteError, AddError, Resume, NoAdd, BatchInv, rows
<1>13. CASE UNCHANGED vars
  BY <1>4, <1>13 DEF vars, rows, memory
<1> QED BY <1>1, <1>2, <1>3, <1>5, <1>6, <1>8, <1>9, <1>10, <1>11, <1>12, <1>13
        DEF Next, AddStep

-----------------------------------------------------------------------------
(* Theorems *)

\* The invariant holds initially.
LEMMA InitIInv == Init => IInv
<1> SUFFICES ASSUME Init PROVE IInv
  OBVIOUS
<1>1. NoJournal \in JournalRecord /\ NoSync \in SyncRecord /\ NoAdd \in AddRecord
  BY DEF NoJournal, JournalRecord, JournalPc, NoSync, SyncRecord, NoAdd, AddRecord
<1>2. TypeOK
  BY <1>1 DEF Init, TypeOK, RowsType, MemoryType, HistoryType
<1>3. LockInv
  BY DEF Init, LockInv, LockHeld, AddHasCommit, PhaseInv, NoJournal, NoSync, NoAdd
<1> QED BY <1>2, <1>3 DEF Init, IInv, ParentsStored, CoverInv, BatchInv, NoAdd

\* Every step keeps the invariant.
LEMMA NextIInv == IInv /\ [Next]_vars => IInv'
<1> SUFFICES ASSUME IInv, [Next]_vars PROVE IInv'
  OBVIOUS
<1>1. TypeOK' /\ LockInv'
  BY TypeStep, LockStep DEF IInv
<1> QED BY <1>1, GraphStep DEF IInv

\* The invariant of PageStorageImpl's database and of the batch that
\* SynchronousAddCommits builds.
THEOREM Invariance == Spec => []IInv
BY InitIInv, NextIInv, PTL DEF Spec

\* Every variable keeps its type.
THEOREM TypeCorrect == Spec => []TypeOK
<1>1. IInv => TypeOK
  BY DEF IInv
<1> QED BY <1>1, Invariance, PTL

\* The stored history is closed under parents, whatever arrives from the cloud.
THEOREM HistoryClosed == Spec => []ParentsStored
<1>1. IInv => ParentsStored
  BY DEF IInv
<1> QED BY <1>1, Invariance, PTL

\* SynchronousAddCommits never drops a leaf from the heads, even when it has to
\* recover from commits that arrive out of order.
THEOREM NoLeafForgotten == Spec => []LeavesAreHeads
<1>1. IInv => LeavesAreHeads
  BY DEF IInv, CoverInv, LeavesAreHeads
<1> QED BY <1>1, Invariance, PTL

\* The invariant that the comment in SynchronousAddCommits names: synced commits
\* cannot become unsynced.
THEOREM SyncedForever == Spec => SyncedStaysSynced
<1>1. IInv /\ [Next]_vars => [\A c \in commits \ unsynced : c \notin unsynced']_vars
  <2> SUFFICES ASSUME IInv, Next, NEW c \in commits \ unsynced PROVE c \notin unsynced'
    OBVIOUS
  <2>1. CASE Execute
    <3>1. add.added \cap commits = {}
      BY <2>1 DEF Execute, IInv, BatchInv, Stored
    <3> QED BY <2>1, <3>1 DEF Execute, UnsyncedAfter
  <2>2. CASE ~Execute
    BY <2>2 DEF Next, StartInit, FinishInit, Crash, ClientStep, StartCommit, StartMergeCommit,
         PutEntry, CommitJournal, RollbackJournal, JournalStep, CreateCommit, CommitNoop,
         CommitReadError, RemoveJournal, CloudStep, AddCommitsFromSync, MarkCommitSynced, SyncStep,
         SyncCheckNext, SyncCheckError, SyncCheckDone, SyncFetch, SyncFetchError, AddStep,
         StartAddCommits, AddNext, AddIterationEnd, ExecuteError, AddError, rows
  <2> QED BY <2>1, <2>2
<1> QED BY <1>1, Invariance, PTL DEF Spec, SyncedStaysSynced
-----------------------------------------------------------------------------
(* Heads in cloud order, and implicit journals: a second invariant *)

\* No commit comes twice, and none after a child of it.
Ordered(s) ==
    \A i, k \in DOMAIN s : i < k => s[i] # s[k] /\ s[k] \notin Parents[s[i]]

\* What AddCommitsFromSync has read of its batch and what it has yet to read
\* are in the order of the cloud.
SyncOrder ==
    InOrder =>
      /\ Ordered(sync.new) /\ Ordered(sync.batch)
      /\ \A x \in ElementsOf(sync.new), y \in ElementsOf(sync.batch) :
           x # y /\ y \notin Parents[x]

\* The leaves it has found are those of the new commits, and are fetched before
\* it asks for the lock again.
SyncLeaves ==
    /\ \A x \in ElementsOf(sync.new) : x \in sync.leaves \/ HasChildIn(x, ElementsOf(sync.new))
    /\ sync.pc = "add" => sync.leaves \subseteq trees

\* The call works on the commits of the lock's holder and loses none of them.
OwnerInv ==
    add.pc # "idle" =>
      /\ add.added \cup Pending \subseteq ElementsOf(OwnerCommits)
      /\ ElementsOf(OwnerCommits) \subseteq Stored \cup add.added \cup Pending

\* Heads that the batch puts or leaves have no child in it.
Exact ==
    /\ add.put \cup add.toAdd \subseteq add.added
    /\ \A x \in BatchHeads : ~HasChildIn(x, add.added)

\* A batch that erases a head or adds a commit puts a head.
Filled == add.put \cup add.toAdd # {} \/ (add.added = {} /\ add.del = {})

\* The first iteration of the while loop: what it postpones lacks a parent that
\* is not to come.
FirstIteration ==
    /\ add.put = {} /\ Exact
    /\ add.remaining = <<>> => Filled
    /\ Ordered(add.todo) /\ ElementsOf(add.todo) \cap add.added = {}
    /\ \A c \in ElementsOf(add.remaining) :
         /\ c \notin Stored
         /\ \E p \in Parents[c] : p \notin Stored \cup add.added \cup ElementsOf(add.todo)

\* A later iteration: every commit that is left lacks a parent, and the call
\* will fail.
Doomed ==
    /\ add.pc = "loop" /\ Pending # {}
    /\ \A c \in Pending : c \notin Stored /\ \E p \in Parents[c] : p \notin Stored \cup add.added

HeadsInv ==
    InOrder =>
      /\ heads \subseteq Leaves
      /\ heads = {} => commits = {}
      /\ add.pc = "loop" => FirstIteration \/ Doomed
      /\ add.pc = "execute" => Exact /\ Filled

TreesInv ==
    /\ \A j \in Journal : journal[j].pc = "add" => journal[j].commit \in trees
    /\ InOrder => HeadsHaveTrees

\* An open implicit journal has its row, and a journal leaves AddCommitFromLocal
\* for RemoveJournal with its commit stored.
RowsKept(j) ==
    /\ journal[j].pc = "open" /\ ~journal[j].explicit => implicit[j] # None
    /\ journal[j].pc = "add" => journal[j].commit \in made[j]
    /\ journal[j].pc = "remove" => made[j] \cap commits # {}

\* Init rolls no journal back.
NotRolledBack(j) == phase = "recover" => journal[j].pc \notin {"open", "rollback"}

\* ImplicitNotLost for one journal.
NotLost(j) ==
    j \in acked \ released =>
      \/ implicit[j] # None /\ j \in entries
      \/ made[j] \cap commits # {}

JournalOK(j) == RowsKept(j) /\ (~RecoveryFaults => NotRolledBack(j) /\ NotLost(j))

JournalInv == \A j \in Journal : JournalOK(j)

JInv == SyncOrder /\ SyncLeaves /\ OwnerInv /\ HeadsInv /\ TreesInv /\ JournalInv

\* Nothing to read and nothing read.
LEMMA NothingRead == ElementsOf(<<>>) = {} /\ Ordered(<<>>)
<1>1. DOMAIN <<>> = {}
  OBVIOUS
<1> QED BY <1>1, ElementsOfEmpty DEF Ordered

\* The tail of an ordered sequence is ordered, and its head is not the child of
\* what follows.
LEMMA OrderedTail ==
    ASSUME NEW s \in Seq(Commit), s # <<>>, Ordered(s)
    PROVE  /\ Ordered(Tail(s))
           /\ \A y \in ElementsOf(Tail(s)) : y # Head(s) /\ y \notin Parents[Head(s)]
<1>1. /\ Tail(s) \in Seq(Commit) /\ Len(s) \in Nat /\ Len(Tail(s)) = Len(s) - 1
      /\ DOMAIN s = 1..Len(s) /\ DOMAIN Tail(s) = 1..(Len(s) - 1) /\ Head(s) = s[1]
      /\ Len(s) > 0
  OBVIOUS
<1>2. \A i \in 1..(Len(s) - 1) : Tail(s)[i] = s[i + 1]
  OBVIOUS
<1>3. Ordered(Tail(s))
  <2> SUFFICES ASSUME NEW i \in 1..(Len(s) - 1), NEW k \in 1..(Len(s) - 1), i < k
               PROVE  Tail(s)[i] # Tail(s)[k] /\ Tail(s)[k] \notin Parents[Tail(s)[i]]
    BY <1>1 DEF Ordered
  <2>1. i + 1 \in DOMAIN s /\ k + 1 \in DOMAIN s /\ i + 1 < k + 1
    BY <1>1
  <2> QED BY <1>2, <2>1 DEF Ordered
<1>4. ASSUME NEW i \in 1..(Len(s) - 1) PROVE Tail(s)[i] # Head(s) /\ Tail(s)[i] \notin Parents[Head(s)]
  <2>1. 1 \in DOMAIN s /\ i + 1 \in DOMAIN s /\ 1 < i + 1
    BY <1>1
  <2> QED BY <1>1, <1>2, <2>1 DEF Ordered
<1> QED BY <1>1, <1>3, <1>4 DEF ElementsOf

\* So is a sequence with one more commit that is not the parent of another.
LEMMA OrderedAppend ==
    ASSUME NEW s \in Seq(Commit), NEW c \in Commit, Ordered(s),
           \A x \in ElementsOf(s) : x # c /\ c \notin Parents[x]
    PROVE  Ordered(Append(s, c))
<1>1. /\ Len(s) \in Nat /\ DOMAIN s = 1..Len(s) /\ DOMAIN Append(s, c) = 1..(Len(s) + 1)
      /\ \A i \in 1..Len(s) : Append(s, c)[i] = s[i]
      /\ Append(s, c)[Len(s) + 1] = c
  OBVIOUS
<1> SUFFICES ASSUME NEW i \in 1..(Len(s) + 1), NEW k \in 1..(Len(s) + 1), i < k
             PROVE  Append(s, c)[i] # Append(s, c)[k]
                    /\ Append(s, c)[k] \notin Parents[Append(s, c)[i]]
  BY <1>1 DEF Ordered
<1>2. i \in 1..Len(s) /\ Append(s, c)[i] = s[i] /\ s[i] \in ElementsOf(s)
  BY <1>1 DEF ElementsOf
<1>3. CASE k \in 1..Len(s)
  BY <1>1, <1>2, <1>3 DEF Ordered
<1>4. CASE k = Len(s) + 1
  BY <1>1, <1>2, <1>4
<1> QED BY <1>1, <1>3, <1>4

-----------------------------------------------------------------------------
(* What the steps leave alone *)

\* Steps of clients and journals, with the journal they move.
LEMMA JournalFrame ==
    ASSUME TypeOK, NEW j \in Journal, ClientStep(j) \/ JournalStep(j)
    PROVE  /\ journal[j].pc # "add" /\ \A k \in Journal \ {j} : journal'[k] = journal[k]
           /\ queue' = queue \/ queue' = Append(queue, j)
           /\ UNCHANGED <<add, sync, phase, commits, heads>> /\ trees \subseteq trees'
<1>1. CASE ClientStep(j)
  <2>1. /\ journal[j].pc \in {"none", "open"}
        /\ \A k \in Journal \ {j} : journal'[k] = journal[k]
        /\ UNCHANGED <<queue, add, sync, phase, commits, heads, trees>>
    BY <1>1 DEF ClientStep, StartCommit, StartMergeCommit, NeverUsed, PutEntry, CommitJournal,
         RollbackJournal, SetPc, rows, TypeOK, MemoryType
  <2> QED BY <2>1
<1>2. CASE JournalStep(j)
  <2>1. /\ journal[j].pc \in {"commit", "remove", "rollback"}
        /\ \A k \in Journal \ {j} : journal'[k] = journal[k]
        /\ UNCHANGED <<add, sync, phase, commits, heads>> /\ trees \subseteq trees'
    BY <1>2 DEF JournalStep, CreateCommit, CommitNoop, CommitReadError, RemoveJournal, SetPc, rows,
         TypeOK, MemoryType
  <2>2. queue' = queue \/ queue' = Append(queue, j)
    BY <1>2 DEF JournalStep, CreateCommit, CommitNoop, CommitReadError, RemoveJournal
  <2> QED BY <2>1, <2>2
<1> QED BY <1>1, <1>2

\* The holder of the lock keeps it while others ask for it, and its commits.
LEMMA OwnerKept ==
    ASSUME TypeOK, LockInv, add.pc # "idle",
           queue' = queue \/ \E p : queue' = Append(queue, p),
           Owner = Sync => sync'.new = sync.new,
           Owner \in Journal => journal'[Owner].commit = journal[Owner].commit
    PROVE  Owner' = Owner /\ OwnerCommits' = OwnerCommits
<1>1. queue # <<>> /\ queue \in Seq(Proc) /\ Owner \in Proc
  BY DEF LockInv, LockHeld, TypeOK, MemoryType, Owner
<1>2. Owner' = Owner
  BY <1>1 DEF Owner
<1> QED BY <1>1, <1>2 DEF OwnerCommits, Proc

\* Steps of the cloud and of the first section.
LEMMA SyncFrame ==
    ASSUME TypeOK, LockInv, CloudStep \/ SyncStep
    PROVE  /\ UNCHANGED <<add, journal, commits, heads, phase, implicit, entries, made, acked,
                          released>>
           /\ trees \subseteq trees'
           /\ add.pc # "idle" => OwnerCommits' = OwnerCommits
<1>1. /\ UNCHANGED <<add, journal, commits, heads, phase, implicit, entries, made, acked, released>>
      /\ trees \subseteq trees'
  BY DEF CloudStep, AddCommitsFromSync, MarkCommitSynced, SyncStep, SyncCheckNext,
       SyncCheckError, SyncCheckDone, SyncFetch, SyncFetchError, rows, memory
<1>2. ASSUME add.pc # "idle" PROVE OwnerCommits' = OwnerCommits
  <2>1. Owner = Sync => sync.pc = "add"
    BY <1>2 DEF LockInv, LockHeld
  <2>2. ~(SyncHoldsLock /\ sync.pc = "check")
    BY <2>1 DEF SyncHoldsLock, Owner
  <2>3. queue' = queue \/ queue' = Append(queue, Sync)
    BY <2>2 DEF CloudStep, AddCommitsFromSync, MarkCommitSynced, SyncStep, SyncCheckNext,
       SyncCheckError, SyncCheckDone, SyncFetch, SyncFetchError, memory
  <2>4. Owner = Sync => sync' = sync
    BY <2>1, <2>2 DEF CloudStep, AddCommitsFromSync, MarkCommitSynced, SyncStep, SyncCheckNext,
       SyncCheckError, SyncCheckDone, SyncFetch, SyncFetchError, memory
  <2> QED BY <1>1, <1>2, <2>3, <2>4, OwnerKept
<1> QED BY <1>1, <1>2

-----------------------------------------------------------------------------
(* AddCommitsFromSync *)

\* A step that leaves sync alone, or ends it.
LEMMA SyncKept ==
    ASSUME SyncOrder, SyncLeaves, sync' = sync \/ sync' = NoSync, trees \subseteq trees'
    PROVE  SyncOrder' /\ SyncLeaves'
<1>1. CASE sync' = sync
  <2>1. SyncOrder'
    BY <1>1 DEF SyncOrder
  <2> QED BY <1>1, <2>1 DEF SyncLeaves, HasChildIn
<1>2. CASE sync' = NoSync
  <2>1. sync'.new = <<>> /\ sync'.batch = <<>> /\ sync'.pc = "idle"
    BY <1>2 DEF NoSync
  <2> QED BY <2>1, NothingRead DEF SyncOrder, SyncLeaves
<1> QED BY <1>1, <1>2

\* Reading the next commit of the batch keeps the order and the leaves.
LEMMA SyncReads ==
    ASSUME TypeOK, SyncOrder, SyncLeaves, SyncCheckNext
    PROVE  SyncOrder' /\ SyncLeaves'
<1> DEFINE c == Head(sync.batch)
<1>1. /\ sync \in SyncRecord /\ sync.batch \in Seq(Commit) /\ sync.new \in Seq(Commit)
      /\ sync.batch # <<>> /\ sync.pc = "check"
  BY DEF TypeOK, MemoryType, SyncRecord, SyncCheckNext
<1>2. /\ c \in Commit /\ Tail(sync.batch) \in Seq(Commit)
      /\ ElementsOf(sync.batch) = {c} \cup ElementsOf(Tail(sync.batch))
  BY <1>1, ElementsOfTail
<1>3. Ordered(sync.batch) =>
        /\ Ordered(Tail(sync.batch))
        /\ \A y \in ElementsOf(Tail(sync.batch)) : y # c /\ y \notin Parents[c]
  BY <1>1, OrderedTail
<1>4. \/ sync' = [sync EXCEPT !.batch = Tail(@)]
      \/ sync' = [sync EXCEPT !.batch = Tail(@), !.new = Append(@, c),
                              !.leaves = LeavesWith(@, c)]
  BY DEF SyncCheckNext
<1> HIDE DEF c
<1>5. CASE sync' = [sync EXCEPT !.batch = Tail(@)]
  <2>1. /\ sync'.batch = Tail(sync.batch) /\ sync'.new = sync.new
        /\ sync'.leaves = sync.leaves /\ sync'.pc = "check"
    BY <1>1, <1>5 DEF SyncRecord
  <2> QED BY <1>2, <1>3, <2>1 DEF SyncOrder, SyncLeaves, HasChildIn
<1>6. CASE sync' = [sync EXCEPT !.batch = Tail(@), !.new = Append(@, c),
                                !.leaves = LeavesWith(@, c)]
  <2>1. /\ sync'.batch = Tail(sync.batch) /\ sync'.new = Append(sync.new, c)
        /\ sync'.leaves = LeavesWith(sync.leaves, c) /\ sync'.pc = "check"
    BY <1>1, <1>6 DEF SyncRecord
  <2>2. ElementsOf(sync'.new) = ElementsOf(sync.new) \cup {c}
    BY <1>1, <1>2, <2>1, ElementsOfAppend
  <2>3. SyncOrder'
    <3> SUFFICES ASSUME InOrder
                 PROVE  /\ Ordered(sync'.new) /\ Ordered(sync'.batch)
                        /\ \A x \in ElementsOf(sync'.new), y \in ElementsOf(sync'.batch) :
                             x # y /\ y \notin Parents[x]
      BY DEF SyncOrder
    <3>1. /\ Ordered(sync.new) /\ Ordered(sync.batch)
          /\ \A x \in ElementsOf(sync.new), y \in ElementsOf(sync.batch) :
               x # y /\ y \notin Parents[x]
      BY DEF SyncOrder
    <3>2. Ordered(sync'.new)
      BY <1>1, <1>2, <2>1, <3>1, OrderedAppend
    <3> QED BY <1>2, <1>3, <2>1, <2>2, <3>1, <3>2
  <2>4. SyncLeaves'
    BY <2>1, <2>2 DEF SyncLeaves, LeavesWith, HasChildIn
  <2> QED BY <2>3, <2>4
<1> QED BY <1>4, <1>5, <1>6

\* Every step keeps what AddCommitsFromSync knows.
LEMMA SyncInvStep ==
    ASSUME TypeOK, LockInv, SyncOrder, SyncLeaves, [Next]_vars
    PROVE  SyncOrder' /\ SyncLeaves'
<1>0. sync \in SyncRecord
  BY DEF TypeOK, MemoryType
<1>1. ASSUME NEW b \in Batches, AddCommitsFromSync(b) PROVE SyncOrder' /\ SyncLeaves'
  <2>1. sync'.new = <<>> /\ sync'.batch = b /\ sync'.pc = "check"
    BY <1>1 DEF AddCommitsFromSync, NoSync
  <2>2. InOrder => Ordered(b)
    BY DEF Batches, Ordered
  <2> QED BY <2>1, <2>2, NothingRead DEF SyncOrder, SyncLeaves
<1>2. CASE SyncCheckNext
  BY <1>2, SyncReads
<1>3. CASE SyncCheckDone
  <2>1. CASE sync' = NoSync
    BY <1>3, <2>1, SyncKept DEF SyncCheckDone, rows
  <2>2. CASE sync' = [sync EXCEPT !.pc = "fetch"]
    <3>1. /\ sync'.batch = sync.batch /\ sync'.new = sync.new /\ sync'.leaves = sync.leaves
          /\ sync'.pc = "fetch"
      BY <1>0, <2>2 DEF SyncRecord
    <3> QED BY <3>1 DEF SyncOrder, SyncLeaves, HasChildIn
  <2> QED BY <1>3, <2>1, <2>2 DEF SyncCheckDone
<1>4. CASE SyncFetch
  <2>1. /\ sync'.batch = sync.batch /\ sync'.new = sync.new /\ sync'.leaves = sync.leaves
        /\ trees' = trees \cup sync.leaves
    BY <1>0, <1>4 DEF SyncFetch, SyncRecord
  <2> QED BY <2>1 DEF SyncOrder, SyncLeaves, HasChildIn
<1>5. ASSUME sync' = sync \/ sync' = NoSync, trees \subseteq trees'
      PROVE  SyncOrder' /\ SyncLeaves'
  BY <1>5, SyncKept
<1>6. CASE SyncCheckError \/ SyncFetchError
  BY <1>5, <1>6 DEF SyncCheckError, SyncFetchError, rows
<1>7. ASSUME NEW c \in Commit, MarkCommitSynced(c) PROVE SyncOrder' /\ SyncLeaves'
  BY <1>5, <1>7 DEF MarkCommitSynced, memory
<1>8. CASE AddStep
  <2>1. trees' = trees
    BY <1>8 DEF AddStep, StartAddCommits, AddNext, AddIterationEnd, Execute, ExecuteError, AddError,
         rows
  <2>2. sync' = sync \/ sync' = NoSync
    BY <1>8 DEF AddStep, StartAddCommits, AddNext, AddIterationEnd, Execute, ExecuteError, AddError,
         Resume
  <2> QED BY <1>5, <2>1, <2>2
<1>9. ASSUME NEW j \in Journal, ClientStep(j) \/ JournalStep(j) PROVE SyncOrder' /\ SyncLeaves'
  BY <1>5, <1>9, JournalFrame
<1>10. CASE StartInit \/ FinishInit \/ Crash \/ UNCHANGED vars
  BY <1>5, <1>10 DEF StartInit, FinishInit, Crash, vars, rows, memory
<1> QED BY <1>1, <1>2, <1>3, <1>4, <1>6, <1>7, <1>8, <1>9, <1>10 DEF Next, CloudStep, SyncStep
-----------------------------------------------------------------------------
(* The call of SynchronousAddCommits and its caller *)

\* What every other step leaves alone: the call, its caller's commits and the
\* rows that the call writes.
Aside ==
    \/ FinishInit \/ CloudStep \/ SyncStep \/ UNCHANGED vars
    \/ \E j \in Journal : ClientStep(j) \/ JournalStep(j)

LEMMA AsideFrame ==
    ASSUME TypeOK, LockInv, Aside
    PROVE  /\ UNCHANGED <<add, commits, heads>> /\ trees \subseteq trees'
           /\ add.pc # "idle" => OwnerCommits' = OwnerCommits
<1>1. CASE FinishInit \/ UNCHANGED vars
  <2>1. UNCHANGED <<add, commits, heads, trees, queue, sync, journal>>
    BY <1>1 DEF FinishInit, vars, rows, memory
  <2> QED BY <2>1 DEF OwnerCommits, Owner
<1>2. CASE CloudStep \/ SyncStep
  BY <1>2, SyncFrame
<1>3. ASSUME NEW j \in Journal, ClientStep(j) \/ JournalStep(j)
      PROVE  /\ UNCHANGED <<add, commits, heads>> /\ trees \subseteq trees'
             /\ add.pc # "idle" => OwnerCommits' = OwnerCommits
  <2>1. /\ journal[j].pc # "add" /\ \A k \in Journal \ {j} : journal'[k] = journal[k]
        /\ queue' = queue \/ queue' = Append(queue, j)
        /\ UNCHANGED <<add, sync, phase, commits, heads>> /\ trees \subseteq trees'
    BY <1>3, JournalFrame
  <2>2. ASSUME add.pc # "idle" PROVE OwnerCommits' = OwnerCommits
    <3>1. Owner \in Journal => Owner # j /\ journal'[Owner] = journal[Owner]
      BY <2>1, <2>2 DEF LockInv, LockHeld
    <3> QED BY <2>1, <2>2, <3>1, OwnerKept
  <2> QED BY <2>1, <2>2
<1> QED BY <1>1, <1>2, <1>3 DEF Aside

\* What one step of the for loop does to the commit it looks at.
Skipped(c) ==
    /\ c \in Stored
    /\ UNCHANGED <<add.added, add.toAdd, add.put, add.del, add.remaining>>

Added(c) ==
    /\ c \notin Stored /\ Parents[c] \subseteq Stored \cup add.added
    /\ add'.added = add.added \cup {c} /\ add'.toAdd = (add.toAdd \ Parents[c]) \cup {c}
    /\ add'.put = add.put \ (Parents[c] \ add.toAdd)
    /\ add'.del = add.del \cup (Parents[c] \ add.toAdd)
    /\ add'.remaining = add.remaining

Postponed(c) ==
    /\ c \notin Stored /\ \E p \in Parents[c] : p \notin Stored \cup add.added
    /\ add'.added = add.added
    /\ add'.toAdd \subseteq add.toAdd /\ add'.put \subseteq add.put /\ add.del \subseteq add'.del
    /\ add'.remaining # <<>> /\ ElementsOf(add'.remaining) = ElementsOf(add.remaining) \cup {c}

LEMMA AddNextMoves ==
    ASSUME TypeOK, AddNext
    PROVE  LET c == Head(add.todo) IN
             /\ c \in Commit /\ add.todo \in Seq(Commit) /\ add.todo # <<>> /\ add.pc = "loop"
             /\ ElementsOf(add.todo) = {c} \cup ElementsOf(Tail(add.todo))
             /\ add'.pc = "loop" /\ add'.todo = Tail(add.todo)
             /\ UNCHANGED <<commits, heads, queue, sync, journal>>
             /\ Skipped(c) \/ Added(c) \/ Postponed(c)
<1> DEFINE c == Head(add.todo)
<1>1. /\ add \in AddRecord /\ add.todo \in Seq(Commit) /\ add.remaining \in Seq(Commit)
      /\ add.todo # <<>> /\ add.pc = "loop" /\ UNCHANGED <<commits, heads, queue, sync, journal>>
  BY DEF TypeOK, MemoryType, AddRecord, AddNext, rows
<1>2. /\ c \in Commit /\ Tail(add.todo) \in Seq(Commit)
      /\ ElementsOf(add.todo) = {c} \cup ElementsOf(Tail(add.todo))
  BY <1>1, ElementsOfTail
<1>3. SkipPresentCommit(c) \/ AddNewCommit(c) \/ PostponeCommit(c)
  BY DEF AddNext
<1> HIDE DEF c
<1>4. CASE SkipPresentCommit(c)
  <2>1. add'.pc = "loop" /\ add'.todo = Tail(add.todo) /\ Skipped(c)
    BY <1>1, <1>4 DEF SkipPresentCommit, AddRecord, Skipped
  <2> QED BY <1>1, <1>2, <2>1 DEF c
<1>5. CASE AddNewCommit(c)
  <2> DEFINE a == EraseHeads(add, Parents[c])
  <2>1. /\ a \in AddRecord /\ a.pc = add.pc /\ a.todo = add.todo /\ a.remaining = add.remaining
        /\ a.added = add.added /\ a.toAdd = add.toAdd \ Parents[c]
        /\ a.put = add.put \ (Parents[c] \ add.toAdd)
        /\ a.del = add.del \cup (Parents[c] \ add.toAdd)
    BY <1>1, <1>2 DEF EraseHeads, AddRecord
  <2>2. add' = [a EXCEPT !.todo = Tail(@), !.progress = TRUE,
                         !.added = @ \cup {c}, !.toAdd = @ \cup {c}]
    BY <1>5 DEF AddNewCommit
  <2>3. c \notin Stored /\ Parents[c] \subseteq Stored \cup add.added
    BY <1>5 DEF AddNewCommit, MissingParents
  <2> HIDE DEF a
  <2>4. /\ add'.pc = "loop" /\ add'.todo = Tail(add.todo) /\ add'.remaining = add.remaining
        /\ add'.added = add.added \cup {c} /\ add'.toAdd = (add.toAdd \ Parents[c]) \cup {c}
        /\ add'.put = a.put /\ add'.del = a.del
    BY <1>1, <2>1, <2>2 DEF AddRecord
  <2> QED BY <1>1, <1>2, <2>1, <2>3, <2>4 DEF c, Added
<1>6. CASE PostponeCommit(c)
  <2>1. PICK ps \in SUBSET Parents[c] :
          add' = [EraseHeads(add, ps) EXCEPT !.todo = Tail(@), !.remaining = Append(@, c)]
    BY <1>6 DEF PostponeCommit
  <2> DEFINE a == EraseHeads(add, ps)
  <2>2. /\ a \in AddRecord /\ a.pc = add.pc /\ a.todo = add.todo /\ a.remaining = add.remaining
        /\ a.added = add.added /\ a.toAdd \subseteq add.toAdd
        /\ a.put \subseteq add.put /\ add.del \subseteq a.del
    BY <1>1, <1>2, <2>1 DEF EraseHeads, AddRecord
  <2>3. add' = [a EXCEPT !.todo = Tail(@), !.remaining = Append(@, c)]
    BY <2>1
  <2>4. c \notin Stored /\ \E p \in Parents[c] : p \notin Stored \cup add.added
    BY <1>6 DEF PostponeCommit, MissingParents
  <2> HIDE DEF a
  <2>5. /\ add'.pc = "loop" /\ add'.todo = Tail(add.todo)
        /\ add'.remaining = Append(add.remaining, c)
        /\ add'.added = add.added /\ add'.toAdd = a.toAdd
        /\ add'.put = a.put /\ add'.del = a.del
    BY <1>1, <2>2, <2>3 DEF AddRecord
  <2>6. /\ add'.remaining # <<>>
        /\ ElementsOf(add'.remaining) = ElementsOf(add.remaining) \cup {c}
    BY <1>1, <1>2, <2>5, ElementsOfAppend, SMTT(30)
  <2>7. Postponed(c)
    BY <2>2, <2>4, <2>5, <2>6 DEF Postponed
  <2> QED BY <1>1, <1>2, <2>5, <2>7 DEF c
<1> QED BY <1>3, <1>4, <1>5, <1>6

\* The end of an iteration, unless the call fails.
LEMMA IterationEndMoves ==
    ASSUME TypeOK, AddIterationEnd
    PROVE  /\ add \in AddRecord /\ add.pc = "loop" /\ add.todo = <<>> /\ UNCHANGED <<commits, heads>>
           /\ \/ Resume(FALSE)
              \/ /\ UNCHANGED <<queue, sync, journal>>
                 /\ add'.added = add.added /\ add'.toAdd = add.toAdd
                 /\ add'.put = add.put \cup add.toAdd /\ add'.del = add.del \ add.toAdd
                 /\ add'.remaining = <<>> /\ add'.todo = add.remaining
                 /\ add'.pc = IF add.remaining = <<>> THEN "execute" ELSE "loop"
<1> DEFINE a == PutHeads(add)
<1>1. /\ add \in AddRecord /\ add.pc = "loop" /\ add.todo = <<>> /\ UNCHANGED <<commits, heads>>
  BY DEF AddIterationEnd, TypeOK, MemoryType, rows
<1>2. /\ a \in AddRecord /\ a.pc = add.pc /\ a.todo = add.todo /\ a.remaining = add.remaining
      /\ a.added = add.added /\ a.toAdd = add.toAdd
      /\ a.put = add.put \cup add.toAdd /\ a.del = add.del \ add.toAdd
  BY <1>1 DEF PutHeads, AddRecord
<1> HIDE DEF a
<1>3. CASE add.remaining = <<>> /\ add' = [a EXCEPT !.pc = "execute"]
           /\ UNCHANGED <<queue, sync, journal>>
  BY <1>1, <1>2, <1>3 DEF AddRecord
<1>4. CASE /\ add.remaining # <<>> /\ UNCHANGED <<queue, sync, journal>>
           /\ add' = [a EXCEPT !.todo = add.remaining, !.remaining = <<>>, !.progress = FALSE]
  BY <1>1, <1>2, <1>4 DEF AddRecord
<1> QED BY <1>1, <1>3, <1>4 DEF AddIterationEnd, a

\* The call keeps its caller's commits.
LEMMA OwnerStep ==
    ASSUME IInv, OwnerInv, [Next]_vars
    PROVE  OwnerInv'
<1>0. TypeOK /\ LockInv
  BY DEF IInv
<1>1. CASE Aside
  <2>1. UNCHANGED <<add, commits>> /\ (add.pc # "idle" => OwnerCommits' = OwnerCommits)
    BY <1>0, <1>1, AsideFrame
  <2> QED BY <2>1 DEF OwnerInv, Pending, Stored
<1>2. CASE StartInit
  BY <1>0, <1>2 DEF StartInit, LockInv, PhaseInv, OwnerInv
<1>3. ASSUME add' = NoAdd PROVE OwnerInv'
  BY <1>3 DEF NoAdd, OwnerInv
<1>4. CASE StartAddCommits
  <2>1. /\ add'.todo = OwnerCommits /\ add'.remaining = <<>> /\ add'.added = {}
        /\ UNCHANGED <<queue, sync, journal>>
    BY <1>4 DEF StartAddCommits, NoAdd
  <2>2. OwnerCommits' = OwnerCommits
    BY <2>1 DEF OwnerCommits, Owner
  <2> QED BY <2>1, <2>2, ElementsOfEmpty DEF OwnerInv, Pending
<1>5. CASE AddNext
  <2> DEFINE c == Head(add.todo)
  <2>1. /\ c \in Commit /\ add.todo \in Seq(Commit) /\ add.todo # <<>> /\ add.pc = "loop"
        /\ ElementsOf(add.todo) = {c} \cup ElementsOf(Tail(add.todo))
        /\ add'.pc = "loop" /\ add'.todo = Tail(add.todo)
        /\ UNCHANGED <<commits, heads, queue, sync, journal>>
        /\ Skipped(c) \/ Added(c) \/ Postponed(c)
    BY <1>0, <1>5, AddNextMoves
  <2> HIDE DEF c
  <2>2. OwnerCommits' = OwnerCommits /\ Stored' = Stored
    BY <2>1 DEF OwnerCommits, Owner, Stored
  <2>3. /\ add.added \cup Pending \subseteq ElementsOf(OwnerCommits)
        /\ ElementsOf(OwnerCommits) \subseteq Stored \cup add.added \cup Pending
    BY <2>1 DEF OwnerInv
  <2>4. CASE Skipped(c)
    BY <2>1, <2>2, <2>3, <2>4 DEF OwnerInv, Pending, Skipped
  <2>5. CASE Added(c)
    BY <2>1, <2>2, <2>3, <2>5 DEF OwnerInv, Pending, Added
  <2>6. CASE Postponed(c)
    BY <2>1, <2>2, <2>3, <2>6 DEF OwnerInv, Pending, Postponed
  <2> QED BY <2>1, <2>4, <2>5, <2>6
<1>6. CASE AddIterationEnd
  <2>1. CASE Resume(FALSE)
    BY <1>3, <2>1 DEF Resume
  <2>2. CASE ~Resume(FALSE)
    <3>1. /\ add.pc = "loop" /\ add.todo = <<>> /\ UNCHANGED <<commits, queue, sync, journal>>
          /\ add'.added = add.added /\ add'.todo = add.remaining /\ add'.remaining = <<>>
      BY <1>0, <1>6, <2>2, IterationEndMoves
    <3>2. OwnerCommits' = OwnerCommits /\ Stored' = Stored
      BY <3>1 DEF OwnerCommits, Owner, Stored
    <3> QED BY <3>1, <3>2 DEF OwnerInv, Pending
  <2> QED BY <2>1, <2>2
<1>7. CASE Execute \/ ExecuteError \/ AddError \/ Crash
  BY <1>3, <1>7 DEF Execute, ExecuteError, AddError, Resume, Crash
<1> QED BY <1>1, <1>2, <1>4, <1>5, <1>6, <1>7 DEF Next, AddStep, Aside
-----------------------------------------------------------------------------
(* The heads, when commits arrive in order *)

\* The commits that a call starts with are in order: one local commit, or what
\* is left of a batch of the cloud.
LEMMA StartInOrder ==
    ASSUME IInv, SyncOrder, InOrder, StartAddCommits
    PROVE  Ordered(OwnerCommits)
<1>1. CASE Owner = Sync
  BY <1>1 DEF OwnerCommits, SyncOrder
<1>2. CASE Owner # Sync
  <2>1. OwnerCommits = <<journal[Owner].commit>>
    BY <1>2 DEF OwnerCommits
  <2>2. DOMAIN OwnerCommits = {1}
    BY <2>1
  <2> QED BY <2>2 DEF Ordered
<1> QED BY <1>1, <1>2

\* In the first iteration every commit finds its parents, or never will.
LEMMA FirstIterationNext ==
    ASSUME IInv, HeadsInv, InOrder, FirstIteration, AddNext
    PROVE  FirstIteration'
<1> DEFINE c == Head(add.todo)
           rest == Tail(add.todo)
<1>1. /\ c \in Commit /\ add.todo \in Seq(Commit) /\ add.todo # <<>> /\ add.pc = "loop"
      /\ ElementsOf(add.todo) = {c} \cup ElementsOf(rest)
      /\ add'.pc = "loop" /\ add'.todo = rest
      /\ UNCHANGED <<commits, heads, queue, sync, journal>>
      /\ Skipped(c) \/ Added(c) \/ Postponed(c)
  BY AddNextMoves DEF IInv
<1>2. Ordered(rest) /\ \A y \in ElementsOf(rest) : y # c /\ y \notin Parents[c]
  BY <1>1, OrderedTail DEF FirstIteration
<1> HIDE DEF c, rest
<1>3. Stored' = Stored
  BY <1>1 DEF Stored
<1>4. /\ add.added \cap Stored = {} /\ heads \subseteq Stored /\ c \notin add.added
      /\ \A d \in add.added : Parents[d] \subseteq Stored \cup add.added
  BY <1>1 DEF IInv, BatchInv, HeadsInv, Leaves, FirstIteration
<1>5. /\ add.put = {} /\ add.toAdd \subseteq add.added /\ ElementsOf(add.todo) \cap add.added = {}
      /\ BatchHeads = (heads \ add.del) \cup add.toAdd
      /\ \A x \in BatchHeads : ~HasChildIn(x, add.added)
      /\ \A d \in ElementsOf(add.remaining) :
           /\ d \notin Stored
           /\ \E p \in Parents[d] : p \notin Stored \cup add.added \cup ElementsOf(add.todo)
  BY DEF FirstIteration, Exact, BatchHeads
<1>6. CASE Skipped(c)
  <2>1. BatchHeads' = BatchHeads /\ Exact' /\ (add'.remaining = <<>> => Filled')
    BY <1>1, <1>6 DEF Skipped, BatchHeads, FirstIteration, Exact, HasChildIn, Filled
  <2> QED BY <1>1, <1>2, <1>3, <1>5, <1>6, <2>1 DEF Skipped, FirstIteration
<1>7. CASE Added(c)
  <2>1. add'.put = {} /\ add'.toAdd \subseteq add'.added /\ c \in add'.toAdd
    BY <1>5, <1>7 DEF Added
  <2>2. ASSUME NEW x \in BatchHeads' PROVE ~HasChildIn(x, add'.added)
    <3>1. CASE x = c
      <4>1. c \notin Parents[c] /\ \A d \in add.added : c \notin Parents[d]
        BY <1>1, <1>4, <1>7 DEF Added
      <4> QED BY <1>7, <3>1, <4>1 DEF Added, HasChildIn
    <3>2. CASE x # c
      <4>1. x \in BatchHeads /\ x \notin Parents[c]
        BY <1>1, <1>4, <1>5, <1>7, <2>1, <3>2 DEF Added, BatchHeads
      <4> QED BY <1>5, <1>7, <4>1 DEF Added, HasChildIn
    <3> QED BY <3>1, <3>2
  <2>3. Exact' /\ Filled'
    BY <2>1, <2>2 DEF Exact, Filled
  <2>4. ElementsOf(rest) \cap add'.added = {}
    BY <1>1, <1>2, <1>5, <1>7 DEF Added
  <2>5. Stored' \cup add'.added \cup ElementsOf(rest)
          = Stored \cup add.added \cup ElementsOf(add.todo)
    BY <1>1, <1>3, <1>7 DEF Added
  <2> QED BY <1>1, <1>2, <1>3, <1>5, <1>7, <2>1, <2>3, <2>4, <2>5 DEF Added, FirstIteration
<1>8. CASE Postponed(c)
  <2>1. /\ add'.put = {} /\ add'.toAdd \subseteq add'.added /\ add'.remaining # <<>>
        /\ BatchHeads' \subseteq BatchHeads
    BY <1>1, <1>5, <1>8 DEF Postponed, BatchHeads
  <2>2. Exact'
    BY <1>5, <1>8, <2>1 DEF Exact, Postponed, HasChildIn
  <2>3. \E p \in Parents[c] : p \notin Stored \cup add.added \cup ElementsOf(rest)
    BY <1>2, <1>8 DEF Postponed
  <2>4. \A d \in ElementsOf(add'.remaining) :
          /\ d \notin Stored
          /\ \E p \in Parents[d] : p \notin Stored \cup add.added \cup ElementsOf(rest)
    BY <1>1, <1>5, <1>8, <2>3 DEF Postponed
  <2> QED BY <1>1, <1>2, <1>3, <1>5, <1>8, <2>1, <2>2, <2>4 DEF FirstIteration, Postponed
<1> QED BY <1>1, <1>6, <1>7, <1>8

\* A later iteration postpones everything.
LEMMA DoomedNext ==
    ASSUME IInv, Doomed, AddNext
    PROVE  Doomed'
<1> DEFINE c == Head(add.todo)
<1>1. /\ c \in Commit /\ add.todo \in Seq(Commit) /\ add.todo # <<>> /\ add.pc = "loop"
      /\ ElementsOf(add.todo) = {c} \cup ElementsOf(Tail(add.todo))
      /\ add'.pc = "loop" /\ add'.todo = Tail(add.todo)
      /\ UNCHANGED <<commits, heads, queue, sync, journal>>
      /\ Skipped(c) \/ Added(c) \/ Postponed(c)
  BY AddNextMoves DEF IInv
<1> HIDE DEF c
<1>2. c \in Pending
  BY <1>1 DEF Pending
<1>3. Postponed(c)
  BY <1>1, <1>2 DEF Doomed, Skipped, Added
<1>4. Pending' = Pending /\ add'.added = add.added /\ Stored' = Stored
  BY <1>1, <1>3 DEF Postponed, Pending, Stored
<1> QED BY <1>1, <1>4 DEF Doomed

\* A call that has looked at all its commits leaves exact heads; one that goes
\* on is doomed.
LEMMA HeadsAtIterationEnd ==
    ASSUME IInv, InOrder, FirstIteration \/ Doomed, AddIterationEnd, ~Resume(FALSE)
    PROVE  /\ add'.pc = "loop" => Doomed'
           /\ add'.pc = "execute" => Exact' /\ Filled'
<1>1. /\ add \in AddRecord /\ add.pc = "loop" /\ add.todo = <<>> /\ UNCHANGED <<commits, heads>>
      /\ add'.added = add.added /\ add'.toAdd = add.toAdd
      /\ add'.put = add.put \cup add.toAdd /\ add'.del = add.del \ add.toAdd
      /\ add'.remaining = <<>> /\ add'.todo = add.remaining
      /\ add'.pc = IF add.remaining = <<>> THEN "execute" ELSE "loop"
  BY IterationEndMoves DEF IInv
<1>2. Pending' = Pending /\ Pending = ElementsOf(add.remaining) /\ Stored' = Stored
  BY <1>1, ElementsOfEmpty DEF Pending, Stored
<1>3. CASE add.remaining = <<>>
  <2>1. Pending = {} /\ FirstIteration
    BY <1>2, <1>3, ElementsOfEmpty DEF Doomed
  <2>2. BatchHeads' = BatchHeads
    BY <1>1 DEF BatchHeads
  <2>3. Exact' /\ Filled'
    BY <1>1, <1>3, <2>1, <2>2 DEF FirstIteration, Exact, Filled, HasChildIn
  <2> QED BY <1>1, <1>3, <2>3
<1>4. CASE add.remaining # <<>>
  <2>1. Pending # {}
    <3>1. add.remaining \in Seq(Commit)
      BY <1>1 DEF AddRecord
    <3>2. Head(add.remaining) \in ElementsOf(add.remaining)
      BY <1>4, <3>1, ElementsOfTail
    <3> QED BY <1>2, <3>2
  <2>2. \A c \in Pending : c \notin Stored /\ \E p \in Parents[c] : p \notin Stored \cup add.added
    BY <1>2 DEF FirstIteration, Doomed
  <2> QED BY <1>1, <1>2, <1>4, <2>1, <2>2 DEF Doomed
<1> QED BY <1>3, <1>4

\* Writing an exact batch leaves exact heads.
LEMMA HeadsAtExecute ==
    ASSUME IInv, HeadsInv, InOrder, Execute
    PROVE  heads' \subseteq Leaves' /\ (heads' = {} => commits' = {})
<1>1. /\ commits' = commits \cup add.added
      /\ heads' = (heads \ add.del) \cup add.put
      /\ add.pc = "execute"
  BY DEF Execute
<1>2. /\ add.added \cap Stored = {} /\ add.toAdd \subseteq add.put
      /\ heads \subseteq Leaves /\ Exact /\ Filled
  BY <1>1 DEF IInv, BatchInv, HeadsInv
<1>3. ASSUME NEW x \in heads' PROVE x \in Stored' /\ ~HasChildIn(x, commits')
  <2>1. x \in BatchHeads /\ ~HasChildIn(x, add.added)
    BY <1>1, <1>2 DEF BatchHeads, Exact
  <2>2. CASE x \in add.put
    <3>1. x \in add.added /\ x \notin Stored
      BY <1>2, <2>2 DEF Exact
    <3>2. ~HasChildIn(x, commits)
      BY <3>1 DEF IInv, ParentsStored, HasChildIn
    <3> QED BY <1>1, <2>1, <3>1, <3>2 DEF HasChildIn, Stored
  <2>3. CASE x \notin add.put
    <3>1. x \in Leaves
      BY <1>1, <1>2, <2>3
    <3> QED BY <1>1, <2>1, <3>1 DEF Leaves, HasChildIn, Stored
  <2> QED BY <2>2, <2>3
<1>4. heads' = {} => commits' = {}
  BY <1>1, <1>2 DEF Filled, HeadsInv
<1> QED BY <1>3, <1>4 DEF Leaves

\* Every step keeps the heads exact.
LEMMA HeadsStep ==
    ASSUME IInv, SyncOrder, HeadsInv, [Next]_vars
    PROVE  HeadsInv'
<1> SUFFICES ASSUME InOrder PROVE HeadsInv'
  BY DEF HeadsInv
<1>0. /\ TypeOK /\ LockInv /\ heads \subseteq Leaves /\ (heads = {} => commits = {})
      /\ add.pc = "loop" => FirstIteration \/ Doomed
      /\ add.pc = "execute" => Exact /\ Filled
  BY DEF IInv, HeadsInv
<1>1. ASSUME UNCHANGED <<commits, heads>>
      PROVE  heads' \subseteq Leaves' /\ (heads' = {} => commits' = {})
  BY <1>0, <1>1 DEF Leaves, Stored, HasChildIn
<1>2. ASSUME heads' \subseteq Leaves', heads' = {} => commits' = {}, add'.pc = "idle"
      PROVE  HeadsInv'
  BY <1>2 DEF HeadsInv
<1>3. CASE Aside
  <2>1. UNCHANGED <<add, commits, heads>>
    BY <1>0, <1>3, AsideFrame
  <2>2. Stored' = Stored /\ BatchHeads' = BatchHeads /\ Pending' = Pending
    BY <2>1 DEF Stored, BatchHeads, Pending
  <2>3. (FirstIteration => FirstIteration') /\ (Doomed => Doomed') /\ (Exact => Exact')
        /\ (Filled => Filled')
    BY <2>1, <2>2 DEF FirstIteration, Doomed, Exact, Filled, HasChildIn, Ordered
  <2> QED BY <1>0, <1>1, <2>1, <2>3 DEF HeadsInv
<1>4. CASE StartInit
  <2>1. /\ add' = add /\ add.pc = "idle" /\ commits' = commits
        /\ heads' = IF heads = {} THEN {Root} ELSE heads
    BY <1>0, <1>4 DEF StartInit, LockInv, PhaseInv
  <2>2. commits = {} => Root \in Leaves
    BY DEF Leaves, Stored, HasChildIn
  <2>3. Leaves' = Leaves
    BY <2>1 DEF Leaves, Stored, HasChildIn
  <2> QED BY <1>0, <1>2, <2>1, <2>2, <2>3
<1>5. CASE Crash \/ ExecuteError \/ AddError
  <2>1. UNCHANGED <<commits, heads>> /\ add' = NoAdd
    BY <1>5 DEF Crash, ExecuteError, AddError, Resume, rows
  <2> QED BY <1>1, <1>2, <2>1 DEF NoAdd
<1>6. CASE StartAddCommits
  <2>1. /\ UNCHANGED <<commits, heads>> /\ add'.pc = "loop" /\ add'.todo = OwnerCommits
        /\ add'.remaining = <<>> /\ add'.added = {} /\ add'.toAdd = {} /\ add'.put = {}
        /\ add'.del = {}
    BY <1>6 DEF StartAddCommits, NoAdd, rows
  <2>2. Ordered(add'.todo)
    BY <1>6, <2>1, StartInOrder
  <2>3. Exact' /\ Filled'
    BY <2>1 DEF Exact, Filled, HasChildIn
  <2>4. FirstIteration'
    BY <2>1, <2>2, <2>3, ElementsOfEmpty DEF FirstIteration
  <2> QED BY <1>1, <2>1, <2>4 DEF HeadsInv
<1>7. CASE AddNext
  <2>1. UNCHANGED <<commits, heads>> /\ add.pc = "loop" /\ add'.pc = "loop"
    BY <1>0, <1>7, AddNextMoves
  <2>2. FirstIteration' \/ Doomed'
    BY <1>0, <1>7, <2>1, FirstIterationNext, DoomedNext
  <2> QED BY <1>1, <2>1, <2>2 DEF HeadsInv
<1>8. CASE AddIterationEnd
  <2>1. UNCHANGED <<commits, heads>> /\ add.pc = "loop"
    BY <1>8 DEF AddIterationEnd, rows
  <2>2. CASE Resume(FALSE)
    BY <1>1, <1>2, <2>1, <2>2 DEF Resume, NoAdd
  <2>3. CASE ~Resume(FALSE)
    <3>1. /\ add'.pc = "loop" => Doomed'
          /\ add'.pc = "execute" => Exact' /\ Filled'
      BY <1>0, <1>8, <2>1, <2>3, HeadsAtIterationEnd
    <3> QED BY <1>1, <2>1, <3>1 DEF HeadsInv
  <2> QED BY <2>2, <2>3
<1>9. CASE Execute
  <2>1. add' = NoAdd
    BY <1>9 DEF Execute, Resume
  <2> QED BY <1>2, <1>9, <2>1, HeadsAtExecute DEF NoAdd
<1> QED BY <1>3, <1>4, <1>5, <1>6, <1>7, <1>8, <1>9 DEF Next, AddStep, Aside

-----------------------------------------------------------------------------
(* The trees of the heads *)

\* What is put is a leaf of the batch, and was fetched or made here.
LEMMA PutHasTree ==
    ASSUME IInv, OwnerInv, HeadsInv, SyncLeaves, TreesInv, InOrder, add.pc = "execute"
    PROVE  add.put \subseteq trees
<1>1. /\ add.added \cap Stored = {} /\ Pending = {} /\ add.put \subseteq add.added
      /\ add.put \subseteq BatchHeads /\ \A x \in BatchHeads : ~HasChildIn(x, add.added)
      /\ add.added \subseteq ElementsOf(OwnerCommits)
      /\ ElementsOf(OwnerCommits) \subseteq Stored \cup add.added
  BY DEF IInv, BatchInv, HeadsInv, Exact, OwnerInv, BatchHeads
<1>2. /\ queue # <<>> /\ Owner \in Proc
      /\ IF Owner = Sync THEN sync.pc = "add" ELSE journal[Owner].pc = "add"
  BY DEF IInv, TypeOK, MemoryType, LockInv, LockHeld, Owner
<1> SUFFICES ASSUME NEW x \in add.put PROVE x \in trees
  OBVIOUS
<1>3. CASE Owner = Sync
  <2>1. OwnerCommits = sync.new /\ sync.leaves \subseteq trees
    BY <1>2, <1>3 DEF OwnerCommits, SyncLeaves
  <2>2. ASSUME NEW y \in ElementsOf(sync.new), x \in Parents[y] PROVE FALSE
    <3>1. y \in Stored
      BY <1>1, <2>1, <2>2 DEF HasChildIn
    <3>2. y \in Commit
      BY DEF IInv, TypeOK, MemoryType, SyncRecord, ElementsOf
    <3>3. x \in Stored
      BY <2>2, <3>1, <3>2 DEF IInv, ParentsStored, Stored
    <3> QED BY <1>1, <3>3
  <2> QED BY <1>1, <2>1, <2>2 DEF SyncLeaves, HasChildIn
<1>4. CASE Owner # Sync
  <2>1. Owner \in Journal /\ OwnerCommits = <<journal[Owner].commit>>
    BY <1>2, <1>4 DEF OwnerCommits, Proc
  <2>2. ElementsOf(OwnerCommits) = {journal[Owner].commit}
    BY <2>1 DEF ElementsOf
  <2> QED BY <1>1, <1>2, <1>4, <2>1, <2>2 DEF TreesInv
<1> QED BY <1>3, <1>4

\* A journal that is in AddCommitFromLocal was there before, or has just
\* created its commit.
LEMMA InAddKept ==
    ASSUME TypeOK, LockInv, [Next]_vars, NEW j \in Journal, journal'[j].pc = "add"
    PROVE  \/ journal[j].pc = "add" /\ journal'[j].commit = journal[j].commit
           \/ /\ journal'[j].commit \in trees' /\ journal'[j].commit \in made'[j]
<1>0. journal \in [Journal -> JournalRecord] /\ made \in [Journal -> SUBSET Commit]
  BY DEF TypeOK, MemoryType, HistoryType
<1>1. ASSUME NEW k \in Journal, NEW c \in Commit, CreateCommit(k, c)
      PROVE  \/ journal[j].pc = "add" /\ journal'[j].commit = journal[j].commit
             \/ journal'[j].commit \in trees' /\ journal'[j].commit \in made'[j]
  BY <1>0, <1>1 DEF CreateCommit, JournalRecord
<1>2. ASSUME NEW k \in Journal, NEW pc \in JournalPc \ {"add"}, SetPc(k, pc)
      PROVE  journal[j].pc = "add" /\ journal'[j].commit = journal[j].commit
  BY <1>0, <1>2 DEF SetPc, JournalRecord
<1>3. ASSUME NEW k \in Journal, ClientStep(k)
      PROVE  journal[j].pc = "add" /\ journal'[j].commit = journal[j].commit
  <2>1. ASSUME NEW base \in CommitOrRoot, NEW isExplicit \in BOOLEAN,
               StartCommit(k, base, isExplicit)
        PROVE  journal[j].pc = "add" /\ journal'[j].commit = journal[j].commit
    BY <1>0, <2>1 DEF StartCommit, NoJournal
  <2>2. ASSUME NEW left \in CommitOrRoot, NEW right \in CommitOrRoot,
               StartMergeCommit(k, left, right)
        PROVE  journal[j].pc = "add" /\ journal'[j].commit = journal[j].commit
    BY <1>0, <2>2 DEF StartMergeCommit, NoJournal
  <2>3. CASE PutEntry(k)
    BY <1>0, <2>3 DEF PutEntry, JournalRecord
  <2>4. CASE CommitJournal(k) \/ RollbackJournal(k)
    BY <1>2, <2>4 DEF CommitJournal, RollbackJournal, JournalPc
  <2> QED BY <1>3, <2>1, <2>2, <2>3, <2>4 DEF ClientStep
<1>4. ASSUME NEW k \in Journal, CommitNoop(k) \/ CommitReadError(k) \/ RemoveJournal(k)
      PROVE  journal[j].pc = "add" /\ journal'[j].commit = journal[j].commit
  BY <1>4, <1>2 DEF CommitNoop, CommitReadError, RemoveJournal, JournalPc
<1>5. ASSUME NEW ok \in BOOLEAN, add.pc # "idle", Resume(ok)
      PROVE  journal[j].pc = "add" /\ journal'[j].commit = journal[j].commit
  <2>1. Owner \in Proc
    BY <1>5 DEF TypeOK, MemoryType, LockInv, LockHeld, Owner
  <2> QED BY <1>5, <1>2, <2>1 DEF Resume, Proc, JournalPc
<1>6. CASE AddStep
  <2>1. CASE StartAddCommits \/ AddNext
    BY <2>1 DEF StartAddCommits, AddNext
  <2>2. CASE AddIterationEnd
    BY <1>5, <2>2 DEF AddIterationEnd
  <2>3. CASE Execute \/ ExecuteError \/ AddError
    BY <1>5, <2>3 DEF Execute, ExecuteError, AddError
  <2> QED BY <1>6, <2>1, <2>2, <2>3 DEF AddStep
<1>7. CASE CloudStep \/ SyncStep
  BY <1>7, SyncFrame
<1>8. CASE FinishInit \/ UNCHANGED vars
  BY <1>8 DEF FinishInit, vars, memory
<1>9. CASE StartInit
  BY <1>9 DEF StartInit, NoJournal
<1>10. CASE Crash
  BY <1>10 DEF Crash, NoJournal
<1> QED BY <1>1, <1>3, <1>4, <1>6, <1>7, <1>8, <1>9, <1>10 DEF Next, JournalStep

\* Trees are never deleted.
LEMMA TreesGrow == [Next]_vars => trees \subseteq trees'
BY DEF Next, StartInit, FinishInit, Crash, ClientStep, StartCommit, StartMergeCommit, PutEntry,
     CommitJournal, RollbackJournal, JournalStep, CreateCommit, CommitNoop, CommitReadError,
     RemoveJournal, CloudStep, AddCommitsFromSync, MarkCommitSynced, SyncStep, SyncCheckNext,
     SyncCheckError, SyncCheckDone, SyncFetch, SyncFetchError, AddStep, StartAddCommits, AddNext,
     AddIterationEnd, Execute, ExecuteError, AddError, vars, rows

\* Every step keeps the trees of the heads.
LEMMA TreesStep ==
    ASSUME IInv, OwnerInv, HeadsInv, SyncLeaves, TreesInv, [Next]_vars
    PROVE  TreesInv'
<1>0. TypeOK /\ LockInv /\ trees \subseteq trees'
  BY TreesGrow DEF IInv
<1>1. \A j \in Journal : journal'[j].pc = "add" => journal'[j].commit \in trees'
  BY <1>0, InAddKept DEF TreesInv
<1>2. ASSUME InOrder PROVE heads' \subseteq trees' \cup {Root}
  <2>1. CASE Execute
    <3>1. heads' = (heads \ add.del) \cup add.put /\ add.pc = "execute"
      BY <2>1 DEF Execute
    <3>2. add.put \subseteq trees
      BY <1>2, <3>1, PutHasTree
    <3> QED BY <1>0, <1>2, <3>1, <3>2 DEF TreesInv, HeadsHaveTrees
  <2>2. CASE StartInit
    BY <1>0, <1>2, <2>2 DEF StartInit, TreesInv, HeadsHaveTrees
  <2>3. CASE Aside
    BY <1>0, <1>2, <2>3, AsideFrame DEF TreesInv, HeadsHaveTrees
  <2>4. CASE StartAddCommits \/ AddNext \/ AddIterationEnd \/ ExecuteError \/ AddError \/ Crash
    BY <1>0, <1>2, <2>4 DEF StartAddCommits, AddNext, AddIterationEnd, ExecuteError, AddError,
         Crash, rows, TreesInv, HeadsHaveTrees
  <2> QED BY <2>1, <2>2, <2>3, <2>4 DEF Next, AddStep, Aside
<1> QED BY <1>1, <1>2 DEF TreesInv, HeadsHaveTrees
-----------------------------------------------------------------------------
(* Implicit journals *)

\* The steps of one journal leave the others alone.
LEMMA OthersFrame ==
    ASSUME TypeOK, NEW j \in Journal, ClientStep(j) \/ JournalStep(j), NEW k \in Journal \ {j}
    PROVE  /\ journal'[k] = journal[k] /\ implicit'[k] = implicit[k] /\ made'[k] = made[k]
           /\ k \in entries' <=> k \in entries
           /\ k \in acked' <=> k \in acked
           /\ k \in released' <=> k \in released
<1>0. /\ implicit \in [Journal -> CommitOrRoot \cup {None}]
      /\ made \in [Journal -> SUBSET Commit]
  BY DEF TypeOK, RowsType, HistoryType
<1>1. journal'[k] = journal[k]
  BY JournalFrame
<1>2. CASE ClientStep(j)
  BY <1>0, <1>1, <1>2 DEF ClientStep, StartCommit, CreateJournalRow, StartMergeCommit, PutEntry,
       CommitJournal, RollbackJournal, rows
<1>3. CASE JournalStep(j)
  BY <1>0, <1>1, <1>3 DEF JournalStep, CreateCommit, CommitNoop, CommitReadError, RemoveJournal,
       DeleteJournalRows, rows
<1> QED BY <1>2, <1>3

\* A step of a journal keeps what is known of it.
LEMMA OwnJournalStep ==
    ASSUME IInv, NEW j \in Journal, JournalOK(j), ClientStep(j) \/ JournalStep(j)
    PROVE  JournalOK(j)'
<1> USE DEF JournalOK, RowsKept, NotRolledBack, NotLost
<1>0. /\ journal \in [Journal -> JournalRecord] /\ journal[j] \in JournalRecord
      /\ implicit \in [Journal -> CommitOrRoot \cup {None}]
      /\ made \in [Journal -> SUBSET Commit] /\ phase' = phase /\ commits' = commits
  BY JournalFrame DEF IInv, TypeOK, RowsType, MemoryType, HistoryType
<1>1. ASSUME NEW base \in CommitOrRoot, NEW isExplicit \in BOOLEAN,
             StartCommit(j, base, isExplicit)
      PROVE  JournalOK(j)'
  <2>1. /\ journal'[j].pc = "open" /\ journal'[j].explicit = isExplicit /\ phase = "ready"
        /\ ~isExplicit => implicit'[j] = base
        /\ j \notin acked'
    BY <1>0, <1>1 DEF StartCommit, NeverUsed, CreateJournalRow, NoJournal
  <2> QED BY <1>0, <2>1 DEF CommitOrRoot
<1>2. ASSUME NEW left \in CommitOrRoot, NEW right \in CommitOrRoot,
             StartMergeCommit(j, left, right)
      PROVE  JournalOK(j)'
  <2>1. /\ journal'[j].pc = "open" /\ journal'[j].explicit = TRUE /\ phase = "ready"
        /\ j \notin acked'
    BY <1>0, <1>2 DEF StartMergeCommit, NeverUsed, NoJournal
  <2> QED BY <1>0, <2>1
<1>3. CASE PutEntry(j)
  <2>1. /\ journal[j].pc = "open" /\ journal'[j].pc = "open"
        /\ journal'[j].explicit = journal[j].explicit
        /\ UNCHANGED <<implicit, made, released>>
    BY <1>0, <1>3 DEF PutEntry, JournalRecord
  <2>2. \/ j \in entries' /\ (journal[j].explicit => acked' = acked)
        \/ UNCHANGED <<entries, acked>>
    BY <1>3 DEF PutEntry
  <2>3. j \in entries => j \in entries'
    BY <1>3 DEF PutEntry
  <2> QED BY <1>0, <2>1, <2>2, <2>3
<1>4. CASE CommitJournal(j) \/ RollbackJournal(j)
  <2>1. /\ journal[j].pc = "open" /\ journal'[j].pc \in {"rollback", "commit"}
        /\ UNCHANGED <<implicit, entries, made, acked, released>>
    BY <1>0, <1>4 DEF CommitJournal, RollbackJournal, SetPc, JournalRecord, rows
  <2> QED BY <1>0, <2>1
<1>5. ASSUME NEW c \in Commit, CreateCommit(j, c) PROVE JournalOK(j)'
  <2>1. /\ journal'[j].pc = "add" /\ journal'[j].commit = c /\ made'[j] = made[j] \cup {c}
        /\ UNCHANGED <<implicit, entries, acked, released>>
    BY <1>0, <1>5 DEF CreateCommit, JournalRecord
  <2> QED BY <1>0, <2>1
<1>6. CASE CommitNoop(j)
  <2>1. journal'[j].pc = "done" /\ j \in released'
    BY <1>0, <1>6 DEF CommitNoop, SetPc, JournalRecord
  <2> QED BY <1>0, <2>1
<1>7. CASE CommitReadError(j)
  <2>1. /\ journal'[j].pc = "rollback" /\ UNCHANGED <<implicit, entries, made, acked, released>>
        /\ phase = "recover" => RecoveryFaults
    BY <1>0, <1>7 DEF CommitReadError, Fault, SetPc, JournalRecord, rows
  <2> QED BY <1>0, <2>1
<1>8. CASE RemoveJournal(j)
  <2>1. /\ journal[j].pc \in {"remove", "rollback"} /\ journal'[j].pc \in {"done", "failed"}
        /\ UNCHANGED <<made, acked>>
        /\ released' = IF journal[j].pc = "rollback" /\ phase = "ready"
                         THEN released \cup {j} ELSE released
    BY <1>0, <1>8 DEF RemoveJournal, SetPc, JournalRecord
  <2>2. phase \in {"ready", "recover"}
    BY <2>1 DEF IInv, TypeOK, MemoryType, LockInv, PhaseInv
  <2>3. CASE journal[j].pc = "remove"
    BY <1>0, <2>1, <2>3
  <2>4. CASE journal[j].pc = "rollback"
    BY <1>0, <2>1, <2>2, <2>4
  <2> QED BY <2>1, <2>3, <2>4
<1> QED BY <1>1, <1>2, <1>3, <1>4, <1>5, <1>6, <1>7, <1>8 DEF ClientStep, JournalStep

\* What the return of SynchronousAddCommits does to the journals.
LEMMA ResumeJournals ==
    ASSUME TypeOK, LockInv, NEW ok \in BOOLEAN, add.pc # "idle", Resume(ok)
    PROVE  /\ released \subseteq released'
           /\ \A k \in Journal :
                \/ journal'[k] = journal[k]
                \/ /\ Owner = k /\ journal[k].pc = "add"
                   /\ journal'[k].pc = IF ok THEN "remove" ELSE "failed"
<1>1. /\ Owner \in Proc
      /\ IF Owner = Sync THEN sync.pc = "add" ELSE journal[Owner].pc = "add"
  BY DEF TypeOK, MemoryType, LockInv, LockHeld, Owner
<1>2. CASE Owner = Sync
  BY <1>2 DEF Resume
<1>3. CASE Owner # Sync
  <2>1. Owner \in Journal
    BY <1>1, <1>3 DEF Proc
  <2>2. SetPc(Owner, IF ok THEN "remove" ELSE "failed") /\ released \subseteq released'
    BY <1>3 DEF Resume
  <2> QED BY <1>1, <1>3, <2>1, <2>2 DEF SetPc, TypeOK, MemoryType, JournalRecord
<1> QED BY <1>2, <1>3

\* Every step keeps the journals' rows.
LEMMA JournalInvStep ==
    ASSUME IInv, OwnerInv, JournalInv, [Next]_vars
    PROVE  JournalInv'
<1> SUFFICES ASSUME NEW k \in Journal PROVE JournalOK(k)'
  BY DEF JournalInv
<1>0. TypeOK /\ LockInv /\ JournalOK(k)
  BY DEF IInv, JournalInv
<1>1. ASSUME NEW j \in Journal, ClientStep(j) \/ JournalStep(j) PROVE JournalOK(k)'
  <2>1. CASE j = k
    BY <1>0, <1>1, <2>1, OwnJournalStep
  <2>2. CASE j # k
    <3>1. /\ journal'[k] = journal[k] /\ implicit'[k] = implicit[k] /\ made'[k] = made[k]
          /\ k \in entries' <=> k \in entries
          /\ k \in acked' <=> k \in acked
          /\ k \in released' <=> k \in released
      BY <1>0, <1>1, <2>2, OthersFrame
    <3>2. phase' = phase /\ commits' = commits
      BY <1>0, <1>1, JournalFrame
    <3> QED BY <1>0, <3>1, <3>2 DEF JournalOK, RowsKept, NotRolledBack, NotLost
  <2> QED BY <2>1, <2>2
<1>2. ASSUME UNCHANGED <<implicit, entries, made, acked>>, commits \subseteq commits',
             released \subseteq released', phase' = phase \/ phase' # "recover",
             \/ journal'[k] = journal[k]
             \/ journal'[k].pc \in {"none", "failed"}
             \/ journal'[k].pc = "remove" /\ made[k] \cap commits' # {}
      PROVE  JournalOK(k)'
  BY <1>0, <1>2 DEF JournalOK, RowsKept, NotRolledBack, NotLost
<1>3. CASE CloudStep \/ SyncStep
  <2>1. UNCHANGED <<add, journal, commits, heads, phase, implicit, entries, made, acked, released>>
    BY <1>0, <1>3, SyncFrame
  <2> QED BY <1>2, <2>1
<1>4. CASE FinishInit \/ UNCHANGED vars
  BY <1>2, <1>4 DEF FinishInit, vars, rows, memory
<1>5. CASE Crash
  BY <1>2, <1>5 DEF Crash, rows, NoJournal
<1>6. CASE StartInit
  <2>1. /\ UNCHANGED <<commits, implicit, made, acked, released>>
        /\ entries' = {j \in entries : implicit[j] # None}
        /\ journal'[k].pc \in {"none", "commit"}
    BY <1>6 DEF StartInit, RemoveExplicitJournals, NoJournal
  <2> QED BY <1>0, <2>1 DEF JournalOK, RowsKept, NotRolledBack, NotLost
<1>7. CASE StartAddCommits \/ AddNext
  BY <1>2, <1>7 DEF StartAddCommits, AddNext, rows
<1>8. ASSUME add.pc # "idle", Resume(FALSE), UNCHANGED <<rows, phase, made, acked>>
      PROVE  JournalOK(k)'
  <2>1. /\ released \subseteq released'
        /\ journal'[k] = journal[k] \/ journal'[k].pc = "failed"
    BY <1>0, <1>8, ResumeJournals
  <2> QED BY <1>2, <1>8, <2>1 DEF rows
<1>9. CASE AddIterationEnd
  <2>1. CASE Resume(FALSE)
    BY <1>8, <1>9, <2>1 DEF AddIterationEnd
  <2>2. CASE ~Resume(FALSE)
    BY <1>2, <1>9, <2>2 DEF AddIterationEnd, rows
  <2> QED BY <2>1, <2>2
<1>10. CASE ExecuteError \/ AddError
  BY <1>8, <1>10 DEF ExecuteError, AddError
<1>11. CASE Execute
  <2>1. /\ add.pc = "execute" /\ Resume(TRUE) /\ commits' = commits \cup add.added
        /\ UNCHANGED <<implicit, entries, phase, made, acked>>
    BY <1>11 DEF Execute
  <2>2. /\ released \subseteq released'
        /\ \/ journal'[k] = journal[k]
           \/ Owner = k /\ journal[k].pc = "add" /\ journal'[k].pc = "remove"
    BY <1>0, <2>1, ResumeJournals
  <2>3. ASSUME Owner = k, journal[k].pc = "add" PROVE made[k] \cap commits' # {}
    <3>1. OwnerCommits = <<journal[k].commit>>
      BY <2>3 DEF OwnerCommits
    <3>2. journal[k].commit \in ElementsOf(OwnerCommits)
      BY <3>1 DEF ElementsOf
    <3>3. journal[k].commit \in commits \cup {Root} \cup add.added
      BY <2>1, <3>2 DEF OwnerInv, IInv, BatchInv, Stored
    <3>4. journal[k].commit \in Commit /\ journal[k].commit \in made[k]
      BY <1>0, <2>3 DEF LockInv, AddHasCommit, JournalOK, RowsKept
    <3> QED BY <2>1, <3>3, <3>4
  <2> QED BY <1>2, <2>1, <2>2, <2>3
<1> QED BY <1>1, <1>3, <1>4, <1>5, <1>6, <1>7, <1>9, <1>10, <1>11 DEF Next, AddStep

-----------------------------------------------------------------------------
(* Theorems on heads, trees and implicit journals *)

\* The second invariant holds initially.
LEMMA InitJInv == Init => JInv
<1> SUFFICES ASSUME Init PROVE JInv
  OBVIOUS
<1>1. sync.new = <<>> /\ sync.batch = <<>> /\ sync.pc = "idle" /\ add.pc = "idle"
  BY DEF Init, NoSync, NoAdd
<1>2. SyncOrder /\ SyncLeaves
  BY <1>1, NothingRead DEF SyncOrder, SyncLeaves
<1>3. OwnerInv /\ HeadsInv
  BY <1>1 DEF Init, OwnerInv, HeadsInv
<1>4. \A j \in Journal : journal[j].pc = "none"
  BY DEF Init, NoJournal
<1>5. TreesInv
  BY <1>4 DEF Init, TreesInv, HeadsHaveTrees
<1>6. JournalInv
  BY <1>4 DEF Init, JournalInv, JournalOK, RowsKept, NotRolledBack, NotLost
<1> QED BY <1>2, <1>3, <1>5, <1>6 DEF JInv

\* Every step keeps it.
LEMMA NextJInv == IInv /\ JInv /\ [Next]_vars => JInv'
<1> SUFFICES ASSUME IInv, JInv, [Next]_vars PROVE JInv'
  OBVIOUS
<1>1. SyncOrder' /\ SyncLeaves'
  BY SyncInvStep DEF IInv, JInv
<1>2. OwnerInv'
  BY OwnerStep DEF JInv
<1>3. HeadsInv'
  BY HeadsStep DEF JInv
<1>4. TreesInv'
  BY TreesStep DEF JInv
<1>5. JournalInv'
  BY JournalInvStep DEF JInv
<1> QED BY <1>1, <1>2, <1>3, <1>4, <1>5 DEF JInv

\* The invariant of AddCommitsFromSync's bookkeeping, of the heads that a batch
\* in cloud order leaves, and of the rows of implicit journals.
THEOREM SecondInvariance == Spec => []JInv
BY InitJInv, NextJInv, Invariance, PTL DEF Spec

\* When the cloud delivers a commit after its parents, the head rows that
\* SynchronousAddCommits writes are exactly the leaves of the history: what
\* GetHeadCommitIds answers is a conflict only if there is one.
THEOREM HeadsAreExact == ASSUME InOrder PROVE Spec => []HeadsAreLeaves
<1>1. IInv /\ JInv => HeadsAreLeaves
  BY DEF IInv, CoverInv, JInv, HeadsInv, HeadsAreLeaves
<1> QED BY <1>1, Invariance, SecondInvariance, PTL

\* In the same order, every head has its tree: the leaves that AddCommitsFromSync
\* fetches before it takes the lock again are enough.
THEOREM HeadsCanBeRead == ASSUME InOrder PROVE Spec => []HeadsHaveTrees
<1>1. JInv => HeadsHaveTrees
  BY DEF JInv, TreesInv
<1> QED BY <1>1, SecondInvariance, PTL

\* Unless the database fails during Init itself, no crash and no failed commit
\* loses an acknowledged change of an implicit journal.
THEOREM ImplicitChangesSurvive == ASSUME ~RecoveryFaults PROVE Spec => []ImplicitNotLost
<1>1. IInv /\ JInv => ImplicitNotLost
  BY DEF IInv, TypeOK, HistoryType, JInv, JournalInv, JournalOK, NotLost, ImplicitNotLost
<1> QED BY <1>1, Invariance, SecondInvariance, PTL

=============================================================================
