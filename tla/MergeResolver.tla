---------------------------- MODULE MergeResolver ----------------------------
(***************************************************************************)
(* Conflicts of one page and how every device merges them                  *)
(* (bin/ledger/app/merging): the MergeResolver that looks for two heads,   *)
(* the strategies last-one-wins, automatic and custom with the client's    *)
(* conflict resolver behind ConflictResolverClient, the LedgerMergeManager *)
(* that changes the strategy, the delay before merges are merged, and the  *)
(* search for the common ancestor.                                         *)
(*                                                                         *)
(* All of it runs on the main loop of the device, a FIFO of posted tasks.  *)
(* A read of the database takes its value at once and answers in a task    *)
(* posted then; a write notifies the watchers in the task that writes.     *)
(* That order is what keeps a conflict from being overlooked, so the loop  *)
(* is part of the model for the two kinds of task that race: posted checks *)
(* and answers of GetHeadCommitIds.  The other steps of a merge are        *)
(* answers that come at any later time.                                    *)
(*                                                                         *)
(* A commit is its own id: parents, generation, timestamp and contents.    *)
(* Between the devices the cloud is a set of commits (PageSync says how).  *)
(***************************************************************************)
EXTENDS Naturals, Sequences, FiniteSets

CONSTANTS
    Device,
    Key, Value,      \* entries of the page; 0 \in Value is "no entry"
    Write,           \* bound: the changes <<device, key, value>> the n-th commit may make
    Policy,          \* merge policies a factory may answer
    None,            \* no strategy (nullptr), no commit
    MaxMergeCommits, \* bound: commits of a device for which a client's resolver answers
    MaxCommits,      \* bound: commits of a device that merges two merges
    Active,          \* bound: devices with faults and clients that set a factory and wait
    MaxFaults,       \* bound: failing database calls and lost connections
    MaxDisturbed     \* bound: client commits where a factory is set or a call fails

Keep == "keep"       \* has_next_strategy_ is false

ASSUME DeviceAssumption == Device # {}

ASSUME PolicyAssumption ==
    /\ Policy \subseteq {"low", "auto", "custom"}
    /\ None \notin Policy \cup {"low", Keep}

ASSUME ValueAssumption == 0 \in Value /\ Value \subseteq Nat /\ Write \in Seq(SUBSET (Device \X Key \X Value))

VARIABLES
    commits,    \* the commits stored on each device
    heads,      \* and which of them are heads
    cloud,      \* the commits in the cloud
    resolver,   \* memory of each MergeResolver and its part of the main loop
    factory,    \* LedgerMergeManager::conflict_resolver_factory_
    asked,      \* a GetPolicy call is waiting for its answer
    missed,     \* history: the last read of the heads failed
    factories,  \* the clients that have called SetConflictResolverFactory
    made, faults

vars == <<commits, heads, cloud, resolver, factory, asked, missed, made, factories,
          faults>>
store == <<commits, heads, cloud>>
bounds == <<made, factories, faults>>

-----------------------------------------------------------------------------
(* Commits *)

Root == [ps |-> {}, g |-> 0, ts |-> 0, val |-> [k \in Key |-> 0]]

Greatest(S) == CHOOSE n \in S : \A m \in S : m <= n

\* FromContentAndParents: a merge takes the newer timestamp of its parents,
\* so the same merge on two devices is the same commit.
CommitOf(ps, val, now) ==
    [ps |-> ps, g |-> 1 + Greatest({p.g : p \in ps}), val |-> val,
     ts |-> IF Cardinality(ps) = 2 THEN Greatest({p.ts : p \in ps}) ELSE now]

\* The order of ExtractSortedCommitsIds: by timestamp, then by id.
Oldest(S) == CHOOSE c \in S : \A d \in S : c.ts <= d.ts

\* Mutant: the commits of the smallest generation are replaced.
AncestorStepMutant(S) ==
    LET bottom == CHOOSE n \in {c.g : c \in S} : \A c \in S : n <= c.g
        oldest == {c \in S : c.g = bottom}
        kept == IF oldest = S THEN {Oldest(S)} ELSE S \ oldest
    IN kept \cup UNION {c.ps : c \in S \ kept}

\* One round of FindCommonAncestorSync: the commits of the greatest generation
\* are replaced by their parents, but one element is always kept.
AncestorStep(S) ==
    LET top == Greatest({c.g : c \in S})
        newest == {c \in S : c.g = top}
        kept == IF newest = S THEN {Oldest(S)} ELSE S \ newest
    IN kept \cup UNION {c.ps : c \in S \ kept}

FindCommonAncestor(h1, h2, known) ==
    LET walk[S \in (SUBSET known) \ {{}}] ==
            IF Cardinality(S) = 1 THEN S ELSE walk[AncestorStep(S)]
    IN CHOOSE c \in walk[{h1, h2}] : TRUE

\* GetCommitContentsDiff
Diff(base, c) == {k \in Key : c.val[k] # base.val[k]}

\* left's contents with the changes from the ancestor to right: what both
\* BuildAndCommitJournal and ApplyDiffOnJournal write.
Apply(anc, left, right) ==
    [k \in Key |-> IF k \in Diff(anc, right) THEN right.val[k] ELSE left.val[k]]

\* OnRightChangeReady: no key is changed on both sides to different entries.
Distinct(anc, left, right) ==
    \A k \in Diff(anc, left) \cap Diff(anc, right) : left.val[k] = right.val[k]

-----------------------------------------------------------------------------
(* The resolver.  These operators take the record of one device and give   *)
(* the record after the call.                                              *)

NoMerge == [pc |-> "none", left |-> Root, right |-> Root, anc |-> Root, how |-> None,
            val |-> Root.val, by |-> None, cancelled |-> FALSE, delay |-> FALSE]

InStrategy == {"compare", "journal", "client", "commit", "finish"}

\* PostCheckConflicts
Post(r, delay) == [r EXCEPT !.tasks = Append(@, [kind |-> "check", delay |-> delay])]

\* Mutant: nobody looks at the heads after a merge.
CleanupMutant(r) ==
    [r EXCEPT !.merge = NoMerge, !.strategy = IF r.next = Keep THEN @ ELSE r.next,
              !.next = Keep]

\* The cleanup AutoCall of ResolveConflicts: runs when the last callback that
\* holds it is gone, whatever became of the merge.
Cleanup(r) ==
    Post([r EXCEPT !.merge = NoMerge,
                   !.strategy = IF r.next = Keep THEN @ ELSE r.next,
                   !.next = Keep], r.merge.delay)

\* MergeStrategy::Cancel: only a request that the client holds ends at once.
Cancel(r) ==
    IF r.merge.pc \notin InStrategy \/ r.merge.by = None THEN r
    ELSE IF r.merge.pc = "client" THEN Cleanup(r)
    ELSE [r EXCEPT !.merge.cancelled = TRUE]

\* Mutant: the strategy is replaced although it is at work.
SetMergeStrategyMutant(r, s) ==
    IF r.merge.pc # "none" /\ s = None THEN Cancel([r EXCEPT !.next = s])
    ELSE IF s = None THEN [r EXCEPT !.strategy = s]
    ELSE Post([r EXCEPT !.strategy = s], FALSE)

\* While a merge runs, the new strategy waits for its end.
SetMergeStrategy(r, s) ==
    IF r.merge.pc # "none" THEN Cancel([r EXCEPT !.next = s])
    ELSE IF s = None THEN [r EXCEPT !.strategy = s]
    ELSE Post([r EXCEPT !.strategy = s], FALSE)

HasUnfinishedMerges(r) == r.merge.pc # "none" \/ r.checking \/ r.tasks # <<>> \/ r.inDelay

\* A resolver made by GetMergeResolver while no factory is set, once the
\* check of its constructor and the one of SetMergeStrategy have found the
\* single head of the new page.
NewResolver ==
    [strategy |-> "low", next |-> Keep, merge |-> NoMerge, checking |-> FALSE,
     inDelay |-> FALSE, waiting |-> FALSE, tasks |-> <<>>]

Init ==
    /\ commits = [d \in Device |-> {Root}]
    /\ heads = [d \in Device |-> {Root}]
    /\ cloud = {Root}
    /\ resolver = [d \in Device |-> NewResolver]
    /\ factory = [d \in Device |-> "none"]
    /\ asked = [d \in Device |-> FALSE]
    /\ missed = [d \in Device |-> FALSE]
    /\ made = 0 /\ factories = {} /\ faults = 0

\* Only the resolver of d moves.
Becomes(d, r) == resolver' = [resolver EXCEPT ![d] = r]

\* One database call may fail.
Fault(d) ==
    /\ d \in Active /\ made <= MaxDisturbed
    /\ faults < MaxFaults /\ faults' = faults + 1
NoFault == faults' = faults

-----------------------------------------------------------------------------
(* Commits that appear on a device *)

\* SynchronousAddCommits: the rows are written and the watchers called in one
\* task; OnNewCommits posts a check, which may be delayed when sync made them.
AddCommits(d, new, remote, r) ==
    LET all == commits[d] \cup new
        parents == UNION {c.ps : c \in new \ commits[d]}
    IN /\ commits' = [commits EXCEPT ![d] = all]
       /\ heads' = [heads EXCEPT ![d] = (@ \cup (new \ commits[d])) \ parents]
       /\ Becomes(d, Post(r, remote))

\* A client of the device commits a change on top of a head.
ClientCommits(d) ==
    /\ made < Len(Write)
    /\ made < MaxDisturbed \/ (factories = {} /\ faults = 0)
    /\ made' = made + 1
    /\ \E h \in heads[d], w \in Write[made + 1] :
          /\ w[1] = d /\ w[3] # h.val[w[2]]
          /\ AddCommits(d, {CommitOf({h}, [h.val EXCEPT ![w[2]] = w[3]], made + 1)}, FALSE, resolver[d])
    /\ UNCHANGED <<cloud, factory, asked, missed, factories, faults>>

\* PageUpload sends the unsynced commits when the page has a single head.
Upload(d) ==
    /\ Cardinality(heads[d]) = 1
    /\ commits[d] \ cloud # {}
    /\ cloud' = cloud \cup commits[d]
    /\ UNCHANGED <<commits, heads, resolver, factory, asked, missed, bounds>>

\* PageDownload adds what the cloud has and the device has not.
Download(d) ==
    /\ cloud \ commits[d] # {}
    /\ AddCommits(d, cloud, TRUE, resolver[d])
    /\ UNCHANGED <<cloud, factory, asked, missed, bounds>>

-----------------------------------------------------------------------------
(* Tasks of the main loop *)

Front(d, kind) == resolver[d].tasks # <<>> /\ Head(resolver[d].tasks).kind = kind
Popped(d) == [resolver[d] EXCEPT !.tasks = Tail(@)]

Busy(r) == r.strategy = None \/ r.merge.pc # "none" \/ r.checking \/ r.inDelay

\* CheckConflicts: a request is dropped while another one is under way.  The
\* heads are read now and answered in a task posted now.
CheckConflicts(d, r, delay) ==
    IF Busy(r) THEN r
    ELSE [r EXCEPT !.checking = TRUE,
                   !.tasks = Append(@, [kind |-> "heads", delay |-> delay, heads |-> heads[d]])]

RunCheck(d) ==
    /\ Front(d, "check")
    /\ Becomes(d, CheckConflicts(d, Popped(d), Head(resolver[d].tasks).delay))
    /\ UNCHANGED <<store, factory, asked, missed, bounds>>

\* The delayed task posted for two merge commits.
DelayExpires(d) ==
    /\ resolver[d].inDelay
    /\ Becomes(d, CheckConflicts(d, [resolver[d] EXCEPT !.inDelay = FALSE], FALSE))
    /\ UNCHANGED <<store, factory, asked, missed, bounds>>

\* The answer of GetHeadCommitIds.
HeadsAnswered(d) ==
    /\ Front(d, "heads")
    /\ LET t == Head(resolver[d].tasks)
           r == [Popped(d) EXCEPT !.checking = FALSE]
           first == Oldest(t.heads)
           second == Oldest(t.heads \ {first})
       IN Becomes(d,
            IF Cardinality(t.heads) = 1 THEN [r EXCEPT !.waiting = FALSE]
            ELSE IF r.strategy = None THEN r
            ELSE [r EXCEPT !.merge = [NoMerge EXCEPT !.pc = "commits", !.left = first,
                                                     !.right = second, !.delay = t.delay]])
    /\ missed' = [missed EXCEPT ![d] = FALSE]
    /\ UNCHANGED <<store, factory, asked, bounds>>

\* It failed: nothing looks at the heads again until the next commit.
HeadsFail(d) ==
    /\ Front(d, "heads")
    /\ Fault(d)
    /\ Becomes(d, [Popped(d) EXCEPT !.checking = FALSE])
    /\ missed' = [missed EXCEPT ![d] = TRUE]
    /\ UNCHANGED <<store, factory, asked, made, factories>>

-----------------------------------------------------------------------------
(* A merge under way *)

At(d, pc) == resolver[d].merge.pc = pc
Goes(d, m) == Becomes(d, [resolver[d] EXCEPT !.merge = m])
Ends(d) == Becomes(d, Cleanup(resolver[d]))
GivesUp(d) == Fault(d) \/ (resolver[d].merge.cancelled /\ NoFault)

BothMerges(m) == Cardinality(m.left.ps) = 2 /\ Cardinality(m.right.ps) = 2

\* The bound on merging merges is reached.
Unending(d) ==
    /\ At(d, "commits") /\ ~resolver[d].merge.delay
    /\ BothMerges(resolver[d].merge) /\ Cardinality(commits[d]) >= MaxCommits

\* The two commits are there: two merges are put off when sync brought them;
\* equal contents need no strategy.
CommitsRead(d) ==
    LET r == resolver[d]
        m == r.merge
    IN /\ At(d, "commits")
       /\ \/ /\ BothMerges(m) /\ m.delay
             /\ Becomes(d, [r EXCEPT !.inDelay = TRUE, !.merge = NoMerge])
          \/ /\ ~(BothMerges(m) /\ m.delay)
             /\ ~Unending(d)
             /\ IF m.left.val = m.right.val
                THEN Goes(d, [m EXCEPT !.pc = "journal", !.how = "same", !.val = m.left.val])
                ELSE IF r.next # Keep THEN Ends(d)
                ELSE Goes(d, [m EXCEPT !.pc = "ancestor"])
       /\ UNCHANGED <<store, factory, asked, missed, bounds>>

\* FindCommonAncestor answers: the strategy starts unless it was replaced.
\* Last-one-wins applies the newer commit to the older one, the other two the
\* older commit to the newer one.
AncestorFound(d) ==
    LET r == resolver[d]
        m == r.merge
        found == [m EXCEPT !.anc = FindCommonAncestor(m.left, m.right, commits[d]),
                           !.how = r.strategy, !.by = r.strategy]
        swapped == [found EXCEPT !.left = m.right, !.right = m.left]
    IN /\ At(d, "ancestor")
       /\ \/ NoFault /\ r.next # Keep /\ Ends(d)
          \/ r.next = Keep /\ Fault(d) /\ Ends(d)
          \/ /\ NoFault /\ r.next = Keep
             /\ Goes(d, CASE r.strategy = "low" -> [found EXCEPT !.pc = "journal"]
                          [] r.strategy = "auto" -> [swapped EXCEPT !.pc = "compare"]
                          [] r.strategy = "custom" -> [swapped EXCEPT !.pc = "journal"])
       /\ UNCHANGED <<store, factory, asked, missed, made, factories>>

\* AutoMerger: both diffs are known; an overlap goes to the client.
Compared(d) ==
    LET m == resolver[d].merge
    IN /\ At(d, "compare")
       /\ \/ GivesUp(d) /\ Ends(d)
          \/ /\ NoFault /\ ~m.cancelled
             /\ Goes(d, [m EXCEPT !.pc = "journal",
                                  !.how = IF Distinct(m.anc, m.left, m.right) THEN "auto"
                                          ELSE "custom"])
       /\ UNCHANGED <<store, factory, asked, missed, made, factories>>

\* StartMergeCommit answers and the entries are put in the journal; any of
\* these calls may fail or find the merge cancelled.
JournalStarted(d) ==
    LET m == resolver[d].merge
    IN /\ At(d, "journal")
       /\ \/ GivesUp(d) /\ Ends(d)
          \/ /\ NoFault /\ ~m.cancelled
             /\ Goes(d, CASE m.how = "same" -> [m EXCEPT !.pc = "commit"]
                          [] m.how = "custom" -> [m EXCEPT !.pc = "client"]
                          [] OTHER -> [m EXCEPT !.pc = "commit",
                                                !.val = Apply(m.anc, m.left, m.right)])
       /\ UNCHANGED <<store, factory, asked, missed, made, factories>>

\* The client's ConflictResolver answers with Merge,
\* MergeNonConflictingEntries and Done, or a call of it fails.  The contents it
\* chooses are its own affair: here left, right or empty contents.
ClientResolves(d) ==
    LET m == resolver[d].merge
    IN /\ At(d, "client")
       /\ \/ Fault(d) /\ Ends(d)
          \/ /\ NoFault
             /\ Cardinality(commits[d]) < MaxMergeCommits
             /\ \E val \in {m.left.val, m.right.val, Root.val} :
                   Goes(d, [m EXCEPT !.pc = "commit", !.val = val])
       /\ UNCHANGED <<store, factory, asked, missed, made, factories>>

\* CommitJournal writes the merge, or fails; a cancel comes too late.
MergeCommitted(d) ==
    LET r == resolver[d]
        m == r.merge
    IN /\ At(d, "commit")
       /\ \/ Fault(d) /\ Ends(d) /\ UNCHANGED <<commits, heads>>
          \/ /\ NoFault
             /\ AddCommits(d, {CommitOf({m.left, m.right}, m.val, 0)}, FALSE,
                           [r EXCEPT !.merge.pc = "finish"])
       /\ UNCHANGED <<cloud, factory, asked, missed, made, factories>>

\* Its journal is removed and the callback lets the cleanup go.
MergeFinished(d) ==
    /\ At(d, "finish")
    /\ Ends(d)
    /\ UNCHANGED <<store, factory, asked, missed, bounds>>

-----------------------------------------------------------------------------
(* LedgerMergeManager *)

\* GetResolverStrategyForPage with the factory f.
StrategyForPage(d, f, r) ==
    /\ Becomes(d, IF f = "none" THEN SetMergeStrategy(r, "low")
                  ELSE IF f = "error" THEN SetMergeStrategy(r, None)
                  ELSE r)
    /\ asked' = [asked EXCEPT ![d] = (f = "ok")]

SetFactory(d) ==
    /\ d \in Active \ factories /\ made <= MaxDisturbed
    /\ factories' = factories \cup {d}
    /\ \E f \in {"none", "ok"} :
          /\ factory' = [factory EXCEPT ![d] = f]
          /\ StrategyForPage(d, f, SetMergeStrategy(resolver[d], None))
    /\ UNCHANGED <<store, missed, made, faults>>

PolicyAnswered(d) ==
    /\ asked[d]
    /\ asked' = [asked EXCEPT ![d] = FALSE]
    /\ \E p \in Policy : Becomes(d, SetMergeStrategy(resolver[d], p))
    /\ UNCHANGED <<store, factory, missed, bounds>>

\* The client is gone: its GetPolicy call is never answered.
FactoryLost(d) ==
    /\ factory[d] = "ok"
    /\ Fault(d)
    /\ factory' = [factory EXCEPT ![d] = "error"]
    /\ asked' = [asked EXCEPT ![d] = FALSE]
    /\ UNCHANGED <<store, resolver, missed, made, factories>>

\* The connection of the strategy's ConflictResolver breaks: its merge is
\* cancelled and ResetStrategyForPage asks for another strategy.
ResolverLost(d) ==
    /\ resolver[d].strategy \in {"auto", "custom"}
    /\ Fault(d)
    /\ StrategyForPage(d, factory[d], SetMergeStrategy(Cancel(resolver[d]), None))
    /\ UNCHANGED <<store, factory, missed, made, factories>>

\* Page::WaitForConflictResolution: answered at once when nothing is under
\* way, else with RegisterNoConflictCallback; the calls of a device that wait
\* are answered together.
WaitForConflictResolution(d) ==
    /\ d \in Active /\ made <= MaxDisturbed
    /\ HasUnfinishedMerges(resolver[d])
    /\ Becomes(d, [resolver[d] EXCEPT !.waiting = TRUE])
    /\ UNCHANGED <<store, factory, asked, missed, bounds>>

-----------------------------------------------------------------------------

Loop(d) ==
    \/ RunCheck(d) \/ DelayExpires(d) \/ HeadsAnswered(d) \/ HeadsFail(d)
    \/ CommitsRead(d) \/ AncestorFound(d) \/ Compared(d) \/ JournalStarted(d)
    \/ ClientResolves(d) \/ MergeCommitted(d) \/ MergeFinished(d)

Next ==
    \E d \in Device :
        \/ Loop(d)
        \/ ClientCommits(d) \/ Upload(d) \/ Download(d)
        \/ SetFactory(d) \/ PolicyAnswered(d) \/ FactoryLost(d) \/ ResolverLost(d)
        \/ WaitForConflictResolution(d)

\* The main loops run their tasks, storage and clients answer, and the page is
\* synced; nobody has to commit, to set a factory or to fail.  No fairness
\* between the devices is needed.
Progress == \E d \in Device : Loop(d) \/ Upload(d) \/ Download(d) \/ PolicyAnswered(d)

Fairness == WF_vars(Progress)

Spec == Init /\ [][Next]_vars /\ Fairness

-----------------------------------------------------------------------------
(* Properties *)

MergeType ==
    [pc : {"none", "commits", "ancestor"} \cup InStrategy, how : {"low", "auto", "custom", "same", None},
     by : Policy \cup {"low", None}, val : [Key -> Value], cancelled : BOOLEAN, delay : BOOLEAN]

\* Types, and that every device holds the history of its commits.
TypeOK ==
    /\ \A d \in Device :
          /\ \A c \in commits[d] : c.ps \subseteq commits[d] /\ c.val \in [Key -> Value]
          /\ heads[d] \subseteq commits[d] /\ heads[d] # {}
          /\ resolver[d].strategy \in Policy \cup {"low", None}
          /\ resolver[d].next \in Policy \cup {"low", None, Keep}
          /\ {resolver[d].merge.left, resolver[d].merge.right, resolver[d].merge.anc} \subseteq commits[d]
          /\ [f \in {"pc", "how", "by", "val", "cancelled", "delay"} |-> resolver[d].merge[f]] \in MergeType
    /\ cloud \subseteq UNION {commits[d] : d \in Device}
    /\ factory \in [Device -> {"none", "ok", "error"}]
    /\ asked \in [Device -> BOOLEAN] /\ missed \in [Device -> BOOLEAN]

\* The commits of all devices.
All == UNION {commits[d] : d \in Device}

\* c and its ancestors.
Past(c) ==
    LET past[x \in All] == {x} \cup UNION {past[p] : p \in x.ps}
    IN past[c]

\* Every path from c to the first commit goes through a.
Dominates(a, c) ==
    LET avoids[x \in All] == x # a /\ (x = Root \/ \E p \in x.ps : avoids[p])
    IN ~avoids[c]

\* Whenever a merge looks for the common ancestor, FindCommonAncestor would
\* give, for a head and any commit, the nearest commit that all of the history of both
\* commits goes through, also when the histories cross or one is part of the
\* other, so that the changes from it to either commit are all there is to merge.
AncestorIsNearest ==
    \A d \in {e \in Device : At(e, "ancestor")} : \A h \in heads[d], c \in commits[d] :
        LET common == {a \in Past(h) \cap Past(c) : Dominates(a, h) /\ Dominates(a, c)}
            found == FindCommonAncestor(h, c, commits[d])
        IN h # c => found \in common /\ common \subseteq Past(found)

\* The strategy object is never replaced while one of its mergers is at work,
\* whatever SetFactory, a lost connection or a late policy does meanwhile.
StrategyOutlivesMerge ==
    \A d \in Device : resolver[d].merge.by # None => resolver[d].merge.by = resolver[d].strategy

\* Why a conflict of d may stay: no strategy is installed, the heads could not
\* be read, the client's resolver has used up its bound, or the devices have
\* gone on merging each other's merges up to the bound.  Three commits can make
\* them do so for ever: nothing but the growing delay (backoff_) ends it.
Excused(d) ==
    \/ resolver[d].strategy = None \/ missed[d]
    \/ At(d, "client") /\ Cardinality(commits[d]) >= MaxMergeCommits
    \/ Unending(d)

\* When the clients pause, all devices end with the same single head, unless
\* they go on merging merges: no conflict is overlooked because its check was
\* dropped while a merge, another check or the delay was under way.
Converges ==
    []<>((\E d \in Device : Excused(d)) \/ \E c \in cloud : \A d \in Device : heads[d] = {c})

=============================================================================
