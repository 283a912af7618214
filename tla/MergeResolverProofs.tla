------------------------- MODULE MergeResolverProofs -------------------------
(***************************************************************************)
(* Proofs about MergeResolver: for any number of devices, commits and      *)
(* faults, a strategy object is not replaced while one of its mergers is   *)
(* at work, and the search for the common ancestor ends with the nearest   *)
(* commit that all of the history of both commits goes through.            *)
(***************************************************************************)
EXTENDS MergeResolver, WellFoundedInduction, FiniteSetTheorems, TLAPS

Strategy == Policy \cup {"low"}

\* The fields of a resolver and of its merge.
Shape(r) ==
    /\ DOMAIN r = {"strategy", "next", "merge", "checking", "inDelay", "waiting", "tasks"}
    /\ DOMAIN r.merge = {"pc", "left", "right", "anc", "how", "val", "by", "cancelled", "delay"}

\* A merge runs only while a strategy is installed, and a merger belongs to the
\* strategy that is.
StrategyOK(r) ==
    /\ r.strategy \in Strategy \cup {None}
    /\ r.next \in Strategy \cup {None, Keep}
    /\ r.merge.pc # "none" => r.strategy # None
    /\ r.merge.by # None => r.merge.by = r.strategy /\ r.merge.pc \in InStrategy

ResolverOK(r) == Shape(r) /\ StrategyOK(r)

\* The inductive invariant.
IInv == DOMAIN resolver = Device /\ \A d \in Device : ResolverOK(resolver[d])

-----------------------------------------------------------------------------
(* What the calls do to the record of one resolver *)

\* The fields of the empty merge.
LEMMA NoMergeShape ==
    /\ DOMAIN NoMerge = {"pc", "left", "right", "anc", "how", "val", "by", "cancelled", "delay"}
    /\ NoMerge.pc = "none" /\ NoMerge.by = None
  BY DEF NoMerge

\* PostCheckConflicts
LEMMA PostOK ==
    ASSUME NEW r, ResolverOK(r), NEW delay
    PROVE  ResolverOK(Post(r, delay)) /\ Post(r, delay).merge = r.merge
  BY DEF Post, ResolverOK, Shape, StrategyOK

\* The cleanup installs the strategy that waited, after the merge is gone.
LEMMA CleanupOK ==
    ASSUME NEW r, ResolverOK(r)
    PROVE  ResolverOK(Cleanup(r))
  <1> DEFINE s == IF r.next = Keep THEN r.strategy ELSE r.next
             q == [r EXCEPT !.merge = NoMerge, !.strategy = s, !.next = Keep]
  <1>1. s \in Strategy \cup {None}
    BY DEF ResolverOK, StrategyOK
  <1> HIDE DEF s
  <1>2. /\ DOMAIN q = DOMAIN r /\ q.merge = NoMerge /\ q.strategy = s /\ q.next = Keep
    BY DEF ResolverOK, Shape
  <1>3. Cleanup(r) = Post(q, r.merge.delay)
    BY DEF Cleanup, s, ResolverOK, Shape
  <1> HIDE DEF q
  <1>4. ResolverOK(q)
    BY <1>1, <1>2, NoMergeShape DEF ResolverOK, Shape, StrategyOK
  <1> QED
    BY <1>3, <1>4, PostOK

\* A record whose strategy stays and whose merge goes on.
LEMMA MergeGoesOn ==
    ASSUME NEW r, ResolverOK(r), NEW m, DOMAIN m = DOMAIN r.merge, r.strategy # None,
           m.by # None => m.by = r.strategy /\ m.pc \in InStrategy
    PROVE  ResolverOK([r EXCEPT !.merge = m])
  <1> DEFINE q == [r EXCEPT !.merge = m]
  <1>1. DOMAIN q = DOMAIN r /\ q.merge = m /\ q.strategy = r.strategy /\ q.next = r.next
    BY DEF ResolverOK, Shape
  <1> HIDE DEF q
  <1>2. ResolverOK(q)
    BY <1>1 DEF ResolverOK, Shape, StrategyOK
  <1> QED
    BY <1>2 DEF q

\* Cancel lets a merger end, or ends what the client holds.
LEMMA CancelOK ==
    ASSUME NEW r, ResolverOK(r)
    PROVE  ResolverOK(Cancel(r))
  <1>1. CASE r.merge.pc \notin InStrategy \/ r.merge.by = None
    BY <1>1 DEF Cancel
  <1>2. CASE ~(r.merge.pc \notin InStrategy \/ r.merge.by = None) /\ r.merge.pc = "client"
    BY <1>2, CleanupOK DEF Cancel
  <1>3. CASE ~(r.merge.pc \notin InStrategy \/ r.merge.by = None) /\ r.merge.pc # "client"
    <2> DEFINE m == [r.merge EXCEPT !.cancelled = TRUE]
    <2>1. DOMAIN m = DOMAIN r.merge /\ m.by = r.merge.by /\ m.pc = r.merge.pc
      BY DEF ResolverOK, Shape
    <2>2. Cancel(r) = [r EXCEPT !.merge = m]
      BY <1>3 DEF Cancel
    <2>3. r.strategy # None /\ (m.by # None => m.by = r.strategy /\ m.pc \in InStrategy)
      BY <1>3, <2>1 DEF ResolverOK, StrategyOK, InStrategy
    <2> HIDE DEF m
    <2> QED
      BY <2>1, <2>2, <2>3, MergeGoesOn
  <1> QED
    BY <1>1, <1>2, <1>3

\* A new strategy is installed at once only if no merge is under way.
LEMMA SetMergeStrategyOK ==
    ASSUME NEW r, ResolverOK(r), NEW s \in Strategy \cup {None}
    PROVE  ResolverOK(SetMergeStrategy(r, s))
  <1>1. CASE r.merge.pc # "none"
    <2> DEFINE q == [r EXCEPT !.next = s]
    <2>1. DOMAIN q = DOMAIN r /\ q.merge = r.merge /\ q.strategy = r.strategy /\ q.next = s
      BY DEF ResolverOK, Shape
    <2>2. SetMergeStrategy(r, s) = Cancel(q)
      BY <1>1 DEF SetMergeStrategy
    <2> HIDE DEF q
    <2>3. ResolverOK(q)
      BY <2>1 DEF ResolverOK, Shape, StrategyOK
    <2> QED
      BY <2>2, <2>3, CancelOK
  <1>2. CASE r.merge.pc = "none"
    <2> DEFINE q == [r EXCEPT !.strategy = s]
    <2>1. DOMAIN q = DOMAIN r /\ q.merge = r.merge /\ q.strategy = s /\ q.next = r.next
      BY DEF ResolverOK, Shape
    <2>2. SetMergeStrategy(r, s) \in {q, Post(q, FALSE)}
      BY <1>2 DEF SetMergeStrategy
    <2> HIDE DEF q
    <2>3. ResolverOK(q)
      BY <1>2, <2>1 DEF ResolverOK, Shape, StrategyOK, InStrategy
    <2> QED
      BY <2>2, <2>3, PostOK
  <1> QED
    BY <1>1, <1>2

\* The tasks of the loop and the flags say nothing of the strategy.
LEMMA FlagsOK ==
    ASSUME NEW r, ResolverOK(r), NEW q, DOMAIN q = DOMAIN r,
           q.merge = r.merge, q.strategy = r.strategy, q.next = r.next
    PROVE  ResolverOK(q)
  BY DEF ResolverOK, Shape, StrategyOK

LEMMA CheckConflictsOK ==
    ASSUME NEW d, NEW r, ResolverOK(r), NEW delay
    PROVE  ResolverOK(CheckConflicts(d, r, delay))
  <1> DEFINE q == [r EXCEPT !.checking = TRUE,
                   !.tasks = Append(@, [kind |-> "heads", delay |-> delay, heads |-> heads[d]])]
  <1>1. DOMAIN q = DOMAIN r /\ q.merge = r.merge /\ q.strategy = r.strategy /\ q.next = r.next
    BY DEF ResolverOK, Shape
  <1>2. CheckConflicts(d, r, delay) \in {r, q}
    BY DEF CheckConflicts
  <1> HIDE DEF q
  <1> QED
    BY <1>1, <1>2, FlagsOK

-----------------------------------------------------------------------------
(* The steps *)

\* Only the resolver of one device moves.
LEMMA OneMoves ==
    ASSUME IInv, NEW d \in Device, NEW r, ResolverOK(r), Becomes(d, r)
    PROVE  IInv'
  BY DEF IInv, Becomes

\* New commits post a check.
LEMMA CommitsOK ==
    ASSUME IInv, NEW d \in Device, NEW r, ResolverOK(r), NEW new, NEW remote,
           AddCommits(d, new, remote, r)
    PROVE  IInv'
  BY PostOK, OneMoves DEF AddCommits

LEMMA EndsOK ==
    ASSUME IInv, NEW d \in Device, Ends(d)
    PROVE  IInv'
  BY CleanupOK, OneMoves DEF Ends, IInv

\* A merge of d goes on.
LEMMA GoesOK ==
    ASSUME IInv, NEW d \in Device, NEW m, Goes(d, m), DOMAIN m = DOMAIN NoMerge,
           resolver[d].strategy # None,
           m.by # None => m.by = resolver[d].strategy /\ m.pc \in InStrategy
    PROVE  IInv'
  <1>1. ResolverOK(resolver[d]) /\ DOMAIN m = DOMAIN resolver[d].merge
    BY NoMergeShape DEF IInv, ResolverOK, Shape
  <1>2. ResolverOK([resolver[d] EXCEPT !.merge = m])
    BY <1>1, MergeGoesOn
  <1> QED
    BY <1>2, OneMoves DEF Goes

\* The tasks of the loop.
LEMMA TasksOK ==
    ASSUME IInv, NEW d \in Device,
           RunCheck(d) \/ DelayExpires(d) \/ HeadsAnswered(d) \/ HeadsFail(d)
    PROVE  IInv'
  <1> DEFINE r == resolver[d]
             p == Popped(d)
  <1>1. ResolverOK(r)
    BY DEF IInv
  <1>2. /\ DOMAIN p = DOMAIN r /\ p.merge = r.merge /\ p.strategy = r.strategy /\ p.next = r.next
        /\ ResolverOK(p)
    <2>1. DOMAIN p = DOMAIN r /\ p.merge = r.merge /\ p.strategy = r.strategy /\ p.next = r.next
      BY <1>1 DEF Popped, ResolverOK, Shape
    <2> HIDE DEF p
    <2> QED
      BY <1>1, <2>1, FlagsOK
  <1> DEFINE idle == [p EXCEPT !.checking = FALSE]
  <1>3. /\ DOMAIN idle = DOMAIN r /\ idle.merge = r.merge /\ idle.strategy = r.strategy
        /\ idle.next = r.next
    BY <1>1, <1>2 DEF ResolverOK, Shape
  <1>4. CASE RunCheck(d)
    BY <1>2, <1>4, CheckConflictsOK, OneMoves DEF RunCheck
  <1>5. CASE DelayExpires(d)
    <2> DEFINE q == [r EXCEPT !.inDelay = FALSE]
    <2>1. DOMAIN q = DOMAIN r /\ q.merge = r.merge /\ q.strategy = r.strategy /\ q.next = r.next
      BY <1>1 DEF ResolverOK, Shape
    <2>2. Becomes(d, CheckConflicts(d, q, FALSE))
      BY <1>5 DEF DelayExpires
    <2> HIDE DEF q
    <2>3. ResolverOK(q)
      BY <1>1, <2>1, FlagsOK
    <2> QED
      BY <2>2, <2>3, CheckConflictsOK, OneMoves
  <1>6. CASE HeadsFail(d)
    <2>1. Becomes(d, idle)
      BY <1>6 DEF HeadsFail
    <2> HIDE DEF idle
    <2> QED
      BY <1>1, <1>3, <2>1, FlagsOK, OneMoves
  <1>7. CASE HeadsAnswered(d)
    <2> DEFINE t == Head(r.tasks)
               first == Oldest(t.heads)
               second == Oldest(t.heads \ {first})
               q == [idle EXCEPT !.waiting = FALSE]
               m == [NoMerge EXCEPT !.pc = "commits", !.left = first, !.right = second,
                                    !.delay = t.delay]
    <2>1. \/ Becomes(d, q) \/ Becomes(d, idle)
          \/ idle.strategy # None /\ Becomes(d, [idle EXCEPT !.merge = m])
      BY <1>7 DEF HeadsAnswered
    <2>2. DOMAIN m = DOMAIN NoMerge /\ m.by = None
      BY NoMergeShape
    <2>3. DOMAIN q = DOMAIN r /\ q.merge = r.merge /\ q.strategy = r.strategy /\ q.next = r.next
      BY <1>1, <1>3 DEF ResolverOK, Shape
    <2> HIDE DEF idle, q, m, first, second
    <2>4. ResolverOK(idle) /\ ResolverOK(q)
      BY <1>1, <1>3, <2>3, FlagsOK
    <2>5. DOMAIN m = DOMAIN idle.merge
      BY <2>2, <2>4, NoMergeShape DEF ResolverOK, Shape
    <2>6. idle.strategy # None => ResolverOK([idle EXCEPT !.merge = m])
      BY <2>2, <2>4, <2>5, MergeGoesOn
    <2> QED
      BY <2>1, <2>4, <2>6, OneMoves
  <1> QED
    BY <1>4, <1>5, <1>6, <1>7
\* The steps of a merge: a merger is made for the strategy there is, and a step
\* of it changes neither.
LEMMA MergeStepsOK ==
    ASSUME IInv, NEW d \in Device,
           \/ CommitsRead(d) \/ AncestorFound(d) \/ Compared(d) \/ JournalStarted(d)
           \/ ClientResolves(d) \/ MergeCommitted(d) \/ MergeFinished(d)
    PROVE  IInv'
  <1> DEFINE r == resolver[d]
             m == r.merge
  <1>1. ResolverOK(r) /\ DOMAIN m = DOMAIN NoMerge
    BY NoMergeShape DEF IInv, ResolverOK, Shape
  <1>2. /\ r.strategy \in Strategy \cup {None}
        /\ m.pc # "none" => r.strategy # None
        /\ m.by # None => m.by = r.strategy /\ m.pc \in InStrategy
    BY <1>1 DEF ResolverOK, StrategyOK
  <1>3. CASE CommitsRead(d)
    <2>0. m.pc = "commits" /\ r.strategy # None /\ m.by = None
      BY <1>2, <1>3 DEF CommitsRead, At, InStrategy
    <2>1. CASE Becomes(d, [r EXCEPT !.inDelay = TRUE, !.merge = NoMerge])
      <3> DEFINE q == [r EXCEPT !.inDelay = TRUE, !.merge = NoMerge]
      <3>1. DOMAIN q = DOMAIN r /\ q.merge = NoMerge /\ q.strategy = r.strategy /\ q.next = r.next
        BY <1>1 DEF ResolverOK, Shape
      <3> HIDE DEF q
      <3>2. ResolverOK(q)
        BY <1>1, <3>1, NoMergeShape DEF ResolverOK, Shape, StrategyOK
      <3> QED
        BY <2>1, <3>2, OneMoves DEF q
    <2>2. CASE Goes(d, [m EXCEPT !.pc = "journal", !.how = "same", !.val = m.left.val])
      <3> DEFINE n == [m EXCEPT !.pc = "journal", !.how = "same", !.val = m.left.val]
      <3>1. DOMAIN n = DOMAIN NoMerge /\ n.by = None
        BY <1>1, <2>0, NoMergeShape
      <3> HIDE DEF n
      <3> QED
        BY <2>0, <2>2, <3>1, GoesOK DEF n
    <2>3. CASE Ends(d)
      BY <2>3, EndsOK
    <2>4. CASE Goes(d, [m EXCEPT !.pc = "ancestor"])
      <3> DEFINE n == [m EXCEPT !.pc = "ancestor"]
      <3>1. DOMAIN n = DOMAIN NoMerge /\ n.by = None
        BY <1>1, <2>0, NoMergeShape
      <3> HIDE DEF n
      <3> QED
        BY <2>0, <2>4, <3>1, GoesOK DEF n
    <2> QED
      BY <1>3, <2>1, <2>2, <2>3, <2>4 DEF CommitsRead
  <1>4. CASE AncestorFound(d)
    <2> DEFINE found == [m EXCEPT !.anc = FindCommonAncestor(m.left, m.right, commits[d]),
                                  !.how = r.strategy, !.by = r.strategy]
               swapped == [found EXCEPT !.left = m.right, !.right = m.left]
    <2>0. r.strategy # None /\ r.strategy \in Strategy
      BY <1>2, <1>4 DEF AncestorFound, At
    <2>1. DOMAIN found = DOMAIN NoMerge /\ found.by = r.strategy
      BY <1>1, NoMergeShape
    <2>2. DOMAIN swapped = DOMAIN NoMerge /\ swapped.by = r.strategy
      BY <2>1, NoMergeShape
    <2>3. \/ Ends(d)
          \/ Goes(d, CASE r.strategy = "low" -> [found EXCEPT !.pc = "journal"]
                       [] r.strategy = "auto" -> [swapped EXCEPT !.pc = "compare"]
                       [] r.strategy = "custom" -> [swapped EXCEPT !.pc = "journal"])
      BY <1>4 DEF AncestorFound
    <2> HIDE DEF found, swapped
    <2>4. r.strategy \in {"low", "auto", "custom"}
      BY <2>0, PolicyAssumption DEF Strategy
    <2>5. \/ Ends(d)
          \/ \E n : /\ Goes(d, n)
                    /\ n \in {[found EXCEPT !.pc = "journal"], [swapped EXCEPT !.pc = "compare"],
                              [swapped EXCEPT !.pc = "journal"]}
      BY <2>3, <2>4
    <2>6. ASSUME NEW n, n \in {[found EXCEPT !.pc = "journal"], [swapped EXCEPT !.pc = "compare"],
                               [swapped EXCEPT !.pc = "journal"]}
          PROVE  DOMAIN n = DOMAIN NoMerge /\ n.by = r.strategy /\ n.pc \in InStrategy
      BY <2>1, <2>2, <2>6, NoMergeShape DEF InStrategy
    <2>7. ASSUME NEW n, Goes(d, n), DOMAIN n = DOMAIN NoMerge, n.by = r.strategy,
                 n.pc \in InStrategy
          PROVE  IInv'
      BY <2>0, <2>7, GoesOK
    <2> QED
      BY <2>5, <2>6, <2>7, EndsOK
  <1>5. ASSUME m.pc \in InStrategy, NEW n, Goes(d, n), DOMAIN n = DOMAIN NoMerge, n.by = m.by,
               n.pc \in InStrategy
        PROVE  IInv'
    <2>1. r.strategy # None
      BY <1>2, <1>5 DEF InStrategy
    <2> QED
      BY <1>2, <1>5, <2>1, GoesOK
  <1>6. CASE Compared(d)
    <2> DEFINE n == [m EXCEPT !.pc = "journal",
                              !.how = IF Distinct(m.anc, m.left, m.right) THEN "auto" ELSE "custom"]
    <2>1. Ends(d) \/ Goes(d, n)
      BY <1>6 DEF Compared
    <2>2. DOMAIN n = DOMAIN NoMerge /\ n.by = m.by /\ n.pc \in InStrategy
      BY <1>1, NoMergeShape DEF InStrategy
    <2>3. m.pc \in InStrategy
      BY <1>6 DEF Compared, At, InStrategy
    <2> HIDE DEF n
    <2> QED
      BY <1>5, <2>1, <2>2, <2>3, EndsOK
  <1>7. CASE JournalStarted(d)
    <2>1. \/ Ends(d)
          \/ \E n : /\ Goes(d, n)
                    /\ n \in {[m EXCEPT !.pc = "commit"], [m EXCEPT !.pc = "client"],
                              [m EXCEPT !.pc = "commit", !.val = Apply(m.anc, m.left, m.right)]}
      BY <1>7 DEF JournalStarted
    <2>2. ASSUME NEW n,
                 n \in {[m EXCEPT !.pc = "commit"], [m EXCEPT !.pc = "client"],
                        [m EXCEPT !.pc = "commit", !.val = Apply(m.anc, m.left, m.right)]}
          PROVE  DOMAIN n = DOMAIN NoMerge /\ n.by = m.by /\ n.pc \in InStrategy
      BY <1>1, <2>2, NoMergeShape DEF InStrategy
    <2>3. m.pc \in InStrategy
      BY <1>7 DEF JournalStarted, At, InStrategy
    <2> QED
      BY <1>5, <2>1, <2>2, <2>3, EndsOK
  <1>8. CASE ClientResolves(d)
    <2>1. Ends(d) \/ \E val : Goes(d, [m EXCEPT !.pc = "commit", !.val = val])
      BY <1>8 DEF ClientResolves
    <2>2. ASSUME NEW val, Goes(d, [m EXCEPT !.pc = "commit", !.val = val]) PROVE IInv'
      <3> DEFINE n == [m EXCEPT !.pc = "commit", !.val = val]
      <3>1. DOMAIN n = DOMAIN NoMerge /\ n.by = m.by /\ n.pc \in InStrategy
        BY <1>1, NoMergeShape DEF InStrategy
      <3>2. m.pc \in InStrategy
        BY <1>8 DEF ClientResolves, At, InStrategy
      <3> HIDE DEF n
      <3> QED
        BY <1>5, <2>2, <3>1, <3>2 DEF n
    <2> QED
      BY <2>1, <2>2, EndsOK
  <1>9. CASE MergeCommitted(d)
    <2> DEFINE n == [m EXCEPT !.pc = "finish"]
               q == [r EXCEPT !.merge = n]
               c == CommitOf({m.left, m.right}, m.val, 0)
    <2>1. Ends(d) \/ AddCommits(d, {c}, FALSE, q)
      BY <1>9 DEF MergeCommitted
    <2>2. DOMAIN n = DOMAIN m /\ n.by = m.by /\ n.pc \in InStrategy
      BY <1>1, NoMergeShape DEF InStrategy
    <2>3. r.strategy # None
      BY <1>2, <1>9 DEF MergeCommitted, At
    <2> HIDE DEF n
    <2>4. ResolverOK(q)
      BY <1>1, <1>2, <2>2, <2>3, MergeGoesOn
    <2> HIDE DEF q, c
    <2> QED
      BY <2>1, <2>4, CommitsOK, EndsOK
  <1>10. CASE MergeFinished(d)
    BY <1>10, EndsOK DEF MergeFinished
  <1> QED
    BY <1>3, <1>4, <1>6, <1>7, <1>8, <1>9, <1>10

\* LedgerMergeManager sets strategies, in whatever order its answers come.
LEMMA ManagerStepsOK ==
    ASSUME IInv, NEW d \in Device,
           SetFactory(d) \/ PolicyAnswered(d) \/ ResolverLost(d)
    PROVE  IInv'
  <1> DEFINE r == resolver[d]
  <1>1. ResolverOK(r)
    BY DEF IInv
  <1>2. ASSUME NEW q, ResolverOK(q), NEW f, StrategyForPage(d, f, q) PROVE IInv'
    <2>1. ResolverOK(SetMergeStrategy(q, "low")) /\ ResolverOK(SetMergeStrategy(q, None))
      BY <1>2, SetMergeStrategyOK DEF Strategy
    <2> QED
      BY <1>2, <2>1, OneMoves DEF StrategyForPage
  <1>3. CASE SetFactory(d)
    <2>1. ResolverOK(SetMergeStrategy(r, None))
      BY <1>1, SetMergeStrategyOK
    <2> QED
      BY <1>2, <1>3, <2>1 DEF SetFactory
  <1>4. CASE PolicyAnswered(d)
    <2>1. PICK p \in Policy : Becomes(d, SetMergeStrategy(r, p))
      BY <1>4 DEF PolicyAnswered
    <2>2. ResolverOK(SetMergeStrategy(r, p))
      BY <1>1, SetMergeStrategyOK DEF Strategy
    <2> QED
      BY <2>1, <2>2, OneMoves
  <1>5. CASE ResolverLost(d)
    <2>1. ResolverOK(SetMergeStrategy(Cancel(r), None))
      BY <1>1, CancelOK, SetMergeStrategyOK
    <2> QED
      BY <1>2, <1>5, <2>1 DEF ResolverLost
  <1> QED
    BY <1>3, <1>4, <1>5

-----------------------------------------------------------------------------
(* The theorems *)

\* The invariant is inductive: a merge has a strategy from its first step to
\* its last, and its merger belongs to it.
THEOREM Invariance == Spec => []IInv
  <1>1. Init => IInv
    <2>1. ResolverOK(NewResolver)
      BY NoMergeShape DEF NewResolver, ResolverOK, Shape, StrategyOK, Strategy
    <2> QED
      BY <2>1 DEF Init, IInv
  <1>2. IInv /\ [Next]_vars => IInv'
    <2> SUFFICES ASSUME IInv, [Next]_vars PROVE IInv'
      OBVIOUS
    <2>1. CASE UNCHANGED vars
      BY <2>1 DEF vars, IInv
    <2>2. ASSUME NEW d \in Device, Loop(d) PROVE IInv'
      BY <2>2, TasksOK, MergeStepsOK DEF Loop
    <2>3. ASSUME NEW d \in Device, ClientCommits(d) PROVE IInv'
      BY <2>3, CommitsOK DEF ClientCommits, IInv
    <2>4. ASSUME NEW d \in Device, Download(d) PROVE IInv'
      BY <2>4, CommitsOK DEF Download, IInv
    <2>5. ASSUME NEW d \in Device, Upload(d) \/ FactoryLost(d) PROVE IInv'
      BY <2>5 DEF Upload, FactoryLost, IInv
    <2>6. ASSUME NEW d \in Device, SetFactory(d) \/ PolicyAnswered(d) \/ ResolverLost(d) PROVE IInv'
      BY <2>6, ManagerStepsOK
    <2>7. ASSUME NEW d \in Device, WaitForConflictResolution(d) PROVE IInv'
      <3> DEFINE q == [resolver[d] EXCEPT !.waiting = TRUE]
      <3>1. ResolverOK(resolver[d])
        BY <2>7 DEF IInv
      <3>2. /\ DOMAIN q = DOMAIN resolver[d] /\ q.merge = resolver[d].merge
            /\ q.strategy = resolver[d].strategy /\ q.next = resolver[d].next
        BY <3>1 DEF ResolverOK, Shape
      <3>3. Becomes(d, q)
        BY <2>7 DEF WaitForConflictResolution
      <3> HIDE DEF q
      <3> QED
        BY <3>1, <3>2, <3>3, <2>7, FlagsOK, OneMoves
    <2> QED
      BY <2>1, <2>2, <2>3, <2>4, <2>5, <2>6, <2>7 DEF Next
  <1> QED
    BY <1>1, <1>2, PTL DEF Spec

\* The strategy object is never replaced while one of its mergers is at work,
\* whatever SetFactory, a lost connection or a late policy does meanwhile: the
\* merger calls the strategy when it ends.
THEOREM MergersKeepTheirStrategy == Spec => []StrategyOutlivesMerge
  <1>1. IInv => StrategyOutlivesMerge
    BY DEF IInv, ResolverOK, StrategyOK, StrategyOutlivesMerge
  <1> QED
    BY <1>1, Invariance, PTL

-----------------------------------------------------------------------------
(* The search for the common ancestor *)

\* A commit whose parents are in K; the first commit is the only one without.
CommitIn(c, K) ==
    /\ c.g \in Nat /\ c.ts \in Nat /\ c.val \in [Key -> Value] /\ c.ps \subseteq K
    /\ c # Root => c.g >= 1 /\ c.ps # {} /\ \A p \in c.ps : p.g < c.g

\* A set of commits that holds the parents of each.
History(K) == Root \in K /\ \A c \in K : CommitIn(c, K)

\* The first commit.
LEMMA RootFacts == Root.ps = {} /\ Root.g = 0 /\ Root.ts = 0 /\ Root.val \in [Key -> Value]
  BY ValueAssumption DEF Root

\* A set of numbers has a least one.
LEMMA LeastNumber ==
    ASSUME NEW N, N \subseteq Nat, N # {}
    PROVE  \E x \in N : \A y \in N : x <= y
<1>1. PICK x \in N : \A y \in N : ~(<<y, x>> \in OpToRel(<, Nat))
  BY WFMin, NatLessThanWellFounded
<1>2. ASSUME NEW y \in N PROVE x <= y
  <2>1. x \in Nat /\ y \in Nat
    OBVIOUS
  <2>2. y < x => <<y, x>> \in OpToRel(<, Nat)
    BY <2>1 DEF OpToRel
  <2>3. ~(y < x)
    BY <1>1, <2>2
  <2> QED BY <2>1, <2>3
<1> QED BY <1>2

\* What holds of a commit whenever it holds of its parents holds of all.
LEMMA ParentsFirst ==
    ASSUME NEW K, History(K), NEW G, \A c \in K : c.ps \subseteq G => c \in G
    PROVE  K \subseteq G
<1> DEFINE N == {c.g : c \in K \ G}
<1> SUFFICES ASSUME K \ G # {} PROVE FALSE
  OBVIOUS
<1>1. N \subseteq Nat /\ N # {}
  BY DEF History, CommitIn
<1>2. PICK n \in N : \A m \in N : n <= m
  <2> HIDE DEF N
  <2> QED BY <1>1, LeastNumber
<1>3. PICK c \in K \ G : c.g = n
  OBVIOUS
<1>4. c.ps \subseteq G
  <2> SUFFICES ASSUME NEW p \in c.ps, p \notin G PROVE FALSE
    OBVIOUS
  <2>1. c # Root
    BY RootFacts
  <2>2. p \in K /\ p.g < c.g /\ p.g \in Nat /\ c.g \in Nat
    BY <2>1 DEF History, CommitIn
  <2>3. c.g <= p.g
    BY <1>2, <1>3, <2>2
  <2> QED BY <2>2, <2>3
<1> QED BY <1>4

-----------------------------------------------------------------------------
(* What the recursive definitions say *)

\* The past of a commit is the commit and the past of its parents.
LEMMA PastDef ==
    ASSUME History(All), NEW c \in All
    PROVE  Past(c) = {c} \cup UNION {Past(p) : p \in c.ps}
<1> DEFINE Shut(T) == \A z \in T : z.ps \subseteq T
           Up(x) == {y \in All : \A T \in SUBSET All : x \in T /\ Shut(T) => y \in T}
           F == [x \in All |-> Up(x)]
           H(f) == f = [x \in All |-> {x} \cup UNION {f[p] : p \in x.ps}]
           past == CHOOSE f : H(f)
<1>0. \A x \in All : x.ps \subseteq All
  BY DEF History, CommitIn
<1>1. ASSUME NEW x \in All PROVE Up(x) = {x} \cup UNION {Up(p) : p \in x.ps}
  <2>1. x \in Up(x)
    OBVIOUS
  <2>2. ASSUME NEW p \in x.ps, NEW y \in Up(p) PROVE y \in Up(x)
    BY <2>2
  <2>3. ASSUME NEW y \in Up(x), y # x PROVE \E p \in x.ps : y \in Up(p)
    <3> DEFINE U == {x} \cup UNION {Up(p) : p \in x.ps}
    <3>1. U \in SUBSET All /\ x \in U
      OBVIOUS
    <3>2. ASSUME NEW z \in U, NEW q \in z.ps PROVE q \in U
      <4>1. CASE z = x
        <5>1. q \in All /\ q \in Up(q)
          BY <1>0, <4>1
        <5> QED BY <4>1, <5>1
      <4>2. CASE z # x
        <5>1. PICK p \in x.ps : z \in Up(p)
          BY <4>2
        <5>2. q \in All
          BY <1>0, <5>1
        <5>3. q \in Up(p)
          BY <5>1, <5>2
        <5> QED BY <5>3
      <4> QED BY <4>1, <4>2
    <3>3. y \in U
      BY <3>1, <3>2
    <3> HIDE DEF Up
    <3> QED BY <2>3, <3>3
  <2> HIDE DEF Up
  <2> QED BY <2>1, <2>2, <2>3
<1> HIDE DEF Up
<1>2. H(F)
  <2>1. ASSUME NEW x \in All PROVE Up(x) = {x} \cup UNION {F[p] : p \in x.ps}
    <3>1. \A p \in x.ps : F[p] = Up(p)
      BY <1>0
    <3> HIDE DEF F
    <3> QED BY <1>1, <3>1
  <2> QED BY <2>1
<1> HIDE DEF F
<1>3. H(past)
  <2> HIDE DEF H
  <2> QED BY <1>2
<1>4. ASSUME NEW x \in All PROVE Past(x) = past[x]
  BY DEF Past
<1> HIDE DEF past
<1>5. past[c] = {c} \cup UNION {past[p] : p \in c.ps}
  BY <1>3
<1>6. \A p \in c.ps : Past(p) = past[p]
  BY <1>0, <1>4
<1> QED BY <1>4, <1>5, <1>6

\* A path avoids a if it does not begin there and ends or goes on.
LEMMA DominatesDef ==
    ASSUME History(All), NEW a, NEW c \in All
    PROVE  Dominates(a, c) <=> c = a \/ (c # Root /\ \A p \in c.ps : Dominates(a, p))
<1> DEFINE Avoids(y, T) == y # a /\ (y = Root \/ \E p \in y.ps : p \in T)
           L == {x \in All : \A T \in SUBSET All :
                   (\A y \in All : Avoids(y, T) => y \in T) => x \in T}
           F == [x \in All |-> x \in L]
           H(f) == f = [x \in All |-> x # a /\ (x = Root \/ \E p \in x.ps : f[p])]
           avoids == CHOOSE f : H(f)
<1>0. \A x \in All : x.ps \subseteq All
  BY DEF History, CommitIn
<1>1. ASSUME NEW x \in All, Avoids(x, L) PROVE x \in L
  <2> SUFFICES ASSUME NEW T \in SUBSET All, \A y \in All : Avoids(y, T) => y \in T
               PROVE  x \in T
    OBVIOUS
  <2>1. L \subseteq T
    OBVIOUS
  <2>2. Avoids(x, T)
    <3> HIDE DEF L
    <3> QED BY <1>1, <2>1
  <2> QED BY <2>2
<1>2. ASSUME NEW x \in L PROVE Avoids(x, L)
  <2> DEFINE T == {y \in L : Avoids(y, L)}
  <2>1. T \in SUBSET All /\ T \subseteq L
    OBVIOUS
  <2>2. ASSUME NEW y \in All, Avoids(y, T) PROVE y \in T
    <3>1. Avoids(y, L)
      <4> HIDE DEF L
      <4> QED BY <2>2
    <3>2. y \in L
      <4> HIDE DEF L
      <4> QED BY <1>1, <3>1
    <3> QED BY <3>1, <3>2
  <2>3. x \in T
    <3> HIDE DEF T, Avoids
    <3> QED BY <2>1, <2>2
  <2> QED BY <2>3
<1>3. L \subseteq All
  OBVIOUS
<1> HIDE DEF L
<1>4. H(F)
  <2>1. ASSUME NEW x \in All
        PROVE  (x \in L) = (x # a /\ (x = Root \/ \E p \in x.ps : F[p]))
    <3>1. \A p \in x.ps : F[p] <=> p \in L
      BY <1>0
    <3> HIDE DEF F
    <3>2. (\E p \in x.ps : F[p]) <=> (\E p \in x.ps : p \in L)
      BY <3>1
    <3>3. x \in L <=> x # a /\ (x = Root \/ \E p \in x.ps : p \in L)
      BY <1>1, <1>2
    <3> QED BY <3>2, <3>3
  <2> QED BY <2>1
<1> HIDE DEF F
<1>5. H(avoids)
  <2> HIDE DEF H
  <2> QED BY <1>4
<1>6. ASSUME NEW x \in All PROVE Dominates(a, x) = ~avoids[x]
  BY DEF Dominates
<1> HIDE DEF avoids
<1>7. avoids[c] = (c # a /\ (c = Root \/ \E p \in c.ps : avoids[p]))
  BY <1>5
<1>8. \A p \in c.ps : Dominates(a, p) = ~avoids[p]
  BY <1>0, <1>6
<1>9. ASSUME NEW x \in All PROVE avoids[x] \in BOOLEAN
  BY <1>5
<1> QED BY <1>0, <1>6, <1>7, <1>8, <1>9

-----------------------------------------------------------------------------
(* Pasts and the commits they go through *)

\* A commit is in its past, and so is the past of its parents.
LEMMA PastGrows ==
    ASSUME History(All), NEW c \in All
    PROVE  c \in Past(c) /\ \A p \in c.ps : Past(p) \subseteq Past(c)
  BY PastDef

\* The past of a commit is older than the commit.
LEMMA PastIsOlder ==
    ASSUME History(All), NEW c \in All, NEW y \in Past(c)
    PROVE  y.g \in Nat /\ y.g <= c.g /\ (y.g = c.g => y = c)
<1> DEFINE G == {x \in All : \A z \in Past(x) : z.g \in Nat /\ z.g <= x.g /\ (z.g = x.g => z = x)}
<1>1. ASSUME NEW x \in All, x.ps \subseteq G PROVE x \in G
  <2> SUFFICES ASSUME NEW z \in Past(x) PROVE z.g \in Nat /\ z.g <= x.g /\ (z.g = x.g => z = x)
    OBVIOUS
  <2>0. x.g \in Nat
    BY DEF History, CommitIn
  <2>1. CASE z = x
    BY <2>0, <2>1
  <2>2. CASE z # x
    <3>1. PICK p \in x.ps : z \in Past(p)
      BY <2>2, PastDef
    <3>2. p \in G /\ x # Root
      BY <1>1, RootFacts
    <3>3. p.g < x.g /\ p.g \in Nat
      BY <3>2 DEF History, CommitIn
    <3>4. z.g \in Nat /\ z.g <= p.g
      BY <3>1, <3>2
    <3> QED BY <2>0, <3>3, <3>4
  <2> QED BY <2>1, <2>2
<1> HIDE DEF G
<1>2. c \in G
  BY <1>1, ParentsFirst
<1> QED BY <1>2 DEF G

\* What all paths go through is in the past.
LEMMA DominatorInPast ==
    ASSUME History(All), NEW a, NEW c \in All, Dominates(a, c)
    PROVE  a \in Past(c)
<1> DEFINE G == {x \in All : Dominates(a, x) => a \in Past(x)}
<1>1. ASSUME NEW x \in All, x.ps \subseteq G PROVE x \in G
  <2> SUFFICES ASSUME Dominates(a, x), x # a PROVE a \in Past(x)
    BY PastGrows
  <2>1. x # Root /\ \A p \in x.ps : Dominates(a, p)
    BY DominatesDef
  <2>2. PICK p \in x.ps : TRUE
    BY <2>1 DEF History, CommitIn
  <2>3. a \in Past(p)
    BY <1>1, <2>1, <2>2
  <2> QED BY <2>3, PastGrows
<1> HIDE DEF G
<1>2. c \in G
  BY <1>1, ParentsFirst
<1> QED BY <1>2 DEF G

\* All paths from c meet S: the commits that start a path which does not are
\* in a set that c is not in.
Cuts(S, c) ==
    \E T \in SUBSET All :
        /\ c \notin T
        /\ \A y \in All \ S : y = Root \/ (\E p \in y.ps : p \in T) => y \in T

\* If all paths from c meet {a}, they all go through a.
LEMMA CutDominates ==
    ASSUME History(All), NEW a, NEW c \in All, Cuts({a}, c)
    PROVE  Dominates(a, c)
<1>1. PICK T \in SUBSET All :
         /\ c \notin T
         /\ \A y \in All \ {a} : y = Root \/ (\E p \in y.ps : p \in T) => y \in T
  BY DEF Cuts
<1> DEFINE G == {x \in All : x \notin T => Dominates(a, x)}
<1>2. ASSUME NEW x \in All, x.ps \subseteq G PROVE x \in G
  <2> SUFFICES ASSUME x \notin T, x # a PROVE Dominates(a, x)
    BY DominatesDef
  <2>1. x # Root /\ \A p \in x.ps : p \notin T
    BY <1>1
  <2>2. \A p \in x.ps : Dominates(a, p)
    BY <1>2, <2>1
  <2> QED BY <2>1, <2>2, DominatesDef
<1> HIDE DEF G
<1>3. c \in G
  BY <1>2, ParentsFirst
<1> QED BY <1>1, <1>3 DEF G

-----------------------------------------------------------------------------
(* One round of the walk *)

\* Induction, for sets of numbers.
LEMMA SetInduction ==
    ASSUME NEW S, 0 \in S, \A n \in Nat : n \in S => n + 1 \in S
    PROVE  Nat \subseteq S
<1> DEFINE T == Nat \ S
<1> SUFFICES ASSUME T # {} PROVE FALSE
  OBVIOUS
<1>1. PICK x \in T : \A y \in T : x <= y
  <2>1. T \subseteq Nat
    OBVIOUS
  <2> HIDE DEF T
  <2> QED BY <2>1, LeastNumber
<1>2. x \in Nat /\ x # 0
  OBVIOUS
<1>3. x - 1 \in Nat /\ ~(x <= x - 1) /\ x = (x - 1) + 1
  BY <1>2
<1>4. x - 1 \in S
  BY <1>1, <1>3
<1> QED BY <1>3, <1>4

\* A finite set of commits has a newest one ...
LEMMA NewestExists ==
    ASSUME NEW S, IsFiniteSet(S), S # {}, \A c \in S : c.g \in Nat
    PROVE  \E c \in S : \A e \in S : e.g <= c.g
<1>1. PICK n \in Nat : ExistsBijection(1..n, S)
  BY FS_NatBijection
<1>2. PICK f \in Bijection(1..n, S) : TRUE
  BY <1>1 DEF ExistsBijection
<1>3. f \in [1..n -> S] /\ \A c \in S : \E i \in 1..n : f[i] = c
  BY <1>2 DEF Bijection, Surjection
<1> DEFINE T == {m \in Nat : m \in 0..n => \E b \in Nat : \A j \in 1..m : f[j].g <= b}
<1>4. 0 \in T
  <2>1. 0 \in Nat /\ 1..0 = {}
    OBVIOUS
  <2> QED BY <2>1
<1>5. ASSUME NEW m \in Nat, m \in T PROVE m + 1 \in T
  <2>0. m + 1 \in Nat
    OBVIOUS
  <2> SUFFICES ASSUME m + 1 \in 0..n PROVE \E b \in Nat : \A j \in 1..(m + 1) : f[j].g <= b
    BY <2>0
  <2>a. m \in 0..n
    OBVIOUS
  <2>1. PICK b \in Nat : \A j \in 1..m : f[j].g <= b
    BY <1>5, <2>a
  <2>2. f[m + 1].g \in Nat /\ \A j \in 1..m : f[j].g \in Nat
    BY <1>3
  <2> DEFINE d == b + f[m + 1].g
  <2>3. d \in Nat /\ b <= d /\ f[m + 1].g <= d
    BY <2>2
  <2> HIDE DEF d
  <2>4. ASSUME NEW j \in 1..(m + 1) PROVE f[j].g <= d
    <3>1. j \in 1..m \/ j = m + 1
      OBVIOUS
    <3> QED BY <2>1, <2>2, <2>3, <3>1
  <2> QED BY <2>3, <2>4
<1> HIDE DEF T
<1>6. n \in T /\ n \in 0..n
  BY <1>4, <1>5, SetInduction
<1>7. PICK b \in Nat : \A j \in 1..n : f[j].g <= b
  BY <1>6 DEF T
<1>8. \A c \in S : c.g <= b
  BY <1>3, <1>7
<1> DEFINE N == {b - c.g : c \in S}
<1>9. N \subseteq Nat /\ N # {}
  BY <1>8
<1>10. PICK x \in N : \A y \in N : x <= y
  <2> HIDE DEF N
  <2> QED BY <1>9, LeastNumber
<1>11. PICK c \in S : x = b - c.g
  OBVIOUS
<1>12. ASSUME NEW e \in S PROVE e.g <= c.g
  <2>1. b - c.g <= b - e.g /\ e.g \in Nat /\ c.g \in Nat
    BY <1>10, <1>11
  <2> QED BY <2>1
<1> QED BY <1>12

\* ... and an oldest one.
LEMMA OldestExists ==
    ASSUME NEW S, S # {}, \A c \in S : c.ts \in Nat
    PROVE  Oldest(S) \in S
<1> DEFINE N == {c.ts : c \in S}
<1>1. N \subseteq Nat /\ N # {}
  OBVIOUS
<1>2. PICK x \in N : \A y \in N : x <= y
  <2> HIDE DEF N
  <2> QED BY <1>1, LeastNumber
<1>3. PICK c \in S : x = c.ts
  OBVIOUS
<1>4. \A d \in S : c.ts <= d.ts
  BY <1>2, <1>3
<1> QED BY <1>4 DEF Oldest

\* What a round replaces: commits that are not older than another one.
LEMMA RoundFacts ==
    ASSUME NEW K, History(K), IsFiniteSet(K), NEW S, S \subseteq K, S # {}, Cardinality(S) # 1
    PROVE  \E kept \in SUBSET S, top \in Nat :
              /\ kept # {} /\ S \ kept # {}
              /\ AncestorStep(S) = kept \cup UNION {c.ps : c \in S \ kept}
              /\ \A c \in S : c.g <= top
              /\ \A c \in S \ kept : c.g = top /\ c # Root
              /\ \/ (\E c \in S : c.g < top) /\ \A c \in kept : c.g < top
                 \/ \A c \in S : c.g = top
              /\ \A c \in S \ kept : \E e \in S : e # c /\ e.g <= c.g
<1>0. \A c \in S : c.g \in Nat /\ c.ts \in Nat /\ (c # Root => c.g >= 1)
  BY DEF History, CommitIn
<1>1. IsFiniteSet(S)
  BY FS_Subset
<1>2. \A c \in S : \E e \in S : e # c
  <2> SUFFICES ASSUME NEW c \in S, \A e \in S : e = c PROVE FALSE
    OBVIOUS
  <2>1. S = {c}
    OBVIOUS
  <2> QED BY <2>1, FS_Singleton
<1>3. PICK n \in S : \A e \in S : e.g <= n.g
  BY <1>0, <1>1, NewestExists
<1>4. Greatest({c.g : c \in S}) = n.g
  <2> DEFINE N == {c.g : c \in S}
  <2>1. n.g \in N /\ \A m \in N : m <= n.g /\ m \in Nat
    BY <1>0, <1>3
  <2> HIDE DEF N
  <2>2. ASSUME NEW m \in N, \A x \in N : x <= m PROVE m = n.g
    <3>1. n.g <= m /\ m <= n.g /\ m \in Nat /\ n.g \in Nat
      BY <2>1, <2>2
    <3> QED BY <3>1
  <2>3. Greatest(N) = n.g
    BY <2>1, <2>2 DEF Greatest
  <2> QED BY <2>3 DEF N
<1> DEFINE newest == {c \in S : c.g = n.g}
           kept == IF newest = S THEN {Oldest(S)} ELSE S \ newest
<1>5. AncestorStep(S) = kept \cup UNION {c.ps : c \in S \ kept}
  BY <1>4 DEF AncestorStep
<1>6. CASE newest = S
  <2>1. kept = {Oldest(S)} /\ Oldest(S) \in S
    BY <1>0, <1>6, OldestExists
  <2>2. \A c \in S : c.g = n.g
    BY <1>6
  <2>3. PICK c \in S : c # Oldest(S)
    BY <1>2, <2>1
  <2>4. \A x \in S : x # Root
    <3> SUFFICES ASSUME Root \in S PROVE FALSE
      OBVIOUS
    <3>1. n.g = 0
      BY <2>2, RootFacts
    <3>2. \A x \in S : x = Root
      BY <1>0, <2>2, <3>1
    <3> QED BY <1>2, <3>2
  <2>5. \A x \in S : \E e \in S : e # x /\ e.g <= x.g
    BY <1>0, <1>2, <2>2
  <2>6. kept \in SUBSET S /\ kept # {} /\ c \in S \ kept
    BY <2>1, <2>3
  <2>7. n.g \in Nat
    BY <1>0
  <2> HIDE DEF kept, newest
  <2>8. /\ kept # {} /\ S \ kept # {}
        /\ AncestorStep(S) = kept \cup UNION {x.ps : x \in S \ kept}
        /\ \A x \in S : x.g <= n.g
        /\ \A x \in S \ kept : x.g = n.g /\ x # Root
        /\ \A x \in S : x.g = n.g
        /\ \A x \in S \ kept : \E e \in S : e # x /\ e.g <= x.g
    BY <1>3, <1>5, <2>2, <2>4, <2>5, <2>6
  <2>9. kept \in SUBSET S
    BY <2>6
  <2> QED BY <2>7, <2>8, <2>9
<1>7. CASE newest # S
  <2>1. kept = S \ newest
    BY <1>7
  <2>2. PICK e \in S : e.g # n.g
    BY <1>7
  <2>3. \A c \in kept : c.g < n.g
    BY <1>0, <1>3, <2>1
  <2>4. e \in kept /\ e.g < n.g /\ kept \in SUBSET S
    BY <2>1, <2>2, <2>3
  <2>5. \A c \in S \ kept : c.g = n.g
    BY <2>1
  <2>6. n.g # 0
    BY <1>0, <2>4
  <2>7. \A c \in S \ kept : c # Root /\ e # c /\ e.g <= c.g
    BY <1>0, <2>4, <2>5, <2>6, RootFacts
  <2>8. n \in S \ kept /\ n.g \in Nat
    BY <1>0, <2>1
  <2> HIDE DEF kept, newest
  <2> QED BY <1>0, <1>3, <1>5, <2>3, <2>4, <2>5, <2>7, <2>8
<1> QED BY <1>6, <1>7

-----------------------------------------------------------------------------
(* The walk *)

\* What the search goes through: non-empty sets of commits.
Sets(K) == (SUBSET K) \ {{}}

\* A round gives a set of stored commits again.
LEMMA RoundStays ==
    ASSUME NEW K, History(K), IsFiniteSet(K), NEW S \in Sets(K), Cardinality(S) # 1
    PROVE  AncestorStep(S) \in Sets(K)
<1>0. S \subseteq K /\ S # {}
  BY DEF Sets
<1>1. PICK kept \in SUBSET S, top \in Nat :
         kept # {} /\ AncestorStep(S) = kept \cup UNION {c.ps : c \in S \ kept}
  BY <1>0, RoundFacts
<1>2. \A c \in S : c.ps \subseteq K
  BY <1>0 DEF History, CommitIn
<1> QED BY <1>0, <1>1, <1>2 DEF Sets

\* The walk of FindCommonAncestor goes on from the next round.
LEMMA WalkDef ==
    ASSUME NEW K, History(K), IsFiniteSet(K)
    PROVE  \E w : /\ \A S \in Sets(K) : w[S] = IF Cardinality(S) = 1 THEN S ELSE w[AncestorStep(S)]
                  /\ \A h, c : FindCommonAncestor(h, c, K) = CHOOSE x \in w[{h, c}] : TRUE
<1> DEFINE D == Sets(K)
           Closed(Z) == \A X \in Z : Cardinality(X) # 1 => AncestorStep(X) \in Z
           Reach(S) == {X \in D : \A Z \in SUBSET D : S \in Z /\ Closed(Z) => X \in Z}
           One(S) == {X \in Reach(S) : Cardinality(X) = 1}
           End(S) == CHOOSE X : X \in One(S)
           F == [S \in D |-> End(S)]
           H(f) == f = [S \in D |-> IF Cardinality(S) = 1 THEN S ELSE f[AncestorStep(S)]]
           walk == CHOOSE f : H(f)
<1>1. \A S \in D : Cardinality(S) # 1 => AncestorStep(S) \in D
  BY RoundStays
<1> HIDE DEF D
<1>2. ASSUME NEW S \in D, Cardinality(S) = 1 PROVE End(S) = S
  <2>1. S \in Reach(S)
    OBVIOUS
  <2>2. {S} \in SUBSET D /\ Closed({S})
    BY <1>2
  <2>3. ASSUME NEW X \in Reach(S) PROVE X = S
    <3>1. X \in {S}
      <4> HIDE DEF Closed
      <4> QED BY <2>2
    <3> QED BY <3>1
  <2> HIDE DEF Reach
  <2>4. One(S) = {S}
    BY <1>2, <2>1, <2>3
  <2> HIDE DEF One
  <2> QED BY <2>4
<1>3. ASSUME NEW S \in D, Cardinality(S) # 1 PROVE End(S) = End(AncestorStep(S))
  <2> DEFINE N == AncestorStep(S)
  <2>0. N \in D
    BY <1>1, <1>3
  <2> HIDE DEF N
  <2>1. ASSUME NEW X \in Reach(N) PROVE X \in Reach(S)
    <3> SUFFICES ASSUME NEW Z \in SUBSET D, S \in Z, Closed(Z) PROVE X \in Z
      OBVIOUS
    <3>1. N \in Z
      BY <1>3 DEF N
    <3> HIDE DEF Closed
    <3> QED BY <3>1
  <2>2. ASSUME NEW X \in Reach(S) PROVE X = S \/ X \in Reach(N)
    <3> DEFINE U == {S} \cup Reach(N)
    <3>1. U \in SUBSET D /\ S \in U
      OBVIOUS
    <3>2. N \in Reach(N)
      BY <2>0
    <3>3. ASSUME NEW Y \in U, Cardinality(Y) # 1 PROVE AncestorStep(Y) \in U
      <4>1. CASE Y = S
        <5> HIDE DEF Reach
        <5> QED BY <3>2, <4>1 DEF N
      <4>2. CASE Y # S
        <5>1. Y \in Reach(N) /\ Y \in D
          BY <4>2
        <5>2. AncestorStep(Y) \in D
          BY <1>1, <3>3, <5>1
        <5>3. AncestorStep(Y) \in Reach(N)
          <6> SUFFICES ASSUME NEW Z \in SUBSET D, N \in Z, Closed(Z) PROVE AncestorStep(Y) \in Z
            BY <5>2
          <6>1. Y \in Z
            <7> HIDE DEF Closed
            <7> QED BY <5>1
          <6> QED BY <6>1, <3>3
        <5> HIDE DEF Reach
        <5> QED BY <5>3
      <4> QED BY <4>1, <4>2
    <3>4. Closed(U)
      <4> HIDE DEF U
      <4> QED BY <3>3
    <3>5. X \in U
      <4> HIDE DEF U, Closed
      <4> QED BY <3>1, <3>4
    <3> HIDE DEF Reach
    <3> QED BY <3>5
  <2> HIDE DEF Reach
  <2>3. One(S) = One(N)
    BY <1>3, <2>1, <2>2
  <2> HIDE DEF One
  <2>4. End(S) = End(N)
    BY <2>3
  <2> QED BY <2>4 DEF N
<1> HIDE DEF End
<1>4. H(F)
  <2>1. ASSUME NEW S \in D
        PROVE  End(S) = IF Cardinality(S) = 1 THEN S ELSE F[AncestorStep(S)]
    <3>1. CASE Cardinality(S) = 1
      BY <1>2, <3>1
    <3>2. CASE Cardinality(S) # 1
      <4>1. F[AncestorStep(S)] = End(AncestorStep(S))
        BY <1>1, <3>2
      <4> HIDE DEF F
      <4> QED BY <1>3, <3>2, <4>1
    <3> QED BY <3>1, <3>2
  <2> QED BY <2>1
<1> HIDE DEF F
<1>5. H(walk)
  <2> HIDE DEF H
  <2> QED BY <1>4
<1>6. \A h, c : FindCommonAncestor(h, c, K) = CHOOSE x \in walk[{h, c}] : TRUE
  BY DEF FindCommonAncestor, D, Sets
<1> HIDE DEF walk
<1>7. \A S \in D : walk[S] = IF Cardinality(S) = 1 THEN S ELSE walk[AncestorStep(S)]
  BY <1>5
<1> QED BY <1>6, <1>7 DEF D

\* The set S of a walk from h and c: no path from either gets past it, and a
\* commit that all paths from both go through is on the way of its members.
Search(S, h, c) ==
    /\ Cuts(S, h) /\ Cuts(S, c)
    /\ \A a : Dominates(a, h) /\ Dominates(a, c) => \A s \in S : Dominates(a, s)

\* A round gives way only to parents, so no path slips through.
LEMMA CutsNext ==
    ASSUME NEW S, NEW N, NEW c, Cuts(S, c),
           \A y \in S \ N : y # Root /\ y.ps \subseteq N
    PROVE  Cuts(N, c)
<1>1. PICK T \in SUBSET All :
         /\ c \notin T
         /\ \A y \in All \ S : y = Root \/ (\E p \in y.ps : p \in T) => y \in T
  BY DEF Cuts
<1> DEFINE U == T \ N
<1>2. U \in SUBSET All /\ c \notin U
  BY <1>1
<1>3. ASSUME NEW y \in All \ N, y = Root \/ \E p \in y.ps : p \in U PROVE y \in U
  <2>1. CASE y \in S
    BY <1>3, <2>1
  <2>2. CASE y \notin S
    <3>1. y \in T
      BY <1>1, <1>3, <2>2
    <3> QED BY <3>1
  <2> QED BY <2>1, <2>2
<1> HIDE DEF U
<1> QED BY <1>2, <1>3 DEF Cuts

\* The two commits are where the search begins.
LEMMA SearchStarts ==
    ASSUME NEW h \in All, NEW c \in All
    PROVE  Search({h, c}, h, c)
<1> DEFINE T == All \ {h, c}
<1>1. T \in SUBSET All /\ h \notin T /\ c \notin T /\ \A y \in All \ {h, c} : y \in T
  OBVIOUS
<1> HIDE DEF T
<1>2. Cuts({h, c}, h) /\ Cuts({h, c}, c)
  BY <1>1 DEF Cuts
<1> QED BY <1>2 DEF Search

\* A round replaces no common dominator: it would be older than another member.
LEMMA SearchGoesOn ==
    ASSUME History(All), NEW K, K \subseteq All, History(K), IsFiniteSet(K),
           NEW S \in Sets(K), Cardinality(S) # 1, NEW h, NEW c, Search(S, h, c)
    PROVE  Search(AncestorStep(S), h, c)
<1>0. S \subseteq K /\ S # {}
  BY DEF Sets
<1> DEFINE N == AncestorStep(S)
<1>1. PICK kept \in SUBSET S, top \in Nat :
         /\ N = kept \cup UNION {x.ps : x \in S \ kept}
         /\ \A x \in S \ kept : x # Root
         /\ \A x \in S \ kept : \E e \in S : e # x /\ e.g <= x.g
  BY <1>0, RoundFacts, SMTT(40)
<1> HIDE DEF N
<1>2. \A y \in S \ N : y # Root /\ y.ps \subseteq N
  BY <1>1
<1>3. Cuts(N, h) /\ Cuts(N, c)
  BY <1>2, CutsNext DEF Search
<1>4. ASSUME NEW a, Dominates(a, h), Dominates(a, c), NEW s \in N PROVE Dominates(a, s)
  <2>0. \A x \in S : Dominates(a, x)
    BY <1>4 DEF Search
  <2>1. CASE s \in kept
    BY <2>0, <2>1
  <2>2. CASE s \notin kept
    <3>1. PICK x \in S \ kept : s \in x.ps
      BY <1>1, <2>2
    <3>2. PICK e \in S : e # x /\ e.g <= x.g
      BY <1>1, <3>1
    <3>3. e \in All /\ x \in All
      BY <1>0, <3>1, <3>2
    <3>4. x # a
      <4> SUFFICES ASSUME x = a PROVE FALSE
        OBVIOUS
      <4>1. x \in Past(e)
        BY <2>0, <3>2, <3>3, DominatorInPast
      <4>2. x.g \in Nat /\ x.g <= e.g /\ (x.g = e.g => x = e)
        BY <3>3, <4>1, PastIsOlder
      <4>3. e.g \in Nat
        BY <3>3 DEF History, CommitIn
      <4> QED BY <3>2, <4>2, <4>3
    <3>5. \A p \in x.ps : Dominates(a, p)
      BY <2>0, <3>1, <3>3, <3>4, DominatesDef
    <3> QED BY <3>1, <3>5
  <2> QED BY <2>1, <2>2
<1> QED BY <1>3, <1>4 DEF Search, N

-----------------------------------------------------------------------------
(* The walk ends *)

\* How far S is from the end: twice its newest generation, one more if it has
\* no older commit.
Measured(S, n) ==
    \E b \in Nat : /\ \A x \in S : x.g <= b
                   /\ n = 2 * b + 1 \/ (n = 2 * b /\ \E e \in S : e.g < b)

\* Every set is at some distance from the end.
LEMMA MeasureExists ==
    ASSUME NEW K, History(K), IsFiniteSet(K), NEW S \in Sets(K)
    PROVE  \E n \in Nat : Measured(S, n)
<1>1. S # {} /\ IsFiniteSet(S) /\ \A x \in S : x.g \in Nat
  BY FS_Subset DEF Sets, History, CommitIn
<1>2. PICK x \in S : \A e \in S : e.g <= x.g
  BY <1>1, NewestExists
<1>3. x.g \in Nat /\ 2 * x.g + 1 \in Nat
  BY <1>1
<1> QED BY <1>2, <1>3 DEF Measured

\* Every round comes nearer.
LEMMA MeasureFalls ==
    ASSUME NEW K, History(K), IsFiniteSet(K), NEW S \in Sets(K), Cardinality(S) # 1,
           NEW n \in Nat, Measured(S, n)
    PROVE  \E m \in Nat : m < n /\ Measured(AncestorStep(S), m)
<1>0. S \subseteq K /\ S # {}
  BY DEF Sets
<1> DEFINE N == AncestorStep(S)
<1>1. PICK kept \in SUBSET S, top \in Nat :
         /\ S \ kept # {}
         /\ N = kept \cup UNION {c.ps : c \in S \ kept}
         /\ \A c \in S : c.g <= top
         /\ \A c \in S \ kept : c.g = top /\ c # Root
         /\ \/ (\E c \in S : c.g < top) /\ \A c \in kept : c.g < top
            \/ \A c \in S : c.g = top
  BY <1>0, RoundFacts
<1> HIDE DEF N
<1>2. PICK b \in Nat : /\ \A x \in S : x.g <= b
                       /\ n = 2 * b + 1 \/ (n = 2 * b /\ \E e \in S : e.g < b)
  BY DEF Measured
<1>3. \A x \in S : x.g \in Nat
  BY <1>0 DEF History, CommitIn
<1>4. ASSUME NEW x \in S \ kept, NEW p \in x.ps PROVE p.g \in Nat /\ p.g < top
  <2>1. x \in K /\ x # Root /\ x.g = top
    BY <1>0, <1>1
  <2>2. p \in K
    BY <2>1 DEF History, CommitIn
  <2> QED BY <2>1, <2>2 DEF History, CommitIn
<1>5. CASE (\E c \in S : c.g < top) /\ \A c \in kept : c.g < top
  <2>1. \A x \in N : x.g \in Nat /\ x.g < top
    BY <1>1, <1>3, <1>4, <1>5
  <2>2. top >= 1
    BY <1>3, <1>5
  <2>3. \E x \in S : x.g = top
    BY <1>1
  <2>4. top <= b
    BY <1>2, <2>3
  <2> DEFINE q == top - 1
             m == 2 * q + 1
  <2>5. q \in Nat /\ m \in Nat /\ m < n /\ \A x \in N : x.g <= q
    <3>1. q \in Nat /\ m \in Nat
      BY <2>2
    <3>2. m < n
      BY <1>2, <2>2, <2>4
    <3> QED BY <2>1, <3>1, <3>2
  <2> HIDE DEF q
  <2>6. Measured(N, m)
    BY <2>5 DEF Measured
  <2> HIDE DEF m
  <2> QED BY <2>5, <2>6 DEF N
<1>6. CASE \A c \in S : c.g = top
  <2>1. PICK x \in S \ kept : TRUE
    BY <1>1
  <2>2. PICK p \in x.ps : TRUE
    BY <1>0, <1>1, <2>1 DEF History, CommitIn
  <2>3. p \in N /\ p.g < top
    BY <1>1, <1>4, <2>1, <2>2
  <2>4. \A y \in N : y.g <= top
    <3> SUFFICES ASSUME NEW y \in N PROVE y.g <= top
      OBVIOUS
    <3>1. CASE y \in kept
      BY <1>1, <3>1
    <3>2. CASE y \notin kept
      <4>1. PICK z \in S \ kept : y \in z.ps
        BY <1>1, <3>2
      <4>2. y.g \in Nat /\ y.g < top
        BY <1>4, <4>1
      <4> QED BY <4>2
    <3> QED BY <3>1, <3>2
  <2> DEFINE m == 2 * top
  <2>5. m \in Nat
    OBVIOUS
  <2>6. Measured(N, m)
    BY <2>3, <2>4 DEF Measured
  <2>7. m < n
    <3>1. top <= b
      BY <1>2, <1>6, <2>1
    <3>2. CASE n = 2 * b + 1
      BY <3>1, <3>2
    <3>3. CASE n = 2 * b /\ \E e \in S : e.g < b
      <4>1. top < b
        BY <1>6, <3>3
      <4> QED BY <3>3, <4>1
    <3> QED BY <1>2, <3>2, <3>3
  <2> HIDE DEF m
  <2> QED BY <2>5, <2>6, <2>7 DEF N
<1> QED BY <1>1, <1>5, <1>6

\* The walk ends with one commit, which the search has come to.
LEMMA WalkEnds ==
    ASSUME History(All), NEW K, K \subseteq All, History(K), IsFiniteSet(K), NEW w,
           \A S \in Sets(K) : w[S] = IF Cardinality(S) = 1 THEN S ELSE w[AncestorStep(S)],
           NEW h, NEW c, NEW Q \in Sets(K), Search(Q, h, c)
    PROVE  w[Q] \in Sets(K) /\ Cardinality(w[Q]) = 1 /\ Search(w[Q], h, c)
<1> DEFINE Good(S) == w[S] \in Sets(K) /\ Cardinality(w[S]) = 1 /\ Search(w[S], h, c)
           Bad == {n \in Nat : \E S \in Sets(K) : Search(S, h, c) /\ Measured(S, n) /\ ~Good(S)}
<1>1. Bad = {}
  <2> SUFFICES ASSUME Bad # {} PROVE FALSE
    OBVIOUS
  <2>1. PICK n \in Bad : \A m \in Bad : n <= m
    <3>1. Bad \subseteq Nat
      OBVIOUS
    <3> HIDE DEF Bad
    <3> QED BY <3>1, LeastNumber
  <2>2. PICK S \in Sets(K) : Search(S, h, c) /\ Measured(S, n) /\ ~Good(S)
    OBVIOUS
  <2>3. n \in Nat
    OBVIOUS
  <2>4. Cardinality(S) # 1
    <3> SUFFICES ASSUME Cardinality(S) = 1 PROVE FALSE
      OBVIOUS
    <3>1. w[S] = S
      OBVIOUS
    <3> QED BY <2>2, <3>1
  <2> DEFINE N == AncestorStep(S)
  <2>5. N \in Sets(K) /\ Search(N, h, c) /\ w[S] = w[N]
    BY <2>2, <2>4, RoundStays, SearchGoesOn
  <2>6. PICK m \in Nat : m < n /\ Measured(N, m)
    BY <2>2, <2>3, <2>4, MeasureFalls
  <2> HIDE DEF N
  <2>7. ~Good(N)
    BY <2>2, <2>5
  <2>8. m \in Bad
    <3> HIDE DEF Good
    <3> QED BY <2>5, <2>6, <2>7
  <2>9. n <= m
    BY <2>1, <2>8
  <2> QED BY <2>3, <2>6, <2>9
<1>2. PICK n \in Nat : Measured(Q, n)
  BY MeasureExists
<1>3. Good(Q)
  <2> HIDE DEF Good
  <2> QED BY <1>1, <1>2
<1> QED BY <1>3

\* FindCommonAncestor gives the nearest commit that all of the history of both
\* commits goes through.
LEMMA NearestAncestor ==
    ASSUME History(All), NEW K, K \subseteq All, History(K), IsFiniteSet(K),
           NEW h \in K, NEW c \in K
    PROVE  LET common == {a \in Past(h) \cap Past(c) : Dominates(a, h) /\ Dominates(a, c)}
               found == FindCommonAncestor(h, c, K)
           IN found \in K /\ found \in common /\ common \subseteq Past(found)
<1> DEFINE common == {a \in Past(h) \cap Past(c) : Dominates(a, h) /\ Dominates(a, c)}
           found == FindCommonAncestor(h, c, K)
<1>1. PICK w : /\ \A S \in Sets(K) : w[S] = IF Cardinality(S) = 1 THEN S ELSE w[AncestorStep(S)]
               /\ \A x, y : FindCommonAncestor(x, y, K) = CHOOSE z \in w[{x, y}] : TRUE
  BY WalkDef
<1>2. {h, c} \in Sets(K) /\ Search({h, c}, h, c)
  BY SearchStarts DEF Sets
<1>3. w[{h, c}] \in Sets(K) /\ Cardinality(w[{h, c}]) = 1 /\ Search(w[{h, c}], h, c)
  BY <1>1, <1>2, WalkEnds
<1>4. PICK a : w[{h, c}] = {a}
  <2>1. IsFiniteSet(w[{h, c}])
    BY <1>3, FS_Subset DEF Sets
  <2> QED BY <1>3, <2>1, FS_Singleton
<1>5. found = a
  BY <1>1, <1>4
<1>6. a \in K /\ a \in All /\ h \in All /\ c \in All
  BY <1>3, <1>4 DEF Sets
<1>7. Dominates(a, h) /\ Dominates(a, c)
  BY <1>3, <1>4, <1>6, CutDominates DEF Search
<1>8. a \in Past(h) /\ a \in Past(c)
  BY <1>6, <1>7, DominatorInPast
<1>9. ASSUME NEW b \in common PROVE b \in Past(a)
  <2>1. Dominates(b, a)
    BY <1>3, <1>4 DEF Search
  <2> QED BY <1>6, <2>1, DominatorInPast
<1> HIDE DEF found
<1>10. found \in K /\ found \in common
  BY <1>5, <1>6, <1>7, <1>8
<1> HIDE DEF common
<1>11. common \subseteq Past(found)
  BY <1>5, <1>9
<1> QED BY <1>10, <1>11 DEF common, found

-----------------------------------------------------------------------------
(* The commits that are stored *)

\* The commits K of a device with the heads H: a commit that is no head has a
\* child.
Stored(K, H) ==
    /\ IsFiniteSet(K) /\ History(K) /\ H \subseteq K /\ H # {}
    /\ \A c \in K \ H : \E x \in K : c \in x.ps

\* An answer in the loop holds the heads of an earlier time.
TaskIn(t, K) ==
    /\ t.delay \in BOOLEAN
    /\ t.kind = "heads" => t.heads # {} /\ t.heads \subseteq K

TasksIn(s, K) == \E X : s \in Seq(X) /\ \A t \in X : TaskIn(t, K)

\* A merge of stored commits.
MergeIn(m, K) ==
    /\ m.left \in K /\ m.right \in K /\ m.anc \in K
    /\ m.pc \in {"none", "commits", "ancestor"} \cup InStrategy
    /\ m.how \in {"low", "auto", "custom", "same", None}
    /\ m.val \in [Key -> Value] /\ m.cancelled \in BOOLEAN /\ m.delay \in BOOLEAN

\* What a resolver refers to is stored.
RefersTo(r, K) == MergeIn(r.merge, K) /\ TasksIn(r.tasks, K)

\* The invariant of the stores.
StoresOK ==
    /\ DOMAIN commits = Device /\ DOMAIN heads = Device
    /\ \A d \in Device : Stored(commits[d], heads[d]) /\ RefersTo(resolver[d], commits[d])
    /\ IsFiniteSet(cloud) /\ History(cloud) /\ made \in Nat

\* The greater of two numbers.
LEMMA GreatestOfTwo ==
    ASSUME NEW x \in Nat, NEW y \in Nat
    PROVE  Greatest({x, y}) \in Nat /\ x <= Greatest({x, y}) /\ y <= Greatest({x, y})
<1>1. \E n \in {x, y} : \A m \in {x, y} : m <= n
  <2>1. CASE x <= y
    BY <2>1
  <2>2. CASE y <= x
    BY <2>2
  <2> QED BY <2>1, <2>2
<1>2. Greatest({x, y}) \in {x, y} /\ \A m \in {x, y} : m <= Greatest({x, y})
  BY <1>1 DEF Greatest
<1> QED BY <1>2

\* FromContentAndParents: a new commit is younger than its parents.
LEMMA CommitOfIn ==
    ASSUME NEW K, History(K), NEW l \in K, NEW r \in K, NEW val \in [Key -> Value],
           NEW now \in Nat
    PROVE  CommitIn(CommitOf({l, r}, val, now), K)
<1> DEFINE c == CommitOf({l, r}, val, now)
<1>1. l.g \in Nat /\ r.g \in Nat /\ l.ts \in Nat /\ r.ts \in Nat
  BY DEF History, CommitIn
<1>2. {p.g : p \in {l, r}} = {l.g, r.g} /\ {p.ts : p \in {l, r}} = {l.ts, r.ts}
  OBVIOUS
<1>3. /\ c.ps = {l, r} /\ c.g = 1 + Greatest({l.g, r.g}) /\ c.val = val
      /\ c.ts \in {Greatest({l.ts, r.ts}), now}
  BY <1>2 DEF CommitOf
<1> HIDE DEF c
<1> DEFINE top == Greatest({l.g, r.g})
<1>4. top \in Nat /\ l.g <= top /\ r.g <= top /\ c.g = 1 + top
  BY <1>1, <1>3, GreatestOfTwo
<1> HIDE DEF top
<1>5. c.g \in Nat /\ c.g >= 1 /\ l.g < c.g /\ r.g < c.g
  BY <1>1, <1>4
<1>6. c.ts \in Nat
  BY <1>1, <1>3, GreatestOfTwo
<1>7. CommitIn(c, K)
  BY <1>3, <1>5, <1>6 DEF CommitIn
<1> QED BY <1>7 DEF c

\* New commits whose parents are there extend a history.
LEMMA HistoryGrows ==
    ASSUME NEW K, History(K), NEW new, \A c \in new : CommitIn(c, K \cup new)
    PROVE  History(K \cup new)
  BY DEF History, CommitIn

\* There is always a head: the newest commit has no child.
LEMMA HeadExists ==
    ASSUME NEW K, IsFiniteSet(K), History(K), NEW H, \A c \in K \ H : \E x \in K : c \in x.ps
    PROVE  H # {}
<1>1. K # {} /\ \A c \in K : c.g \in Nat
  BY DEF History, CommitIn
<1>2. PICK c \in K : \A e \in K : e.g <= c.g
  BY <1>1, NewestExists
<1>3. c \in H
  <2> SUFFICES ASSUME c \notin H PROVE FALSE
    OBVIOUS
  <2>1. PICK x \in K : c \in x.ps
    OBVIOUS
  <2>2. c.g < x.g
    BY <2>1, RootFacts DEF History, CommitIn
  <2> QED BY <1>1, <1>2, <2>2
<1> QED BY <1>3

\* SynchronousAddCommits keeps the heads: what gets a child is none any more.
LEMMA StoredGrows ==
    ASSUME NEW K, NEW H, Stored(K, H), NEW new, IsFiniteSet(new),
           \A c \in new : CommitIn(c, K \cup new)
    PROVE  Stored(K \cup new, (H \cup (new \ K)) \ UNION {c.ps : c \in new \ K})
<1> DEFINE N == K \cup new
           P == UNION {c.ps : c \in new \ K}
           G == (H \cup (new \ K)) \ P
<1>1. IsFiniteSet(N) /\ History(N)
  BY FS_Union, HistoryGrows DEF Stored
<1>2. G \subseteq N
  BY DEF Stored
<1>3. ASSUME NEW c \in N \ G PROVE \E x \in N : c \in x.ps
  <2>1. CASE c \in P
    BY <2>1
  <2>2. CASE c \notin P
    <3>1. c \in K \ H
      BY <2>2
    <3> QED BY <3>1 DEF Stored
  <2> QED BY <2>1, <2>2
<1> HIDE DEF N, G
<1>4. G # {}
  BY <1>1, <1>3, HeadExists
<1>5. Stored(N, G)
  BY <1>1, <1>2, <1>3, <1>4 DEF Stored
<1> QED BY <1>5 DEF N, G, P

-----------------------------------------------------------------------------
(* What the calls do to the references of a resolver *)

\* A task is posted.
LEMMA TasksAppend ==
    ASSUME NEW s, NEW K, TasksIn(s, K), NEW t, TaskIn(t, K)
    PROVE  TasksIn(Append(s, t), K)
<1>1. PICK X : s \in Seq(X) /\ \A u \in X : TaskIn(u, K)
  BY DEF TasksIn
<1> DEFINE Y == X \cup {t}
<1>2. s \in Seq(Y) /\ t \in Y
  BY <1>1
<1>3. \A u \in Y : TaskIn(u, K)
  BY <1>1
<1> HIDE DEF Y
<1>4. Append(s, t) \in Seq(Y)
  BY <1>2
<1> QED BY <1>3, <1>4 DEF TasksIn

\* A task is taken from the loop.
LEMMA TasksTail ==
    ASSUME NEW s, NEW K, TasksIn(s, K), s # <<>>
    PROVE  TasksIn(Tail(s), K) /\ TaskIn(Head(s), K)
<1>1. PICK X : s \in Seq(X) /\ \A u \in X : TaskIn(u, K)
  BY DEF TasksIn
<1>2. Tail(s) \in Seq(X) /\ Head(s) \in X
  BY <1>1
<1> QED BY <1>1, <1>2 DEF TasksIn

\* References stay good when commits are added.
LEMMA RefersMore ==
    ASSUME NEW r, NEW K, RefersTo(r, K), NEW L, K \subseteq L
    PROVE  RefersTo(r, L)
<1>1. PICK X : r.tasks \in Seq(X) /\ \A u \in X : TaskIn(u, K)
  BY DEF RefersTo, TasksIn
<1>2. \A u \in X : TaskIn(u, L)
  BY <1>1 DEF TaskIn
<1>3. MergeIn(r.merge, L)
  BY DEF RefersTo, MergeIn
<1> QED BY <1>1, <1>2, <1>3 DEF RefersTo, TasksIn

\* Flags and strategies refer to no commit.
LEMMA RefersFields ==
    ASSUME NEW r, NEW K, RefersTo(r, K), NEW q, q.merge = r.merge, q.tasks = r.tasks
    PROVE  RefersTo(q, K)
  BY DEF RefersTo

\* A posted check refers to no commit.
LEMMA PostRefers ==
    ASSUME NEW r, Shape(r), NEW K, RefersTo(r, K), NEW delay \in BOOLEAN
    PROVE  RefersTo(Post(r, delay), K)
<1> DEFINE t == [kind |-> "check", delay |-> delay]
           q == Post(r, delay)
<1>1. q.merge = r.merge /\ q.tasks = Append(r.tasks, t)
  BY DEF Post, Shape
<1>2. TaskIn(t, K)
  BY DEF TaskIn
<1> HIDE DEF t, q
<1>3. TasksIn(Append(r.tasks, t), K)
  BY <1>2, TasksAppend DEF RefersTo
<1>4. RefersTo(q, K)
  BY <1>1, <1>3 DEF RefersTo
<1> QED BY <1>4 DEF q

\* A merge of two stored commits.
LEMMA MergeRefers ==
    ASSUME NEW r, Shape(r), NEW K, RefersTo(r, K), NEW m, MergeIn(m, K)
    PROVE  RefersTo([r EXCEPT !.merge = m], K)
<1> DEFINE q == [r EXCEPT !.merge = m]
<1>1. q.merge = m /\ q.tasks = r.tasks
  BY DEF Shape
<1> HIDE DEF q
<1>2. RefersTo(q, K)
  BY <1>1 DEF RefersTo
<1> QED BY <1>2 DEF q

\* The empty merge.
LEMMA NoMergeRefers ==
    ASSUME NEW K, History(K)
    PROVE  MergeIn(NoMerge, K)
  BY RootFacts DEF NoMerge, History, MergeIn

\* The cleanup drops the references of the merge.
LEMMA CleanupRefers ==
    ASSUME NEW r, Shape(r), NEW K, History(K), RefersTo(r, K)
    PROVE  RefersTo(Cleanup(r), K)
<1> DEFINE s == IF r.next = Keep THEN r.strategy ELSE r.next
           q == [r EXCEPT !.merge = NoMerge, !.strategy = s, !.next = Keep]
<1> HIDE DEF s
<1>1. DOMAIN q = DOMAIN r /\ q.merge = NoMerge /\ q.tasks = r.tasks
  BY DEF Shape
<1>2. Cleanup(r) = Post(q, r.merge.delay)
  BY DEF Cleanup, s, Shape
<1> HIDE DEF q
<1>3. Shape(q) /\ RefersTo(q, K)
  BY <1>1, NoMergeShape, NoMergeRefers DEF Shape, RefersTo
<1>4. r.merge.delay \in BOOLEAN
  BY DEF RefersTo, MergeIn
<1> QED BY <1>2, <1>3, <1>4, PostRefers

\* A cancelled merge refers to what it did.
LEMMA CancelRefers ==
    ASSUME NEW r, Shape(r), NEW K, History(K), RefersTo(r, K)
    PROVE  RefersTo(Cancel(r), K)
<1> DEFINE m == [r.merge EXCEPT !.cancelled = TRUE]
<1>1. /\ m.left = r.merge.left /\ m.right = r.merge.right /\ m.anc = r.merge.anc
      /\ m.pc = r.merge.pc /\ m.how = r.merge.how /\ m.val = r.merge.val
      /\ m.cancelled = TRUE /\ m.delay = r.merge.delay
  BY DEF Shape
<1>2. Cancel(r) \in {r, Cleanup(r), [r EXCEPT !.merge = m]}
  BY DEF Cancel
<1> HIDE DEF m
<1>3. MergeIn(m, K)
  BY <1>1 DEF RefersTo, MergeIn
<1>4. RefersTo([r EXCEPT !.merge = m], K)
  BY <1>3, MergeRefers
<1> QED BY <1>2, <1>4, CleanupRefers

\* A new strategy brings no references.
LEMMA SetMergeStrategyRefers ==
    ASSUME NEW r, Shape(r), NEW K, History(K), RefersTo(r, K), NEW s
    PROVE  RefersTo(SetMergeStrategy(r, s), K)
<1> DEFINE p == [r EXCEPT !.next = s]
           q == [r EXCEPT !.strategy = s]
<1>1. /\ DOMAIN p = DOMAIN r /\ p.merge = r.merge /\ p.tasks = r.tasks
      /\ DOMAIN q = DOMAIN r /\ q.merge = r.merge /\ q.tasks = r.tasks
  BY DEF Shape
<1>2. SetMergeStrategy(r, s) \in {Cancel(p), q, Post(q, FALSE)}
  BY DEF SetMergeStrategy
<1> HIDE DEF p, q
<1>3. Shape(p) /\ Shape(q) /\ RefersTo(p, K) /\ RefersTo(q, K)
  BY <1>1 DEF Shape, RefersTo
<1>4. RefersTo(Cancel(p), K)
  BY <1>3, CancelRefers
<1>5. RefersTo(Post(q, FALSE), K)
  BY <1>3, PostRefers
<1> QED BY <1>2, <1>3, <1>4, <1>5

\* CheckConflicts posts the heads of now.
LEMMA CheckConflictsRefers ==
    ASSUME NEW d, NEW r, Shape(r), NEW K, RefersTo(r, K), heads[d] # {}, heads[d] \subseteq K,
           NEW delay \in BOOLEAN
    PROVE  RefersTo(CheckConflicts(d, r, delay), K)
<1> DEFINE t == [kind |-> "heads", delay |-> delay, heads |-> heads[d]]
           q == [r EXCEPT !.checking = TRUE, !.tasks = Append(@, t)]
<1>1. TaskIn(t, K)
  BY DEF TaskIn
<1>2. CheckConflicts(d, r, delay) \in {r, q}
  BY DEF CheckConflicts
<1> HIDE DEF t
<1>3. q.merge = r.merge /\ q.tasks = Append(r.tasks, t)
  BY DEF Shape
<1> HIDE DEF q
<1>4. TasksIn(Append(r.tasks, t), K)
  BY <1>1, TasksAppend DEF RefersTo
<1>5. RefersTo(q, K)
  BY <1>3, <1>4 DEF RefersTo
<1> QED BY <1>2, <1>5

-----------------------------------------------------------------------------
(* The steps and the stores *)

\* Only the resolver of one device moves.
LEMMA ResolverMoves ==
    ASSUME IInv, StoresOK, NEW d \in Device, NEW r, RefersTo(r, commits[d]), Becomes(d, r),
           UNCHANGED store, made' \in Nat
    PROVE  StoresOK'
<1>1. /\ commits' = commits /\ heads' = heads /\ cloud' = cloud
      /\ resolver'[d] = r /\ \A e \in Device : e # d => resolver'[e] = resolver[e]
  BY DEF store, Becomes, IInv
<1>2. ASSUME NEW e \in Device PROVE RefersTo(resolver'[e], commits[e])
  BY <1>1 DEF StoresOK
<1> QED BY <1>1, <1>2 DEF StoresOK

\* One device adds commits.
LEMMA CommitsMove ==
    ASSUME IInv, StoresOK, NEW d \in Device, NEW r, Shape(r), RefersTo(r, commits[d]),
           NEW new, IsFiniteSet(new), \A c \in new : CommitIn(c, commits[d] \cup new),
           NEW remote \in BOOLEAN, AddCommits(d, new, remote, r), cloud' = cloud, made' \in Nat
    PROVE  StoresOK'
<1> DEFINE K == commits[d] \cup new
           P == UNION {c.ps : c \in new \ commits[d]}
           H == (heads[d] \cup (new \ commits[d])) \ P
           q == Post(r, remote)
<1>1. /\ commits' = [commits EXCEPT ![d] = K]
      /\ heads' = [heads EXCEPT ![d] = H]
      /\ resolver' = [resolver EXCEPT ![d] = q]
  BY DEF AddCommits, Becomes
<1>2. Stored(K, H)
  BY StoredGrows DEF StoresOK
<1>3. RefersTo(q, K)
  BY PostRefers, RefersMore
<1> HIDE DEF K, H, P, q
<1>4. /\ DOMAIN commits' = Device /\ DOMAIN heads' = Device
      /\ commits'[d] = K /\ heads'[d] = H /\ resolver'[d] = q
      /\ \A e \in Device : e # d => /\ commits'[e] = commits[e] /\ heads'[e] = heads[e]
                                    /\ resolver'[e] = resolver[e]
  BY <1>1 DEF StoresOK, IInv
<1>5. ASSUME NEW e \in Device
      PROVE  Stored(commits'[e], heads'[e]) /\ RefersTo(resolver'[e], commits'[e])
  <2>1. CASE e = d
    BY <1>2, <1>3, <1>4, <2>1
  <2>2. CASE e # d
    BY <1>4, <2>2 DEF StoresOK
  <2> QED BY <2>1, <2>2
<1> QED BY <1>4, <1>5 DEF StoresOK

\* What the invariants say of one device.
LEMMA DeviceFacts ==
    ASSUME IInv, StoresOK, NEW d \in Device
    PROVE  /\ Shape(resolver[d]) /\ RefersTo(resolver[d], commits[d]) /\ History(commits[d])
           /\ heads[d] # {} /\ heads[d] \subseteq commits[d]
           /\ MergeIn(resolver[d].merge, commits[d])
  BY DEF IInv, ResolverOK, StoresOK, Stored, RefersTo

\* A merge ends.
LEMMA EndsStores ==
    ASSUME IInv, StoresOK, NEW d \in Device, Ends(d), UNCHANGED <<store, made>>
    PROVE  StoresOK'
<1>1. RefersTo(Cleanup(resolver[d]), commits[d])
  BY DeviceFacts, CleanupRefers
<1> QED BY <1>1, ResolverMoves DEF Ends, StoresOK

\* A merge goes on with stored commits.
LEMMA GoesStores ==
    ASSUME IInv, StoresOK, NEW d \in Device, NEW m, Goes(d, m), UNCHANGED <<store, made>>,
           MergeIn(m, commits[d])
    PROVE  StoresOK'
<1>1. RefersTo([resolver[d] EXCEPT !.merge = m], commits[d])
  BY DeviceFacts, MergeRefers
<1> QED BY <1>1, ResolverMoves DEF Goes, StoresOK

\* The answer of GetHeadCommitIds has two heads when it has not one.
LEMMA TasksStore ==
    ASSUME IInv, StoresOK, NEW d \in Device,
           RunCheck(d) \/ DelayExpires(d) \/ HeadsAnswered(d) \/ HeadsFail(d)
    PROVE  StoresOK'
<1> DEFINE r == resolver[d]
           K == commits[d]
           p == Popped(d)
<1>0. UNCHANGED <<store, made>> /\ made' \in Nat
  BY DEF RunCheck, DelayExpires, HeadsAnswered, HeadsFail, bounds, StoresOK
<1>1. /\ Shape(r) /\ RefersTo(r, K) /\ History(K) /\ heads[d] # {} /\ heads[d] \subseteq K
  BY DeviceFacts
<1>2. p.merge = r.merge /\ p.tasks = Tail(r.tasks) /\ DOMAIN p = DOMAIN r
  BY <1>1 DEF Popped, Shape
<1> HIDE DEF p
<1>3. ASSUME r.tasks # <<>>
      PROVE  Shape(p) /\ RefersTo(p, K) /\ TaskIn(Head(r.tasks), K)
  BY <1>1, <1>2, <1>3, TasksTail DEF Shape, RefersTo
<1>4. CASE RunCheck(d)
  <2>1. r.tasks # <<>> /\ Becomes(d, CheckConflicts(d, p, Head(r.tasks).delay))
    BY <1>4 DEF RunCheck, Front, p
  <2>2. RefersTo(CheckConflicts(d, p, Head(r.tasks).delay), K)
    BY <1>1, <1>3, <2>1, CheckConflictsRefers DEF TaskIn
  <2> QED BY <1>0, <2>1, <2>2, ResolverMoves
<1>5. CASE DelayExpires(d)
  <2> DEFINE q == [r EXCEPT !.inDelay = FALSE]
  <2>1. q.merge = r.merge /\ q.tasks = r.tasks /\ DOMAIN q = DOMAIN r
    BY <1>1 DEF Shape
  <2>2. Becomes(d, CheckConflicts(d, q, FALSE))
    BY <1>5 DEF DelayExpires
  <2> HIDE DEF q
  <2>3. Shape(q) /\ RefersTo(q, K)
    BY <1>1, <2>1 DEF Shape, RefersTo
  <2>4. RefersTo(CheckConflicts(d, q, FALSE), K)
    BY <1>1, <2>3, CheckConflictsRefers
  <2> QED BY <1>0, <2>2, <2>4, ResolverMoves
<1> DEFINE idle == [p EXCEPT !.checking = FALSE]
<1>6. idle.merge = p.merge /\ idle.tasks = p.tasks /\ DOMAIN idle = DOMAIN p
  BY <1>1, <1>2 DEF Shape
<1> HIDE DEF idle
<1>7. ASSUME r.tasks # <<>> PROVE Shape(idle) /\ RefersTo(idle, K)
  BY <1>3, <1>6, <1>7 DEF Shape, RefersTo
<1>8. CASE HeadsFail(d)
  <2>1. r.tasks # <<>> /\ Becomes(d, idle)
    BY <1>8 DEF HeadsFail, Front, idle, p
  <2> QED BY <1>0, <1>7, <2>1, ResolverMoves
<1>9. CASE HeadsAnswered(d)
  <2> DEFINE t == Head(r.tasks)
             first == Oldest(t.heads)
             second == Oldest(t.heads \ {first})
             q == [idle EXCEPT !.waiting = FALSE]
             m == [NoMerge EXCEPT !.pc = "commits", !.left = first, !.right = second,
                                  !.delay = t.delay]
  <2>1. r.tasks # <<>> /\ t.kind = "heads"
    BY <1>9 DEF HeadsAnswered, Front
  <2>2. \/ Becomes(d, q) \/ Becomes(d, idle)
        \/ Cardinality(t.heads) # 1 /\ Becomes(d, [idle EXCEPT !.merge = m])
    BY <1>9 DEF HeadsAnswered, idle, p
  <2>3. /\ m.left = first /\ m.right = second /\ m.delay = t.delay /\ m.pc = "commits"
        /\ m.anc = NoMerge.anc /\ m.how = NoMerge.how /\ m.val = NoMerge.val
        /\ m.cancelled = NoMerge.cancelled
    BY DEF NoMerge
  <2>4. q.merge = idle.merge /\ q.tasks = idle.tasks
    BY <1>7, <2>1 DEF Shape
  <2>5. t.heads # {} /\ t.heads \subseteq K /\ t.delay \in BOOLEAN
    BY <1>3, <2>1 DEF TaskIn
  <2>6. \A c \in t.heads : c.ts \in Nat
    BY <1>1, <2>5 DEF History, CommitIn
  <2> HIDE DEF q, m
  <2>7. RefersTo(q, K)
    BY <1>7, <2>1, <2>4, RefersFields
  <2>8. ASSUME Cardinality(t.heads) # 1 PROVE RefersTo([idle EXCEPT !.merge = m], K)
    <3>1. first \in t.heads
      BY <2>5, <2>6, OldestExists
    <3>2. t.heads \ {first} # {}
      <4> SUFFICES ASSUME t.heads \ {first} = {} PROVE FALSE
        OBVIOUS
      <4>1. t.heads = {first}
        BY <3>1
      <4> QED BY <2>8, <4>1, FS_Singleton
    <3>3. second \in t.heads \ {first}
      BY <2>6, <3>2, OldestExists
    <3>4. MergeIn(m, K)
      BY <1>1, <2>3, <2>5, <3>1, <3>3, NoMergeRefers DEF MergeIn
    <3> QED BY <1>7, <2>1, <3>4, MergeRefers
  <2> QED BY <1>0, <1>7, <2>1, <2>2, <2>7, <2>8, ResolverMoves
<1> QED BY <1>4, <1>5, <1>8, <1>9

\* The commits of all devices are a history.
LEMMA AllHistory ==
    ASSUME StoresOK, NEW d \in Device
    PROVE  History(All) /\ commits[d] \subseteq All
<1>1. \A e \in Device : History(commits[e])
  BY DEF StoresOK, Stored
<1>2. commits[d] \subseteq All
  BY DEF All
<1>3. Root \in All
  BY <1>1, <1>2 DEF History
<1>4. ASSUME NEW x \in All PROVE CommitIn(x, All)
  <2>1. PICK e \in Device : x \in commits[e]
    BY DEF All
  <2>2. commits[e] \subseteq All
    BY DEF All
  <2> QED BY <1>1, <2>1, <2>2 DEF History, CommitIn
<1> QED BY <1>2, <1>3, <1>4 DEF History

\* The ancestor that a merge starts from is stored.
LEMMA AncestorStored ==
    ASSUME StoresOK, NEW d \in Device, NEW h \in commits[d], NEW c \in commits[d]
    PROVE  FindCommonAncestor(h, c, commits[d]) \in commits[d]
<1>1. History(commits[d]) /\ IsFiniteSet(commits[d])
  BY DEF StoresOK, Stored
<1> QED BY <1>1, AllHistory, NearestAncestor

\* The steps of a merge refer to the same two commits, and the commit of its
\* end is their child.
LEMMA MergeStepsStore ==
    ASSUME IInv, StoresOK, NEW d \in Device,
           \/ CommitsRead(d) \/ AncestorFound(d) \/ Compared(d) \/ JournalStarted(d)
           \/ ClientResolves(d) \/ MergeCommitted(d) \/ MergeFinished(d)
    PROVE  StoresOK'
<1> DEFINE r == resolver[d]
           m == r.merge
           K == commits[d]
<1>1. Shape(r) /\ RefersTo(r, K) /\ History(K) /\ MergeIn(m, K)
  BY DeviceFacts
<1>2. DOMAIN m = {"pc", "left", "right", "anc", "how", "val", "by", "cancelled", "delay"}
  BY <1>1 DEF Shape
<1>3. /\ m.left \in K /\ m.right \in K /\ m.anc \in K /\ m.val \in [Key -> Value]
      /\ m.left.val \in [Key -> Value] /\ m.right.val \in [Key -> Value]
  BY <1>1 DEF MergeIn, History, CommitIn
<1>4. CASE CommitsRead(d)
  <2>0. UNCHANGED <<store, made>> /\ made' \in Nat
    BY <1>4 DEF CommitsRead, bounds, StoresOK
  <2> DEFINE q == [r EXCEPT !.inDelay = TRUE, !.merge = NoMerge]
             n1 == [m EXCEPT !.pc = "journal", !.how = "same", !.val = m.left.val]
             n2 == [m EXCEPT !.pc = "ancestor"]
  <2>1. Becomes(d, q) \/ Ends(d) \/ Goes(d, n1) \/ Goes(d, n2)
    BY <1>4 DEF CommitsRead
  <2>2. q.merge = NoMerge /\ q.tasks = r.tasks
    BY <1>1 DEF Shape
  <2>3. MergeIn(n1, K) /\ MergeIn(n2, K)
    <3>1. /\ n1.left = m.left /\ n1.right = m.right /\ n1.anc = m.anc /\ n1.pc = "journal"
          /\ n1.how = "same" /\ n1.val = m.left.val /\ n1.cancelled = m.cancelled
          /\ n1.delay = m.delay
      BY <1>2
    <3>2. /\ n2.left = m.left /\ n2.right = m.right /\ n2.anc = m.anc /\ n2.pc = "ancestor"
          /\ n2.how = m.how /\ n2.val = m.val /\ n2.cancelled = m.cancelled
          /\ n2.delay = m.delay
      BY <1>2
    <3> HIDE DEF n1, n2
    <3> QED BY <1>1, <1>3, <3>1, <3>2 DEF MergeIn, InStrategy
  <2> HIDE DEF q, n1, n2
  <2>4. RefersTo(q, K)
    BY <1>1, <2>2, NoMergeRefers DEF RefersTo
  <2>5. CASE Becomes(d, q)
    BY <2>0, <2>4, <2>5, ResolverMoves
  <2>6. CASE Goes(d, n1) \/ Goes(d, n2)
    BY <2>0, <2>3, <2>6, GoesStores
  <2>7. CASE Ends(d)
    BY <2>0, <2>7, EndsStores
  <2> QED BY <2>1, <2>5, <2>6, <2>7
<1>5. CASE AncestorFound(d)
  <2>0. UNCHANGED <<store, made>>
    BY <1>5 DEF AncestorFound
  <2> DEFINE anc == FindCommonAncestor(m.left, m.right, K)
             found == [m EXCEPT !.anc = anc, !.how = r.strategy, !.by = r.strategy]
             swapped == [found EXCEPT !.left = m.right, !.right = m.left]
             n1 == [found EXCEPT !.pc = "journal"]
             n2 == [swapped EXCEPT !.pc = "compare"]
             n3 == [swapped EXCEPT !.pc = "journal"]
  <2>1. \/ Ends(d)
        \/ /\ At(d, "ancestor")
           /\ Goes(d, CASE r.strategy = "low" -> n1
                        [] r.strategy = "auto" -> n2
                        [] r.strategy = "custom" -> n3)
    BY <1>5 DEF AncestorFound
  <2>2. At(d, "ancestor") => r.strategy \in {"low", "auto", "custom"}
    BY PolicyAssumption DEF At, IInv, ResolverOK, StrategyOK, Strategy
  <2>3. anc \in K
    BY <1>3, AncestorStored
  <2> HIDE DEF anc
  <2>4. /\ DOMAIN found = DOMAIN m /\ found.left = m.left /\ found.right = m.right
        /\ found.anc = anc /\ found.how = r.strategy /\ found.val = m.val
        /\ found.cancelled = m.cancelled /\ found.delay = m.delay
    BY <1>2
  <2> HIDE DEF found
  <2>5. /\ DOMAIN swapped = DOMAIN m /\ swapped.left = m.right /\ swapped.right = m.left
        /\ swapped.anc = anc /\ swapped.how = r.strategy /\ swapped.val = m.val
        /\ swapped.cancelled = m.cancelled /\ swapped.delay = m.delay
    BY <1>2, <2>4
  <2> HIDE DEF swapped
  <2>6. ASSUME NEW n, n \in {n1, n2, n3}, r.strategy \in {"low", "auto", "custom"}
        PROVE  MergeIn(n, K)
    <3>1. /\ n.left \in {m.left, m.right} /\ n.right \in {m.left, m.right} /\ n.anc = anc
          /\ n.pc \in {"journal", "compare"} /\ n.how = r.strategy /\ n.val = m.val
          /\ n.cancelled = m.cancelled /\ n.delay = m.delay
      <4>1. CASE n = n1
        BY <1>2, <2>4, <4>1
      <4>2. CASE n = n2
        BY <1>2, <2>5, <4>2
      <4>3. CASE n = n3
        BY <1>2, <2>5, <4>3
      <4> HIDE DEF n1, n2, n3
      <4> QED BY <2>6, <4>1, <4>2, <4>3
    <3> QED BY <1>1, <1>3, <2>3, <2>6, <3>1 DEF MergeIn, InStrategy
  <2> HIDE DEF n1, n2, n3
  <2>7. Ends(d) \/ \E n \in {n1, n2, n3} : Goes(d, n) /\ MergeIn(n, K)
    BY <2>1, <2>2, <2>6
  <2>8. CASE Ends(d)
    BY <2>0, <2>8, EndsStores
  <2>9. CASE \E n \in {n1, n2, n3} : Goes(d, n) /\ MergeIn(n, K)
    BY <2>0, <2>9, GoesStores
  <2> QED BY <2>7, <2>8, <2>9
<1>6. CASE Compared(d)
  <2> DEFINE how == IF Distinct(m.anc, m.left, m.right) THEN "auto" ELSE "custom"
             n == [m EXCEPT !.pc = "journal", !.how = how]
  <2>1. (Ends(d) \/ Goes(d, n)) /\ UNCHANGED <<store, made>>
    BY <1>6 DEF Compared
  <2>2. how \in {"auto", "custom"}
    OBVIOUS
  <2> HIDE DEF how
  <2>3. MergeIn(n, K)
    <3>1. /\ n.left = m.left /\ n.right = m.right /\ n.anc = m.anc /\ n.pc = "journal"
          /\ n.how = how /\ n.val = m.val /\ n.cancelled = m.cancelled /\ n.delay = m.delay
      BY <1>2
    <3> HIDE DEF n
    <3> QED BY <1>1, <2>2, <3>1 DEF MergeIn, InStrategy
  <2> HIDE DEF n
  <2> QED BY <2>1, <2>3, EndsStores, GoesStores
<1>7. ASSUME NEW pc \in {"commit", "client"}, NEW val \in [Key -> Value], UNCHANGED <<store, made>>,
             Goes(d, [m EXCEPT !.pc = pc, !.val = val])
      PROVE  StoresOK'
  <2> DEFINE n == [m EXCEPT !.pc = pc, !.val = val]
  <2>1. /\ n.left = m.left /\ n.right = m.right /\ n.anc = m.anc /\ n.pc = pc
        /\ n.how = m.how /\ n.val = val /\ n.cancelled = m.cancelled /\ n.delay = m.delay
    BY <1>2
  <2>2. Goes(d, n)
    BY <1>7
  <2> HIDE DEF n
  <2>3. MergeIn(n, K)
    BY <1>1, <2>1 DEF MergeIn, InStrategy
  <2> QED BY <1>7, <2>2, <2>3, GoesStores
<1>8. CASE JournalStarted(d)
  <2> DEFINE val == Apply(m.anc, m.left, m.right)
             n1 == [m EXCEPT !.pc = "commit"]
             n2 == [m EXCEPT !.pc = "client"]
  <2>1. /\ \/ Ends(d) \/ Goes(d, n1) \/ Goes(d, n2)
           \/ Goes(d, [m EXCEPT !.pc = "commit", !.val = val])
        /\ UNCHANGED <<store, made>>
    BY <1>8 DEF JournalStarted
  <2>2. val \in [Key -> Value]
    BY <1>3 DEF Apply
  <2> HIDE DEF val
  <2>3. /\ n1 = [m EXCEPT !.pc = "commit", !.val = m.val]
        /\ n2 = [m EXCEPT !.pc = "client", !.val = m.val]
    BY <1>2
  <2> HIDE DEF n1, n2
  <2>4. CASE Ends(d)
    BY <2>1, <2>4, EndsStores
  <2>5. CASE Goes(d, n1) \/ Goes(d, n2)
    BY <1>3, <1>7, <2>1, <2>3, <2>5
  <2>6. CASE Goes(d, [m EXCEPT !.pc = "commit", !.val = val])
    BY <1>7, <2>1, <2>2, <2>6
  <2> QED BY <2>1, <2>4, <2>5, <2>6
<1>9. CASE ClientResolves(d)
  <2>1. /\ \/ Ends(d)
           \/ \E val \in {m.left.val, m.right.val, Root.val} :
                 Goes(d, [m EXCEPT !.pc = "commit", !.val = val])
        /\ UNCHANGED <<store, made>>
    BY <1>9 DEF ClientResolves
  <2>2. \A val \in {m.left.val, m.right.val, Root.val} : val \in [Key -> Value]
    BY <1>3, RootFacts
  <2> QED BY <1>7, <2>1, <2>2, EndsStores
<1>10. CASE MergeCommitted(d)
  <2> DEFINE n == [m EXCEPT !.pc = "finish"]
             q == [r EXCEPT !.merge = n]
             c == CommitOf({m.left, m.right}, m.val, 0)
  <2>1. /\ cloud' = cloud /\ made' = made
        /\ (Ends(d) /\ UNCHANGED <<commits, heads>>) \/ AddCommits(d, {c}, FALSE, q)
    BY <1>10 DEF MergeCommitted
  <2>2. /\ n.left = m.left /\ n.right = m.right /\ n.anc = m.anc /\ n.pc = "finish"
        /\ n.how = m.how /\ n.val = m.val /\ n.cancelled = m.cancelled /\ n.delay = m.delay
        /\ DOMAIN n = DOMAIN m
    BY <1>2
  <2>3. CommitIn(c, K)
    BY <1>1, <1>3, CommitOfIn
  <2> HIDE DEF n
  <2>4. DOMAIN q = DOMAIN r /\ q.merge = n
    BY <1>1 DEF Shape
  <2>5. MergeIn(n, K)
    BY <1>1, <2>2 DEF MergeIn, InStrategy
  <2>6. RefersTo(q, K)
    BY <1>1, <2>5, MergeRefers
  <2> HIDE DEF q, c
  <2>7. Shape(q)
    BY <1>1, <2>2, <2>4 DEF Shape
  <2>8. IsFiniteSet({c}) /\ \A x \in {c} : CommitIn(x, K \cup {c})
    BY <2>3, FS_Singleton DEF CommitIn
  <2>9. made' \in Nat
    BY <2>1 DEF StoresOK
  <2>10. CASE AddCommits(d, {c}, FALSE, q)
    BY <2>1, <2>6, <2>7, <2>8, <2>9, <2>10, CommitsMove
  <2>11. CASE Ends(d) /\ UNCHANGED <<commits, heads>>
    BY <2>1, <2>11, EndsStores DEF store
  <2> QED BY <2>1, <2>10, <2>11
<1>11. CASE MergeFinished(d)
  BY <1>11, EndsStores DEF MergeFinished, bounds
<1> QED BY <1>4, <1>5, <1>6, <1>8, <1>9, <1>10, <1>11

\* LedgerMergeManager touches no commit.
LEMMA ManagerStepsStore ==
    ASSUME IInv, StoresOK, NEW d \in Device,
           SetFactory(d) \/ PolicyAnswered(d) \/ ResolverLost(d)
    PROVE  StoresOK'
<1> DEFINE r == resolver[d]
           K == commits[d]
<1>0. UNCHANGED store /\ made' \in Nat
  BY DEF SetFactory, PolicyAnswered, ResolverLost, bounds, StoresOK
<1>1. ResolverOK(r) /\ Shape(r) /\ RefersTo(r, K) /\ History(K)
  BY DeviceFacts DEF IInv
<1>2. ASSUME NEW q, Shape(q), RefersTo(q, K), NEW f, StrategyForPage(d, f, q) PROVE StoresOK'
  <2>1. RefersTo(SetMergeStrategy(q, "low"), K) /\ RefersTo(SetMergeStrategy(q, None), K)
    BY <1>1, <1>2, SetMergeStrategyRefers
  <2>2. \/ Becomes(d, SetMergeStrategy(q, "low")) \/ Becomes(d, SetMergeStrategy(q, None))
        \/ Becomes(d, q)
    BY <1>2 DEF StrategyForPage
  <2> QED BY <1>0, <1>2, <2>1, <2>2, ResolverMoves
<1>3. CASE SetFactory(d)
  <2>1. Shape(SetMergeStrategy(r, None)) /\ RefersTo(SetMergeStrategy(r, None), K)
    BY <1>1, SetMergeStrategyOK, SetMergeStrategyRefers DEF ResolverOK
  <2> QED BY <1>2, <1>3, <2>1 DEF SetFactory
<1>4. CASE PolicyAnswered(d)
  <2>1. PICK p \in Policy : Becomes(d, SetMergeStrategy(r, p))
    BY <1>4 DEF PolicyAnswered
  <2>2. RefersTo(SetMergeStrategy(r, p), K)
    BY <1>1, SetMergeStrategyRefers
  <2> QED BY <1>0, <2>1, <2>2, ResolverMoves
<1>5. CASE ResolverLost(d)
  <2>1. ResolverOK(Cancel(r)) /\ RefersTo(Cancel(r), K)
    BY <1>1, CancelOK, CancelRefers
  <2>2. ResolverOK(SetMergeStrategy(Cancel(r), None))
    BY <2>1, SetMergeStrategyOK
  <2>3. Shape(SetMergeStrategy(Cancel(r), None)) /\ RefersTo(SetMergeStrategy(Cancel(r), None), K)
    BY <1>1, <2>1, <2>2, SetMergeStrategyRefers DEF ResolverOK
  <2> QED BY <1>2, <1>5, <2>3 DEF ResolverLost
<1> QED BY <1>3, <1>4, <1>5

\* Commits of a client and of sync.
LEMMA CommitStepsStore ==
    ASSUME IInv, StoresOK, NEW d \in Device, ClientCommits(d) \/ Upload(d) \/ Download(d)
    PROVE  StoresOK'
<1> DEFINE K == commits[d]
<1>1. Shape(resolver[d]) /\ RefersTo(resolver[d], K) /\ History(K) /\ heads[d] \subseteq K
  BY DeviceFacts
<1>2. CASE ClientCommits(d)
  <2>1. PICK h \in heads[d], w \in Write[made + 1] :
           AddCommits(d, {CommitOf({h}, [h.val EXCEPT ![w[2]] = w[3]], made + 1)}, FALSE,
                      resolver[d])
    BY <1>2 DEF ClientCommits
  <2> DEFINE val == [h.val EXCEPT ![w[2]] = w[3]]
             c == CommitOf({h}, val, made + 1)
  <2>2. cloud' = cloud /\ made + 1 \in Nat /\ made' \in Nat
    BY <1>2 DEF ClientCommits, StoresOK
  <2>3. val \in [Key -> Value]
    <3>1. h.val \in [Key -> Value]
      BY <1>1 DEF History, CommitIn
    <3>2. made + 1 \in 1..Len(Write)
      BY <1>2, ValueAssumption DEF ClientCommits, StoresOK
    <3>3. w \in Device \X Key \X Value
      BY <3>2, ValueAssumption
    <3> QED BY <3>1, <3>3
  <2> HIDE DEF val
  <2>4. CommitIn(c, K)
    <3>1. {h} = {h, h} /\ h \in K
      BY <1>1
    <3> QED BY <1>1, <2>2, <2>3, <3>1, CommitOfIn
  <2>5. AddCommits(d, {c}, FALSE, resolver[d])
    BY <2>1 DEF val
  <2> HIDE DEF c
  <2>6. IsFiniteSet({c}) /\ \A x \in {c} : CommitIn(x, K \cup {c})
    BY <2>4, FS_Singleton DEF CommitIn
  <2> QED BY <1>1, <2>2, <2>5, <2>6, CommitsMove
<1>3. CASE Upload(d)
  <2>1. /\ cloud' = cloud \cup K /\ made' = made
        /\ commits' = commits /\ heads' = heads /\ resolver' = resolver
    BY <1>3 DEF Upload, bounds
  <2>2. IsFiniteSet(cloud') /\ History(cloud')
    <3>1. \A c \in K : CommitIn(c, cloud \cup K)
      BY <1>1 DEF History, CommitIn
    <3>2. IsFiniteSet(cloud) /\ IsFiniteSet(K) /\ History(cloud)
      BY DEF StoresOK, Stored
    <3>3. IsFiniteSet(cloud \cup K)
      BY <3>2, FS_Union
    <3> HIDE DEF K
    <3> QED BY <2>1, <3>1, <3>2, <3>3, HistoryGrows
  <2> QED BY <2>1, <2>2 DEF StoresOK
<1>4. CASE Download(d)
  <2>1. AddCommits(d, cloud, TRUE, resolver[d]) /\ cloud' = cloud /\ made' \in Nat
    BY <1>4 DEF Download, bounds, StoresOK
  <2>2. IsFiniteSet(cloud) /\ \A c \in cloud : CommitIn(c, K \cup cloud)
    BY DEF StoresOK, History, CommitIn
  <2> QED BY <1>1, <2>1, <2>2, CommitsMove
<1> QED BY <1>2, <1>3, <1>4

\* The commits of every device and of the cloud are whole histories with a
\* first commit, and what a resolver holds is stored.
THEOREM StoreInvariance == Spec => []StoresOK
<1>1. Init => StoresOK
  <2> SUFFICES ASSUME Init PROVE StoresOK
    OBVIOUS
  <2>1. History({Root}) /\ IsFiniteSet({Root})
    <3>1. CommitIn(Root, {Root})
      BY RootFacts DEF CommitIn
    <3> QED BY <3>1, FS_Singleton DEF History
  <2>2. Stored({Root}, {Root})
    BY <2>1 DEF Stored
  <2>3. RefersTo(NewResolver, {Root})
    <3>1. NewResolver.merge = NoMerge /\ NewResolver.tasks = <<>>
      BY DEF NewResolver
    <3> DEFINE X == {}
    <3>2. <<>> \in Seq(X) /\ \A t \in X : FALSE
      OBVIOUS
    <3> HIDE DEF X
    <3>3. TasksIn(<<>>, {Root})
      BY <3>2 DEF TasksIn
    <3> QED BY <2>1, <3>1, <3>3, NoMergeRefers DEF RefersTo
  <2> QED BY <2>1, <2>2, <2>3 DEF Init, StoresOK
<1>2. IInv /\ StoresOK /\ [Next]_vars => StoresOK'
  <2> SUFFICES ASSUME IInv, StoresOK, [Next]_vars PROVE StoresOK'
    OBVIOUS
  <2>1. CASE UNCHANGED vars
    BY <2>1 DEF vars, StoresOK
  <2>2. ASSUME NEW d \in Device, Loop(d) PROVE StoresOK'
    BY <2>2, TasksStore, MergeStepsStore DEF Loop
  <2>3. ASSUME NEW d \in Device, ClientCommits(d) \/ Upload(d) \/ Download(d) PROVE StoresOK'
    BY <2>3, CommitStepsStore
  <2>4. ASSUME NEW d \in Device, FactoryLost(d) PROVE StoresOK'
    BY <2>4 DEF FactoryLost, store, StoresOK
  <2>5. ASSUME NEW d \in Device, SetFactory(d) \/ PolicyAnswered(d) \/ ResolverLost(d)
        PROVE  StoresOK'
    BY <2>5, ManagerStepsStore
  <2>6. ASSUME NEW d \in Device, WaitForConflictResolution(d) PROVE StoresOK'
    <3> DEFINE q == [resolver[d] EXCEPT !.waiting = TRUE]
    <3>1. Shape(resolver[d]) /\ RefersTo(resolver[d], commits[d])
      BY <2>6, DeviceFacts
    <3>2. q.merge = resolver[d].merge /\ q.tasks = resolver[d].tasks
      BY <3>1 DEF Shape
    <3>3. Becomes(d, q) /\ UNCHANGED store /\ made' \in Nat
      BY <2>6 DEF WaitForConflictResolution, bounds, StoresOK
    <3> HIDE DEF q
    <3>4. RefersTo(q, commits[d])
      BY <3>1, <3>2, RefersFields
    <3> QED BY <2>6, <3>3, <3>4, ResolverMoves
  <2> QED
    BY <2>1, <2>2, <2>3, <2>4, <2>5, <2>6 DEF Next
<1> QED BY <1>1, <1>2, Invariance, PTL DEF Spec

\* The cloud has only what some device has, and the types of the rest.
OthersOK ==
    /\ cloud \subseteq All
    /\ factory \in [Device -> {"none", "ok", "error"}]
    /\ asked \in [Device -> BOOLEAN] /\ missed \in [Device -> BOOLEAN]

\* No device drops a commit.
LEMMA CommitsStay ==
    ASSUME StoresOK, Next
    PROVE  \A e \in Device : commits[e] \subseteq commits'[e]
<1>1. ASSUME NEW d \in Device, NEW new, NEW remote, NEW r, AddCommits(d, new, remote, r)
      PROVE  \A e \in Device : commits[e] \subseteq commits'[e]
  BY <1>1 DEF AddCommits, StoresOK
<1>2. PICK d \in Device :
         \/ Loop(d) \/ ClientCommits(d) \/ Upload(d) \/ Download(d) \/ SetFactory(d)
         \/ PolicyAnswered(d) \/ FactoryLost(d) \/ ResolverLost(d) \/ WaitForConflictResolution(d)
  BY DEF Next
<1>3. CASE ClientCommits(d) \/ Download(d) \/ MergeCommitted(d)
  BY <1>1, <1>3 DEF ClientCommits, Download, MergeCommitted
<1>4. CASE ~(ClientCommits(d) \/ Download(d) \/ MergeCommitted(d))
  <2>1. commits' = commits
    BY <1>2, <1>4 DEF Loop, RunCheck, DelayExpires, HeadsAnswered, HeadsFail, CommitsRead,
       AncestorFound, Compared, JournalStarted, ClientResolves, MergeFinished, Upload, SetFactory,
       PolicyAnswered, FactoryLost, ResolverLost, WaitForConflictResolution, store
  <2> QED BY <2>1
<1> QED BY <1>3, <1>4

\* What comes into the cloud was on a device.
LEMMA OthersStep ==
    ASSUME StoresOK, OthersOK, Next
    PROVE  OthersOK'
<1>1. \A e \in Device : commits[e] \subseteq commits'[e]
  BY CommitsStay
<1>2. PICK d \in Device :
         \/ Loop(d) \/ ClientCommits(d) \/ Upload(d) \/ Download(d) \/ SetFactory(d)
         \/ PolicyAnswered(d) \/ FactoryLost(d) \/ ResolverLost(d) \/ WaitForConflictResolution(d)
  BY DEF Next
<1>3. cloud' \subseteq All'
  <2>1. cloud' = cloud \/ cloud' = cloud \cup commits[d]
    BY <1>2 DEF Loop, RunCheck, DelayExpires, HeadsAnswered, HeadsFail, CommitsRead,
       AncestorFound, Compared, JournalStarted, ClientResolves, MergeCommitted, MergeFinished,
       ClientCommits, Upload, Download, SetFactory, PolicyAnswered, FactoryLost, ResolverLost,
       WaitForConflictResolution, store
  <2>2. All \subseteq All' /\ commits[d] \subseteq All
    BY <1>1 DEF All
  <2> QED BY <2>1, <2>2 DEF OthersOK
<1>4. factory' \in [Device -> {"none", "ok", "error"}]
  <2>1. \/ factory' = factory
        \/ \E f \in {"none", "ok", "error"} : factory' = [factory EXCEPT ![d] = f]
    BY <1>2 DEF Loop, RunCheck, DelayExpires, HeadsAnswered, HeadsFail, CommitsRead,
       AncestorFound, Compared, JournalStarted, ClientResolves, MergeCommitted, MergeFinished,
       ClientCommits, Upload, Download, SetFactory, PolicyAnswered, FactoryLost, ResolverLost,
       WaitForConflictResolution
  <2> QED BY <2>1 DEF OthersOK
<1>5. asked' \in [Device -> BOOLEAN]
  <2>1. asked' = asked \/ \E f \in BOOLEAN : asked' = [asked EXCEPT ![d] = f]
    BY <1>2 DEF Loop, RunCheck, DelayExpires, HeadsAnswered, HeadsFail, CommitsRead,
       AncestorFound, Compared, JournalStarted, ClientResolves, MergeCommitted, MergeFinished,
       ClientCommits, Upload, Download, SetFactory, PolicyAnswered, FactoryLost, ResolverLost,
       WaitForConflictResolution, StrategyForPage
  <2> QED BY <2>1 DEF OthersOK
<1>6. missed' \in [Device -> BOOLEAN]
  <2>1. missed' = missed \/ \E f \in BOOLEAN : missed' = [missed EXCEPT ![d] = f]
    BY <1>2 DEF Loop, RunCheck, DelayExpires, HeadsAnswered, HeadsFail, CommitsRead,
       AncestorFound, Compared, JournalStarted, ClientResolves, MergeCommitted, MergeFinished,
       ClientCommits, Upload, Download, SetFactory, PolicyAnswered, FactoryLost, ResolverLost,
       WaitForConflictResolution
  <2> QED BY <2>1 DEF OthersOK
<1> QED BY <1>3, <1>4, <1>5, <1>6 DEF OthersOK

\* Every variable keeps its type; each device holds the history of its commits,
\* and the commits of a merge, its ancestor among them.
THEOREM TypeCorrect == Spec => []TypeOK
<1>1. Init => OthersOK
  <2> SUFFICES ASSUME Init PROVE OthersOK
    OBVIOUS
  <2>1. PICK d \in Device : TRUE
    BY DeviceAssumption
  <2>2. cloud \subseteq commits[d] /\ commits[d] \subseteq All
    BY DEF Init, All
  <2> QED BY <2>2 DEF Init, OthersOK
<1>2. StoresOK /\ OthersOK /\ [Next]_vars => OthersOK'
  <2>1. CASE UNCHANGED vars
    BY <2>1 DEF vars, OthersOK, All
  <2> QED BY <2>1, OthersStep
<1>3. IInv /\ StoresOK /\ OthersOK => TypeOK
  <2> SUFFICES ASSUME IInv, StoresOK, OthersOK PROVE TypeOK
    OBVIOUS
  <2>1. ASSUME NEW d \in Device
        PROVE  /\ \A c \in commits[d] : c.ps \subseteq commits[d] /\ c.val \in [Key -> Value]
               /\ heads[d] \subseteq commits[d] /\ heads[d] # {}
               /\ resolver[d].strategy \in Policy \cup {"low", None}
               /\ resolver[d].next \in Policy \cup {"low", None, Keep}
    BY DeviceFacts DEF History, CommitIn, IInv, ResolverOK, StrategyOK, Strategy
  <2>2. ASSUME NEW d \in Device
        PROVE  /\ {resolver[d].merge.left, resolver[d].merge.right, resolver[d].merge.anc}
                      \subseteq commits[d]
               /\ [f \in {"pc", "how", "by", "val", "cancelled", "delay"} |-> resolver[d].merge[f]]
                      \in MergeType
    <3> DEFINE m == resolver[d].merge
    <3>1. MergeIn(m, commits[d])
      BY DeviceFacts
    <3>2. m.by \in Policy \cup {"low", None}
      BY DEF IInv, ResolverOK, StrategyOK, Strategy
    <3> HIDE DEF m
    <3>3. {m.left, m.right, m.anc} \subseteq commits[d]
      BY <3>1 DEF MergeIn
    <3>4. [f \in {"pc", "how", "by", "val", "cancelled", "delay"} |-> m[f]] \in MergeType
      BY <3>1, <3>2 DEF MergeIn, MergeType
    <3> QED BY <3>3, <3>4 DEF m
  <2> QED BY <2>1, <2>2 DEF TypeOK, OthersOK, All
<1> QED BY <1>1, <1>2, <1>3, Invariance, StoreInvariance, PTL DEF Spec

\* Whenever a merge looks for the common ancestor, FindCommonAncestor ends and
\* gives, for a head and any commit, the nearest commit that all of the history
\* of both goes through, however the histories cross: the diffs from it are all
\* there is to merge.
THEOREM NearestAncestorIsFound == Spec => []AncestorIsNearest
<1>1. StoresOK => AncestorIsNearest
  <2> SUFFICES ASSUME StoresOK, NEW d \in Device, NEW h \in heads[d], NEW c \in commits[d]
               PROVE  LET common == {a \in Past(h) \cap Past(c) : Dominates(a, h) /\ Dominates(a, c)}
                          found == FindCommonAncestor(h, c, commits[d])
                      IN found \in common /\ common \subseteq Past(found)
    BY DEF AncestorIsNearest
  <2>1. History(commits[d]) /\ IsFiniteSet(commits[d]) /\ h \in commits[d]
    BY DEF StoresOK, Stored
  <2> QED BY <2>1, AllHistory, NearestAncestor
<1> QED BY <1>1, StoreInvariance, PTL

=============================================================================
