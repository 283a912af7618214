------------------------- MODULE PageDelegateProofs -------------------------
(***************************************************************************)
(* What a connection of a client sees of its page, for any number of       *)
(* watchers, commits, calls and faults: the commits it was told are made   *)
(* stay visible, its branch is at a head between transactions, and its     *)
(* watchers are never sent back.                                           *)
(***************************************************************************)
EXTENDS PageDelegate, TLAPS

-----------------------------------------------------------------------------
(* The history of a page as a graph g, so that two of them can be compared *)

Graph(g) ==
    /\ g \in Seq(SUBSET Nat)
    /\ \A c \in DOMAIN g : g[c] \subseteq 1..(c - 1)

Closed(g, S) == \A y \in S : g[y] \subseteq S

Anc(g, c) ==
    {x \in DOMAIN g : \A S \in SUBSET DOMAIN g : c \in S /\ Closed(g, S) => x \in S}

Tips(g) == {c \in DOMAIN g : \A d \in DOMAIN g : c \notin g[d]}

\* A commit is in its own past.
LEMMA AncSelf ==
    ASSUME NEW g, NEW c \in DOMAIN g
    PROVE  c \in Anc(g, c)
BY DEF Anc

\* The past of an ancestor is part of the past.
LEMMA AncTransitive ==
    ASSUME NEW g, NEW x, NEW y, NEW z, x \in Anc(g, y), y \in Anc(g, z)
    PROVE  x \in Anc(g, z)
<1>1. x \in DOMAIN g
  BY DEF Anc
<1>2. ASSUME NEW S \in SUBSET DOMAIN g, z \in S, Closed(g, S)
      PROVE  x \in S
  <2>1. y \in S
    BY <1>2 DEF Anc
  <2> QED BY <1>2, <2>1 DEF Anc
<1> QED BY <1>1, <1>2 DEF Anc

\* A parent is in the past.
LEMMA AncParent ==
    ASSUME NEW g, Graph(g), NEW c \in DOMAIN g, NEW p \in g[c]
    PROVE  p \in Anc(g, c)
<1>1. p \in DOMAIN g
  <2>1. DOMAIN g = 1..Len(g) /\ Len(g) \in Nat
    BY DEF Graph
  <2>2. p \in 1..(c - 1)
    BY DEF Graph
  <2> QED BY <2>1, <2>2
<1> QED BY <1>1 DEF Anc, Closed

\* A new commit takes nothing from any past; its parents are heads no more.
LEMMA GraphGrows ==
    ASSUME NEW g, Graph(g), NEW ps \in SUBSET DOMAIN g
    PROVE  LET h == Append(g, ps)
               n == Len(g) + 1
           IN /\ Graph(h)
              /\ DOMAIN h = DOMAIN g \cup {n} /\ n \notin DOMAIN g /\ n \in Nat
              /\ h[n] = ps
              /\ \A c \in DOMAIN g : Anc(g, c) \subseteq Anc(h, c)
              /\ Tips(h) = (Tips(g) \ ps) \cup {n}
<1> DEFINE h == Append(g, ps)
           n == Len(g) + 1
<1>0. g \in Seq(SUBSET Nat) /\ Len(g) \in Nat /\ DOMAIN g = 1..Len(g) /\ ps \in SUBSET Nat
  BY DEF Graph
<1>1. /\ h \in Seq(SUBSET Nat) /\ DOMAIN h = 1..n /\ h[n] = ps
      /\ \A c \in DOMAIN g : h[c] = g[c]
  BY <1>0
<1>2. DOMAIN h = DOMAIN g \cup {n} /\ n \notin DOMAIN g /\ n \in Nat
  BY <1>0, <1>1
<1>3. ps \subseteq 1..(n - 1)
  BY <1>0
<1> HIDE DEF h, n
<1>4. Graph(h)
  BY <1>1, <1>2, <1>3 DEF Graph
<1>5. ASSUME NEW c \in DOMAIN g, NEW x \in Anc(g, c)
      PROVE  x \in Anc(h, c)
  <2>1. x \in DOMAIN h
    BY <1>2 DEF Anc
  <2>2. ASSUME NEW S \in SUBSET DOMAIN h, c \in S, Closed(h, S)
        PROVE  x \in S
    <3> DEFINE R == S \cap DOMAIN g
    <3>1. Closed(g, R)
      <4> SUFFICES ASSUME NEW y \in R PROVE g[y] \subseteq R
        BY DEF Closed
      <4>1. g[y] \subseteq S
        BY <1>1, <2>2 DEF Closed
      <4>2. g[y] \subseteq DOMAIN g
        <5>1. g[y] \subseteq 1..(y - 1)
          BY DEF Graph
        <5> QED BY <1>0, <5>1
      <4> QED BY <4>1, <4>2
    <3>2. R \in SUBSET DOMAIN g /\ c \in R
      BY <2>2
    <3> HIDE DEF R
    <3>3. x \in R
      BY <3>1, <3>2 DEF Anc
    <3> QED BY <3>3 DEF R
  <2> QED BY <2>1, <2>2 DEF Anc
<1>6. Tips(h) = (Tips(g) \ ps) \cup {n}
  <2>1. \A d \in DOMAIN h : n \notin h[d]
    <3>1. n \notin ps
      BY <1>2
    <3>2. ASSUME NEW d \in DOMAIN g PROVE n \notin g[d]
      <4>1. g[d] \subseteq 1..(d - 1)
        BY DEF Graph
      <4> QED BY <1>0, <4>1 DEF n
    <3> QED BY <1>1, <1>2, <3>1, <3>2
  <2>2. \A c \in DOMAIN g : c \in Tips(h) <=> c \in Tips(g) /\ c \notin ps
    BY <1>1, <1>2 DEF Tips
  <2>3. n \in Tips(h)
    BY <1>2, <2>1 DEF Tips
  <2>4. Tips(h) \subseteq DOMAIN g \cup {n} /\ Tips(g) \subseteq DOMAIN g
    BY <1>2 DEF Tips
  <2> QED BY <2>2, <2>3, <2>4
<1> QED BY <1>1, <1>2, <1>4, <1>5, <1>6 DEF h, n

\* The model's operators in these terms.
LEMMA InGraphTerms ==
    /\ Heads = Tips(parents) /\ Heads' = Tips(parents')
    /\ Commits = DOMAIN parents /\ Commits' = DOMAIN parents'
    /\ \A c : Past(c) = Anc(parents, c) /\ Past(c)' = Anc(parents', c)
BY DEF Heads, Tips, Commits, Past, Anc, Closed

-----------------------------------------------------------------------------
(* Watchers *)

WatcherType(g) ==
    [pc : {"none", "idle", "diff", "client"}, last : DOMAIN g \cup {None},
     current : DOMAIN g \cup {None}, sending : DOMAIN g \cup {None}, drain : BOOLEAN]

IsWatcher(g, w) ==
    w \in WatcherType(g) /\ (w.pc \in {"diff", "client"} <=> w.sending # None)

\* Follows, in the history g.
Knows(g, w, c) ==
    /\ w.last \in Anc(g, c)
    /\ w.sending # None => w.sending \in Anc(g, c) /\ w.last \in Anc(g, w.sending)
    /\ w.current # None =>
         /\ w.current \in Anc(g, c) /\ w.last \in Anc(g, w.current)
         /\ w.sending # None => w.sending \in Anc(g, w.current)

\* What a watcher follows, it follows later on the same branch and when the page grows.
LEMMA KnowsLater ==
    ASSUME NEW g, NEW w, NEW c, NEW d, Knows(g, w, c), c \in Anc(g, d)
    PROVE  Knows(g, w, d)
BY AncTransitive DEF Knows

LEMMA KnowsGrows ==
    ASSUME NEW g, NEW h, NEW w, NEW c \in DOMAIN g, IsWatcher(g, w), Knows(g, w, c),
           \A d \in DOMAIN g : Anc(g, d) \subseteq Anc(h, d)
    PROVE  Knows(h, w, c)
<1>1. /\ w.sending # None => w.sending \in DOMAIN g
      /\ w.current # None => w.current \in DOMAIN g
  BY DEF IsWatcher, WatcherType
<1> QED BY <1>1 DEF Knows

LEMMA WatcherGrows ==
    ASSUME NEW g, NEW h, NEW w, IsWatcher(g, w), DOMAIN g \subseteq DOMAIN h
    PROVE  IsWatcher(h, w)
BY DEF IsWatcher, WatcherType

\* SendCommit moves the commit that waits into flight.
LEMMA SendCommitOK ==
    ASSUME NEW g, NEW w, IsWatcher(g, w)
    PROVE  /\ IsWatcher(g, SendCommit(w))
           /\ SendCommit(w).pc = "none" <=> w.pc = "none"
           /\ \A c : Knows(g, w, c) => Knows(g, SendCommit(w), c)
<1>1. CASE w.pc # "idle"
  BY <1>1 DEF SendCommit
<1>2. CASE w.pc = "idle" /\ Drained(w)
  <2> DEFINE v == [w EXCEPT !.drain = FALSE]
  <2>1. /\ v \in WatcherType(g) /\ v.pc = w.pc /\ v.sending = w.sending
        /\ v.last = w.last /\ v.current = w.current
    BY DEF IsWatcher, WatcherType
  <2>2. SendCommit(w) = v
    BY <1>2 DEF SendCommit
  <2> HIDE DEF v
  <2> QED BY <2>1, <2>2 DEF IsWatcher, Knows
<1>3. CASE w.pc = "idle" /\ ~Drained(w)
  <2> DEFINE v == [w EXCEPT !.pc = "diff", !.sending = w.current, !.current = None]
  <2>1. /\ v \in WatcherType(g) /\ v.pc = "diff" /\ v.sending = w.current
        /\ v.last = w.last /\ v.current = None
    BY DEF IsWatcher, WatcherType
  <2>2. SendCommit(w) = v
    BY <1>3 DEF SendCommit
  <2>3. w.current # None
    BY <1>3 DEF Drained
  <2> HIDE DEF v
  <2> QED BY <1>3, <2>1, <2>2, <2>3 DEF IsWatcher, Knows
<1> QED BY <1>1, <1>2, <1>3

\* A newer commit of the branch.
LEMMA UpdateCommitOK ==
    ASSUME NEW g, NEW w, IsWatcher(g, w), NEW c \in DOMAIN g, w.pc # "none"
    PROVE  /\ IsWatcher(g, UpdateCommit(w, c))
           /\ UpdateCommit(w, c).pc # "none"
           /\ Knows(g, w, c) => Knows(g, UpdateCommit(w, c), c)
<1> DEFINE v == [w EXCEPT !.current = c]
<1>1. /\ v \in WatcherType(g) /\ v.pc = w.pc /\ v.sending = w.sending
      /\ v.last = w.last /\ v.current = c
  BY DEF IsWatcher, WatcherType
<1>2. UpdateCommit(w, c) = SendCommit(v)
  BY DEF UpdateCommit
<1> HIDE DEF v
<1>3. IsWatcher(g, v)
  BY <1>1 DEF IsWatcher
<1>4. Knows(g, w, c) => Knows(g, v, c)
  BY <1>1, AncSelf DEF Knows
<1> QED BY <1>1, <1>2, <1>3, <1>4, SendCommitOK

\* The change in flight was taken.
LEMMA TakenOK ==
    ASSUME NEW g, NEW w, IsWatcher(g, w), w.pc \in {"diff", "client"}
    PROVE  /\ IsWatcher(g, Taken(w))
           /\ Taken(w).pc # "none"
           /\ \A c : Knows(g, w, c) => Knows(g, Taken(w), c)
<1> DEFINE v == [w EXCEPT !.pc = "idle", !.last = w.sending, !.sending = None]
<1>1. /\ v \in WatcherType(g) /\ v.pc = "idle" /\ v.sending = None
      /\ v.last = w.sending /\ v.current = w.current
  BY DEF IsWatcher, WatcherType
<1>2. Taken(w) = SendCommit(v)
  BY DEF Taken
<1> HIDE DEF v
<1>3. IsWatcher(g, v) /\ w.sending # None
  BY <1>1 DEF IsWatcher
<1>4. \A c : Knows(g, w, c) => Knows(g, v, c)
  BY <1>1, <1>3 DEF Knows
<1> QED BY <1>1, <1>2, <1>3, <1>4, SendCommitOK

\* on_drained_ has nothing to do with what a watcher knows.
LEMMA DrainOK ==
    ASSUME NEW g, NEW w, IsWatcher(g, w), NEW b
    PROVE  /\ IsWatcher(g, SetOnDrainedCallback(w, b))
           /\ SetOnDrainedCallback(w, b).pc = w.pc
           /\ \A c : Knows(g, w, c) <=> Knows(g, SetOnDrainedCallback(w, b), c)
<1> DEFINE v == SetOnDrainedCallback(w, b)
<1>1. /\ v \in WatcherType(g) /\ v.pc = w.pc /\ v.sending = w.sending
      /\ v.last = w.last /\ v.current = w.current
  BY DEF IsWatcher, WatcherType, SetOnDrainedCallback
<1> HIDE DEF v
<1>2. IsWatcher(g, v)
  BY <1>1 DEF IsWatcher
<1>3. \A c : Knows(g, w, c) <=> Knows(g, v, c)
  BY <1>1 DEF Knows
<1> QED BY <1>1, <1>2, <1>3 DEF v

-----------------------------------------------------------------------------
(* The inductive invariant *)

Ids(g) == DOMAIN g \cup {None}
BranchType(g) == [id : Ids(g), commit : Ids(g), tx : BOOLEAN]
JobType(g) == [base : Ids(g), new : Ids(g), kind : {"explicit", "implicit", None}]
Calls == {"snapshot", "write", "start", "commit", "rollback", "stop"}
Steps == {"snapshot", "object", "implicit", "put", "begin", "drain", "commit", "stop", "rollback"}

\* The branch b and the watchers W of a tracker.
IsView(g, b, W) ==
    /\ b \in BranchType(g)
    /\ b.commit # None => b.commit = b.id
    /\ W = [w \in Watcher |-> W[w]]
    /\ \A w \in Watcher : IsWatcher(g, W[w])

IsControl(q, p) == q \in Seq(Calls) /\ p \in Steps \cup {"none", "next"} /\ (p = "none" <=> q = <<>>)

TypeInv ==
    /\ Graph(parents)
    /\ IsView(parents, branch, watchers)
    /\ IsControl(queue, pc)
    /\ journal \in Ids(parents) /\ job \in JobType(parents) /\ own \in DOMAIN parents
    /\ raced \subseteq Races

\* While the tracker waits for the heads, nothing is asked of the delegate.
OpeningInv ==
    IF client = "opening"
    THEN /\ queue = <<>> /\ ~branch.tx /\ ~trailing /\ journal = None
         /\ job.base = 1 /\ own = 1 /\ branch.id = None
         /\ \A w \in Watcher : watchers[w].pc = "none"
    ELSE branch.id # None

\* What the operation under way holds at step p: its base, and then a commit that
\* is on top of it and that nobody has built on.
JobOK(g, p, j) ==
    /\ p \in {"snapshot", "begin", "implicit", "commit", "stop"} => j.base # None
    /\ p = "put" /\ j.kind = "implicit" => j.base # None
    /\ p # "stop" => j.new = None
    /\ p = "stop" /\ j.new # None => j.base \in Anc(g, j.new)
    /\ p = "stop" /\ j.new # None /\ j.new # j.base => j.new \in Tips(g)

\* The operation under way will show a commit on top of its base.
HoldsBase(p, j) == p \in {"implicit", "commit", "stop"} \/ (p = "put" /\ j.kind = "implicit")

JobInv == JobOK(parents, pc, job) /\ (HoldsBase(pc, job) => journal = None)

OwnInv == client # "opening" /\ "stopped" \notin raced => own \in Anc(parents, branch.id)

\* A transaction does not take the branch from the head it is at.
HeadInv ==
    client # "opening" /\ raced \cap {"init", "noop", "stopped"} = {} => branch.id \in Tips(parents)

AllKnow(g, W, c) == \A w \in Watcher : W[w].pc # "none" => Knows(g, W[w], c)

\* The branch comes after all that watchers know; in a transaction its base does.
WatcherInv ==
    "moved" \notin raced =>
        /\ AllKnow(parents, watchers, branch.id)
        /\ branch.tx /\ journal # None => AllKnow(parents, watchers, journal)
        /\ branch.tx /\ HoldsBase(pc, job) => AllKnow(parents, watchers, job.base)
        /\ journal # None => journal \in Anc(parents, branch.id)
        /\ pc = "snapshot" => /\ job.base \in Anc(parents, branch.id)
                              /\ journal # None => job.base = journal

IInv == TypeInv /\ OpeningInv /\ JobInv /\ OwnInv /\ HeadInv /\ WatcherInv

-----------------------------------------------------------------------------
(* The tracker *)

\* The watchers are told of c.
LEMMA TellOK ==
    ASSUME NEW g, NEW W, W = [w \in Watcher |-> W[w]], \A w \in Watcher : IsWatcher(g, W[w]),
           NEW V, V = [w \in Watcher |-> V[w]], NEW c \in DOMAIN g,
           \A w \in Watcher : IF W[w].pc # "none" THEN V[w] = UpdateCommit(W[w], c) ELSE V[w] = W[w]
    PROVE  /\ \A w \in Watcher : IsWatcher(g, V[w])
           /\ \A w \in Watcher : V[w].pc = "none" <=> W[w].pc = "none"
           /\ AllKnow(g, W, c) => AllKnow(g, V, c)
<1>1. ASSUME NEW w \in Watcher
      PROVE  /\ IsWatcher(g, V[w])
             /\ V[w].pc = "none" <=> W[w].pc = "none"
             /\ W[w].pc # "none" /\ Knows(g, W[w], c) => Knows(g, V[w], c)
  BY UpdateCommitOK
<1> QED BY <1>1 DEF AllKnow

\* A commit of anybody is added to the page.
LEMMA NewCommit ==
    ASSUME TypeInv, NEW ps \in SUBSET DOMAIN parents, OnNewCommits(ps)
    PROVE  LET n == Len(parents) + 1 IN
           /\ Graph(parents') /\ parents'[n] = ps
           /\ DOMAIN parents' = DOMAIN parents \cup {n} /\ n \notin DOMAIN parents /\ n \in Nat
           /\ \A c \in DOMAIN parents : Anc(parents, c) \subseteq Anc(parents', c)
           /\ Tips(parents') = (Tips(parents) \ ps) \cup {n}
           /\ IsView(parents', branch', watchers')
           /\ branch'.tx = branch.tx /\ (branch.tx => watchers' = watchers)
           /\ \A w \in Watcher : watchers'[w].pc = "none" <=> watchers[w].pc = "none"
           /\ \/ client # "opening" /\ branch.id \in ps /\ branch'.id = n
              \/ (client = "opening" \/ branch.id \notin ps) /\ branch'.id = branch.id
           /\ branch.id # None => branch.id \in Anc(parents', branch'.id)
           /\ branch.id # None /\ AllKnow(parents, watchers, branch.id)
                => AllKnow(parents', watchers', branch'.id)
<1> DEFINE n == Len(parents) + 1
<1>1. /\ Graph(parents') /\ parents'[n] = ps
      /\ DOMAIN parents' = DOMAIN parents \cup {n} /\ n \notin DOMAIN parents /\ n \in Nat
      /\ \A c \in DOMAIN parents : Anc(parents, c) \subseteq Anc(parents', c)
      /\ Tips(parents') = (Tips(parents) \ ps) \cup {n}
  <2>1. Graph(parents) /\ parents' = Append(parents, ps)
    BY DEF TypeInv, OnNewCommits
  <2> QED BY <2>1, GraphGrows
<1>2. /\ branch \in BranchType(parents) /\ (branch.commit # None => branch.commit = branch.id)
      /\ watchers = [w \in Watcher |-> watchers[w]]
      /\ \A w \in Watcher : IsWatcher(parents', watchers[w])
      /\ \A w \in Watcher : IsWatcher(parents, watchers[w])
  BY <1>1, WatcherGrows DEF TypeInv, IsView
<1>3. branch.id # None => branch.id \in DOMAIN parents
  BY <1>2 DEF BranchType, Ids
<1>4. branch.id # None /\ AllKnow(parents, watchers, branch.id) => AllKnow(parents', watchers, branch.id)
  BY <1>1, <1>2, <1>3, KnowsGrows DEF AllKnow
<1>5. CASE client # "opening" /\ branch.id \in ps
  <2> DEFINE b == [branch EXCEPT !.id = n, !.commit = n]
  <2>1. b \in BranchType(parents') /\ b.id = n /\ b.commit = n /\ b.tx = branch.tx
    BY <1>1, <1>2 DEF BranchType, Ids
  <2>2. branch' = b /\ (IF branch.tx THEN watchers' = watchers ELSE UpdateWatchers(n))
    BY <1>5 DEF OnNewCommits
  <2> HIDE DEF b, n
  <2>3. branch.id \in Anc(parents', n)
    BY <1>1, <1>5, AncParent
  <2>4. branch.id # None /\ AllKnow(parents, watchers, branch.id) => AllKnow(parents', watchers, n)
    BY <1>4, <2>3, KnowsLater DEF AllKnow
  <2>5. CASE branch.tx
    BY <1>1, <1>2, <1>5, <2>1, <2>2, <2>3, <2>4, <2>5 DEF n, IsView
  <2>6. CASE ~branch.tx
    <3>1. /\ watchers' = [w \in Watcher |-> watchers'[w]]
          /\ \A w \in Watcher : IF watchers[w].pc # "none"
                                THEN watchers'[w] = UpdateCommit(watchers[w], n)
                                ELSE watchers'[w] = watchers[w]
      BY <2>2, <2>6 DEF UpdateWatchers, Registered
    <3>2. n \in DOMAIN parents'
      BY <1>1
    <3>3. /\ \A w \in Watcher : IsWatcher(parents', watchers'[w])
          /\ \A w \in Watcher : watchers'[w].pc = "none" <=> watchers[w].pc = "none"
          /\ AllKnow(parents', watchers, n) => AllKnow(parents', watchers', n)
      BY <1>2, <3>1, <3>2, TellOK
    <3>4. IsView(parents', branch', watchers')
      BY <2>1, <2>2, <3>1, <3>3 DEF IsView
    <3> QED BY <1>1, <1>5, <2>1, <2>2, <2>3, <2>4, <2>6, <3>3, <3>4 DEF n
  <2> QED BY <2>5, <2>6
<1>6. CASE client = "opening" \/ branch.id \notin ps
  <2>1. branch' = branch /\ watchers' = watchers
    BY <1>6 DEF OnNewCommits
  <2>2. branch \in BranchType(parents')
    BY <1>1, <1>2 DEF BranchType, Ids
  <2>3. IsView(parents', branch', watchers')
    BY <1>2, <2>1, <2>2 DEF IsView
  <2>4. branch.id # None => branch.id \in Anc(parents', branch.id)
    BY <1>1, <1>3, AncSelf
  <2> HIDE DEF n
  <2> QED BY <1>1, <1>4, <1>6, <2>1, <2>3, <2>4 DEF n
<1> QED BY <1>5, <1>6

\* A transaction ends with its commit c, or with none.
LEMMA StopOK ==
    ASSUME TypeInv, NEW c \in Ids(parents), StopTransaction(c)
    PROVE  /\ IsView(parents, branch', watchers') /\ ~branch'.tx
           /\ branch'.id = IF branch.tx /\ c # None THEN c ELSE branch.id
           /\ \A w \in Watcher : watchers'[w].pc = "none" <=> watchers[w].pc = "none"
           /\ /\ AllKnow(parents, watchers, branch.id)
              /\ branch.tx /\ c # None => AllKnow(parents, watchers, c)
              => AllKnow(parents, watchers', branch'.id)
<1>1. /\ branch \in BranchType(parents) /\ (branch.commit # None => branch.commit = branch.id)
      /\ watchers = [w \in Watcher |-> watchers[w]]
      /\ \A w \in Watcher : IsWatcher(parents, watchers[w])
  BY DEF TypeInv, IsView
<1>2. CASE ~branch.tx
  BY <1>1, <1>2 DEF StopTransaction, TypeInv
<1>3. CASE branch.tx
  <2> DEFINE b == [id |-> IF c = None THEN branch.id ELSE c,
                   commit |-> IF c = None THEN branch.commit ELSE c, tx |-> FALSE]
             W == [w \in Watcher |-> SetOnDrainedCallback(watchers[w], FALSE)]
  <2>1. b \in BranchType(parents) /\ ~b.tx /\ (b.commit # None => b.commit = b.id)
        /\ b.id = IF c # None THEN c ELSE branch.id
    BY <1>1 DEF BranchType
  <2>2. /\ branch' = b
        /\ watchers' = [w \in Watcher |->
              IF w \in Registered /\ b.commit # None
              THEN UpdateCommit(SetOnDrainedCallback(watchers[w], FALSE), b.commit)
              ELSE watchers[w]]
    BY <1>3 DEF StopTransaction
  <2> HIDE DEF b
  <2>3. CASE b.commit = None
    <3>1. watchers' = watchers
      BY <1>1, <2>2, <2>3
    <3>2. branch.tx /\ c # None /\ AllKnow(parents, watchers, c) => AllKnow(parents, watchers, b.id)
      BY <2>1
    <3> QED BY <1>1, <1>3, <2>1, <2>2, <3>1 DEF IsView
  <2>4. CASE b.commit # None
    <3>1. /\ \A w \in Watcher : IsWatcher(parents, W[w]) /\ W[w].pc = watchers[w].pc
          /\ \A w \in Watcher : \A x : Knows(parents, watchers[w], x) <=> Knows(parents, W[w], x)
      BY <1>1, DrainOK
    <3>2. W = [w \in Watcher |-> W[w]] /\ b.id \in DOMAIN parents /\ b.commit = b.id
      BY <2>1, <2>4 DEF BranchType, Ids
    <3>3. /\ watchers' = [w \in Watcher |-> watchers'[w]]
          /\ \A w \in Watcher : IF watchers[w].pc # "none"
                                THEN watchers'[w] = UpdateCommit(W[w], b.id)
                                ELSE watchers'[w] = watchers[w]
      BY <2>2, <2>4, <3>2 DEF Registered
    <3> HIDE DEF W
    <3> DEFINE V == [w \in Watcher |-> IF watchers[w].pc # "none" THEN watchers'[w] ELSE W[w]]
    <3>4. /\ V = [w \in Watcher |-> V[w]]
          /\ \A w \in Watcher : IF W[w].pc # "none" THEN V[w] = UpdateCommit(W[w], b.id) ELSE V[w] = W[w]
          /\ \A w \in Watcher : watchers[w].pc # "none" => V[w] = watchers'[w]
      BY <3>1, <3>3
    <3> HIDE DEF V
    <3>5. /\ \A w \in Watcher : IsWatcher(parents, V[w])
          /\ \A w \in Watcher : V[w].pc = "none" <=> W[w].pc = "none"
          /\ AllKnow(parents, W, b.id) => AllKnow(parents, V, b.id)
      BY <3>1, <3>2, <3>4, TellOK
    <3>6. \A w \in Watcher : /\ IsWatcher(parents, watchers'[w])
                             /\ watchers'[w].pc = "none" <=> watchers[w].pc = "none"
      BY <1>1, <3>1, <3>3, <3>4, <3>5
    <3>7. AllKnow(parents, watchers, b.id) => AllKnow(parents, watchers', b.id)
      BY <3>1, <3>3, <3>4, <3>5, SMTT(30) DEF AllKnow
    <3>8. IsView(parents, branch', watchers')
      BY <2>1, <2>2, <3>3, <3>6 DEF IsView
    <3>9. /\ AllKnow(parents, watchers, branch.id)
          /\ branch.tx /\ c # None => AllKnow(parents, watchers, c)
          => AllKnow(parents, watchers, b.id)
      BY <1>3, <2>1
    <3> QED BY <1>3, <2>1, <2>2, <3>6, <3>7, <3>8, <3>9
  <2> QED BY <2>3, <2>4
<1> QED BY <1>2, <1>3

\* A transaction starts: only on_drained_ is set.
LEMMA StartOK ==
    ASSUME TypeInv, StartTransaction
    PROVE  /\ IsView(parents, branch', watchers')
           /\ branch'.tx /\ branch'.id = branch.id
           /\ \A w \in Watcher : watchers'[w].pc = watchers[w].pc
           /\ \A c : AllKnow(parents, watchers, c) => AllKnow(parents, watchers', c)
<1>1. /\ branch \in BranchType(parents) /\ (branch.commit # None => branch.commit = branch.id)
      /\ \A w \in Watcher : IsWatcher(parents, watchers[w])
  BY DEF TypeInv, IsView
<1>2. /\ branch' \in BranchType(parents) /\ branch'.tx /\ branch'.id = branch.id
      /\ branch'.commit = branch.commit
  BY <1>1 DEF StartTransaction, BranchType
<1>3. /\ watchers' = [w \in Watcher |-> watchers'[w]]
      /\ \A w \in Watcher : watchers'[w] = SetOnDrainedCallback(watchers[w], w \in Registered)
  BY DEF StartTransaction
<1>4. /\ \A w \in Watcher : IsWatcher(parents, watchers'[w]) /\ watchers'[w].pc = watchers[w].pc
      /\ \A w \in Watcher : \A c : Knows(parents, watchers[w], c) <=> Knows(parents, watchers'[w], c)
  BY <1>1, <1>3, DrainOK
<1>5. IsView(parents, branch', watchers')
  BY <1>1, <1>2, <1>3, <1>4 DEF IsView
<1> QED BY <1>2, <1>4, <1>5 DEF AllKnow

-----------------------------------------------------------------------------
(* The serializer *)

\* An operation ends.
LEMMA AnswerOK ==
    ASSUME IsControl(queue, pc), pc # "none", Answer
    PROVE  /\ IsControl(queue', pc') /\ pc' \in {"none", "next"}
           /\ \A g : job' \in JobType(g) /\ JobOK(g, pc', job')
           /\ ~HoldsBase(pc', job')
<1>1. /\ queue # <<>> /\ queue \in Seq(Calls) /\ queue' = Tail(queue)
      /\ pc' = IF Tail(queue) = <<>> THEN "none" ELSE "next"
  BY DEF IsControl, Answer
<1>2. Tail(queue) \in Seq(Calls)
  BY <1>1
<1>3. IsControl(queue', pc') /\ pc' \in {"none", "next"}
  BY <1>1, <1>2 DEF IsControl
<1>4. job'.new = None /\ \A g : job' \in JobType(g)
  BY DEF Answer, JobType, Ids
<1> QED BY <1>3, <1>4 DEF JobOK, HoldsBase

\* It goes on in another task.
LEMMA GoesOK ==
    ASSUME IsControl(queue, pc), pc # "none", NEW n \in Steps, NEW j, Goes(n, j)
    PROVE  IsControl(queue', pc') /\ pc' = n /\ job' = j
BY DEF IsControl, Goes, Steps

\* A call joins the queue.
LEMMA SerializeOK ==
    ASSUME IsControl(queue, pc), NEW op \in Calls, Serialize(op)
    PROVE  IsControl(queue', pc') /\ (pc' = pc \/ (pc = "none" /\ pc' = "next"))
<1>1. queue' \in Seq(Calls) /\ queue' # <<>>
  <2>1. queue \in Seq(Calls) /\ queue' = Append(queue, op)
    BY DEF IsControl, Serialize
  <2> QED BY <2>1
<1> QED BY <1>1 DEF IsControl, Serialize

\* Steps that leave the page, the branch and the watchers alone.
LEMMA QuietStep ==
    ASSUME IInv, client # "opening", client' # "opening",
           UNCHANGED <<parents, branch, watchers, own, raced>>,
           IsControl(queue', pc'), job' \in JobType(parents), JobOK(parents, pc', job'),
           journal' \in {None, journal}, HoldsBase(pc', job') => journal' = None,
           HoldsBase(pc', job') => \/ HoldsBase(pc, job) /\ job'.base = job.base
                                   \/ job'.base = journal /\ journal # None
                                   \/ job'.base = branch.id,
           pc' = "snapshot" => \/ pc = "snapshot" /\ job' = job /\ journal' = journal
                               \/ /\ job'.base = IF journal = None THEN branch.id ELSE journal
                                  /\ journal' = journal
    PROVE  IInv'
<1>1. TypeInv'
  BY DEF IInv, TypeInv, IsView, Ids
<1>2. OpeningInv'
  BY DEF IInv, OpeningInv
<1>3. JobInv'
  BY DEF JobInv
<1>4. OwnInv'
  BY DEF IInv, OwnInv
<1>5. HeadInv'
  BY DEF IInv, HeadInv
<1>6. WatcherInv'
  <2> SUFFICES ASSUME "moved" \notin raced
               PROVE  /\ AllKnow(parents, watchers, branch.id)
                      /\ branch.tx /\ journal' # None => AllKnow(parents, watchers, journal')
                      /\ branch.tx /\ HoldsBase(pc', job') => AllKnow(parents, watchers, job'.base)
                      /\ journal' # None => journal' \in Anc(parents, branch.id)
                      /\ pc' = "snapshot" => /\ job'.base \in Anc(parents, branch.id)
                                             /\ journal' # None => job'.base = journal'
    BY DEF WatcherInv
  <2>1. /\ AllKnow(parents, watchers, branch.id)
        /\ branch.tx /\ journal # None => AllKnow(parents, watchers, journal)
        /\ branch.tx /\ HoldsBase(pc, job) => AllKnow(parents, watchers, job.base)
        /\ journal # None => journal \in Anc(parents, branch.id)
        /\ pc = "snapshot" => /\ job.base \in Anc(parents, branch.id)
                              /\ journal # None => job.base = journal
    BY DEF IInv, WatcherInv
  <2>2. branch.id \in Anc(parents, branch.id)
    <3>1. branch.id \in DOMAIN parents
      BY DEF IInv, TypeInv, OpeningInv, IsView, BranchType, Ids
    <3> QED BY <3>1, AncSelf
  <2>3. pc' = "snapshot" => /\ job'.base \in Anc(parents, branch.id)
                            /\ journal' # None => job'.base = journal'
    BY <2>1, <2>2
  <2> QED BY <2>1, <2>3
<1> QED BY <1>1, <1>2, <1>3, <1>4, <1>5, <1>6 DEF IInv

\* The delegate serves nobody before its tracker knows the heads.
LEMMA NotOpening ==
    ASSUME IInv, pc # "none" \/ trailing
    PROVE  client # "opening"
BY DEF IInv, TypeInv, IsControl, OpeningInv

-----------------------------------------------------------------------------
(* The actions *)

\* Calls of the client, and the steps of operations that only wait.
LEMMA CallStep ==
    ASSUME IInv, Call \/ Disconnect
    PROVE  IInv'
<1>0. IsControl(queue, pc) /\ job \in JobType(parents) /\ JobOK(parents, pc, job)
  BY DEF IInv, TypeInv, JobInv
<1>1. PICK op \in Calls : Serialize(op)
  BY DEF Call, Disconnect, Calls
<1>2. IsControl(queue', pc') /\ (pc' = pc \/ (pc = "none" /\ pc' = "next"))
  BY <1>0, <1>1, SerializeOK
<1>3. /\ client # "opening" /\ client' # "opening"
      /\ UNCHANGED <<parents, branch, watchers, own, raced, job, journal>>
  BY DEF Call, Disconnect
<1>4. JobOK(parents, pc', job') /\ (HoldsBase(pc', job') => HoldsBase(pc, job) /\ journal' = None)
  BY <1>0, <1>2, <1>3 DEF IInv, JobInv, JobOK, HoldsBase
<1>5. pc' = "snapshot" => pc = "snapshot"
  BY <1>2
<1> QED BY <1>0, <1>2, <1>3, <1>4, <1>5, QuietStep

\* An operation that ends without having touched the branch.
LEMMA AnswerStep ==
    ASSUME IInv, pc # "none", Answer, journal' \in {None, journal},
           UNCHANGED <<parents, branch, watchers, own, raced, client>>
    PROVE  IInv'
<1>1. /\ IsControl(queue', pc') /\ pc' \in {"none", "next"}
      /\ job' \in JobType(parents) /\ JobOK(parents, pc', job') /\ ~HoldsBase(pc', job')
  BY AnswerOK DEF IInv, TypeInv
<1> QED BY <1>1, NotOpening, QuietStep

\* An operation that goes on.
LEMMA GoesStep ==
    ASSUME IInv, pc # "none", NEW n \in Steps, NEW j, Goes(n, j), j \in JobType(parents),
           JobOK(parents, n, j), journal' \in {None, journal}, HoldsBase(n, j) => journal' = None,
           UNCHANGED <<parents, branch, watchers, own, raced, client>>,
           HoldsBase(n, j) => \/ HoldsBase(pc, job) /\ j.base = job.base
                              \/ j.base = journal /\ journal # None
                              \/ j.base = branch.id,
           n = "snapshot" => /\ j.base = IF journal = None THEN branch.id ELSE journal
                             /\ journal' = journal
    PROVE  IInv'
<1>1. IsControl(queue', pc') /\ pc' = n /\ job' = j
  BY GoesOK DEF IInv, TypeInv
<1> QED BY <1>1, NotOpening, QuietStep

\* Operations that only read, wait or end.
LEMMA WaitingStep ==
    ASSUME IInv, \/ StartSnapshot \/ StartExplicit \/ StartCommit \/ StartRollback
                 \/ DrainDone \/ ImplicitStarted \/ PutDone \/ RolledBack
    PROVE  IInv'
<1>0. /\ branch.id \in Ids(parents) /\ journal \in Ids(parents) /\ job \in JobType(parents)
      /\ JobOK(parents, pc, job)
  BY DEF IInv, TypeInv, IsView, BranchType, JobInv
<1>1. /\ pc # "none" /\ journal' \in {None, journal}
      /\ UNCHANGED <<parents, branch, watchers, own, raced, client>>
  BY DEF StartSnapshot, StartExplicit, StartCommit, StartRollback, DrainDone, ImplicitStarted,
         PutDone, RolledBack, Next1, At
<1>2. branch.id # None
  BY <1>1, NotOpening DEF IInv, OpeningInv
<1>3. CASE Answer
  BY <1>1, <1>3, AnswerStep
<1>4. CASE StartSnapshot
  <2> DEFINE j == [base |-> IF journal = None THEN branch.id ELSE journal,
                   new |-> None, kind |-> None]
  <2>1. Goes("snapshot", j) /\ journal' = journal
    BY <1>4 DEF StartSnapshot
  <2>2. /\ j \in JobType(parents) /\ j.base = IF journal = None THEN branch.id ELSE journal
        /\ JobOK(parents, "snapshot", j) /\ ~HoldsBase("snapshot", j)
    BY <1>0, <1>2 DEF JobType, Ids, JobOK, HoldsBase
  <2> HIDE DEF j
  <2> QED BY <1>1, <2>1, <2>2, GoesStep DEF Steps
<1>5. CASE StartExplicit /\ journal = None
  <2> DEFINE j == [base |-> branch.id, new |-> None, kind |-> "explicit"]
  <2>1. Goes("begin", j)
    BY <1>5 DEF StartExplicit
  <2>2. /\ j \in JobType(parents) /\ JobOK(parents, "begin", j) /\ ~HoldsBase("begin", j)
    BY <1>0, <1>2 DEF JobType, Ids, JobOK, HoldsBase
  <2> HIDE DEF j
  <2> QED BY <1>1, <2>1, <2>2, GoesStep DEF Steps
<1>6. CASE StartCommit /\ journal # None
  <2> DEFINE j == [base |-> journal, new |-> None, kind |-> "explicit"]
  <2>1. Goes("commit", j) /\ journal' = None
    BY <1>6 DEF StartCommit
  <2>2. j \in JobType(parents) /\ j.base = journal /\ JobOK(parents, "commit", j)
    BY <1>0, <1>6 DEF JobType, Ids, JobOK
  <2> HIDE DEF j
  <2> QED BY <1>1, <1>6, <2>1, <2>2, GoesStep DEF Steps
<1>7. CASE StartRollback /\ journal # None
  <2>1. Goes("rollback", job)
    BY <1>7 DEF StartRollback
  <2>2. JobOK(parents, "rollback", job) /\ ~HoldsBase("rollback", job)
    BY <1>0, <1>7 DEF JobOK, HoldsBase, StartRollback, Next1
  <2> QED BY <1>0, <1>1, <2>1, <2>2, GoesStep DEF Steps
<1>8. CASE ImplicitStarted /\ Goes("put", job)
  <2>1. pc = "implicit" /\ journal' = journal
    BY <1>8 DEF ImplicitStarted, At
  <2>2. JobOK(parents, "put", job) /\ HoldsBase(pc, job) /\ journal = None
    BY <1>0, <2>1 DEF IInv, JobInv, JobOK, HoldsBase
  <2> QED BY <1>0, <1>1, <1>8, <2>1, <2>2, GoesStep DEF Steps
<1>9. CASE PutDone /\ job.kind = "implicit" /\ Goes("commit", job)
  <2>1. pc = "put" /\ journal' = journal
    BY <1>9 DEF PutDone, At
  <2>2. JobOK(parents, "commit", job) /\ HoldsBase(pc, job) /\ journal = None
    BY <1>0, <1>9, <2>1 DEF IInv, JobInv, JobOK, HoldsBase
  <2> QED BY <1>0, <1>1, <1>9, <2>1, <2>2, GoesStep DEF Steps
<1>10. \/ Answer \/ StartSnapshot
       \/ StartExplicit /\ journal = None
       \/ StartCommit /\ journal # None
       \/ StartRollback /\ journal # None
       \/ ImplicitStarted /\ Goes("put", job)
       \/ PutDone /\ job.kind = "implicit" /\ Goes("commit", job)
  BY DEF StartExplicit, StartCommit, StartRollback, DrainDone, ImplicitStarted, PutDone, RolledBack
<1> QED BY <1>3, <1>4, <1>5, <1>6, <1>7, <1>8, <1>9, <1>10

\* The transaction of a write starts, or is the client's own.
LEMMA RunStep ==
    ASSUME IInv, pc # "none", RunInTransaction,
           UNCHANGED <<parents, journal, trailing, own, client>>
    PROVE  IInv'
<1>0. client # "opening" /\ IsControl(queue, pc) /\ TypeInv
  BY NotOpening DEF IInv, TypeInv
<1>1. CASE journal # None
  <2> DEFINE j == [base |-> None, new |-> None, kind |-> "explicit"]
  <2>1. Goes("put", j) /\ UNCHANGED <<branch, watchers, raced>>
    BY <1>1 DEF RunInTransaction
  <2>2. /\ j \in JobType(parents) /\ JobOK(parents, "put", j) /\ ~HoldsBase("put", j)
    BY DEF JobType, Ids, JobOK, HoldsBase
  <2> HIDE DEF j
  <2> QED BY <2>1, <2>2, GoesStep DEF Steps
<1>2. CASE journal = None
  <2> DEFINE j == [base |-> branch.id, new |-> None, kind |-> "implicit"]
  <2>1. StartTransaction /\ Note("overlap", branch.tx) /\ Goes("implicit", j)
    BY <1>2 DEF RunInTransaction
  <2>2. branch.id \in Ids(parents) /\ branch.id # None
    BY <1>0 DEF IInv, TypeInv, IsView, BranchType, OpeningInv
  <2>3. j \in JobType(parents) /\ j.base = branch.id /\ JobOK(parents, "implicit", j)
    BY <2>2 DEF JobType, Ids, JobOK
  <2> HIDE DEF j
  <2>4. IsControl(queue', pc') /\ pc' = "implicit" /\ job' = j
    BY <1>0, <2>1, GoesOK DEF Steps
  <2>5. /\ IsView(parents, branch', watchers')
        /\ branch'.tx /\ branch'.id = branch.id
        /\ \A w \in Watcher : watchers'[w].pc = watchers[w].pc
        /\ \A c : AllKnow(parents, watchers, c) => AllKnow(parents, watchers', c)
    BY <1>0, <2>1, StartOK
  <2>6. /\ raced' \subseteq Races
        /\ \A x \in {"moved", "init", "noop", "stopped"} : x \in raced' <=> x \in raced
    BY <1>0, <2>1 DEF Note, TypeInv, Races
  <2>7. TypeInv'
    BY <2>3, <2>4, <2>5, <2>6 DEF IInv, TypeInv
  <2>8. OpeningInv' /\ JobInv'
    BY <1>0, <1>2, <2>2, <2>3, <2>4, <2>5 DEF OpeningInv, JobInv
  <2>9. OwnInv' /\ HeadInv'
    BY <2>5, <2>6 DEF IInv, OwnInv, HeadInv
  <2>10. WatcherInv'
    BY <1>2, <2>3, <2>4, <2>5, <2>6 DEF IInv, WatcherInv
  <2> QED BY <2>7, <2>8, <2>9, <2>10 DEF IInv
<1> QED BY <1>1, <1>2

\* A write starts, or waits for its value first.
LEMMA WriteStep ==
    ASSUME IInv, StartWrite \/ ObjectAdded
    PROVE  IInv'
<1>0. job \in JobType(parents) /\ JobOK(parents, pc, job)
  BY DEF IInv, TypeInv, JobInv
<1>1. pc \in {"next", "object"} /\ UNCHANGED <<parents, journal, trailing, own, client>>
  BY DEF StartWrite, ObjectAdded, Next1
<1>2. CASE RunInTransaction
  BY <1>1, <1>2, RunStep
<1>3. CASE Answer /\ UNCHANGED <<branch, watchers, raced>>
  BY <1>1, <1>3, AnswerStep
<1>4. CASE Goes("object", job) /\ UNCHANGED <<branch, watchers, raced>>
  <2>1. JobOK(parents, "object", job) /\ ~HoldsBase("object", job)
    BY <1>0, <1>1 DEF JobOK, HoldsBase
  <2> QED BY <1>0, <1>1, <1>4, <2>1, GoesStep DEF Steps
<1> QED BY <1>2, <1>3, <1>4 DEF StartWrite, ObjectAdded

\* The client's transaction starts.
LEMMA JournalStep ==
    ASSUME IInv, JournalCreated
    PROVE  IInv'
<1>0. /\ pc = "begin" /\ client # "opening" /\ IsControl(queue, pc) /\ TypeInv
      /\ UNCHANGED <<parents, trailing, own, client>>
  BY NotOpening DEF JournalCreated, At, IInv, TypeInv
<1>1. CASE Answer /\ UNCHANGED <<branch, watchers, journal, raced>>
  BY <1>0, <1>1, AnswerStep
<1>2. CASE /\ journal' = job.base /\ StartTransaction /\ Goes("drain", job)
           /\ raced' = raced \cup (IF branch.tx THEN {"overlap"} ELSE {})
                             \cup (IF branch.id # job.base THEN {"moved"} ELSE {})
  <2>1. job \in JobType(parents) /\ job.base \in Ids(parents) /\ branch.id # None
    BY <1>0 DEF IInv, TypeInv, JobType, OpeningInv
  <2>2. IsControl(queue', pc') /\ pc' = "drain" /\ job' = job
    BY <1>0, <1>2, GoesOK DEF Steps
  <2>3. /\ IsView(parents, branch', watchers')
        /\ branch'.tx /\ branch'.id = branch.id
        /\ \A w \in Watcher : watchers'[w].pc = watchers[w].pc
        /\ \A c : AllKnow(parents, watchers, c) => AllKnow(parents, watchers', c)
    BY <1>0, <1>2, StartOK
  <2>4. /\ raced' \subseteq Races
        /\ \A x \in {"init", "noop", "stopped"} : x \in raced' <=> x \in raced
        /\ "moved" \notin raced' => "moved" \notin raced /\ branch.id = job.base
    BY <1>0, <1>2 DEF TypeInv, Races
  <2>5. TypeInv'
    BY <1>0, <1>2, <2>1, <2>2, <2>3, <2>4 DEF TypeInv
  <2>6. OpeningInv' /\ JobInv'
    BY <1>0, <2>1, <2>2, <2>3 DEF IInv, OpeningInv, JobInv, JobOK, HoldsBase
  <2>7. OwnInv' /\ HeadInv'
    BY <1>0, <2>3, <2>4 DEF IInv, OwnInv, HeadInv
  <2>8. WatcherInv'
    <3> SUFFICES ASSUME "moved" \notin raced' PROVE WatcherInv'
      BY DEF WatcherInv
    <3>1. AllKnow(parents, watchers', branch.id) /\ job.base = branch.id
      BY <2>3, <2>4 DEF IInv, WatcherInv
    <3>2. branch.id \in Anc(parents, branch.id)
      <4>1. branch.id \in DOMAIN parents
        BY <1>0, <2>1 DEF TypeInv, IsView, BranchType, Ids
      <4> QED BY <4>1, AncSelf
    <3> QED BY <1>0, <1>2, <2>2, <2>3, <3>1, <3>2 DEF WatcherInv, HoldsBase
  <2> QED BY <2>5, <2>6, <2>7, <2>8 DEF IInv
<1> QED BY <1>1, <1>2 DEF JournalCreated

\* A transaction is stopped without a commit.
LEMMA StopNoneStep ==
    ASSUME IInv, client # "opening", StopTransaction(None),
           UNCHANGED <<parents, journal, own, client>>,
           raced' \subseteq Races,
           \A x \in {"moved", "init", "noop", "stopped"} : x \in raced' <=> x \in raced,
           IsControl(queue', pc'), job' \in JobType(parents), JobOK(parents, pc', job'),
           pc' = "snapshot" => pc = "snapshot" /\ job' = job,
           HoldsBase(pc', job') => HoldsBase(pc, job)
    PROVE  IInv'
<1>1. /\ IsView(parents, branch', watchers') /\ ~branch'.tx /\ branch'.id = branch.id
      /\ AllKnow(parents, watchers, branch.id) => AllKnow(parents, watchers', branch'.id)
  <2>1. None \in Ids(parents) /\ TypeInv
    BY DEF Ids, IInv
  <2> QED BY <2>1, StopOK
<1>2. TypeInv'
  BY <1>1 DEF IInv, TypeInv
<1>3. OpeningInv' /\ JobInv'
  BY <1>1 DEF IInv, OpeningInv, JobInv
<1>4. OwnInv' /\ HeadInv'
  BY <1>1 DEF IInv, OwnInv, HeadInv
<1>5. WatcherInv'
  BY <1>1 DEF IInv, WatcherInv
<1> QED BY <1>2, <1>3, <1>4, <1>5 DEF IInv

LEMMA StopStep ==
    ASSUME IInv, StartStop \/ TrailingStop
    PROVE  IInv'
<1>1. CASE StartStop
  <2>1. /\ pc # "none" /\ Answer /\ StopTransaction(None)
        /\ UNCHANGED <<parents, journal, own, client, raced>>
    BY <1>1 DEF StartStop, Next1
  <2>2. /\ IsControl(queue', pc') /\ pc' \in {"none", "next"}
        /\ job' \in JobType(parents) /\ JobOK(parents, pc', job') /\ ~HoldsBase(pc', job')
    BY <2>1, AnswerOK DEF IInv, TypeInv
  <2>3. client # "opening" /\ raced' \subseteq Races
    BY <2>1, NotOpening DEF IInv, TypeInv
  <2> QED BY <2>1, <2>2, <2>3, StopNoneStep
<1>2. CASE TrailingStop
  <2>1. /\ trailing /\ StopTransaction(None) /\ Note("deleted", removed)
        /\ UNCHANGED <<parents, journal, own, client, queue, pc, job>>
    BY <1>2 DEF TrailingStop
  <2>2. /\ IsControl(queue', pc') /\ job' \in JobType(parents) /\ JobOK(parents, pc', job')
        /\ HoldsBase(pc', job') => HoldsBase(pc, job)
    BY <2>1 DEF IInv, TypeInv, JobInv
  <2>3. /\ client # "opening" /\ raced' \subseteq Races
        /\ \A x \in {"moved", "init", "noop", "stopped"} : x \in raced' <=> x \in raced
    BY <2>1, NotOpening DEF IInv, TypeInv, Note, Races
  <2> QED BY <2>1, <2>2, <2>3, StopNoneStep
<1> QED BY <1>1, <1>2

\* A transaction ends with the commit it made, or without one.
LEMMA CommitAnsweredStep ==
    ASSUME IInv, CommitAnswered
    PROVE  IInv'
<1>0. /\ pc = "stop" /\ Answer /\ StopTransaction(job.new)
      /\ UNCHANGED <<parents, journal, client>>
      /\ own' = IF job.new = None THEN own ELSE job.new
      /\ raced' = IF branch.tx
                  THEN IF job.new = job.base /\ branch.id # job.base THEN raced \cup {"noop"} ELSE raced
                  ELSE raced \cup {"stopped"}
  BY DEF CommitAnswered, At, Note
<1>1. /\ client # "opening" /\ TypeInv /\ job.new \in Ids(parents) /\ job.base # None
      /\ job.new # None => job.base \in Anc(parents, job.new)
      /\ job.new # None /\ job.new # job.base => job.new \in Tips(parents)
      /\ branch.id # None
  BY <1>0, NotOpening DEF IInv, TypeInv, JobType, JobInv, JobOK, OpeningInv
<1>2. /\ IsControl(queue', pc') /\ pc' \in {"none", "next"}
      /\ job' \in JobType(parents) /\ JobOK(parents, pc', job') /\ ~HoldsBase(pc', job')
  BY <1>0, AnswerOK DEF IInv, TypeInv
<1>3. /\ IsView(parents, branch', watchers') /\ ~branch'.tx
      /\ branch'.id = IF branch.tx /\ job.new # None THEN job.new ELSE branch.id
      /\ /\ AllKnow(parents, watchers, branch.id)
         /\ branch.tx /\ job.new # None => AllKnow(parents, watchers, job.new)
         => AllKnow(parents, watchers', branch'.id)
  BY <1>0, <1>1, StopOK
<1>4. raced' \subseteq Races /\ raced \subseteq raced' /\ (~branch.tx => "stopped" \in raced')
  BY <1>0, <1>1 DEF TypeInv, Races
<1>5. job.new # None => job.new \in DOMAIN parents /\ job.new \in Anc(parents, job.new)
  BY <1>1, AncSelf DEF Ids
<1>6. TypeInv'
  BY <1>0, <1>1, <1>2, <1>3, <1>4, <1>5 DEF TypeInv
<1>7. OpeningInv' /\ JobInv'
  BY <1>0, <1>1, <1>2, <1>3 DEF OpeningInv, JobInv
<1>8. OwnInv'
  BY <1>0, <1>1, <1>3, <1>4, <1>5 DEF IInv, OwnInv
<1>9. HeadInv'
  <2> SUFFICES ASSUME raced' \cap {"init", "noop", "stopped"} = {} PROVE branch'.id \in Tips(parents)
    BY <1>0 DEF HeadInv
  <2>1. branch.id \in Tips(parents)
    BY <1>1, <1>4 DEF IInv, HeadInv
  <2>2. branch.tx /\ ~(job.new = job.base /\ branch.id # job.base)
    BY <1>0, <1>4
  <2> QED BY <1>1, <1>3, <2>1, <2>2
<1>10. WatcherInv'
  <2> SUFFICES ASSUME "moved" \notin raced' PROVE WatcherInv'
    BY DEF WatcherInv
  <2>1. /\ AllKnow(parents, watchers, branch.id)
        /\ branch.tx => AllKnow(parents, watchers, job.base)
        /\ journal # None => journal \in Anc(parents, branch.id)
    BY <1>0, <1>4 DEF IInv, WatcherInv, HoldsBase
  <2>2. branch.tx /\ job.new # None => AllKnow(parents, watchers, job.new)
    BY <1>1, <2>1, KnowsLater DEF AllKnow
  <2>3. AllKnow(parents, watchers', branch'.id)
    BY <1>3, <2>1, <2>2
  <2>4. journal' = None
    BY <1>0 DEF IInv, JobInv, HoldsBase
  <2> QED BY <1>0, <1>2, <1>3, <2>3, <2>4 DEF WatcherInv
<1> QED BY <1>6, <1>7, <1>8, <1>9, <1>10 DEF IInv

\* The page grows, by a commit of the connection or of another writer.
LEMMA GrowStep ==
    ASSUME IInv, NEW ps \in SUBSET DOMAIN parents, OnNewCommits(ps),
           UNCHANGED <<journal, own, client, raced, trailing>>,
           IsControl(queue', pc'), job' \in JobType(parents'), JobOK(parents', pc', job'),
           HoldsBase(pc', job') => HoldsBase(pc, job) /\ job'.base = job.base,
           pc' = "snapshot" => pc = "snapshot" /\ job' = job,
           client = "opening" => UNCHANGED <<queue, job>>
    PROVE  IInv'
<1> DEFINE n == Len(parents) + 1
<1>1. /\ Graph(parents')
      /\ DOMAIN parents' = DOMAIN parents \cup {n} /\ n \notin DOMAIN parents /\ n \in Nat
      /\ \A c \in DOMAIN parents : Anc(parents, c) \subseteq Anc(parents', c)
      /\ Tips(parents') = (Tips(parents) \ ps) \cup {n}
      /\ IsView(parents', branch', watchers')
      /\ branch'.tx = branch.tx /\ (branch.tx => watchers' = watchers)
      /\ \A w \in Watcher : watchers'[w].pc = "none" <=> watchers[w].pc = "none"
      /\ \/ client # "opening" /\ branch.id \in ps /\ branch'.id = n
         \/ (client = "opening" \/ branch.id \notin ps) /\ branch'.id = branch.id
      /\ branch.id # None => branch.id \in Anc(parents', branch'.id)
      /\ branch.id # None /\ AllKnow(parents, watchers, branch.id)
           => AllKnow(parents', watchers', branch'.id)
  <2>1. TypeInv
    BY DEF IInv
  <2> QED BY <2>1, NewCommit
<1> HIDE DEF n
<1>2. /\ TypeInv /\ journal \in Ids(parents) /\ own \in DOMAIN parents /\ job.base \in Ids(parents)
      /\ branch.id \in Ids(parents)
      /\ \A w \in Watcher : IsWatcher(parents, watchers[w])
  BY DEF IInv, TypeInv, JobType, IsView, BranchType
<1>3. client # "opening" => branch.id # None /\ branch.id \in DOMAIN parents
  BY <1>2 DEF IInv, OpeningInv, Ids
<1>4. n # None
  BY <1>1, NoneAssumption
<1>5. TypeInv'
  BY <1>1, <1>2 DEF TypeInv, Ids
<1>6. OpeningInv'
  BY <1>1, <1>3, <1>4 DEF IInv, OpeningInv
<1>7. JobInv'
  BY DEF IInv, JobInv
<1>8. OwnInv'
  <2> SUFFICES ASSUME client # "opening", "stopped" \notin raced
               PROVE  own \in Anc(parents', branch'.id)
    BY DEF OwnInv
  <2>1. own \in Anc(parents', branch.id)
    BY <1>1, <1>3 DEF IInv, OwnInv
  <2> QED BY <1>1, <1>3, <2>1, AncTransitive
<1>9. HeadInv'
  <2> SUFFICES ASSUME client # "opening", raced \cap {"init", "noop", "stopped"} = {}
               PROVE  branch'.id \in Tips(parents')
    BY DEF HeadInv
  <2>1. branch.id \in Tips(parents)
    BY DEF IInv, HeadInv
  <2> QED BY <1>1, <2>1
<1>10. WatcherInv'
  <2> SUFFICES ASSUME "moved" \notin raced PROVE WatcherInv'
    BY DEF WatcherInv
  <2>1. /\ AllKnow(parents, watchers, branch.id)
        /\ branch.tx /\ journal # None => AllKnow(parents, watchers, journal)
        /\ branch.tx /\ HoldsBase(pc, job) => AllKnow(parents, watchers, job.base)
        /\ journal # None => journal \in Anc(parents, branch.id)
        /\ pc = "snapshot" => /\ job.base \in Anc(parents, branch.id)
                              /\ journal # None => job.base = journal
    BY DEF IInv, WatcherInv
  <2>2. CASE client = "opening"
    <3>1. /\ \A w \in Watcher : watchers'[w].pc = "none"
          /\ journal' = None /\ pc' = "none"
      BY <1>1, <2>2 DEF IInv, OpeningInv, IsControl
    <3> QED BY <3>1 DEF WatcherInv, AllKnow, HoldsBase
  <2>3. CASE client # "opening"
    <3>1. \A x \in Anc(parents, branch.id) : x \in Anc(parents', branch'.id)
      BY <1>1, <1>3, <2>3, AncTransitive
    <3>2. ASSUME NEW c \in DOMAIN parents, AllKnow(parents, watchers, c), branch.tx
          PROVE  AllKnow(parents', watchers', c)
      BY <1>1, <1>2, <3>2, KnowsGrows DEF AllKnow
    <3>3. branch'.tx /\ journal' # None => AllKnow(parents', watchers', journal')
      BY <1>1, <1>2, <2>1, <3>2 DEF Ids
    <3>4. HoldsBase(pc, job) => job.base \in DOMAIN parents
      BY <1>2 DEF IInv, JobInv, JobOK, HoldsBase, Ids
    <3>5. branch'.tx /\ HoldsBase(pc', job') => AllKnow(parents', watchers', job'.base)
      BY <1>1, <2>1, <3>2, <3>4
    <3>6. AllKnow(parents', watchers', branch'.id)
      BY <1>1, <1>3, <2>1, <2>3
    <3> QED BY <2>1, <3>1, <3>3, <3>5, <3>6 DEF WatcherInv
  <2> QED BY <2>2, <2>3
<1> QED BY <1>5, <1>6, <1>7, <1>8, <1>9, <1>10 DEF IInv

\* Other writers never build on the commit whose callback is still to run.
LEMMA OtherCommitStep ==
    ASSUME IInv, OtherCommit
    PROVE  IInv'
<1>1. PICK ps \in {{p} : p \in Commits} \cup {Heads} :
          /\ pc = "stop" /\ job.new # job.base => job.new \notin ps
          /\ OnNewCommits(ps)
  BY DEF OtherCommit
<1>2. ps \in SUBSET DOMAIN parents
  BY DEF Commits, Heads
<1>3. UNCHANGED <<journal, queue, pc, job, trailing, client, own, raced>>
  BY DEF OtherCommit
<1>4. /\ TypeInv /\ IsControl(queue, pc) /\ job \in JobType(parents) /\ JobOK(parents, pc, job)
  BY DEF IInv, TypeInv, JobInv
<1>5. /\ DOMAIN parents \subseteq DOMAIN parents'
      /\ \A c \in DOMAIN parents : Anc(parents, c) \subseteq Anc(parents', c)
      /\ Tips(parents) \ ps \subseteq Tips(parents')
  BY <1>1, <1>2, <1>4, NewCommit
<1>6. job \in JobType(parents') /\ job.new \in Ids(parents)
  BY <1>4, <1>5 DEF JobType, Ids
<1>7. JobOK(parents', pc, job)
  BY <1>1, <1>4, <1>5, <1>6 DEF JobOK, Ids
<1> QED BY <1>1, <1>2, <1>3, <1>4, <1>6, <1>7, GrowStep

\* The commit of a transaction is written, is its base again, or fails.
LEMMA CommitWrittenStep ==
    ASSUME IInv, CommitWritten
    PROVE  IInv'
<1>0. /\ pc = "commit" /\ UNCHANGED <<journal, trailing, own, client, raced>>
  BY DEF CommitWritten, At
<1>1. /\ TypeInv /\ IsControl(queue, pc) /\ job \in JobType(parents) /\ job.base \in DOMAIN parents
      /\ client # "opening" /\ HoldsBase(pc, job) /\ journal = None /\ Graph(parents)
  BY <1>0, NotOpening DEF IInv, TypeInv, JobInv, JobOK, JobType, Ids, HoldsBase
<1>2. CASE OnNewCommits({job.base}) /\ Goes("stop", [job EXCEPT !.new = Len(parents) + 1])
  <2> DEFINE n == Len(parents) + 1
             j == [job EXCEPT !.new = n]
  <2>1. {job.base} \in SUBSET DOMAIN parents
    BY <1>1
  <2>2. /\ DOMAIN parents' = DOMAIN parents \cup {n} /\ n \notin DOMAIN parents
        /\ Graph(parents') /\ parents'[n] = {job.base} /\ n \in Tips(parents')
    BY <1>1, <1>2, <2>1, NewCommit
  <2>3. j \in JobType(parents') /\ j.base = job.base /\ j.new = n
    BY <1>1, <2>2 DEF JobType, Ids
  <2>4. job.base \in Anc(parents', n)
    BY <2>2, AncParent
  <2> HIDE DEF n, j
  <2>5. JobOK(parents', "stop", j)
    BY <1>1, <2>2, <2>3, <2>4, NoneAssumption DEF JobOK, Graph
  <2>6. IsControl(queue', pc') /\ pc' = "stop" /\ job' = j
    BY <1>0, <1>1, <1>2, GoesOK DEF Steps, n, j
  <2> QED BY <1>0, <1>1, <1>2, <2>1, <2>3, <2>5, <2>6, GrowStep
<1>3. CASE Goes("stop", [job EXCEPT !.new = job.base]) /\ UNCHANGED <<parents, branch, watchers>>
  <2> DEFINE j == [job EXCEPT !.new = job.base]
  <2>1. j \in JobType(parents) /\ j.base = job.base /\ j.new = job.base
    BY <1>1 DEF JobType, Ids
  <2>2. job.base \in Anc(parents, job.base)
    BY <1>1, AncSelf
  <2>3. JobOK(parents, "stop", j)
    BY <1>0, <2>1, <2>2 DEF IInv, JobInv, JobOK
  <2> HIDE DEF j
  <2> QED BY <1>0, <1>1, <1>3, <2>1, <2>3, GoesStep DEF Steps, j
<1>4. CASE Goes("stop", job) /\ UNCHANGED <<parents, branch, watchers>>
  <2>1. job.new = None
    BY <1>0 DEF IInv, JobInv, JobOK
  <2>2. JobOK(parents, "stop", job)
    BY <1>0, <2>1 DEF IInv, JobInv, JobOK
  <2> QED BY <1>0, <1>1, <1>4, <2>2, GoesStep DEF Steps
<1> QED BY <1>2, <1>3, <1>4 DEF CommitWritten

\* Steps of the watchers.
LEMMA WatchersStep ==
    ASSUME IInv, client # "opening",
           UNCHANGED <<parents, branch, journal, own, client>>,
           watchers' = [w \in Watcher |-> watchers'[w]],
           \A w \in Watcher : IsWatcher(parents, watchers'[w]),
           raced' \subseteq Races,
           \A x \in {"moved", "init", "noop", "stopped"} : x \in raced' <=> x \in raced,
           \/ UNCHANGED <<queue, pc, job>>
           \/ pc # "none" /\ Answer,
           "moved" \notin raced =>
               /\ AllKnow(parents, watchers', branch.id)
               /\ branch.tx /\ journal # None => AllKnow(parents, watchers', journal)
               /\ branch.tx /\ HoldsBase(pc', job') => AllKnow(parents, watchers', job'.base)
    PROVE  IInv'
<1>1. /\ IsControl(queue', pc') /\ job' \in JobType(parents) /\ JobOK(parents, pc', job')
      /\ HoldsBase(pc', job') => HoldsBase(pc, job)
      /\ pc' = "snapshot" => pc = "snapshot" /\ job' = job
  <2>1. CASE UNCHANGED <<queue, pc, job>>
    BY <2>1 DEF IInv, TypeInv, JobInv
  <2>2. CASE pc # "none" /\ Answer
    <3>1. /\ IsControl(queue', pc') /\ pc' \in {"none", "next"}
          /\ job' \in JobType(parents) /\ JobOK(parents, pc', job') /\ ~HoldsBase(pc', job')
      BY <2>2, AnswerOK DEF IInv, TypeInv
    <3> QED BY <3>1
  <2> QED BY <2>1, <2>2
<1>2. TypeInv'
  <2>1. IsView(parents, branch', watchers')
    BY DEF IInv, TypeInv, IsView
  <2> QED BY <1>1, <2>1 DEF IInv, TypeInv
<1>3. OpeningInv' /\ JobInv'
  BY <1>1 DEF IInv, OpeningInv, JobInv
<1>4. OwnInv' /\ HeadInv'
  BY DEF IInv, OwnInv, HeadInv
<1>5. WatcherInv'
  BY <1>1 DEF IInv, WatcherInv
<1> QED BY <1>2, <1>3, <1>4, <1>5 DEF IInv

\* A change is computed, given up or taken, or its watcher goes away.
LEMMA ChangeStep ==
    ASSUME IInv, NEW w \in Watcher, DiffDone(w) \/ ChangeTaken(w) \/ WatcherGone(w)
    PROVE  IInv'
<1> DEFINE u == watchers[w]
<1>0. /\ IsWatcher(parents, u) /\ watchers = [v \in Watcher |-> watchers[v]]
      /\ \A v \in Watcher : IsWatcher(parents, watchers[v])
      /\ raced \subseteq Races /\ u.pc # "none" /\ client # "opening"
      /\ UNCHANGED <<parents, branch, journal, own, client, queue, pc, job>>
  <2>1. /\ u.pc # "none"
        /\ UNCHANGED <<parents, branch, journal, own, client, queue, pc, job>>
    BY DEF DiffDone, ChangeTaken, WatcherGone, Watches, Registered
  <2>2. /\ IsWatcher(parents, u) /\ watchers = [v \in Watcher |-> watchers[v]]
        /\ \A v \in Watcher : IsWatcher(parents, watchers[v])
        /\ raced \subseteq Races
    BY DEF IInv, TypeInv, IsView
  <2>3. client # "opening"
    BY <2>1 DEF IInv, OpeningInv
  <2> QED BY <2>1, <2>2, <2>3
<1>1. ASSUME NEW q, watchers' = [watchers EXCEPT ![w] = q], IsWatcher(parents, q),
             q.pc # "none" => \A c : Knows(parents, u, c) => Knows(parents, q, c),
             raced' = raced \/ raced' = raced \cup {"diff"}
      PROVE  IInv'
  <2>1. /\ watchers' = [v \in Watcher |-> watchers'[v]]
        /\ watchers'[w] = q /\ \A v \in Watcher : v # w => watchers'[v] = watchers[v]
    BY <1>0, <1>1
  <2>2. \A v \in Watcher : IsWatcher(parents, watchers'[v])
    BY <1>0, <1>1, <2>1
  <2>3. \A c : AllKnow(parents, watchers, c) => AllKnow(parents, watchers', c)
    BY <1>0, <1>1, <2>1 DEF AllKnow
  <2>4. /\ raced' \subseteq Races
        /\ \A x \in {"moved", "init", "noop", "stopped"} : x \in raced' <=> x \in raced
    BY <1>0, <1>1 DEF Races
  <2>5. "moved" \notin raced =>
            /\ AllKnow(parents, watchers', branch.id)
            /\ branch.tx /\ journal # None => AllKnow(parents, watchers', journal)
            /\ branch.tx /\ HoldsBase(pc', job') => AllKnow(parents, watchers', job'.base)
    BY <1>0, <2>3 DEF IInv, WatcherInv
  <2> QED BY <1>0, <2>1, <2>2, <2>4, <2>5, WatchersStep
<1>2. CASE DiffDone(w) /\ watchers' = [watchers EXCEPT ![w].pc = "idle", ![w].sending = None]
  <2> DEFINE q == [u EXCEPT !.pc = "idle", !.sending = None]
  <2>1. watchers' = [watchers EXCEPT ![w] = q]
    BY <1>0, <1>2
  <2>2. /\ q \in WatcherType(parents) /\ q.pc = "idle" /\ q.sending = None
        /\ q.last = u.last /\ q.current = u.current
    BY <1>0 DEF IsWatcher, WatcherType
  <2>3. raced' = raced \/ raced' = raced \cup {"diff"}
    BY <1>2 DEF DiffDone, Note, NoRace
  <2> HIDE DEF q
  <2>4. IsWatcher(parents, q) /\ \A c : Knows(parents, u, c) => Knows(parents, q, c)
    BY <2>2 DEF IsWatcher, Knows
  <2> QED BY <1>1, <2>1, <2>3, <2>4
<1>3. CASE DiffDone(w) /\ watchers' = [watchers EXCEPT ![w].pc = "client"]
  <2> DEFINE q == [u EXCEPT !.pc = "client"]
  <2>1. watchers' = [watchers EXCEPT ![w] = q]
    BY <1>0, <1>3
  <2>2. /\ q \in WatcherType(parents) /\ q.pc = "client" /\ q.sending = u.sending
        /\ q.last = u.last /\ q.current = u.current
    BY <1>0 DEF IsWatcher, WatcherType
  <2>3. (raced' = raced \/ raced' = raced \cup {"diff"}) /\ u.pc = "diff"
    BY <1>3 DEF DiffDone, Note, NoRace, Watches
  <2> HIDE DEF q
  <2>4. IsWatcher(parents, q) /\ \A c : Knows(parents, u, c) => Knows(parents, q, c)
    BY <1>0, <2>2, <2>3 DEF IsWatcher, Knows
  <2> QED BY <1>1, <2>1, <2>3, <2>4
<1>4. CASE (DiffDone(w) \/ ChangeTaken(w)) /\ watchers' = [watchers EXCEPT ![w] = Taken(@)]
  <2>1. watchers' = [watchers EXCEPT ![w] = Taken(u)]
    BY <1>0, <1>4
  <2>2. (raced' = raced \/ raced' = raced \cup {"diff"}) /\ u.pc \in {"diff", "client"}
    BY <1>4 DEF DiffDone, ChangeTaken, Note, NoRace, Watches
  <2>3. IsWatcher(parents, Taken(u)) /\ \A c : Knows(parents, u, c) => Knows(parents, Taken(u), c)
    BY <1>0, <2>2, TakenOK
  <2> HIDE DEF u
  <2> QED BY <1>1, <2>1, <2>2, <2>3
<1>5. CASE WatcherGone(w)
  <2>1. watchers' = [watchers EXCEPT ![w] = NoWatcher] /\ raced' = raced
    BY <1>5 DEF WatcherGone
  <2>2. IsWatcher(parents, NoWatcher) /\ NoWatcher.pc = "none"
    BY DEF IsWatcher, WatcherType, NoWatcher
  <2> QED BY <1>1, <2>1, <2>2
<1> QED BY <1>2, <1>3, <1>4, <1>5 DEF DiffDone, ChangeTaken

\* A snapshot ends, and may register a watcher.
LEMMA SnapshotStep ==
    ASSUME IInv, SnapshotRead
    PROVE  IInv'
<1>0. /\ pc = "snapshot" /\ Answer /\ client # "opening"
      /\ UNCHANGED <<parents, branch, journal, own, client>>
  BY NotOpening DEF SnapshotRead, At
<1>1. CASE UNCHANGED <<watchers, raced>>
  BY <1>0, <1>1, AnswerStep
<1>2. ASSUME NEW w \in Watcher \ Registered, Note("gap", ~branch.tx /\ branch.id # job.base),
             watchers' = [watchers EXCEPT ![w] = [NoWatcher EXCEPT !.pc = "idle", !.last = job.base]]
      PROVE  IInv'
  <2> DEFINE q == [NoWatcher EXCEPT !.pc = "idle", !.last = job.base]
  <2>0. /\ TypeInv /\ job.base \in DOMAIN parents
        /\ watchers = [v \in Watcher |-> watchers[v]]
        /\ \A v \in Watcher : IsWatcher(parents, watchers[v])
    BY <1>0 DEF IInv, TypeInv, JobInv, JobOK, JobType, Ids, IsView
  <2>1. /\ q \in WatcherType(parents) /\ q.pc = "idle" /\ q.sending = None /\ q.current = None
        /\ q.last = job.base
    BY <2>0 DEF NoWatcher, WatcherType
  <2>2. watchers' = [watchers EXCEPT ![w] = q]
    BY <1>2
  <2> HIDE DEF q
  <2>3. /\ watchers' = [v \in Watcher |-> watchers'[v]]
        /\ watchers'[w] = q /\ \A v \in Watcher : v # w => watchers'[v] = watchers[v]
    BY <2>0, <2>2
  <2>4. \A v \in Watcher : IsWatcher(parents, watchers'[v])
    BY <2>0, <2>1, <2>3 DEF IsWatcher
  <2>5. \A c : AllKnow(parents, watchers, c) /\ job.base \in Anc(parents, c)
                 => AllKnow(parents, watchers', c)
    BY <2>1, <2>3 DEF AllKnow, Knows
  <2>6. ~HoldsBase(pc', job')
    BY <1>0, <2>0, AnswerOK DEF TypeInv
  <2>7. job.base \in Anc(parents, job.base)
    BY <2>0, AncSelf
  <2>8. "moved" \notin raced =>
            /\ AllKnow(parents, watchers', branch.id)
            /\ branch.tx /\ journal # None => AllKnow(parents, watchers', journal)
    BY <1>0, <2>5, <2>7 DEF IInv, WatcherInv
  <2>9. /\ raced' \subseteq Races
        /\ \A x \in {"moved", "init", "noop", "stopped"} : x \in raced' <=> x \in raced
    BY <1>2, <2>0 DEF Note, TypeInv, Races
  <2> QED BY <1>0, <2>3, <2>4, <2>6, <2>8, <2>9, WatchersStep
<1> QED BY <1>0, <1>1, <1>2 DEF SnapshotRead

\* The tracker learns of the heads and the client is served.
LEMMA OpenStep ==
    ASSUME IInv, InitCommitAndSetWatcher
    PROVE  IInv'
<1>0. /\ client = "opening" /\ client' = "open" /\ Note("init", job.base \notin Heads)
      /\ UNCHANGED <<parents, watchers, journal, queue, pc, trailing, own>>
      /\ branch' = [branch EXCEPT !.id = job.base] /\ job' = [job EXCEPT !.base = None]
  BY DEF InitCommitAndSetWatcher
<1>1. /\ TypeInv /\ branch \in BranchType(parents) /\ job \in JobType(parents)
      /\ (branch.commit # None => branch.commit = branch.id) /\ IsControl(queue, pc)
      /\ JobOK(parents, pc, job) /\ own \in DOMAIN parents
      /\ watchers = [w \in Watcher |-> watchers[w]]
      /\ \A w \in Watcher : IsWatcher(parents, watchers[w])
  BY DEF IInv, TypeInv, IsView, JobInv
<1>2. /\ queue = <<>> /\ ~branch.tx /\ journal = None /\ job.base = 1 /\ own = 1
      /\ branch.id = None /\ \A w \in Watcher : watchers[w].pc = "none"
  BY <1>0 DEF IInv, OpeningInv
<1>3. pc = "none" /\ job.new = None
  BY <1>1, <1>2 DEF IsControl, JobOK
<1>4. 1 \in DOMAIN parents /\ 1 # None
  BY <1>1, <1>2, NoneAssumption
<1>5. /\ branch' \in BranchType(parents) /\ branch'.id = 1 /\ branch'.commit = None
      /\ ~branch'.tx
  BY <1>0, <1>1, <1>2, <1>4 DEF BranchType, Ids
<1>6. job' \in JobType(parents) /\ job'.new = None
  BY <1>0, <1>1, <1>3 DEF JobType, Ids
<1>7. /\ raced' \subseteq Races
      /\ "init" \notin raced' => 1 \in Tips(parents)
  BY <1>0, <1>1, <1>2, InGraphTerms DEF Note, TypeInv, Races
<1>8. 1 \in Anc(parents, 1)
  BY <1>4, AncSelf
<1>9. TypeInv'
  <2>1. IsView(parents, branch', watchers')
    BY <1>0, <1>1, <1>5 DEF IsView
  <2> QED BY <1>0, <1>1, <1>6, <1>7, <2>1 DEF TypeInv
<1>10. OpeningInv' /\ JobInv'
  BY <1>0, <1>2, <1>3, <1>4, <1>5, <1>6 DEF OpeningInv, JobInv, JobOK, HoldsBase
<1>11. OwnInv' /\ HeadInv'
  BY <1>0, <1>2, <1>5, <1>7, <1>8 DEF OwnInv, HeadInv
<1>12. WatcherInv'
  BY <1>0, <1>2, <1>3, <1>5 DEF WatcherInv, AllKnow
<1> QED BY <1>9, <1>10, <1>11, <1>12 DEF IInv

-----------------------------------------------------------------------------
(* Theorems *)

\* The invariant holds initially.
LEMMA InitIInv == Init => IInv
<1> SUFFICES ASSUME Init PROVE IInv
  OBVIOUS
<1>1. /\ parents \in Seq(SUBSET Nat) /\ DOMAIN parents = {1} /\ parents[1] = {}
  BY DEF Init
<1>2. Graph(parents)
  BY <1>1 DEF Graph
<1>3. /\ branch \in BranchType(parents) /\ branch.id = None /\ branch.commit = None /\ ~branch.tx
  BY DEF Init, BranchType, Ids
<1>4. /\ job \in JobType(parents) /\ job.base = 1 /\ job.new = None
  BY <1>1 DEF Init, JobType, Ids
<1>5. \A w \in Watcher : IsWatcher(parents, watchers[w]) /\ watchers[w].pc = "none"
  <2>1. IsWatcher(parents, NoWatcher) /\ NoWatcher.pc = "none"
    BY DEF IsWatcher, WatcherType, NoWatcher
  <2> QED BY <2>1 DEF Init
<1>6. /\ watchers = [w \in Watcher |-> watchers[w]] /\ journal = None /\ queue = <<>> /\ pc = "none"
      /\ trailing = FALSE /\ client = "opening" /\ own = 1 /\ raced = {}
  BY DEF Init
<1>7. IsControl(queue, pc)
  BY <1>6 DEF IsControl
<1>8. TypeInv
  <2>1. IsView(parents, branch, watchers)
    BY <1>3, <1>5, <1>6 DEF IsView
  <2> QED BY <1>1, <1>2, <1>4, <1>6, <1>7, <2>1 DEF TypeInv, Ids
<1>9. OpeningInv /\ JobInv /\ OwnInv /\ HeadInv
  BY <1>3, <1>4, <1>5, <1>6 DEF OpeningInv, JobInv, JobOK, HoldsBase, OwnInv, HeadInv
<1>10. WatcherInv
  BY <1>3, <1>5, <1>6 DEF WatcherInv, AllKnow
<1> QED BY <1>8, <1>9, <1>10 DEF IInv

\* Every step keeps it.
LEMMA NextIInv == IInv /\ [Next]_vars => IInv'
<1> SUFFICES ASSUME IInv, [Next]_vars PROVE IInv'
  OBVIOUS
<1>1. CASE Operation
  BY <1>1, WaitingStep, WriteStep, StopStep, SnapshotStep, JournalStep, CommitWrittenStep,
     CommitAnsweredStep DEF Operation
<1>2. CASE \E w \in Watcher : DiffDone(w) \/ ChangeTaken(w) \/ WatcherGone(w)
  BY <1>2, ChangeStep
<1>3. CASE UNCHANGED vars
  BY <1>3 DEF vars, IInv, TypeInv, OpeningInv, JobInv, OwnInv, HeadInv, WatcherInv
<1> QED BY <1>1, <1>2, <1>3, OpenStep, CallStep, OtherCommitStep DEF Next

\* The invariant of a connection: its tracker, its operations and its watchers.
THEOREM Invariance == Spec => []IInv
BY InitIInv, NextIInv, PTL DEF Spec

\* The variables of PageDelegate, BranchTracker and the watchers keep their types.
THEOREM TypeCorrect == Spec => []TypeOK
<1>1. IInv => TypeOK
  <2> SUFFICES ASSUME IInv PROVE TypeOK
    OBVIOUS
  <2>1. watchers \in [Watcher -> WatcherType(parents)]
    BY DEF IInv, TypeInv, IsView, IsWatcher
  <2>2. \A w \in Watcher : watchers[w].pc \in {"diff", "client"} <=> watchers[w].sending # None
    BY DEF IInv, TypeInv, IsView, IsWatcher
  <2> QED BY <2>1, <2>2 DEF IInv, TypeInv, TypeOK, Graph, IsView, IsControl, BranchType, JobType,
             Ids, WatcherType, Commit, Commits, Calls, Steps
<1> QED BY <1>1, Invariance, PTL

\* What CommitAnswered tells the client stays in the past of the commit it sees,
\* whoever commits, fails or closes meanwhile, for any number of commits.
THEOREM WritesAreSeen == Spec => []ReadYourWrites
<1>1. IInv => ReadYourWrites
  BY InGraphTerms DEF IInv, OwnInv, ReadYourWrites
<1> QED BY <1>1, Invariance, PTL

\* Outside transactions BranchTracker follows a head of the page.
THEOREM BranchFollowsHeads == Spec => []BranchIsHead
<1>1. IInv => BranchIsHead
  BY InGraphTerms DEF IInv, HeadInv, BranchIsHead
<1> QED BY <1>1, Invariance, PTL

\* The changes that a PageWatcherContainer sends never take its client back.
THEOREM ChangesGoForward == Spec => []WatchersMoveForward
<1>1. IInv => WatchersMoveForward
  <2> SUFFICES ASSUME IInv, "moved" \notin raced, NEW w \in Watcher, watchers[w].sending # None
               PROVE  watchers[w].last \in Past(watchers[w].sending)
    BY DEF WatchersMoveForward
  <2>1. watchers[w].pc # "none"
    BY DEF IInv, TypeInv, IsView, IsWatcher
  <2>2. Knows(parents, watchers[w], branch.id)
    BY <2>1 DEF IInv, WatcherInv, AllKnow
  <2> QED BY <2>2, InGraphTerms DEF Knows
<1> QED BY <1>1, Invariance, PTL

=============================================================================
