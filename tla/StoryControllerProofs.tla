------------------------ MODULE StoryControllerProofs -----------------------
(***************************************************************************)
(* Proofs about a story, for any number of modules, calls, other devices   *)
(* and failures.                                                           *)
(*                                                                         *)
(* The state of the story mirrors that of its root module: the two are     *)
(* written in different steps; the invariant says which operations may     *)
(* launch the root module, and when the controller does not follow it.     *)
(*                                                                         *)
(* The modules that run are those the page says: for each module the       *)
(* invariant says which operation, which notification in the queue or      *)
(* which change the watcher has not been told of will still bring it about.*)
(*                                                                         *)
(* No view waits whose anchor the shell has: an induction over the tree of *)
(* modules says what FindAnchor and ProcessPendingViews return.            *)
(***************************************************************************)
EXTENDS StoryController, WellFoundedInduction, TLAPS

\* The fields of the controller, of the operation under way and of a connection.
Shape(s) ==
    /\ DOMAIN s = {"state", "saved", "track", "shell", "conns", "views", "pending", "queue",
                   "run", "blocked"}
    /\ DOMAIN s.run = {"pc", "m", "data", "got", "todo"}
    /\ DOMAIN s.conns = Module
    /\ \A m \in Module : s.conns[m] # None => DOMAIN s.conns[m] = {"data", "st", "down"}
    /\ s.track \in BOOLEAN

\* The queue holds operations, and no module asks for the root module.
QueueOK(q) ==
    /\ \E S : q \in Seq(S)
    /\ \A i \in DOMAIN q : q[i].kind = "startModule" => q[i].m # Root

\* An operation that is under way is at the head of the queue, and only that of
\* a story which is followed and has a shell has a list of modules to start.
RunOK(s) ==
    /\ s.run.pc = "ready" => s.run = Idle
    /\ s.run.pc \notin {"ready", "gone"} => s.queue # <<>>
    /\ s.run.todo # <<>> => s.track /\ s.shell # "none"

\* The operation under way will launch the module run.m.
MayLaunch(s) ==
    LET k == Head(s.queue).kind IN
    \/ s.run.pc \in {"launch", "relaunch"}
    \/ s.run.pc \in {"read", "answer"} /\ k # "stopModule"
    \/ s.run.pc \in {"write", "blocked"} /\ k # "stopModule" /\ (k = "add" => s.run.got # None)

\* The root module is launched only in a story that is followed and has a shell
\* (before the first Start a story is followed, and has none).
LaunchOK(s) == MayLaunch(s) => (s.track /\ s.shell # "none") \/ s.run.m # Root

\* A story that is not followed or has no shell is being stopped, or has no root
\* module.
TrackOK(s) ==
    (~s.track \/ s.shell = "none") =>
        /\ IsRunning(s) => s.run.pc \in {"stopping", "stopShell"}
        /\ s.conns[Root] # None => s.run.pc = "stopping"

\* Modules are torn down by the operation under way, and one by one or all.
DownOK(s) ==
    \A m \in Module : s.conns[m] # None /\ s.conns[m].down =>
        \/ s.run.pc = "stopping"
        \/ s.run.pc \in {"relaunch", "killing"} /\ m = s.run.m

\* StartCall finds no root module, unless e says that it was left behind.
ReadAllOK(s, e) ==
    s.run.pc = "readAll" => s.track /\ s.shell # "none" /\ (s.conns[Root] = None \/ "crashed" \in e)

FollowsOK(s, e) ==
    s.track /\ s.conns[Root] # None /\ "crashed" \notin e =>
        s.state = StoryStateOf(s.conns[Root].st)

StoryOK(s, e) ==
    /\ Shape(s) /\ QueueOK(s.queue) /\ RunOK(s) /\ LaunchOK(s)
    /\ TrackOK(s) /\ DownOK(s) /\ ReadAllOK(s, e) /\ FollowsOK(s, e)

\* The inductive invariant.
IInv == StoryOK(story, raced)
-----------------------------------------------------------------------------
(* Queues *)

LEMMA AppendOK ==
    ASSUME NEW q, QueueOK(q), NEW op, op.kind = "startModule" => op.m # Root
    PROVE  /\ QueueOK(Append(q, op)) /\ Append(q, op) # <<>>
           /\ q # <<>> => Head(Append(q, op)) = Head(q)
<1>1. PICK S : q \in Seq(S)
  BY DEF QueueOK
<1>2. q \in Seq(S \cup {op}) /\ op \in S \cup {op}
  BY <1>1
<1>3. Append(q, op) \in Seq(S \cup {op})
  BY <1>2
<1>4. /\ DOMAIN Append(q, op) = 1..(Len(q) + 1) /\ Len(q) \in Nat
      /\ \A i \in 1..Len(q) : Append(q, op)[i] = q[i]
      /\ Append(q, op)[Len(q) + 1] = op
  BY <1>2
<1>5. \A i \in DOMAIN Append(q, op) :
        Append(q, op)[i].kind = "startModule" => Append(q, op)[i].m # Root
  BY <1>2, <1>4 DEF QueueOK
<1> QED BY <1>2, <1>3, <1>4, <1>5 DEF QueueOK

LEMMA TailOK ==
    ASSUME NEW q, QueueOK(q), q # <<>>
    PROVE  QueueOK(Tail(q))
<1>1. PICK S : q \in Seq(S)
  BY DEF QueueOK
<1>2. /\ Tail(q) \in Seq(S) /\ DOMAIN Tail(q) = 1..(Len(q) - 1) /\ Len(q) \in Nat
      /\ \A i \in 1..(Len(q) - 1) : Tail(q)[i] = q[i + 1] /\ i + 1 \in DOMAIN q
  BY <1>1
<1> QED BY <1>2 DEF QueueOK

\* The notifications of a change are a sequence of their own kind.
LEMMA NotificationsOK ==
    ASSUME NEW q, QueueOK(q), NEW D, NEW ops \in Notifications(D)
    PROVE  /\ QueueOK(q \o ops)
           /\ q # <<>> => q \o ops # <<>> /\ Head(q \o ops) = Head(q)
<1>1. PICK r \in SeqOf(D, Len(Path)) :
        ops = [i \in DOMAIN r |-> [kind |-> "notification", m |-> r[i][1], data |-> r[i][2]]]
  BY DEF Notifications, InKeyOrder
<1>2. PICK n \in 0..Len(Path) : r \in [1..n -> D]
  BY DEF SeqOf
<1>3. n \in Nat
  BY PathAssumption
<1>4. PICK S : q \in Seq(S)
  BY DEF QueueOK
<1> DEFINE T == S \cup {ops[i] : i \in 1..n}
<1>5. DOMAIN ops = 1..n /\ \A i \in 1..n : ops[i].kind = "notification"
  BY <1>1, <1>2
<1>6. q \in Seq(T) /\ ops \in Seq(T)
  <2>1. ops = [i \in 1..n |-> ops[i]]
    BY <1>1, <1>2
  <2> HIDE DEF T
  <2>2. \A i \in 1..n : ops[i] \in T
    BY DEF T
  <2>3. ops \in [1..n -> T]
    BY <2>1, <2>2
  <2>4. S \subseteq T
    BY DEF T
  <2> QED BY <2>3, <2>4, <1>3, <1>4
<1> HIDE DEF T
<1>7. /\ q \o ops \in Seq(T) /\ Len(q) \in Nat /\ DOMAIN q = 1..Len(q)
      /\ DOMAIN (q \o ops) = 1..(Len(q) + n)
      /\ \A i \in 1..Len(q) : (q \o ops)[i] = q[i]
      /\ \A i \in 1..n : (q \o ops)[Len(q) + i] = ops[i]
  BY <1>3, <1>5, <1>6
<1>8. ASSUME NEW i \in DOMAIN (q \o ops), (q \o ops)[i].kind = "startModule"
      PROVE  (q \o ops)[i].m # Root
  <2>1. i \in 1..Len(q)
    <3>1. ASSUME i \notin 1..Len(q) PROVE FALSE
      <4>1. i - Len(q) \in 1..n /\ i = Len(q) + (i - Len(q))
        BY <1>3, <1>7, <3>1
      <4> QED BY <4>1, <1>5, <1>7, <1>8
    <3> QED BY <3>1
  <2> QED BY <2>1, <1>7, <1>8 DEF QueueOK
<1>9. q # <<>> => 1 \in 1..Len(q)
  BY <1>6
<1>10. q # <<>> => q \o ops # <<>> /\ Head(q \o ops) = Head(q)
  BY <1>6, <1>7, <1>9
<1> QED BY <1>7, <1>8, <1>10 DEF QueueOK

-----------------------------------------------------------------------------
(* What the steps of an operation do to the controller *)

RunFields == {"pc", "m", "data", "got", "todo"}

\* A controller between two steps of an operation that tears nothing down.
Core(s, e) ==
    /\ Shape(s) /\ QueueOK(s.queue) /\ s.queue # <<>>
    /\ s.run.todo # <<>> => s.track /\ s.shell # "none"
    /\ ~s.track \/ s.shell = "none" => ~IsRunning(s) /\ s.conns[Root] = None
    /\ \A m \in Module : s.conns[m] = None \/ ~s.conns[m].down
    /\ FollowsOK(s, e)

\* q differs from s in the step of the operation and in what is left out here.
Alike(s, q) ==
    /\ DOMAIN q = DOMAIN s /\ q.state = s.state /\ q.track = s.track /\ q.shell = s.shell
    /\ q.conns = s.conns /\ q.queue = s.queue

LEMMA RootIsModule == Root \in Module
BY PathAssumption

LEMMA CoreOf ==
    ASSUME NEW s, NEW e, StoryOK(s, e), s.queue # <<>>,
           s.run.pc \notin {"stopping", "stopShell", "relaunch", "killing"}
    PROVE  Core(s, e)
BY RootIsModule DEF StoryOK, Core, RunOK, TrackOK, DownOK

LEMMA AlikeCore ==
    ASSUME NEW s, NEW e, Core(s, e), NEW q, Alike(s, q), q.run = s.run
    PROVE  Core(q, e)
BY DEF Core, Alike, Shape, IsRunning, FollowsOK

LEMMA DoneOK ==
    ASSUME NEW s, NEW e, Core(s, e)
    PROVE  StoryOK(Done(s), e)
<1> DEFINE q == Done(s)
<1>1. /\ DOMAIN q = DOMAIN s /\ q.state = s.state /\ q.track = s.track
      /\ q.shell = s.shell /\ q.conns = s.conns
      /\ q.queue = Tail(s.queue) /\ q.run = Idle
  BY DEF Core, Shape, Done
<1>2. QueueOK(q.queue)
  BY <1>1, TailOK DEF Core
<1>3. q.run.pc = "ready" /\ q.run.todo = <<>> /\ DOMAIN q.run = RunFields
  BY <1>1 DEF Idle, RunFields
<1> HIDE DEF q
<1>4. Shape(q)
  BY <1>1, <1>3 DEF Core, Shape, RunFields
<1>5. RunOK(q) /\ LaunchOK(q)
  BY <1>1, <1>3 DEF RunOK, LaunchOK, MayLaunch
<1>6. TrackOK(q) /\ DownOK(q) /\ ReadAllOK(q, e) /\ FollowsOK(q, e)
  BY <1>1, <1>3 DEF Core, TrackOK, DownOK, ReadAllOK, FollowsOK, IsRunning
<1> QED BY <1>2, <1>4, <1>5, <1>6 DEF StoryOK, q

\* The operation goes on to a step at which nothing is torn down.
LEMMA MoveOK ==
    ASSUME NEW s, NEW e, Core(s, e), NEW q, Alike(s, q), DOMAIN q.run = RunFields,
           q.run.todo # <<>> => q.track /\ q.shell # "none",
           q.run.pc \notin {"ready", "readAll"},
           LaunchOK(q)
    PROVE  StoryOK(q, e)
<1>1. Shape(q) /\ QueueOK(q.queue) /\ RunOK(q)
  BY DEF Core, Alike, Shape, RunOK, RunFields
<1>2. TrackOK(q) /\ DownOK(q) /\ ReadAllOK(q, e) /\ FollowsOK(q, e)
  BY DEF Core, Alike, TrackOK, DownOK, ReadAllOK, FollowsOK, IsRunning
<1> QED BY <1>1, <1>2 DEF StoryOK

LEMMA StartNextOK ==
    ASSUME NEW s, NEW e, Core(s, e)
    PROVE  StoryOK(StartNext(s), e)
<1>1. CASE s.run.todo = <<>>
  BY <1>1, DoneOK DEF StartNext
<1>2. CASE s.run.todo # <<>>
  <2> DEFINE r == [Idle EXCEPT !.pc = "read", !.m = Head(s.run.todo)[1],
                               !.data = Head(s.run.todo)[2], !.todo = Tail(s.run.todo)]
             q == [s EXCEPT !.run = r]
  <2>1. StartNext(s) = q
    BY <1>2 DEF StartNext
  <2>2. DOMAIN r = RunFields /\ r.pc = "read"
    BY DEF Idle, RunFields
  <2> HIDE DEF r
  <2>3. Alike(s, q) /\ q.run = r
    BY DEF Core, Shape, Alike
  <2> HIDE DEF q
  <2>4. q.track /\ q.shell # "none"
    BY <1>2, <2>3 DEF Core, Alike
  <2>5. LaunchOK(q)
    BY <2>4 DEF LaunchOK
  <2> QED BY <2>1, <2>2, <2>3, <2>4, <2>5, MoveOK
<1> QED BY <1>1, <1>2

LEMMA ConnectedOK ==
    ASSUME NEW s, NEW e, Core(s, e), NEW ms
    PROVE  Core(Connected(s, ms), e)
<1>1. Alike(s, Connected(s, ms)) /\ Connected(s, ms).run = s.run
  BY DEF Core, Shape, Alike, Connected
<1> QED BY <1>1, AlikeCore

LEMMA ShowModuleOK ==
    ASSUME NEW s, NEW e, Core(s, e), NEW m
    PROVE  Core(ShowModule(s, m), e)
<1>1. Core(ProcessPendingViews(Connected(s, {m})), e)
  BY ConnectedOK DEF ProcessPendingViews
<1>2. Core([s EXCEPT !.pending = @ \cup {m}], e)
  <2> DEFINE q == [s EXCEPT !.pending = @ \cup {m}]
  <2>1. Alike(s, q) /\ q.run = s.run
    BY DEF Core, Shape, Alike
  <2> QED BY <2>1, AlikeCore
<1> QED BY <1>1, <1>2 DEF ShowModule

LEMMA StartedOK ==
    ASSUME NEW s, NEW e, Core(s, e)
    PROVE  StoryOK(Started(s), e)
BY ShowModuleOK, StartNextOK DEF Started

\* q differs from s in the end of the queue, and in what is left out here.
Longer(s, q) ==
    /\ DOMAIN q = DOMAIN s /\ q.track = s.track
    /\ (q.shell = "none" <=> s.shell = "none") /\ q.conns = s.conns /\ q.run = s.run
    /\ QueueOK(q.queue)
    /\ s.queue # <<>> => q.queue # <<>> /\ Head(q.queue) = Head(s.queue)

LEMMA QueuedLonger ==
    ASSUME NEW s, Shape(s), QueueOK(s.queue), NEW op, op.kind = "startModule" => op.m # Root
    PROVE  Longer(s, Queued(s, op)) /\ Queued(s, op).state = s.state
<1> DEFINE q == Queued(s, op)
<1>1. /\ DOMAIN q = DOMAIN s /\ q.track = s.track
      /\ q.shell = s.shell /\ q.conns = s.conns /\ q.run = s.run
      /\ q.queue = Append(s.queue, op) /\ q.state = s.state
  BY DEF Shape, Queued
<1> HIDE DEF q
<1> QED BY <1>1, AppendOK DEF Longer, q

LEMMA LongerOK ==
    ASSUME NEW s, NEW e, StoryOK(s, e), NEW q, Longer(s, q), q.state = s.state
    PROVE  StoryOK(q, e)
<1>1. Shape(q) /\ QueueOK(q.queue) /\ RunOK(q)
  BY DEF StoryOK, Longer, Shape, RunOK
<1>2. LaunchOK(q)
  BY DEF StoryOK, Longer, RunOK, LaunchOK, MayLaunch
<1>3. TrackOK(q) /\ DownOK(q) /\ ReadAllOK(q, e) /\ FollowsOK(q, e)
  BY DEF StoryOK, Longer, TrackOK, DownOK, ReadAllOK, FollowsOK, IsRunning
<1> QED BY <1>1, <1>2, <1>3 DEF StoryOK

\* OnModuleStateChange follows the root module of a story that is followed.
LEMMA StateChange ==
    ASSUME NEW s, Shape(s), QueueOK(s.queue), NEW m, NEW st
    PROVE  LET q == OnModuleStateChange(s, m, st) IN
             /\ Longer(s, q)
             /\ q.state = IF s.track /\ m = Root THEN StoryStateOf(st) ELSE s.state
<1>0. Longer(s, s)
  BY DEF Longer
<1> DEFINE t == [s EXCEPT !.state = StoryStateOf(st)]
           a == IF m = Root THEN OnRootStateChange(s, st) ELSE s
           b == Queued(a, [kind |-> "stopModule", m |-> m])
<1>1. /\ Shape(t) /\ t.queue = s.queue /\ t.state = StoryStateOf(st)
      /\ DOMAIN t = DOMAIN s /\ t.track = s.track
      /\ t.shell = s.shell /\ t.conns = s.conns /\ t.run = s.run
  BY DEF Shape
<1> HIDE DEF t
<1>2. Longer(t, NotifyStateChange(t)) /\ NotifyStateChange(t).state = t.state
  BY <1>1, QueuedLonger DEF NotifyStateChange
<1>3. Longer(s, a) /\ a.state = IF m = Root THEN StoryStateOf(st) ELSE s.state
  <2>1. OnRootStateChange(s, st) = NotifyStateChange(t)
    BY DEF OnRootStateChange, t
  <2> QED BY <1>0, <1>1, <1>2, <2>1 DEF Longer
<1> HIDE DEF a
<1>4. Shape(a) /\ QueueOK(a.queue)
  BY <1>3 DEF Longer, Shape
<1>5. Longer(a, b) /\ b.state = a.state
  BY <1>4, QueuedLonger
<1> HIDE DEF b
<1>6. Longer(s, b)
  BY <1>3, <1>5 DEF Longer
<1>7. ~s.track => OnModuleStateChange(s, m, st) = s
  BY DEF OnModuleStateChange, a, b
<1>8. s.track => OnModuleStateChange(s, m, st) \in {b, a}
  BY DEF OnModuleStateChange, a, b
<1> QED BY <1>0, <1>3, <1>5, <1>6, <1>7, <1>8

\* A module is launched: the root module only in a story that is followed.
LEMMA LaunchCore ==
    ASSUME NEW s, NEW e, Core(s, e), NEW m, NEW d, (s.track /\ s.shell # "none") \/ m # Root
    PROVE  Core(Launch(s, m, d), e)
<1> DEFINE a == OnModuleStateChange(s, m, "STARTING")
           c == [data |-> d, st |-> "STARTING", down |-> FALSE]
           q == Launch(s, m, d)
<1>1. Longer(s, a) /\ a.state = IF s.track /\ m = Root THEN StoryStateOf("STARTING") ELSE s.state
  BY StateChange DEF Core
<1> HIDE DEF a
<1>2. q = [a EXCEPT !.conns[m] = c]
  BY DEF Launch, a
<1>3. DOMAIN c = {"data", "st", "down"} /\ c.st = "STARTING" /\ c.down = FALSE
  OBVIOUS
<1> HIDE DEF c
<1>4. /\ DOMAIN q = DOMAIN s /\ q.track = s.track
      /\ (q.shell = "none" <=> s.shell = "none") /\ q.run = s.run /\ q.queue = a.queue
      /\ q.state = a.state /\ q.conns = [s.conns EXCEPT ![m] = c]
  BY <1>1, <1>2 DEF Core, Shape, Longer
<1> HIDE DEF q
<1>5. \A x \in Module : q.conns[x] = IF x = m THEN c ELSE s.conns[x]
  BY <1>4 DEF Core, Shape
<1>6. Shape(q)
  BY <1>3, <1>4, <1>5 DEF Core, Shape
<1>7. \A x \in Module : q.conns[x] = None \/ ~q.conns[x].down
  BY <1>3, <1>5 DEF Core
<1>8. ~q.track \/ q.shell = "none" => ~IsRunning(q) /\ q.conns[Root] = None
  BY <1>1, <1>4, <1>5, RootIsModule DEF Core, IsRunning
<1>9. FollowsOK(q, e)
  BY <1>1, <1>3, <1>4, <1>5, RootIsModule DEF Core, FollowsOK
<1> QED BY <1>1, <1>4, <1>6, <1>7, <1>8, <1>9 DEF Core, Longer, q

-----------------------------------------------------------------------------
(* The steps *)

LEMMA RacedMore ==
    ASSUME NEW s, NEW e, StoryOK(s, e), NEW f, e \subseteq f
    PROVE  StoryOK(s, f)
BY DEF StoryOK, ReadAllOK, FollowsOK

\* Calls of clients and modules, and changes of the page, join the queue.
LEMMA CallStep ==
    ASSUME IInv, NEW op, Call(op), op.kind = "startModule" => op.m # Root
    PROVE  IInv'
<1>1. Shape(story) /\ QueueOK(story.queue)
  BY DEF IInv, StoryOK
<1>2. story' = Queued(story, op) /\ raced' = raced
  BY DEF Call
<1> QED BY <1>1, <1>2, QueuedLonger, LongerOK DEF IInv

LEMMA CallsStep ==
    ASSUME IInv,
           \/ Start \/ Stop \/ Delete
           \/ \E m \in Module : AddModule(m) \/ StopModule(m) \/ ModuleStarts(m)
    PROVE  IInv'
<1>1. CASE Start \/ Stop \/ Delete
  BY <1>1, CallStep DEF Start, Stop, Delete
<1>2. ASSUME NEW m \in Module, AddModule(m) \/ StopModule(m) \/ ModuleStarts(m)
      PROVE  IInv'
  <2>1. CASE AddModule(m) \/ StopModule(m)
    BY <2>1, CallStep DEF AddModule, StopModule
  <2>2. CASE ModuleStarts(m)
    <3>1. m # Root
      BY <2>2, PathAssumption DEF ModuleStarts, Running
    <3> QED BY <2>2, <3>1, CallStep DEF ModuleStarts
  <2> QED BY <1>2, <2>1, <2>2
<1> QED BY <1>1, <1>2

LEMMA PageStep ==
    ASSUME IInv, PageReports \/ \E m \in Module : RemoteWrites(m)
    PROVE  IInv'
<1>1. CASE PageReports
  <2>1. PICK ops \in Notifications(change \ {story.blocked}) :
          story' = [story EXCEPT !.queue = @ \o ops, !.blocked = IF @ \in change THEN None ELSE @]
    BY <1>1 DEF PageReports, OnPageChange
  <2>2. /\ DOMAIN story' = DOMAIN story /\ story'.track = story.track /\ story'.shell = story.shell
        /\ story'.conns = story.conns /\ story'.run = story.run /\ story'.state = story.state
        /\ story'.queue = story.queue \o ops
    BY <2>1 DEF IInv, StoryOK, Shape
  <2>3. QueueOK(story.queue)
    BY DEF IInv, StoryOK
  <2>4. Longer(story, story')
    BY <2>2, <2>3, NotificationsOK DEF Longer
  <2> QED BY <1>1, <2>2, <2>4, LongerOK DEF IInv, PageReports
<1>2. CASE \E m \in Module : RemoteWrites(m)
  <2>1. story' = story /\ raced \subseteq raced'
    BY <1>2 DEF RemoteWrites
  <2> QED BY <2>1, RacedMore DEF IInv
<1> QED BY <1>1, <1>2

LEMMA AliveStep ==
    ASSUME IInv, NEW m \in Module, NEW st, ModuleReports(m, st)
    PROVE  IInv'
<1> DEFINE s == [story EXCEPT !.conns[m].st = st]
<1>1. /\ DOMAIN s = DOMAIN story /\ s.track = story.track
      /\ s.shell = story.shell /\ s.run = story.run
      /\ s.queue = story.queue /\ s.state = story.state
      /\ s.conns = [story.conns EXCEPT ![m].st = st]
  BY DEF IInv, StoryOK, Shape
<1>2. story.conns[m] # None /\ DOMAIN story.conns[m] = {"data", "st", "down"}
  BY DEF ModuleReports, Running, IInv, StoryOK, Shape
<1>3. story' = OnModuleStateChange(s, m, st) /\ raced' = raced
  BY DEF ModuleReports
<1> HIDE DEF s
<1>4. /\ DOMAIN s.conns = Module
      /\ \A x \in Module \ {m} : s.conns[x] = story.conns[x]
      /\ s.conns[m].st = st /\ s.conns[m].down = story.conns[m].down
      /\ DOMAIN s.conns[m] = {"data", "st", "down"}
  BY <1>1, <1>2 DEF IInv, StoryOK, Shape
<1>5. Shape(s) /\ QueueOK(s.queue)
  BY <1>1, <1>4 DEF IInv, StoryOK, Shape
<1>6. /\ Longer(s, story')
      /\ story'.state = IF s.track /\ m = Root THEN StoryStateOf(st) ELSE s.state
  BY <1>3, <1>5, StateChange
<1>7. Shape(story') /\ QueueOK(story'.queue) /\ RunOK(story') /\ LaunchOK(story')
  BY <1>1, <1>5, <1>6 DEF IInv, StoryOK, Shape, Longer, RunOK, LaunchOK, MayLaunch
<1>8. TrackOK(story') /\ DownOK(story')
  BY <1>1, <1>2, <1>4, <1>6, RootIsModule
     DEF IInv, StoryOK, Longer, TrackOK, DownOK, IsRunning
<1>9. ReadAllOK(story', raced') /\ FollowsOK(story', raced')
  BY <1>1, <1>2, <1>3, <1>4, <1>6, RootIsModule
     DEF IInv, StoryOK, Longer, ReadAllOK, FollowsOK
<1> QED BY <1>7, <1>8, <1>9 DEF IInv, StoryOK

LEMMA ShellStep ==
    ASSUME IInv, ShellDies
    PROVE  IInv'
<1>1. story' = [story EXCEPT !.shell = "dead"] /\ story.shell = "up" /\ raced \subseteq raced'
  BY DEF ShellDies
<1>2. Longer(story, story') /\ story'.state = story.state
  BY <1>1 DEF IInv, StoryOK, Shape, Longer
<1> QED BY <1>1, <1>2, LongerOK, RacedMore DEF IInv

\* The beginning of an operation.
LEMMA StartStep ==
    ASSUME IInv, StartRuns
    PROVE  IInv'
<1>0. StoryOK(story, raced) /\ story.queue # <<>> /\ story.run.pc = "ready"
  BY DEF IInv, StartRuns, Begins, At
<1>1. Core(story, raced)
  BY <1>0, CoreOf
<1>2. CASE IsRunning(story)
  BY <1>1, <1>2, DoneOK DEF StartRuns, Only, Becomes, IInv
<1>3. CASE ~IsRunning(story)
  <2>1. /\ story' = [story EXCEPT !.track = TRUE, !.shell = "up", !.run.pc = "readAll"]
        /\ raced \subseteq raced'
        /\ story.conns[Root] # None /\ story.conns[Root].st # "STARTING" => "crashed" \in raced'
    BY <1>3 DEF StartRuns, Becomes
  <2>2. /\ DOMAIN story' = DOMAIN story /\ story'.track = TRUE
        /\ story'.shell = "up" /\ story'.conns = story.conns
        /\ story'.queue = story.queue /\ story'.state = story.state
        /\ DOMAIN story'.run = RunFields /\ story'.run.pc = "readAll"
        /\ story'.run.todo = story.run.todo
    BY <2>1 DEF IInv, StoryOK, Shape, RunFields
  <2>3. story.conns[Root] = None \/ "crashed" \in raced'
    <3> SUFFICES ASSUME story.conns[Root] # None, "crashed" \notin raced' PROVE FALSE
      OBVIOUS
    <3>1. story.track /\ story.shell # "none" /\ story.conns[Root].st = "STARTING"
      BY <1>1, <2>1 DEF Core, Shape
    <3>2. story.state = "STARTING"
      BY <1>1, <2>1, <3>1 DEF Core, FollowsOK, StoryStateOf
    <3> QED BY <1>3, <3>2 DEF IsRunning
  <2>4. Shape(story') /\ QueueOK(story'.queue) /\ RunOK(story') /\ LaunchOK(story')
    BY <1>0, <1>1, <2>2, ZenonT(40) DEF Core, Shape, RunOK, LaunchOK, MayLaunch, RunFields
  <2>5. /\ TrackOK(story') /\ DownOK(story') /\ ReadAllOK(story', raced')
        /\ FollowsOK(story', raced')
    BY <1>1, <2>2, <2>3 DEF Core, TrackOK, DownOK, ReadAllOK, FollowsOK
  <2> QED BY <2>4, <2>5 DEF IInv, StoryOK
<1> QED BY <1>2, <1>3

LEMMA StartReadsStep ==
    ASSUME IInv, StartReads
    PROVE  IInv'
<1>0. StoryOK(story, raced) /\ story.queue # <<>> /\ story.run.pc = "readAll"
  BY DEF IInv, StartReads, At
<1>1. PICK todo :
        story' = StartNext(NotifyStateChange([story EXCEPT !.run.todo = todo, !.state = "STARTING"]))
  BY DEF StartReads, Only, Becomes
<1>2. raced' = raced
  BY DEF StartReads, Only
<1> DEFINE s == [story EXCEPT !.run.todo = todo, !.state = "STARTING"]
           q == NotifyStateChange(s)
<1>3. /\ DOMAIN s = DOMAIN story /\ s.track = story.track
      /\ s.shell = story.shell /\ s.conns = story.conns
      /\ s.queue = story.queue /\ s.state = "STARTING" /\ DOMAIN s.run = RunFields
  BY <1>0 DEF StoryOK, Shape, RunFields
<1> HIDE DEF s
<1>4. Shape(s) /\ QueueOK(s.queue)
  BY <1>0, <1>3 DEF StoryOK, Shape, RunFields
<1>5. Longer(s, q) /\ q.state = "STARTING"
  BY <1>3, <1>4, QueuedLonger DEF NotifyStateChange
<1> HIDE DEF q
<1>6. Core(story, raced) /\ story.track
        /\ story.shell # "none" /\ (story.conns[Root] = None \/ "crashed" \in raced)
  BY <1>0, CoreOf DEF StoryOK, ReadAllOK
<1>7. Core(q, raced)
  BY <1>3, <1>4, <1>5, <1>6 DEF Core, Longer, Shape, FollowsOK
<1> QED BY <1>1, <1>2, <1>7, StartNextOK DEF IInv, q, s

\* The steps of an operation that end it or go on, with nothing torn down.
LEMMA EndStep ==
    ASSUME IInv, story.queue # <<>>,
           story.run.pc \notin {"stopping", "stopShell", "relaunch", "killing"},
           story' = Done(story), raced \subseteq raced'
    PROVE  IInv'
BY CoreOf, DoneOK, RacedMore DEF IInv

LEMMA GoOnStep ==
    ASSUME IInv, story.queue # <<>>,
           story.run.pc \notin {"stopping", "stopShell", "relaunch", "killing"},
           raced \subseteq raced',
           Alike(story, story'), DOMAIN story'.run = RunFields,
           story'.run.todo = story.run.todo,
           story'.run.pc \notin {"ready", "readAll"},
           LaunchOK(story')
    PROVE  IInv'
<1>1. Core(story, raced)
  BY CoreOf DEF IInv
<1>2. story'.run.todo # <<>> => story'.track /\ story'.shell # "none"
  BY <1>1 DEF Core, Alike
<1>3. StoryOK(story', raced)
  BY <1>1, <1>2, MoveOK
<1> QED BY <1>3, RacedMore DEF IInv

LEMMA SaveStep ==
    ASSUME IInv, SaveState
    PROVE  IInv'
<1> DEFINE s == [story EXCEPT !.saved = Head(story.queue).state]
<1>1. Core(story, raced)
  BY CoreOf DEF IInv, SaveState, Begins, At
<1>2. Alike(story, s) /\ s.run = story.run
  BY <1>1 DEF Core, Shape, Alike
<1>3. story' = Done(s) /\ raced' = raced
  BY DEF SaveState, Only, Becomes
<1> QED BY <1>1, <1>2, <1>3, AlikeCore, DoneOK DEF IInv

LEMMA StartModuleEffect ==
    ASSUME NEW s, Shape(s), NEW m, NEW d
    PROVE  LET q == StartModule(s, m, d) IN
             /\ Alike(s, q) /\ DOMAIN q.run = RunFields /\ q.run.todo = s.run.todo
             /\ q.run.pc = "read" /\ q.run.m = m /\ q.run.got = s.run.got
BY DEF StartModule, Shape, Alike, RunFields

LEMMA WriteEffect ==
    ASSUME NEW s, Shape(s), NEW m, NEW d
    PROVE  LET q == Write(s, m, d) IN
             /\ Alike(s, q) /\ DOMAIN q.run = RunFields /\ q.run.todo = s.run.todo
             /\ q.run.pc = "write" /\ q.run.m = m /\ q.run.got = s.run.got
BY DEF Write, Shape, Alike, RunFields

LEMMA NotificationStep ==
    ASSUME IInv, NotificationRuns
    PROVE  IInv'
<1>0. /\ story.queue # <<>> /\ story.run.pc = "ready" /\ Shape(story)
      /\ Core(story, raced) /\ Head(story.queue).kind = "notification"
  BY CoreOf DEF IInv, NotificationRuns, Begins, At, Core
<1> DEFINE op == Head(story.queue)
           kill == [story EXCEPT !.run.pc = "kill", !.run.m = op.m, !.run.data = op.data]
<1>1. raced \subseteq raced'
  BY DEF NotificationRuns, Only, Race, Becomes
<1>2. \/ story' = Done(story)
      \/ story' = kill
      \/ IsRunning(story) /\ story' = StartModule(story, op.m, op.data)
  BY DEF NotificationRuns, Only, Race, Becomes
<1>3. CASE story' = Done(story)
  BY <1>0, <1>1, <1>3, EndStep
<1>4. CASE story' = kill
  <2>1. /\ Alike(story, story') /\ DOMAIN story'.run = RunFields
        /\ story'.run.todo = story.run.todo /\ story'.run.pc = "kill"
    BY <1>0, <1>4 DEF Shape, Alike, RunFields
  <2>2. LaunchOK(story')
    BY <2>1 DEF LaunchOK, MayLaunch
  <2> QED BY <1>0, <1>1, <2>1, <2>2, GoOnStep
<1>5. CASE IsRunning(story) /\ story' = StartModule(story, op.m, op.data)
  <2>1. /\ Alike(story, story') /\ DOMAIN story'.run = RunFields
        /\ story'.run.todo = story.run.todo /\ story'.run.pc = "read"
    BY <1>0, <1>5, StartModuleEffect
  <2>2. story'.track /\ story'.shell # "none"
    BY <1>0, <1>5, <2>1 DEF Core, Alike, Shape
  <2>3. LaunchOK(story')
    BY <2>2 DEF LaunchOK
  <2> QED BY <1>0, <1>1, <2>1, <2>3, GoOnStep
<1> QED BY <1>2, <1>3, <1>4, <1>5

LEMMA BeginStep ==
    ASSUME IInv, StartModuleRuns \/ AddRuns \/ StopModuleRuns
    PROVE  IInv'
<1>0. /\ story.queue # <<>> /\ story.run.pc = "ready" /\ Shape(story) /\ QueueOK(story.queue)
      /\ story.run = Idle /\ raced' = raced
  BY DEF IInv, StoryOK, RunOK, StartModuleRuns, AddRuns, StopModuleRuns, Begins, At, Only
<1> DEFINE op == Head(story.queue)
<1>1. CASE StartModuleRuns
  <2>1. op.kind = "startModule" /\ story' = StartModule(story, op.m, op.data)
    BY <1>1 DEF StartModuleRuns, Begins, Only, Becomes
  <2>2. op.m # Root
    <3>1. PICK S : story.queue \in Seq(S)
      BY <1>0 DEF QueueOK
    <3>2. 1 \in DOMAIN story.queue /\ op = story.queue[1]
      BY <1>0, <3>1
    <3> QED BY <1>0, <2>1, <3>2 DEF QueueOK
  <2>3. /\ Alike(story, story') /\ DOMAIN story'.run = RunFields
        /\ story'.run.todo = story.run.todo /\ story'.run.pc = "read" /\ story'.run.m = op.m
    BY <1>0, <2>1, StartModuleEffect
  <2>4. LaunchOK(story')
    BY <2>2, <2>3 DEF LaunchOK
  <2> QED BY <1>0, <2>3, <2>4, GoOnStep
<1>2. CASE AddRuns
  <2>1. op.kind = "add" /\ story' = Write(story, op.m, op.data)
    BY <1>2 DEF AddRuns, Begins, Only, Becomes
  <2>2. /\ Alike(story, story') /\ DOMAIN story'.run = RunFields
        /\ story'.run.todo = story.run.todo /\ story'.run.pc = "write"
        /\ story'.run.got = story.run.got
    BY <1>0, <2>1, WriteEffect
  <2>3. story'.run.got = None /\ Head(story'.queue).kind = "add"
    BY <1>0, <2>1, <2>2 DEF Idle, Alike
  <2>4. LaunchOK(story')
    BY <2>2, <2>3 DEF LaunchOK, MayLaunch
  <2> QED BY <1>0, <2>2, <2>4, GoOnStep
<1>3. CASE StopModuleRuns
  <2>1. op.kind = "stopModule" /\ story' = [story EXCEPT !.run.pc = "read", !.run.m = op.m]
    BY <1>3 DEF StopModuleRuns, Begins, Only, Becomes
  <2>2. /\ Alike(story, story') /\ DOMAIN story'.run = RunFields
        /\ story'.run.todo = story.run.todo /\ story'.run.pc = "read"
    BY <1>0, <2>1 DEF Shape, Alike, RunFields
  <2>3. Head(story'.queue).kind = "stopModule"
    BY <2>1, <2>2 DEF Alike
  <2>4. LaunchOK(story')
    BY <2>2, <2>3 DEF LaunchOK, MayLaunch
  <2> QED BY <1>0, <2>2, <2>4, GoOnStep
<1> QED BY <1>1, <1>2, <1>3

LEMMA ReadStep ==
    ASSUME IInv, DataRead
    PROVE  IInv'
<1>0. /\ story.queue # <<>> /\ story.run.pc = "read" /\ Shape(story) /\ LaunchOK(story)
      /\ raced' = raced
  BY DEF IInv, StoryOK, DataRead, At, Only
<1>1. story' = [story EXCEPT !.run.pc = "answer", !.run.got = ledger[story.run.m]]
  BY DEF DataRead, Only, Becomes
<1>2. /\ Alike(story, story') /\ DOMAIN story'.run = RunFields
      /\ story'.run.todo = story.run.todo /\ story'.run.pc = "answer"
      /\ story'.run.m = story.run.m
  BY <1>0, <1>1 DEF Shape, Alike, RunFields
<1>3. LaunchOK(story')
  BY <1>0, <1>2 DEF LaunchOK, MayLaunch, Alike
<1> QED BY <1>0, <1>2, <1>3, GoOnStep

LEMMA AnswerStep ==
    ASSUME IInv, DataAnswered
    PROVE  IInv'
<1>0. /\ story.queue # <<>> /\ story.run.pc = "answer" /\ Shape(story) /\ LaunchOK(story)
      /\ raced' = raced
  BY DEF IInv, StoryOK, DataAnswered, At, Only
<1> DEFINE r == story.run
           stops == Head(story.queue).kind = "stopModule"
<1>1. \/ stops /\ story' = [story EXCEPT !.run.pc = "kill", !.run.data = r.got]
      \/ \E d : story' = Write(story, r.m, d)
      \/ ~stops /\ story' = [story EXCEPT !.run.pc = "launch"]
  BY DEF DataAnswered, Only, Becomes
<1>2. CASE stops /\ story' = [story EXCEPT !.run.pc = "kill", !.run.data = r.got]
  <2>1. /\ Alike(story, story') /\ DOMAIN story'.run = RunFields
        /\ story'.run.todo = story.run.todo /\ story'.run.pc = "kill"
    BY <1>0, <1>2 DEF Shape, Alike, RunFields
  <2>2. LaunchOK(story')
    BY <2>1 DEF LaunchOK, MayLaunch
  <2> QED BY <1>0, <2>1, <2>2, GoOnStep
<1>3. ASSUME NEW d, story' = Write(story, r.m, d) PROVE IInv'
  <2>1. /\ Alike(story, story') /\ DOMAIN story'.run = RunFields
        /\ story'.run.todo = story.run.todo /\ story'.run.pc = "write"
        /\ story'.run.m = story.run.m
    BY <1>0, <1>3, WriteEffect
  <2>2. LaunchOK(story')
    BY <1>0, <2>1 DEF LaunchOK, MayLaunch, Alike
  <2> QED BY <1>0, <2>1, <2>2, GoOnStep
<1>4. CASE ~stops /\ story' = [story EXCEPT !.run.pc = "launch"]
  <2>1. /\ Alike(story, story') /\ DOMAIN story'.run = RunFields
        /\ story'.run.todo = story.run.todo /\ story'.run.pc = "launch"
        /\ story'.run.m = story.run.m
    BY <1>0, <1>4 DEF Shape, Alike, RunFields
  <2>2. LaunchOK(story')
    BY <1>0, <1>4, <2>1 DEF LaunchOK, MayLaunch, Alike
  <2> QED BY <1>0, <2>1, <2>2, GoOnStep
<1> QED BY <1>1, <1>2, <1>3, <1>4

LEMMA WriteStep ==
    ASSUME IInv, DataWritten \/ WriteFails
    PROVE  IInv'
<1>0. /\ story.queue # <<>> /\ story.run.pc = "write" /\ Shape(story) /\ LaunchOK(story)
      /\ raced \subseteq raced'
  BY DEF IInv, StoryOK, DataWritten, WriteFails, At
<1>1. story' = [story EXCEPT !.run.pc = "blocked"]
  BY DEF DataWritten, WriteFails
<1>2. /\ Alike(story, story') /\ DOMAIN story'.run = RunFields
      /\ story'.run.todo = story.run.todo /\ story'.run.pc = "blocked"
      /\ story'.run.m = story.run.m /\ story'.run.got = story.run.got
  BY <1>0, <1>1 DEF Shape, Alike, RunFields
<1>3. LaunchOK(story')
  BY <1>0, <1>2 DEF LaunchOK, MayLaunch, Alike
<1> QED BY <1>0, <1>2, <1>3, GoOnStep

LEMMA ReportStep ==
    ASSUME IInv, DataReported
    PROVE  IInv'
<1>0. /\ story.queue # <<>> /\ story.run.pc = "blocked" /\ Shape(story) /\ LaunchOK(story)
      /\ Core(story, raced) /\ raced \subseteq raced'
  BY CoreOf DEF IInv, StoryOK, DataReported, At
<1> DEFINE k == Head(story.queue).kind
           adds == k = "add" /\ story.run.got = None
<1>1. \/ story' = [story EXCEPT !.run.pc = "kill"]
      \/ IsRunning(story) /\ story' = StartModule(story, story.run.m, story.run.data)
      \/ story' = Done(story)
      \/ k # "stopModule" /\ ~adds /\ story' = [story EXCEPT !.run.pc = "launch"]
  BY DEF DataReported, Becomes
<1>2. CASE story' = [story EXCEPT !.run.pc = "kill"]
  <2>1. /\ Alike(story, story') /\ DOMAIN story'.run = RunFields
        /\ story'.run.todo = story.run.todo /\ story'.run.pc = "kill"
    BY <1>0, <1>2 DEF Shape, Alike, RunFields
  <2>2. LaunchOK(story')
    BY <2>1 DEF LaunchOK, MayLaunch
  <2> QED BY <1>0, <2>1, <2>2, GoOnStep
<1>3. CASE IsRunning(story) /\ story' = StartModule(story, story.run.m, story.run.data)
  <2>1. /\ Alike(story, story') /\ DOMAIN story'.run = RunFields
        /\ story'.run.todo = story.run.todo /\ story'.run.pc = "read"
    BY <1>0, <1>3, StartModuleEffect
  <2>2. LaunchOK(story')
    BY <1>0, <1>3, <2>1 DEF LaunchOK, Core, Alike, Shape
  <2> QED BY <1>0, <2>1, <2>2, GoOnStep
<1>4. CASE story' = Done(story)
  BY <1>0, <1>4, EndStep
<1>5. CASE k # "stopModule" /\ ~adds /\ story' = [story EXCEPT !.run.pc = "launch"]
  <2>1. /\ Alike(story, story') /\ DOMAIN story'.run = RunFields
        /\ story'.run.todo = story.run.todo /\ story'.run.pc = "launch"
        /\ story'.run.m = story.run.m
    BY <1>0, <1>5 DEF Shape, Alike, RunFields
  <2>2. LaunchOK(story')
    BY <1>0, <1>5, <2>1 DEF LaunchOK, MayLaunch, Alike
  <2> QED BY <1>0, <2>1, <2>2, GoOnStep
<1> QED BY <1>1, <1>2, <1>3, <1>4, <1>5

\* Modules that are torn down are marked, and otherwise stay what they were.
LEMMA TeardownEffect ==
    ASSUME NEW s, Shape(s), NEW ms, ms \subseteq Running(s)
    PROVE  LET q == Teardown(s, ms) IN
             /\ DOMAIN q = DOMAIN s /\ q.state = s.state /\ q.track = s.track /\ q.shell = s.shell
             /\ q.queue = s.queue /\ q.run = s.run
             /\ DOMAIN q.conns = Module
             /\ \A m \in Module \ ms : q.conns[m] = s.conns[m]
             /\ \A m \in ms : /\ DOMAIN q.conns[m] = {"data", "st", "down"}
                              /\ q.conns[m].st = s.conns[m].st
<1> DEFINE f == [m \in Module |->
                    IF m \in ms THEN [s.conns[m] EXCEPT !.down = TRUE] ELSE s.conns[m]]
           q == Teardown(s, ms)
<1>1. /\ DOMAIN q = DOMAIN s /\ q.state = s.state /\ q.track = s.track /\ q.shell = s.shell
      /\ q.queue = s.queue /\ q.run = s.run /\ q.conns = f
  BY DEF Teardown, Shape
<1>2. \A m \in ms : m \in Module /\ DOMAIN s.conns[m] = {"data", "st", "down"}
  BY DEF Running, Shape
<1>3. \A m \in ms : /\ DOMAIN f[m] = {"data", "st", "down"}
                    /\ f[m].st = s.conns[m].st
  BY <1>2
<1>4. DOMAIN f = Module /\ \A m \in Module \ ms : f[m] = s.conns[m]
  OBVIOUS
<1> HIDE DEF f, q
<1> QED BY <1>1, <1>2, <1>3, <1>4 DEF q

\* The operation waits for a module that it tears down.
LEMMA TearStep ==
    ASSUME IInv, Core(story, raced), story.run.m \in Running(story),
           NEW p \in {"relaunch", "killing"},
           story' = [Teardown(story, {story.run.m}) EXCEPT !.run.pc = p],
           p = "relaunch" => (story.track /\ story.shell # "none") \/ story.run.m # Root,
           raced' = raced
    PROVE  IInv'
<1> DEFINE t == Teardown(story, {story.run.m})
           m == story.run.m
<1>1. /\ DOMAIN t = DOMAIN story /\ t.state = story.state /\ t.track = story.track
      /\ t.shell = story.shell
      /\ t.queue = story.queue /\ t.run = story.run
      /\ DOMAIN t.conns = Module
      /\ \A x \in Module \ {m} : t.conns[x] = story.conns[x]
      /\ DOMAIN t.conns[m] = {"data", "st", "down"} /\ t.conns[m].st = story.conns[m].st
  BY TeardownEffect DEF Core
<1>2. story' = [t EXCEPT !.run.pc = p]
  OBVIOUS
<1> HIDE DEF t
<1>3. /\ DOMAIN story' = DOMAIN story /\ story'.state = story.state /\ story'.track = story.track
      /\ story'.shell = story.shell
      /\ story'.queue = story.queue /\ story'.conns = t.conns
      /\ DOMAIN story'.run = RunFields /\ story'.run.pc = p
      /\ story'.run.m = m /\ story'.run.todo = story.run.todo
  <2>1. {"state", "track", "shell", "queue", "conns", "run"} \subseteq DOMAIN t /\ DOMAIN t.run = RunFields
    BY <1>1 DEF Core, Shape, RunFields
  <2>2. /\ DOMAIN story' = DOMAIN t /\ story'.state = t.state /\ story'.track = t.track
        /\ story'.shell = t.shell
        /\ story'.queue = t.queue /\ story'.conns = t.conns
        /\ story'.run = [t.run EXCEPT !.pc = p]
    BY <1>2, <2>1
  <2> QED BY <1>1, <2>1, <2>2 DEF RunFields
<1>4. m \in Module /\ story.conns[m] # None
  BY DEF Running
<1>5. Shape(story') /\ QueueOK(story'.queue) /\ RunOK(story')
  <2>1. \A x \in Module : t.conns[x] # None => DOMAIN t.conns[x] = {"data", "st", "down"}
    BY <1>1 DEF Core, Shape
  <2>2. Shape(story')
    <3>1. Shape(story)
      BY DEF Core
    <3>2. DOMAIN story'.conns = Module
      BY <1>1, <1>3
    <3> QED BY <1>3, <2>1, <3>1, <3>2, ZenonT(40) DEF Shape, RunFields
  <2>3. QueueOK(story'.queue) /\ story'.queue # <<>> /\ p \notin {"ready", "gone"}
    BY <1>3 DEF Core
  <2> QED BY <1>3, <2>2, <2>3 DEF Core, RunOK
<1>6. LaunchOK(story')
  BY <1>3 DEF LaunchOK, MayLaunch
<1>7. (story'.track /\ story'.shell # "none") \/ m # Root
  BY <1>3, <1>4 DEF Core
<1>8. TrackOK(story')
  BY <1>1, <1>3, <1>7, RootIsModule DEF Core, TrackOK, IsRunning
<1>9. DownOK(story') /\ ReadAllOK(story', raced')
  <2>1. DownOK(story')
    <3> SUFFICES ASSUME NEW x \in Module, story'.conns[x] # None, story'.conns[x].down
                 PROVE  x = m
      BY <1>3 DEF DownOK
    <3>1. CASE x # m
      <4>1. story.conns[x] # None /\ story.conns[x].down
        BY <1>1, <1>3, <3>1
      <4> QED BY <4>1 DEF Core
    <3> QED BY <3>1
  <2>2. ReadAllOK(story', raced')
    BY <1>1, <1>3, ZenonT(40) DEF Core, ReadAllOK
  <2> QED BY <2>1, <2>2
<1>10. FollowsOK(story', raced')
  BY <1>1, <1>3, <1>4, RootIsModule DEF Core, FollowsOK
<1> QED BY <1>5, <1>6, <1>8, <1>9, <1>10 DEF IInv, StoryOK

LEMMA LaunchStep ==
    ASSUME IInv, LaunchRuns
    PROVE  IInv'
<1> DEFINE m == story.run.m
           d == story.run.data
<1>0. /\ story.queue # <<>> /\ story.run.pc = "launch" /\ LaunchOK(story)
      /\ Core(story, raced) /\ raced \subseteq raced'
  BY CoreOf DEF IInv, StoryOK, LaunchRuns, At
<1>1. (story.track /\ story.shell # "none") \/ m # Root
  BY <1>0 DEF LaunchOK, MayLaunch
<1>2. \/ story' = Started(Launch(story, m, d))
      \/ /\ m \in Running(story) /\ story' = [Teardown(story, {m}) EXCEPT !.run.pc = "relaunch"]
         /\ raced' = raced
      \/ story' = Started(story)
  BY DEF LaunchRuns, Becomes
<1>3. CASE story' = Started(Launch(story, m, d))
  BY <1>0, <1>1, <1>3, LaunchCore, StartedOK, RacedMore DEF IInv
<1>4. CASE /\ m \in Running(story) /\ story' = [Teardown(story, {m}) EXCEPT !.run.pc = "relaunch"]
           /\ raced' = raced
  BY <1>0, <1>1, <1>4, TearStep
<1>5. CASE story' = Started(story)
  BY <1>0, <1>5, StartedOK, RacedMore DEF IInv
<1> QED BY <1>2, <1>3, <1>4, <1>5

LEMMA KillStep ==
    ASSUME IInv, KillRuns \/ ViewDefocused
    PROVE  IInv'
<1>0. /\ story.queue # <<>> /\ story.run.pc \in {"kill", "defocus"}
      /\ Core(story, raced) /\ raced' = raced
  BY CoreOf DEF IInv, StoryOK, KillRuns, ViewDefocused, At, Only
<1>1. \/ story' = [story EXCEPT !.run.pc = "defocus"]
      \/ story.run.m \in Running(story)
           /\ story' = [Teardown(story, {story.run.m}) EXCEPT !.run.pc = "killing"]
      \/ story' = Done(story)
  BY DEF KillRuns, ViewDefocused, Only, Becomes, KillContinues
<1>2. CASE story' = [story EXCEPT !.run.pc = "defocus"]
  <2>1. /\ Alike(story, story') /\ DOMAIN story'.run = RunFields
        /\ story'.run.todo = story.run.todo /\ story'.run.pc = "defocus"
    BY <1>0, <1>2 DEF Core, Shape, Alike, RunFields
  <2>2. LaunchOK(story')
    BY <2>1 DEF LaunchOK, MayLaunch
  <2> QED BY <1>0, <2>1, <2>2, GoOnStep
<1>3. CASE story.run.m \in Running(story)
             /\ story' = [Teardown(story, {story.run.m}) EXCEPT !.run.pc = "killing"]
  BY <1>0, <1>3, TearStep
<1>4. CASE story' = Done(story)
  BY <1>0, <1>4, EndStep
<1> QED BY <1>1, <1>2, <1>3, <1>4

LEMMA StopStep ==
    ASSUME IInv, StopRuns
    PROVE  IInv'
<1>0. /\ story.queue # <<>> /\ story.run.pc = "ready" /\ story.run = Idle
      /\ Core(story, raced) /\ raced' = raced
  BY CoreOf DEF IInv, StoryOK, RunOK, StopRuns, Begins, At, Only
<1> DEFINE t == Teardown(story, Running(story))
           p == IF Running(story) = {} THEN "stopShell" ELSE "stopping"
<1>1. /\ DOMAIN t = DOMAIN story /\ t.queue = story.queue /\ t.run = story.run
      /\ DOMAIN t.conns = Module
      /\ \A x \in Module \ Running(story) : t.conns[x] = story.conns[x]
      /\ \A x \in Running(story) : DOMAIN t.conns[x] = {"data", "st", "down"}
  BY <1>0, TeardownEffect DEF Core
<1>2. story' = [t EXCEPT !.track = FALSE, !.run.pc = p]
  BY DEF StopRuns, Only, Becomes
<1>3. p \in {"stopping", "stopShell"} /\ (p = "stopShell" => Running(story) = {})
  OBVIOUS
<1> HIDE DEF t, p
<1>4. /\ DOMAIN story' = DOMAIN story /\ story'.track = FALSE /\ story'.queue = story.queue
      /\ story'.conns = t.conns /\ DOMAIN story'.run = RunFields /\ story'.run.pc = p
      /\ story'.run.todo = story.run.todo
  BY <1>1, <1>2 DEF IInv, StoryOK, Shape, RunFields
<1>5. \A x \in Module : story.conns[x] = None <=> x \notin Running(story)
  BY DEF Running
<1>6. Shape(story')
  BY <1>1, <1>4, <1>5 DEF IInv, StoryOK, Shape, RunFields
<1>7. story.run.todo = <<>>
  BY <1>0 DEF Idle
<1>8. QueueOK(story'.queue) /\ RunOK(story') /\ LaunchOK(story')
  BY <1>0, <1>3, <1>4, <1>7 DEF Core, RunOK, LaunchOK, MayLaunch
<1>9. TrackOK(story') /\ DownOK(story')
  BY <1>1, <1>3, <1>4, <1>5, RootIsModule DEF TrackOK, DownOK
<1>10. ReadAllOK(story', raced') /\ FollowsOK(story', raced')
  BY <1>3, <1>4 DEF ReadAllOK, FollowsOK
<1> QED BY <1>6, <1>8, <1>9, <1>10 DEF IInv, StoryOK

LEMMA CleanupStep ==
    ASSUME IInv, StopEnds
    PROVE  IInv'
<1>0. /\ story.queue # <<>> /\ Shape(story) /\ QueueOK(story.queue) /\ raced' = raced
      /\ story' = Cleanup(story)
  BY DEF IInv, StoryOK, StopEnds, At, Only, Becomes
<1> DEFINE a == [story EXCEPT !.shell = "none", !.conns = [m \in Module |-> None],
                              !.state = "STOPPED"]
           q == NotifyStateChange(a)
           r == [Idle EXCEPT !.pc = "gone"]
<1>1. /\ DOMAIN a = DOMAIN story /\ a.state = "STOPPED" /\ a.track = story.track /\ a.shell = "none"
      /\ a.queue = story.queue /\ a.run = story.run
      /\ DOMAIN a.conns = Module /\ \A m \in Module : a.conns[m] = None
  BY <1>0 DEF Shape
<1>2. story' = IF Head(story.queue).kind = "delete"
               THEN [a EXCEPT !.queue = <<>>, !.run = r] ELSE Done(q)
  BY <1>0 DEF Cleanup
<1> HIDE DEF a
<1>3. Shape(a) /\ QueueOK(a.queue)
  BY <1>0, <1>1 DEF Shape
<1>4. Longer(a, q) /\ q.state = "STOPPED"
  BY <1>1, <1>3, QueuedLonger DEF NotifyStateChange
<1> HIDE DEF q
<1>5. CASE story' = Done(q)
  <2> DEFINE b == [q EXCEPT !.run = Idle]
  <2>1. /\ DOMAIN b = DOMAIN story /\ b.state = "STOPPED" /\ b.track = story.track
        /\ b.shell = "none"
        /\ b.queue = q.queue /\ b.conns = a.conns /\ b.run = Idle
    BY <1>0, <1>1, <1>4 DEF Longer, Shape
  <2>2. Done(q) = Done(b)
    BY <1>0, <1>1, <1>4 DEF Done, Longer, Shape
  <2> HIDE DEF b
  <2>3. Idle.todo = <<>> /\ DOMAIN Idle = RunFields
    BY DEF Idle, RunFields
  <2>4. Shape(b)
    BY <1>0, <1>1, <2>1, <2>3 DEF Shape, RunFields
  <2>5. Core(b, raced)
    BY <1>0, <1>1, <1>4, <2>1, <2>3, <2>4, RootIsModule
       DEF Core, Longer, IsRunning, FollowsOK
  <2> QED BY <1>0, <1>5, <2>2, <2>5, DoneOK DEF IInv
<1>6. CASE story' = [a EXCEPT !.queue = <<>>, !.run = r]
  <2>1. /\ DOMAIN story' = DOMAIN story /\ story'.state = "STOPPED"
        /\ story'.track = story.track
        /\ story'.shell = "none" /\ story'.queue = <<>> /\ story'.conns = a.conns
        /\ story'.run = r
    BY <1>0, <1>1, <1>6 DEF Shape
  <2>2. r.pc = "gone" /\ r.todo = <<>> /\ DOMAIN r = RunFields
    BY DEF Idle, RunFields
  <2> HIDE DEF r
  <2>3. Shape(story')
    BY <1>0, <1>1, <2>1, <2>2 DEF Shape, RunFields
  <2>4. <<>> \in Seq({}) /\ DOMAIN <<>> = {}
    OBVIOUS
  <2>5. QueueOK(story'.queue)
    BY <2>1, <2>4 DEF QueueOK
  <2>6. RunOK(story') /\ LaunchOK(story')
    BY <2>1, <2>2 DEF RunOK, LaunchOK, MayLaunch
  <2>7. TrackOK(story') /\ DownOK(story') /\ ReadAllOK(story', raced')
        /\ FollowsOK(story', raced')
    BY <1>1, <2>1, <2>2, RootIsModule
       DEF TrackOK, DownOK, ReadAllOK, FollowsOK, IsRunning
  <2> QED BY <2>3, <2>5, <2>6, <2>7 DEF IInv, StoryOK
<1> QED BY <1>2, <1>5, <1>6

\* A module that was torn down is gone: it is launched again, or the operation
\* that killed it ends, or the story goes on stopping.
LEMMA DownStep ==
    ASSUME IInv, NEW m \in Module, ModuleDown(m)
    PROVE  IInv'
<1> DEFINE b == [story EXCEPT !.conns[m].st = "STOPPED"]
           a == OnModuleStateChange(b, m, "STOPPED")
           s == [a EXCEPT !.conns[m] = None, !.pending = @ \ {m}]
<1>0. /\ Shape(story) /\ QueueOK(story.queue) /\ story.conns[m] # None /\ story.conns[m].down
      /\ DOMAIN story.conns[m] = {"data", "st", "down"} /\ raced \subseteq raced'
  BY DEF IInv, StoryOK, ModuleDown, Running, Shape
<1>1. \/ story.run.pc = "stopping"
      \/ story.run.pc \in {"relaunch", "killing"} /\ m = story.run.m
  BY <1>0 DEF IInv, StoryOK, DownOK
<1>2. story.queue # <<>>
  BY <1>1 DEF IInv, StoryOK, RunOK
<1>3. /\ DOMAIN b = DOMAIN story /\ b.state = story.state /\ b.track = story.track
      /\ b.shell = story.shell
      /\ b.queue = story.queue /\ b.run = story.run
      /\ b.conns = [story.conns EXCEPT ![m].st = "STOPPED"]
  BY <1>0 DEF Shape
<1>4. story' = CASE s.run.pc = "relaunch" -> Started(Launch(s, m, s.run.data))
                 [] s.run.pc = "killing"  -> Done(s)
                 [] s.run.pc = "stopping" ->
                      IF Running(s) = {} THEN [s EXCEPT !.run.pc = "stopShell"] ELSE s
  BY DEF ModuleDown, Becomes
<1> HIDE DEF b
<1>5. Shape(b) /\ QueueOK(b.queue)
  <2>1. DOMAIN b.conns = Module /\ DOMAIN b.conns[m] = {"data", "st", "down"}
        /\ \A x \in Module \ {m} : b.conns[x] = story.conns[x]
    BY <1>0, <1>3 DEF Shape
  <2> QED BY <1>0, <1>3, <2>1 DEF Shape
<1>6. /\ Longer(b, a)
      /\ a.state = IF b.track /\ m = Root THEN StoryStateOf("STOPPED") ELSE b.state
  BY <1>5, StateChange
<1> HIDE DEF a
<1>7. /\ DOMAIN s = DOMAIN story /\ s.state = a.state /\ s.track = story.track
      /\ (s.shell = "none" <=> story.shell = "none")
      /\ s.queue = a.queue /\ s.run = story.run
      /\ s.conns = [b.conns EXCEPT ![m] = None]
  BY <1>0, <1>3, <1>6 DEF Longer, Shape
<1> HIDE DEF s
<1>8. /\ DOMAIN s.conns = Module /\ s.conns[m] = None
      /\ \A x \in Module \ {m} : s.conns[x] = story.conns[x]
  BY <1>0, <1>3, <1>7 DEF Shape
<1>9. Shape(s) /\ QueueOK(s.queue) /\ s.queue # <<>>
  BY <1>0, <1>2, <1>3, <1>6, <1>7, <1>8 DEF Shape, Longer
<1>10. FollowsOK(s, raced)
  BY <1>3, <1>6, <1>7, <1>8, RootIsModule DEF IInv, StoryOK, FollowsOK
<1>11. s.run.todo # <<>> => s.track /\ s.shell # "none"
  BY <1>7 DEF IInv, StoryOK, RunOK
<1>12. CASE story.run.pc \in {"relaunch", "killing"}
  <2>1. m = story.run.m
    BY <1>1, <1>12
  <2>2. \A x \in Module : s.conns[x] = None \/ ~s.conns[x].down
    BY <1>8, <1>12, <2>1 DEF IInv, StoryOK, DownOK
  <2>3. ~s.track \/ s.shell = "none" => ~IsRunning(s) /\ s.conns[Root] = None
    BY <1>3, <1>6, <1>7, <1>8, <1>12, RootIsModule DEF IInv, StoryOK, TrackOK, IsRunning,
       StoryStateOf
  <2>4. Core(s, raced)
    BY <1>9, <1>10, <1>11, <2>2, <2>3 DEF Core
  <2>5. CASE story.run.pc = "relaunch"
    <3>1. (s.track /\ s.shell # "none") \/ m # Root
      BY <1>7, <2>1, <2>5 DEF IInv, StoryOK, LaunchOK, MayLaunch
    <3>2. story' = Started(Launch(s, m, s.run.data))
      BY <1>4, <1>7, <2>5
    <3> QED BY <1>0, <2>4, <3>1, <3>2, LaunchCore, StartedOK, RacedMore DEF IInv
  <2>6. CASE story.run.pc = "killing"
    <3>1. story' = Done(s)
      BY <1>4, <1>7, <2>6
    <3> QED BY <1>0, <2>4, <3>1, DoneOK, RacedMore DEF IInv
  <2> QED BY <1>12, <2>5, <2>6
<1>13. CASE story.run.pc = "stopping"
  <2>1. story' = IF Running(s) = {} THEN [s EXCEPT !.run.pc = "stopShell"] ELSE s
    BY <1>4, <1>7, <1>13
  <2>2. PICK p \in {"stopping", "stopShell"} :
          /\ DOMAIN story' = DOMAIN s /\ story'.state = s.state /\ story'.track = s.track
          /\ story'.shell = s.shell
          /\ story'.queue = s.queue /\ story'.conns = s.conns
          /\ DOMAIN story'.run = RunFields /\ story'.run.pc = p
          /\ story'.run.todo = s.run.todo
          /\ p = "stopShell" => Running(s) = {}
    <3>1. CASE Running(s) = {}
      BY <1>9, <2>1, <3>1 DEF Shape, RunFields
    <3>2. CASE Running(s) # {}
      BY <1>7, <1>9, <1>13, <2>1, <3>2 DEF Shape, RunFields
    <3> QED BY <3>1, <3>2
  <2>3. Shape(story') /\ QueueOK(story'.queue)
    BY <1>9, <2>2 DEF Shape, RunFields
  <2>4. RunOK(story') /\ LaunchOK(story')
    BY <1>9, <1>11, <2>2 DEF RunOK, LaunchOK, MayLaunch
  <2>5. p = "stopShell" => \A x \in Module : s.conns[x] = None
    BY <2>2 DEF Running
  <2>6. TrackOK(story') /\ DownOK(story')
    BY <2>2, <2>5, RootIsModule DEF TrackOK, DownOK
  <2>7. ReadAllOK(story', raced) /\ FollowsOK(story', raced)
    BY <1>10, <2>2 DEF ReadAllOK, FollowsOK
  <2>8. StoryOK(story', raced)
    BY <2>3, <2>4, <2>6, <2>7 DEF StoryOK
  <2> QED BY <1>0, <2>8, RacedMore DEF IInv
<1> QED BY <1>1, <1>12, <1>13

-----------------------------------------------------------------------------
(* The theorems *)

LEMMA InitIInv == Init => IInv
<1> SUFFICES ASSUME Init PROVE IInv
  OBVIOUS
<1>1. /\ DOMAIN story = {"state", "saved", "track", "shell", "conns", "views", "pending",
                         "queue", "run", "blocked"}
      /\ story.state = "INITIAL" /\ story.track = TRUE
      /\ story.shell = "none" /\ story.queue = <<>> /\ story.run = Idle
      /\ DOMAIN story.conns = Module /\ \A m \in Module : story.conns[m] = None
  BY DEF Init
<1>2. Idle.pc = "ready" /\ Idle.todo = <<>> /\ DOMAIN Idle = {"pc", "m", "data", "got", "todo"}
  BY DEF Idle
<1>3. <<>> \in Seq({}) /\ DOMAIN <<>> = {}
  OBVIOUS
<1>4. Shape(story) /\ QueueOK(story.queue)
  BY <1>1, <1>2, <1>3 DEF Shape, QueueOK
<1>5. RunOK(story) /\ LaunchOK(story)
  BY <1>1, <1>2 DEF RunOK, LaunchOK, MayLaunch
<1>6. TrackOK(story) /\ DownOK(story) /\ ReadAllOK(story, raced) /\ FollowsOK(story, raced)
  BY <1>1, <1>2, RootIsModule DEF TrackOK, DownOK, ReadAllOK, FollowsOK, IsRunning
<1> QED BY <1>4, <1>5, <1>6 DEF IInv, StoryOK

LEMMA NextIInv == IInv /\ [Next]_vars => IInv'
<1> SUFFICES ASSUME IInv, [Next]_vars PROVE IInv'
  OBVIOUS
<1>1. CASE UNCHANGED vars
  BY <1>1 DEF vars, IInv
<1>2. CASE Runs
  BY <1>2, SaveStep, StartStep, StartReadsStep, NotificationStep, BeginStep, ReadStep,
     AnswerStep, WriteStep, ReportStep, LaunchStep, KillStep, StopStep, CleanupStep DEF Runs
<1>3. CASE Progress
  BY <1>2, <1>3, PageStep, DownStep DEF Progress
<1> QED BY <1>1, <1>3, CallsStep, PageStep, AliveStep, ShellStep, WriteStep DEF Next

\* The invariant of the controller of a story.
THEOREM Invariance == Spec => []IInv
BY InitIInv, NextIInv, PTL DEF Spec

\* OnRootStateChange: a story that was started shows the state of its root
\* module, through restarts, kills, notifications and crashes, whatever is
\* queued and whichever module is launched, torn down or launched again.
THEOREM StoryFollowsRoot == Spec => []StateFollowsRoot
<1>1. IInv => StateFollowsRoot
  BY DEF IInv, StoryOK, FollowsOK, StateFollowsRoot
<1> QED BY <1>1, Invariance, PTL

-----------------------------------------------------------------------------
(* The page, the operations and the modules they are about *)

\* The page, and what its watcher was told.
PageOK ==
    /\ ledger \in [Module -> Data \cup {None}] /\ seen \in [Module -> Data \cup {None}]
    /\ \A m \in Module : seen[m] # None => ledger[m] # None
    /\ \A c \in change : c \in Module \X Data /\ c[2] = seen[c[1]]
    /\ change = {} => seen = ledger

\* The operations of the queue; l is what the page holds.
OpOK(op, l) ==
    /\ op.kind \in {"add", "startModule", "stopModule", "notification"} => op.m \in Module
    /\ op.kind \in {"add", "startModule"} => op.data \in Data /\ ~op.data.stopped
    /\ op.kind = "stopModule" => l[op.m] # None
    /\ op.kind = "notification" => op.data \in Data

QueueTyped(s, l) == \A op \in ToSet(s.queue) : OpOK(op, l)

\* Only modules of the page run.
ConnsOK(s, l) ==
    /\ s.conns \in [Module -> Connection \cup {None}]
    /\ \A m \in Module : s.conns[m] # None => l[m] # None

TodoOK(r) ==
    /\ r.todo \in Seq(Module \X Data)
    /\ \A i \in DOMAIN r.todo : ~r.todo[i][2].stopped

Apart == {"ready", "readAll", "stopping", "stopShell", "gone"}
Starting == {"launch", "relaunch"}
Killing == {"kill", "defocus", "killing"}
Reading == {"read", "answer"}
Writing == {"write", "blocked"}

Stops(s) == Head(s.queue).kind = "stopModule"

\* The module of the operation under way, and what is to become of it.
RunTyped(s) ==
    LET r == s.run IN
    /\ r.pc \in Apart \cup Starting \cup Killing \cup Writing \cup Reading
    /\ IF r.pc \in Apart THEN r.m = None ELSE r.m \in Module
    /\ r.pc \in Apart \cup Killing => r.todo = <<>>
    /\ r.todo # <<>> \/ r.pc = "readAll" => ~Stops(s)
    /\ r.pc \in {"stopping", "stopShell"} => ~s.track
    /\ r.pc \in Starting \/ (r.pc \in Writing \cup Reading /\ ~Stops(s)) =>
          r.data \in Data /\ ~r.data.stopped
    /\ r.pc \in Killing \/ (r.pc \in Writing /\ Stops(s)) => r.data \in Data /\ r.data.stopped
    /\ r.pc = "answer" => r.got \in Data \cup {None}
    /\ r.pc = "answer" /\ Stops(s) => r.got # None
    /\ s.blocked # None => r.pc \in Writing /\ s.blocked = <<r.m, r.data>>
    /\ r.pc = "stopShell" => \A m \in Module : s.conns[m] = None

\* The page knows a module before it is launched or stopped.
RunKnown(s, l) ==
    LET r == s.run IN
    \/ r.pc \in Starting
    \/ r.pc \in Writing /\ s.blocked = None
    \/ r.pc = "answer" /\ r.got # None
    \/ r.pc \in Reading /\ Stops(s)
    => l[r.m] # None

\* What does not depend on the step of the operation.
Body(s, l) == QueueTyped(s, l) /\ ConnsOK(s, l) /\ TodoOK(s.run)

Fit(s, l) == Body(s, l) /\ RunTyped(s) /\ RunKnown(s, l)

TypeInv == PageOK /\ Fit(story, ledger)

-----------------------------------------------------------------------------
(* The operations of a queue *)

LEMMA InToSet ==
    ASSUME NEW q
    PROVE  \A y : y \in ToSet(q) <=> \E i \in DOMAIN q : q[i] = y
BY DEF ToSet

LEMMA ToSetAppend ==
    ASSUME NEW q, QueueOK(q), NEW x
    PROVE  /\ ToSet(Append(q, x)) = ToSet(q) \cup {x}
           /\ q # <<>> => ToSet(Tail(Append(q, x))) = ToSet(Tail(q)) \cup {x}
<1>1. PICK S : q \in Seq(S)
  BY DEF QueueOK
<1>2. q \in Seq(S \cup {x}) /\ x \in S \cup {x}
  BY <1>1
<1> DEFINE p == Append(q, x)
<1>3. /\ Len(q) \in Nat /\ DOMAIN q = 1..Len(q) /\ DOMAIN p = 1..Len(q) + 1 /\ p[Len(q) + 1] = x
      /\ \A i \in DOMAIN q : p[i] = q[i]
  BY <1>2
<1>4. ToSet(p) = ToSet(q) \cup {x}
  <2> HIDE DEF p
  <2>1. \A i \in DOMAIN p : i \in DOMAIN q \/ i = Len(q) + 1
    BY <1>3
  <2>2. Len(q) + 1 \in DOMAIN p /\ \A i \in DOMAIN q : i \in DOMAIN p
    BY <1>3
  <2> QED BY <1>3, <2>1, <2>2 DEF ToSet
<1>5. ASSUME q # <<>> PROVE ToSet(Tail(p)) = ToSet(Tail(q)) \cup {x}
  <2>1. /\ Len(q) > 0 /\ DOMAIN Tail(q) = 1..Len(q) - 1 /\ DOMAIN Tail(p) = 1..Len(q)
        /\ \A i \in 1..Len(q) - 1 : Tail(q)[i] = q[i + 1] /\ i + 1 \in DOMAIN q
    BY <1>2, <1>5
  <2>2. \A i \in 1..Len(q) : Tail(p)[i] = p[i + 1]
    BY <1>2, <1>3, <1>5
  <2> HIDE DEF p
  <2>3. Tail(p)[Len(q)] = x /\ Len(q) \in 1..Len(q)
    BY <1>3, <2>1, <2>2
  <2>4. ASSUME NEW i \in 1..Len(q) - 1 PROVE i \in 1..Len(q) /\ Tail(p)[i] = Tail(q)[i]
    <3>1. i \in 1..Len(q) /\ i + 1 \in DOMAIN q
      BY <1>3, <2>1
    <3> QED BY <1>3, <2>1, <2>2, <3>1
  <2>5. \A i \in 1..Len(q) : i \in 1..Len(q) - 1 \/ i = Len(q)
    <3>1. \A n \in Nat : \A i \in 1..n : i \in 1..n - 1 \/ i = n
      OBVIOUS
    <3> QED BY <1>3, <3>1, Zenon
  <2>6. \A y : y \in ToSet(Tail(p)) => y \in ToSet(Tail(q)) \cup {x}
    <3> SUFFICES ASSUME NEW y, y \in ToSet(Tail(p)) PROVE y \in ToSet(Tail(q)) \cup {x}
      OBVIOUS
    <3>0. PICK i \in DOMAIN Tail(p) : Tail(p)[i] = y
      BY InToSet
    <3>1. CASE i \in 1..Len(q) - 1
      <4>1. Tail(q)[i] = y /\ i \in DOMAIN Tail(q)
        BY <2>1, <2>4, <3>0, <3>1
      <4> QED BY <4>1, InToSet
    <3> QED BY <2>1, <2>3, <2>5, <3>0, <3>1
  <2>7. \A y : y \in ToSet(Tail(q)) \cup {x} => y \in ToSet(Tail(p))
    <3>1. x \in ToSet(Tail(p))
      BY <2>1, <2>3, InToSet
    <3>2. ASSUME NEW y, y \in ToSet(Tail(q)) PROVE y \in ToSet(Tail(p))
      <4>1. PICK i \in DOMAIN Tail(q) : Tail(q)[i] = y
        BY <3>2, InToSet
      <4>2. i \in DOMAIN Tail(p) /\ Tail(p)[i] = y
        BY <2>1, <2>4, <4>1
      <4> QED BY <4>2, InToSet
    <3> QED BY <3>1, <3>2
  <2> QED BY <2>6, <2>7
<1> QED BY <1>4, <1>5

LEMMA ToSetTail ==
    ASSUME NEW q, QueueOK(q), q # <<>>
    PROVE  /\ ToSet(q) = {Head(q)} \cup ToSet(Tail(q))
           /\ Head(q) \in ToSet(q) /\ ToSet(Tail(q)) \subseteq ToSet(q)
<1>1. PICK S : q \in Seq(S)
  BY DEF QueueOK
<1>2. /\ Len(q) \in Nat /\ Len(q) > 0 /\ DOMAIN q = 1..Len(q) /\ Head(q) = q[1]
      /\ DOMAIN Tail(q) = 1..Len(q) - 1
      /\ \A i \in 1..Len(q) - 1 : Tail(q)[i] = q[i + 1] /\ i + 1 \in DOMAIN q
  BY <1>1
<1>3. \A i \in DOMAIN q : i = 1 \/ (i - 1 \in 1..Len(q) - 1 /\ Tail(q)[i - 1] = q[i])
  <2> SUFFICES ASSUME NEW i \in DOMAIN q, i # 1
               PROVE  i - 1 \in 1..Len(q) - 1 /\ Tail(q)[i - 1] = q[i]
    OBVIOUS
  <2> DEFINE k == i - 1
  <2>1. k \in 1..Len(q) - 1 /\ k + 1 = i
    BY <1>2
  <2> HIDE DEF k
  <2>2. Tail(q)[k] = q[i]
    BY <1>2, <2>1
  <2> QED BY <2>1, <2>2 DEF k
<1>4. 1 \in DOMAIN q
  BY <1>2
<1>5. \A y : y \in ToSet(q) => y = Head(q) \/ y \in ToSet(Tail(q))
  <2> SUFFICES ASSUME NEW i \in DOMAIN q PROVE q[i] = Head(q) \/ q[i] \in ToSet(Tail(q))
    BY InToSet
  <2>1. CASE i # 1
    <3>1. i - 1 \in DOMAIN Tail(q) /\ Tail(q)[i - 1] = q[i]
      BY <1>2, <1>3, <2>1
    <3> QED BY <3>1, InToSet
  <2> QED BY <1>2, <2>1
<1>6. \A y : y \in ToSet(Tail(q)) => y \in ToSet(q)
  <2> SUFFICES ASSUME NEW y, y \in ToSet(Tail(q)) PROVE y \in ToSet(q)
    OBVIOUS
  <2>1. PICK i \in DOMAIN Tail(q) : Tail(q)[i] = y
    BY InToSet
  <2>2. i + 1 \in DOMAIN q /\ q[i + 1] = y
    BY <1>2, <2>1
  <2> QED BY <2>2, InToSet
<1>7. Head(q) \in ToSet(q)
  BY <1>2, <1>4 DEF ToSet
<1> QED BY <1>5, <1>6, <1>7

\* t differs from s in the operations ops at the end of its queue.
Grown(s, t, ops) ==
    /\ t.track = s.track /\ t.conns = s.conns /\ t.run = s.run
    /\ t.views = s.views /\ t.pending = s.pending /\ t.shell = s.shell
    /\ ToSet(t.queue) = ToSet(s.queue) \cup ops
    /\ s.queue # <<>> => /\ t.queue # <<>> /\ Head(t.queue) = Head(s.queue)
                         /\ ToSet(Tail(t.queue)) = ToSet(Tail(s.queue)) \cup ops

LEMMA GrownFit ==
    ASSUME NEW s, NEW t, NEW ops, NEW l, Fit(s, l), Grown(s, t, ops), t.blocked = s.blocked,
           s.run.pc \notin {"ready", "gone"} => s.queue # <<>>, \A op \in ops : OpOK(op, l)
    PROVE  Fit(t, l)
<1>1. Body(t, l)
  BY DEF Fit, Body, Grown, QueueTyped, ConnsOK
<1>2. t.run.pc \notin {"ready", "gone"} => (Stops(t) <=> Stops(s))
  BY DEF Grown, Stops
<1>3. RunTyped(t)
  BY <1>2 DEF Fit, Grown, RunTyped, Apart, Starting, Killing, Writing, Reading
<1>4. RunKnown(t, l)
  BY <1>2 DEF Fit, Grown, RunKnown, Apart, Reading
<1> QED BY <1>1, <1>3, <1>4 DEF Fit

LEMMA QueuedGrown ==
    ASSUME NEW s, Shape(s), QueueOK(s.queue), NEW op, op.kind = "startModule" => op.m # Root
    PROVE  /\ Grown(s, Queued(s, op), {op}) /\ Queued(s, op).blocked = s.blocked
           /\ Shape(Queued(s, op)) /\ QueueOK(Queued(s, op).queue)
<1> DEFINE t == Queued(s, op)
<1>1. /\ DOMAIN t = DOMAIN s /\ t.track = s.track /\ t.conns = s.conns /\ t.run = s.run
      /\ t.views = s.views /\ t.pending = s.pending /\ t.shell = s.shell
      /\ t.queue = Append(s.queue, op) /\ t.blocked = s.blocked
  BY DEF Shape, Queued
<1> HIDE DEF t
<1>2. Shape(t)
  BY <1>1 DEF Shape
<1>3. QueueOK(t.queue) /\ (s.queue # <<>> => t.queue # <<>> /\ Head(t.queue) = Head(s.queue))
  BY <1>1, AppendOK
<1>4. /\ ToSet(t.queue) = ToSet(s.queue) \cup {op}
      /\ s.queue # <<>> => ToSet(Tail(t.queue)) = ToSet(Tail(s.queue)) \cup {op}
  BY <1>1, ToSetAppend
<1> QED BY <1>1, <1>2, <1>3, <1>4 DEF Grown, t

\* OnModuleStateChange may save the state, and stop the module when it is done.
LEMMA StateGrown ==
    ASSUME NEW s, Shape(s), QueueOK(s.queue), NEW m, NEW st
    PROVE  LET t == OnModuleStateChange(s, m, st) IN
             /\ t.blocked = s.blocked /\ Shape(t) /\ QueueOK(t.queue)
             /\ \E ops : /\ Grown(s, t, ops)
                         /\ \A op \in ops : \/ op.kind = "save"
                                            \/ /\ op.kind = "stopModule" /\ op.m = m
                                               /\ s.conns[m] # None /\ st = "DONE"
<1> DEFINE b == [s EXCEPT !.state = StoryStateOf(st)]
           v == [kind |-> "save", state |-> b.state]
           a == IF m = Root THEN Queued(b, v) ELSE s
           w == [kind |-> "stopModule", m |-> m]
<1>0. /\ Shape(b) /\ b.queue = s.queue /\ DOMAIN b = DOMAIN s /\ b.track = s.track
      /\ b.conns = s.conns /\ b.run = s.run /\ b.views = s.views /\ b.pending = s.pending
      /\ b.shell = s.shell /\ b.blocked = s.blocked
  BY DEF Shape
<1>1. v.kind = "save" /\ w.kind = "stopModule" /\ w.m = m
  OBVIOUS
<1>2. OnModuleStateChange(s, m, st) =
        IF ~s.track THEN s
        ELSE IF st = "DONE" /\ s.conns[m] # None /\ s.conns[m].data.how = "external"
             THEN Queued(a, w) ELSE a
  BY DEF OnModuleStateChange, OnRootStateChange, NotifyStateChange
<1> HIDE DEF b, v, w
<1>3. Grown(s, s, {}) 
  BY DEF Grown
<1>4. /\ a.blocked = s.blocked /\ Shape(a) /\ QueueOK(a.queue)
      /\ \E ops \in SUBSET {v} : Grown(s, a, ops)
  <2>1. CASE m = Root
    <3>1. Grown(b, Queued(b, v), {v}) /\ Queued(b, v).blocked = b.blocked
          /\ Shape(Queued(b, v)) /\ QueueOK(Queued(b, v).queue)
      BY <1>0, <1>1, QueuedGrown
    <3>2. Grown(s, Queued(b, v), {v})
      BY <1>0, <3>1 DEF Grown
    <3> QED BY <1>0, <2>1, <3>1, <3>2
  <2>2. CASE m # Root
    BY <1>3, <2>2
  <2> QED BY <2>1, <2>2
<1> HIDE DEF a
<1>5. PICK ops \in SUBSET {v} : Grown(s, a, ops)
  BY <1>4
<1>6. Grown(a, Queued(a, w), {w}) /\ Queued(a, w).blocked = a.blocked
      /\ Shape(Queued(a, w)) /\ QueueOK(Queued(a, w).queue)
  BY <1>1, <1>4, QueuedGrown
<1>7. Grown(s, Queued(a, w), ops \cup {w})
  BY <1>5, <1>6 DEF Grown
<1>8. CASE ~s.track
  BY <1>2, <1>3, <1>8
<1>9. CASE s.track /\ st = "DONE" /\ s.conns[m] # None /\ s.conns[m].data.how = "external"
  BY <1>1, <1>2, <1>4, <1>6, <1>7, <1>9
<1>10. CASE s.track /\ ~(st = "DONE" /\ s.conns[m] # None /\ s.conns[m].data.how = "external")
  BY <1>1, <1>2, <1>4, <1>5, <1>10
<1> QED BY <1>8, <1>9, <1>10

-----------------------------------------------------------------------------
(* What an operation leaves behind *)

\* t differs from s in what the shell was sent.
Beside(s, t) ==
    /\ DOMAIN t = DOMAIN s /\ t.track = s.track /\ t.conns = s.conns /\ t.queue = s.queue
    /\ t.run = s.run /\ t.blocked = s.blocked /\ t.shell = s.shell

LEMMA ShowBeside ==
    ASSUME NEW s, Shape(s), NEW m
    PROVE  Beside(s, ShowModule(s, m))
<1> DEFINE a == Connected(s, {m})
           b == [s EXCEPT !.pending = @ \cup {m}]
<1>1. \A x, ms : Shape(x) => Beside(x, Connected(x, ms)) /\ DOMAIN Connected(x, ms) = DOMAIN x
  BY DEF Shape, Beside, Connected
<1>2. Beside(s, a) /\ Beside(s, b) /\ Beside(s, s)
  BY <1>1 DEF Shape, Beside
<1> HIDE DEF a
<1>3. Shape(a)
  BY <1>2 DEF Beside, Shape
<1>4. Beside(a, ProcessPendingViews(a))
  BY <1>1, <1>3 DEF ProcessPendingViews
<1>5. Beside(s, ProcessPendingViews(a))
  BY <1>2, <1>4 DEF Beside
<1> QED BY <1>2, <1>5 DEF ShowModule, a

LEMMA DoneFit ==
    ASSUME NEW s, NEW l, Shape(s), QueueOK(s.queue), s.queue # <<>>, Body(s, l), s.blocked = None
    PROVE  Fit(Done(s), l)
<1> DEFINE t == Done(s)
<1>1. /\ t.conns = s.conns /\ t.queue = Tail(s.queue) /\ t.run = Idle /\ t.blocked = s.blocked
  BY DEF Done, Shape
<1>2. Idle.pc = "ready" /\ Idle.m = None /\ Idle.todo = <<>>
  BY DEF Idle
<1> HIDE DEF t
<1>3. QueueTyped(t, l)
  BY <1>1, ToSetTail DEF Body, QueueTyped
<1>4. ConnsOK(t, l)
  BY <1>1 DEF Body, ConnsOK
<1>5. TodoOK(t.run)
  BY <1>1, <1>2 DEF TodoOK
<1>6. RunTyped(t) /\ RunKnown(t, l)
  BY <1>1, <1>2 DEF RunTyped, RunKnown, Apart, Starting, Killing, Writing, Reading
<1> QED BY <1>3, <1>4, <1>5, <1>6 DEF Fit, Body, t

LEMMA StartNextFit ==
    ASSUME NEW s, NEW l, Shape(s), QueueOK(s.queue), s.queue # <<>>, Body(s, l), s.blocked = None,
           s.run.todo # <<>> => ~Stops(s)
    PROVE  Fit(StartNext(s), l)
<1>1. CASE s.run.todo = <<>>
  BY <1>1, DoneFit DEF StartNext
<1>2. CASE s.run.todo # <<>>
  <2> DEFINE h == Head(s.run.todo)
             r == [Idle EXCEPT !.pc = "read", !.m = h[1], !.data = h[2], !.todo = Tail(s.run.todo)]
             t == [s EXCEPT !.run = r]
  <2>1. StartNext(s) = t
    BY <1>2 DEF StartNext
  <2>2. r.pc = "read" /\ r.m = h[1] /\ r.data = h[2] /\ r.todo = Tail(s.run.todo) /\ r.got = None
    BY DEF Idle
  <2>3. t.conns = s.conns /\ t.queue = s.queue /\ t.run = r /\ t.blocked = s.blocked
    BY DEF Shape
  <2> HIDE DEF r, t
  <2>4. h \in Module \X Data /\ ~h[2].stopped
    <3>1. s.run.todo \in Seq(Module \X Data) /\ \A i \in DOMAIN s.run.todo : ~s.run.todo[i][2].stopped
      BY DEF Body, TodoOK
    <3>2. 1 \in DOMAIN s.run.todo /\ h = s.run.todo[1]
      BY <1>2, <3>1
    <3> QED BY <1>2, <3>1, <3>2
  <2>5. TodoOK(r)
    <3>1. s.run.todo \in Seq(Module \X Data) /\ \A i \in DOMAIN s.run.todo : ~s.run.todo[i][2].stopped
      BY DEF Body, TodoOK
    <3> DEFINE q == s.run.todo
    <3> HIDE DEF q
    <3>2. /\ Tail(q) \in Seq(Module \X Data)
          /\ \A i \in DOMAIN Tail(q) : i + 1 \in DOMAIN q /\ Tail(q)[i] = q[i + 1]
      BY <1>2, <3>1 DEF q
    <3>3. \A i \in DOMAIN Tail(q) : ~Tail(q)[i][2].stopped
      BY <3>1, <3>2 DEF q
    <3> QED BY <2>2, <3>2, <3>3 DEF TodoOK, q
  <2>6. h[1] \in Module /\ h[2] \in Data
    BY <2>4
  <2> HIDE DEF h
  <2>7. Body(t, l)
    BY <2>3, <2>5 DEF Body, QueueTyped, ConnsOK
  <2>8. ~Stops(t)
    BY <1>2, <2>3 DEF Stops
  <2>9. RunTyped(t)
    BY <2>2, <2>3, <2>4, <2>6, <2>8 DEF RunTyped, Apart, Starting, Killing, Writing, Reading
  <2>10. RunKnown(t, l)
    BY <2>2, <2>3, <2>8 DEF RunKnown, Starting, Writing, Reading
  <2> QED BY <2>1, <2>7, <2>9, <2>10 DEF Fit
<1> QED BY <1>1, <1>2

-----------------------------------------------------------------------------
(* What a step changes *)

\* t differs from s in the operation under way, which has the same list to start.
Moved(s, t) ==
    /\ DOMAIN t = DOMAIN s /\ t.track = s.track /\ t.conns = s.conns /\ t.queue = s.queue
    /\ t.views = s.views /\ t.pending = s.pending /\ t.shell = s.shell
    /\ DOMAIN t.run = RunFields /\ t.run.todo = s.run.todo

LEMMA MovedFit ==
    ASSUME NEW s, NEW t, NEW l, Body(s, l), Moved(s, t), RunTyped(t), RunKnown(t, l)
    PROVE  Fit(t, l)
BY DEF Fit, Body, Moved, QueueTyped, ConnsOK, TodoOK

LEMMA DataStarted ==
    ASSUME NEW d \in Data
    PROVE  LET x == [d EXCEPT !.stopped = FALSE] IN
             x \in Data /\ ~x.stopped /\ x.url = d.url /\ x.how = d.how
BY DEF Data

LEMMA DataStopped ==
    ASSUME NEW d \in Data
    PROVE  LET x == [d EXCEPT !.stopped = TRUE] IN
             x \in Data /\ x.stopped /\ x.url = d.url /\ x.how = d.how
BY DEF Data

LEMMA StartModuleMoves ==
    ASSUME NEW s, Shape(s), NEW m, NEW d
    PROVE  LET t == StartModule(s, m, d) IN
             /\ Moved(s, t) /\ t.blocked = s.blocked /\ t.run.pc = "read" /\ t.run.m = m
             /\ t.run.data = [d EXCEPT !.stopped = FALSE] /\ t.run.got = s.run.got
BY DEF StartModule, Shape, Moved, RunFields

LEMMA WriteMoves ==
    ASSUME NEW s, Shape(s), NEW m, NEW d
    PROVE  LET t == Write(s, m, d) IN
             /\ Moved(s, t) /\ t.blocked = <<m, d>> /\ t.run.pc = "write" /\ t.run.m = m
             /\ t.run.data = d /\ t.run.got = s.run.got
BY DEF Write, Shape, Moved, RunFields

\* The operation only goes on to another step.
LEMMA StepMoves ==
    ASSUME NEW s, Shape(s), NEW p
    PROVE  LET t == [s EXCEPT !.run.pc = p] IN
             /\ Moved(s, t) /\ t.blocked = s.blocked /\ t.run.pc = p /\ t.run.m = s.run.m
             /\ t.run.data = s.run.data /\ t.run.got = s.run.got
BY DEF Shape, Moved, RunFields

\* Modules are marked to be torn down.
LEMMA TeardownKeeps ==
    ASSUME NEW s, Shape(s), NEW ms, ms \subseteq Running(s), NEW l, ConnsOK(s, l)
    PROVE  LET t == Teardown(s, ms) IN
             /\ Shape(t) /\ t.track = s.track /\ t.queue = s.queue /\ t.run = s.run
             /\ t.views = s.views /\ t.pending = s.pending /\ t.shell = s.shell
             /\ t.blocked = s.blocked /\ ConnsOK(t, l)
             /\ \A m \in Module : /\ t.conns[m] = None <=> s.conns[m] = None
                                  /\ s.conns[m] # None => t.conns[m].data = s.conns[m].data
<1> DEFINE f == [m \in Module |->
                    IF m \in ms THEN [s.conns[m] EXCEPT !.down = TRUE] ELSE s.conns[m]]
           t == Teardown(s, ms)
<1>1. /\ DOMAIN t = DOMAIN s /\ t.track = s.track /\ t.queue = s.queue /\ t.run = s.run
      /\ t.views = s.views /\ t.pending = s.pending /\ t.shell = s.shell
      /\ t.blocked = s.blocked /\ t.conns = f
  BY DEF Teardown, Shape
<1>2. \A m \in Module : s.conns[m] \in Connection \cup {None}
  BY DEF ConnsOK
<1>3. \A c \in Connection : /\ [c EXCEPT !.down = TRUE] \in Connection
                            /\ [c EXCEPT !.down = TRUE].data = c.data
                            /\ DOMAIN c = {"data", "st", "down"}
  BY DEF Connection
<1>4. \A m \in ms : m \in Module /\ s.conns[m] \in Connection /\ s.conns[m] # None
  BY <1>2 DEF Running
<1>5. None \notin Connection
  BY DataAssumption
<1>6. ASSUME NEW m \in Module
      PROVE  /\ f[m] \in Connection \cup {None} /\ (f[m] = None <=> s.conns[m] = None)
             /\ s.conns[m] # None => f[m].data = s.conns[m].data
  <2>1. CASE m \in ms
    <3>1. f[m] = [s.conns[m] EXCEPT !.down = TRUE]
      BY <2>1
    <3> HIDE DEF f
    <3> QED BY <1>3, <1>4, <1>5, <2>1, <3>1
  <2>2. CASE m \notin ms
    <3>1. f[m] = s.conns[m]
      BY <2>2
    <3> QED BY <1>2, <3>1
  <2> QED BY <2>1, <2>2
<1>7. f \in [Module -> Connection \cup {None}]
  BY <1>6
<1> HIDE DEF f, t
<1>8. ConnsOK(t, l)
  BY <1>1, <1>6, <1>7 DEF ConnsOK
<1>9. \A m \in Module : f[m] # None => DOMAIN f[m] = {"data", "st", "down"}
  BY <1>3, <1>6
<1>10. Shape(t)
  BY <1>1, <1>7, <1>9 DEF Shape
<1> QED BY <1>1, <1>6, <1>8, <1>10 DEF t

-----------------------------------------------------------------------------
(* The page *)

\* The page never forgets a module.
LEMMA PageMore ==
    ASSUME NEW s, NEW l, Fit(s, l), NEW k, \A m \in Module : l[m] # None => k[m] # None
    PROVE  Fit(s, k)
<1>1. QueueTyped(s, k)
  <2> SUFFICES ASSUME NEW op \in ToSet(s.queue) PROVE OpOK(op, k)
    BY DEF QueueTyped
  <2>1. OpOK(op, l)
    BY DEF Fit, Body, QueueTyped
  <2> QED BY <2>1 DEF OpOK
<1>2. ConnsOK(s, k)
  BY DEF Fit, Body, ConnsOK
<1>3. RunKnown(s, k)
  <2>1. s.run.pc \in Starting \cup Writing \cup Reading => s.run.m \in Module
    BY DEF Fit, RunTyped, Apart, Starting, Writing, Reading
  <2> QED BY <2>1 DEF Fit, RunKnown, Starting, Writing, Reading
<1> QED BY <1>1, <1>2, <1>3 DEF Fit, Body

LEMMA CommitPage ==
    ASSUME PageOK, NEW m \in Module, NEW d \in Data, Commit(m, d)
    PROVE  /\ PageOK' /\ ledger'[m] = d
           /\ \A x \in Module : ledger[x] # None => ledger'[x] # None
           /\ \A x \in Module \ {m} : ledger'[x] = ledger[x] /\ seen'[x] = seen[x]
<1>0. None \notin Data
  BY DataAssumption
<1>1. /\ ledger' = [ledger EXCEPT ![m] = d]
      /\ ledger' \in [Module -> Data \cup {None}] /\ ledger'[m] = d
      /\ \A x \in Module \ {m} : ledger'[x] = ledger[x]
  BY DEF Commit, PageOK
<1>2. \A x \in Module : ledger[x] # None => ledger'[x] # None
  BY <1>0, <1>1
<1>3. CASE change = {}
  <2>1. change' = Differences(seen, ledger') /\ seen' = ledger' /\ seen = ledger
    BY <1>1, <1>3 DEF Commit, PageOK
  <2>2. ASSUME NEW c \in change' PROVE c \in Module \X Data /\ c[2] = seen'[c[1]]
    <3>1. PICK x \in Module : c = <<x, ledger'[x]>> /\ seen[x] # ledger'[x]
      BY <2>1 DEF Differences
    <3>2. ledger'[x] \in Data
      BY <1>1, <2>1, <3>1
    <3> QED BY <2>1, <3>1, <3>2
  <2> QED BY <1>1, <1>2, <2>1, <2>2 DEF PageOK
<1>4. CASE change # {}
  <2>1. change' = change /\ seen' = seen
    BY <1>4 DEF Commit
  <2> QED BY <1>1, <1>2, <1>4, <2>1 DEF PageOK
<1> QED BY <1>3, <1>4, <1>1, <1>2

LEMMA ReportPage ==
    ASSUME PageOK, PageReports
    PROVE  PageOK'
<1>1. change' = Differences(seen, ledger) /\ seen' = ledger /\ ledger' = ledger
  BY DEF PageReports
<1>2. ASSUME NEW c \in change' PROVE c \in Module \X Data /\ c[2] = seen'[c[1]]
  <2>1. PICK x \in Module : c = <<x, ledger[x]>> /\ seen[x] # ledger[x]
    BY <1>1, <1>2 DEF Differences
  <2>2. ledger[x] \in Data
    BY <2>1 DEF PageOK
  <2> QED BY <1>1, <2>1, <2>2
<1> QED BY <1>1, <1>2 DEF PageOK

LEMMA ToSetConcat ==
    ASSUME NEW T, NEW q \in Seq(T), NEW u \in Seq(T)
    PROVE  ToSet(q \o u) = ToSet(q) \cup ToSet(u)
<1> DEFINE p == q \o u
<1>1. /\ Len(q) \in Nat /\ Len(u) \in Nat /\ DOMAIN q = 1..Len(q) /\ DOMAIN u = 1..Len(u)
      /\ DOMAIN p = 1..Len(q) + Len(u)
      /\ \A i \in 1..Len(q) : p[i] = q[i]
      /\ \A i \in 1..Len(u) : p[Len(q) + i] = u[i]
  OBVIOUS
<1> HIDE DEF p
<1>2. \A i \in DOMAIN p :
        i \in 1..Len(q) \/ (i - Len(q) \in 1..Len(u) /\ i = Len(q) + (i - Len(q)))
  BY <1>1
<1>3. ASSUME NEW y, y \in ToSet(p) PROVE y \in ToSet(q) \/ y \in ToSet(u)
  <2>1. PICK i \in DOMAIN p : p[i] = y
    BY <1>3, InToSet
  <2>2. CASE i \in 1..Len(q)
    BY <1>1, <2>1, <2>2, InToSet
  <2>3. CASE i - Len(q) \in 1..Len(u) /\ i = Len(q) + (i - Len(q))
    <3>1. u[i - Len(q)] = y
      BY <1>1, <2>1, <2>3
    <3> QED BY <1>1, <2>3, <3>1, InToSet
  <2> QED BY <1>2, <2>2, <2>3
<1>4. ASSUME NEW y, y \in ToSet(q) PROVE y \in ToSet(p)
  <2>1. PICK i \in DOMAIN q : q[i] = y
    BY <1>4, InToSet
  <2>2. i \in DOMAIN p /\ p[i] = y
    BY <1>1, <2>1
  <2> QED BY <2>2, InToSet
<1>5. ASSUME NEW y, y \in ToSet(u) PROVE y \in ToSet(p)
  <2>1. PICK i \in DOMAIN u : u[i] = y
    BY <1>5, InToSet
  <2>2. Len(q) + i \in DOMAIN p /\ p[Len(q) + i] = y
    BY <1>1, <2>1
  <2> QED BY <2>2, InToSet
<1> QED BY <1>3, <1>4, <1>5 DEF p

\* The operations for the changes that are reported.
LEMMA NotifiedGrown ==
    ASSUME NEW q, QueueOK(q), NEW D, NEW ops \in Notifications(D)
    PROVE  /\ ToSet(q \o ops) = ToSet(q) \cup ToSet(ops)
           /\ q # <<>> => ToSet(Tail(q \o ops)) = ToSet(Tail(q)) \cup ToSet(ops)
           /\ \A y : y \in ToSet(ops) <=>
                 \E c \in D : y = [kind |-> "notification", m |-> c[1], data |-> c[2]]
<1>1. PICK r \in SeqOf(D, Len(Path)) :
        /\ ops = [i \in DOMAIN r |-> [kind |-> "notification", m |-> r[i][1], data |-> r[i][2]]]
        /\ ToSet(r) = D
  BY DEF Notifications, InKeyOrder
<1>2. PICK n \in 0..Len(Path) : r \in [1..n -> D]
  BY <1>1 DEF SeqOf
<1>3. n \in Nat
  BY PathAssumption
<1>4. PICK S : q \in Seq(S)
  BY DEF QueueOK
<1>5. /\ DOMAIN r = 1..n /\ DOMAIN ops = 1..n /\ ops = [i \in 1..n |-> ops[i]]
      /\ \A i \in 1..n : ops[i] = [kind |-> "notification", m |-> r[i][1], data |-> r[i][2]]
  BY <1>1, <1>2
<1>6. \A y : y \in ToSet(ops) <=>
                 \E c \in D : y = [kind |-> "notification", m |-> c[1], data |-> c[2]]
  <2>1. \A c : c \in D <=> \E i \in 1..n : r[i] = c
    BY <1>1, <1>5, InToSet
  <2>2. \A y : y \in ToSet(ops) <=> \E i \in 1..n : ops[i] = y
    BY <1>5, InToSet
  <2>3. ASSUME NEW y, NEW i \in 1..n, ops[i] = y
        PROVE  \E c \in D : y = [kind |-> "notification", m |-> c[1], data |-> c[2]]
    <3>1. r[i] \in D
      BY <2>1
    <3> QED BY <1>5, <2>3, <3>1
  <2>4. ASSUME NEW c \in D
        PROVE  \E i \in 1..n : ops[i] = [kind |-> "notification", m |-> c[1], data |-> c[2]]
    <3>1. PICK i \in 1..n : r[i] = c
      BY <2>1
    <3> QED BY <1>5, <3>1
  <2> QED BY <2>2, <2>3, <2>4
<1> DEFINE T == S \cup {ops[i] : i \in 1..n}
<1>7. q \in Seq(T) /\ ops \in Seq(T)
  <2>2. \A i \in 1..n : ops[i] \in T
    OBVIOUS
  <2>4. S \subseteq T
    OBVIOUS
  <2> HIDE DEF T
  <2>3. ops \in [1..n -> T]
    BY <1>5, <2>2
  <2> QED BY <2>3, <2>4, <1>3, <1>4
<1> HIDE DEF T
<1>8. ToSet(q \o ops) = ToSet(q) \cup ToSet(ops)
  BY <1>7, ToSetConcat
<1>9. ASSUME q # <<>> PROVE ToSet(Tail(q \o ops)) = ToSet(Tail(q)) \cup ToSet(ops)
  <2>1. Tail(q) \in Seq(T)
    BY <1>7, <1>9
  <2> DEFINE a == Tail(q \o ops)
             b == Tail(q) \o ops
  <2>2. a \in Seq(T) /\ b \in Seq(T) /\ Len(a) = Len(b)
    BY <1>7, <1>9, <2>1
  <2>3. \A i \in 1..Len(b) : a[i] = b[i]
    <3> SUFFICES ASSUME NEW i \in 1..Len(b) PROVE a[i] = b[i]
      OBVIOUS
    <3>0. Len(q) \in Nat /\ Len(q) > 0 /\ Len(ops) \in Nat /\ Len(Tail(q)) = Len(q) - 1
          /\ Len(b) = Len(q) - 1 + Len(ops)
      BY <1>7, <1>9, <2>1
    <3>1. a[i] = (q \o ops)[i + 1]
      BY <1>7, <1>9, <3>0
    <3>2. CASE i <= Len(q) - 1
      <4>1. (q \o ops)[i + 1] = q[i + 1] /\ b[i] = Tail(q)[i] /\ Tail(q)[i] = q[i + 1]
        BY <1>7, <1>9, <2>1, <3>0, <3>2
      <4> QED BY <3>1, <4>1
    <3>3. CASE i > Len(q) - 1
      <4>1. (q \o ops)[i + 1] = ops[i + 1 - Len(q)]
        BY <1>7, <3>0, <3>3
      <4>2. b[i] = ops[i - (Len(q) - 1)] /\ i - (Len(q) - 1) = i + 1 - Len(q)
        BY <1>7, <2>1, <3>0, <3>3
      <4> QED BY <3>1, <4>1, <4>2
    <3> QED BY <3>0, <3>2, <3>3
  <2> HIDE DEF a, b
  <2>4. a = b
    BY <2>2, <2>3
  <2>5. ToSet(b) = ToSet(Tail(q)) \cup ToSet(ops)
    <3>1. \A u \in Seq(T) : ToSet(u \o ops) = ToSet(u) \cup ToSet(ops)
      BY <1>7, ToSetConcat
    <3> QED BY <2>1, <3>1 DEF b
  <2> QED BY <2>4, <2>5 DEF a
<1> QED BY <1>6, <1>8, <1>9

-----------------------------------------------------------------------------
(* Every step keeps to the types *)

LEMMA IInvShape ==
    ASSUME IInv
    PROVE  /\ Shape(story) /\ QueueOK(story.queue)
           /\ story.run.pc = "ready" => story.run = Idle
           /\ story.run.pc \notin {"ready", "gone"} => story.queue # <<>>
BY DEF IInv, StoryOK, RunOK

LEMMA SamePage ==
    ASSUME TypeInv, UNCHANGED <<ledger, seen, change>>, Fit(story', ledger)
    PROVE  TypeInv'
BY DEF TypeInv, PageOK, Fit, Body, QueueTyped, OpOK, ConnsOK, RunKnown, TodoOK, RunTyped

LEMMA CallType ==
    ASSUME IInv, TypeInv, NEW op, Call(op), op.kind = "startModule" => op.m # Root,
           OpOK(op, ledger)
    PROVE  TypeInv'
<1>1. story' = Queued(story, op) /\ UNCHANGED <<ledger, seen, change>>
  BY DEF Call
<1>2. Grown(story, story', {op}) /\ story'.blocked = story.blocked
  BY <1>1, IInvShape, QueuedGrown
<1>3. Fit(story', ledger)
  BY <1>2, IInvShape, GrownFit DEF TypeInv
<1> QED BY <1>1, <1>3, SamePage

LEMMA CallsType ==
    ASSUME IInv, TypeInv,
           \/ Start \/ Stop \/ Delete
           \/ \E m \in Module : AddModule(m) \/ StopModule(m) \/ ModuleStarts(m)
    PROVE  TypeInv'
<1>1. CASE Start \/ Stop \/ Delete
  BY <1>1, CallType DEF Start, Stop, Delete, OpOK
<1>2. ASSUME NEW m \in Module, AddModule(m) PROVE TypeInv'
  <2>1. PICK url \in Url :
          Call([kind |-> "add", m |-> m,
                data |-> [url |-> url, how |-> "external", stopped |-> FALSE]])
    BY <1>2 DEF AddModule
  <2>2. [url |-> url, how |-> "external", stopped |-> FALSE] \in Data
    BY DEF Data
  <2> QED BY <2>1, <2>2, CallType DEF OpOK
<1>3. ASSUME NEW m \in Module, StopModule(m) PROVE TypeInv'
  <2>1. Call([kind |-> "stopModule", m |-> m]) /\ ledger[m] # None
    BY <1>3 DEF StopModule, Running, TypeInv, Fit, Body, ConnsOK
  <2> QED BY <2>1, CallType DEF OpOK
<1>4. ASSUME NEW m \in Module, ModuleStarts(m) PROVE TypeInv'
  <2>0. m # Root
    BY <1>4, PathAssumption DEF ModuleStarts, Running
  <2>1. PICK url \in Url, how \in {"shell", "embedded"} :
          Call([kind |-> "startModule", m |-> m,
                data |-> [url |-> url, how |-> how, stopped |-> FALSE]])
    BY <1>4 DEF ModuleStarts
  <2>2. [url |-> url, how |-> how, stopped |-> FALSE] \in Data
    BY DEF Data
  <2> QED BY <2>0, <2>1, <2>2, CallType DEF OpOK
<1> QED BY <1>1, <1>2, <1>3, <1>4

LEMMA RemoteData ==
    ASSUME PageOK, NEW m \in Module, RemoteWrites(m)
    PROVE  \E d \in Data :
             /\ d # ledger[m] /\ Commit(m, d) /\ story' = story /\ raced \subseteq raced'
             /\ change # {} /\ d = seen[m] => "undone" \in raced'
<1>1. PICK d \in {x \in Data : x.how = "external"}
                 \cup (IF ledger[m] = None THEN {} ELSE {[ledger[m] EXCEPT !.stopped = TRUE]}) :
        /\ d # ledger[m] /\ Commit(m, d)
        /\ raced' = raced
             \cup (IF /\ story.run.pc = "blocked" /\ story.blocked = <<m, ledger[m]>>
                      /\ story.blocked \notin change
                   THEN {"overtaken"} ELSE {})
             \cup (IF change # {} /\ d = seen[m] THEN {"undone"} ELSE {})
  BY DEF RemoteWrites
<1>2. ledger[m] # None => ledger[m] \in Data
  BY DEF PageOK
<1>3. d \in Data
  <2>1. ledger[m] # None => [ledger[m] EXCEPT !.stopped = TRUE] \in Data
    BY <1>2, DataStopped
  <2> QED BY <1>1, <2>1
<1> QED BY <1>1, <1>3 DEF RemoteWrites

LEMMA RemoteType ==
    ASSUME TypeInv, NEW m \in Module, RemoteWrites(m)
    PROVE  TypeInv'
<1>1. PICK d \in Data : Commit(m, d) /\ story' = story
  BY RemoteData DEF TypeInv
<1>2. PageOK' /\ \A x \in Module : ledger[x] # None => ledger'[x] # None
  BY <1>1, CommitPage DEF TypeInv
<1>3. Fit(story, ledger')
  BY <1>2, PageMore DEF TypeInv
<1> QED BY <1>1, <1>2, <1>3 DEF TypeInv

\* What the page reports joins the queue, but for what the operation waits for.
LEMMA ReportGrown ==
    ASSUME IInv, PageReports
    PROVE  \E ops : /\ Grown(story, story', ops)
                    /\ \A y : y \in ops <=> \E c \in change \ {story.blocked} :
                          y = [kind |-> "notification", m |-> c[1], data |-> c[2]]
                    /\ story'.blocked = IF story.blocked \in change THEN None ELSE story.blocked
<1>1. PICK ops \in Notifications(change \ {story.blocked}) :
        story' = [story EXCEPT !.queue = @ \o ops, !.blocked = IF @ \in change THEN None ELSE @]
  BY DEF PageReports, OnPageChange
<1>2. /\ story'.track = story.track /\ story'.conns = story.conns /\ story'.run = story.run
      /\ story'.views = story.views /\ story'.pending = story.pending
      /\ story'.shell = story.shell /\ story'.queue = story.queue \o ops
      /\ story'.blocked = IF story.blocked \in change THEN None ELSE story.blocked
  BY <1>1, IInvShape DEF Shape
<1>3. /\ ToSet(story'.queue) = ToSet(story.queue) \cup ToSet(ops)
      /\ story.queue # <<>> =>
            /\ story'.queue # <<>> /\ Head(story'.queue) = Head(story.queue)
            /\ ToSet(Tail(story'.queue)) = ToSet(Tail(story.queue)) \cup ToSet(ops)
  BY <1>2, IInvShape, NotifiedGrown, NotificationsOK
<1>4. Grown(story, story', ToSet(ops))
  BY <1>2, <1>3 DEF Grown
<1>5. \A y : y \in ToSet(ops) <=> \E c \in change \ {story.blocked} :
                y = [kind |-> "notification", m |-> c[1], data |-> c[2]]
  BY IInvShape, NotifiedGrown
<1> QED BY <1>2, <1>4, <1>5

LEMMA ReportType ==
    ASSUME IInv, TypeInv, PageReports
    PROVE  TypeInv'
<1>1. PICK ops : /\ Grown(story, story', ops)
                 /\ \A y : y \in ops <=> \E c \in change \ {story.blocked} :
                       y = [kind |-> "notification", m |-> c[1], data |-> c[2]]
                 /\ story'.blocked = IF story.blocked \in change THEN None ELSE story.blocked
  BY ReportGrown
<1>2. ASSUME NEW op \in ops PROVE OpOK(op, ledger)
  <2>1. PICK c \in change : op = [kind |-> "notification", m |-> c[1], data |-> c[2]]
    BY <1>1, <1>2
  <2>2. c[1] \in Module /\ c[2] \in Data
    BY DEF TypeInv, PageOK
  <2>3. op.kind = "notification" /\ op.m \in Module /\ op.data \in Data
    BY <2>1, <2>2
  <2> QED BY <2>3 DEF OpOK
<1>3. Body(story', ledger)
  <2>1. QueueTyped(story', ledger)
    BY <1>1, <1>2 DEF TypeInv, Fit, Body, QueueTyped, Grown
  <2> QED BY <1>1, <2>1 DEF TypeInv, Fit, Body, Grown, ConnsOK
<1>4. story.run.pc \notin {"ready", "gone"} => (Stops(story') <=> Stops(story))
  BY <1>1, IInvShape DEF Grown, Stops
<1>5. RunTyped(story')
  BY <1>1, <1>4 DEF TypeInv, Fit, Grown, RunTyped, Apart, Starting, Killing, Writing, Reading
<1>6. RunKnown(story', ledger)
  <2>1. CASE story'.blocked = story.blocked
    BY <1>1, <1>4, <2>1 DEF TypeInv, Fit, Grown, RunKnown, Reading
  <2>2. CASE story.blocked \in change /\ story'.run.pc \in Writing
    <3>1. story.blocked \in Module \X Data /\ story.blocked[2] = seen[story.blocked[1]]
      BY <2>2 DEF TypeInv, PageOK
    <3>2. story.blocked # None /\ story.blocked[1] \in Module /\ seen[story.blocked[1]] # None
      BY <3>1, DataAssumption
    <3>3. story.blocked[1] = story.run.m
      BY <3>2 DEF TypeInv, Fit, RunTyped
    <3> QED BY <1>1, <3>2, <3>3 DEF TypeInv, PageOK, RunKnown, Grown
  <2>3. CASE story'.run.pc \notin Writing
    BY <1>1, <1>4, <2>3 DEF TypeInv, Fit, Grown, RunKnown, Reading
  <2> QED BY <1>1, <2>1, <2>2, <2>3
<1> QED BY <1>3, <1>5, <1>6, ReportPage DEF TypeInv, Fit, PageReports

\* The connection of a module is replaced.
Placed(s, m, c) == [s EXCEPT !.conns[m] = c]

LEMMA PlacedKeeps ==
    ASSUME NEW s, Shape(s), NEW m \in Module, NEW c \in Connection \cup {None}, NEW l,
           Body(s, l), c # None => l[m] # None
    PROVE  LET t == Placed(s, m, c) IN
             /\ Shape(t) /\ Body(t, l) /\ t.track = s.track /\ t.queue = s.queue
             /\ t.run = s.run /\ t.views = s.views /\ t.pending = s.pending
             /\ t.shell = s.shell /\ t.blocked = s.blocked
             /\ t.conns[m] = c /\ \A x \in Module \ {m} : t.conns[x] = s.conns[x]
<1> DEFINE t == Placed(s, m, c)
<1>1. /\ DOMAIN t = DOMAIN s /\ t.track = s.track /\ t.queue = s.queue
      /\ t.run = s.run /\ t.views = s.views /\ t.pending = s.pending
      /\ t.shell = s.shell /\ t.blocked = s.blocked /\ t.conns = [s.conns EXCEPT ![m] = c]
  BY DEF Placed, Shape
<1> HIDE DEF t
<1>2. DOMAIN t.conns = Module /\ t.conns[m] = c /\ \A x \in Module \ {m} : t.conns[x] = s.conns[x]
  BY <1>1 DEF Shape
<1>3. c # None => DOMAIN c = {"data", "st", "down"}
  BY DEF Connection
<1>4. Shape(t)
  BY <1>1, <1>2, <1>3 DEF Shape
<1>5. ConnsOK(t, l)
  BY <1>1, <1>2 DEF Body, ConnsOK
<1> QED BY <1>1, <1>2, <1>4, <1>5 DEF Body, QueueTyped, t

\* A module is launched, and the state of the root module saved.
LEMMA LaunchKeeps ==
    ASSUME NEW s, Shape(s), QueueOK(s.queue), NEW l, Body(s, l), NEW m \in Module,
           NEW d \in Data, l[m] # None
    PROVE  LET t == Launch(s, m, d)
               c == [data |-> d, st |-> "STARTING", down |-> FALSE]
           IN  /\ Shape(t) /\ QueueOK(t.queue) /\ Body(t, l) /\ t.blocked = s.blocked
               /\ c \in Connection
               /\ \E ops : Grown(Placed(s, m, c), t, ops) /\ \A op \in ops : op.kind = "save"
<1> DEFINE a == OnModuleStateChange(s, m, "STARTING")
           c == [data |-> d, st |-> "STARTING", down |-> FALSE]
           t == Launch(s, m, d)
           p == Placed(s, m, c)
<1>1. a.blocked = s.blocked /\ Shape(a) /\ QueueOK(a.queue)
  BY StateGrown
<1>2. PICK ops : Grown(s, a, ops) /\ \A op \in ops : op.kind = "save"
  BY StateGrown
<1>3. c \in Connection
  BY DEF Connection, ModuleState
<1> HIDE DEF a
<1>4. t = [a EXCEPT !.conns[m] = c]
  BY DEF Launch, a
<1> HIDE DEF c
<1>5. /\ DOMAIN t = DOMAIN a /\ t.track = a.track /\ t.queue = a.queue
      /\ t.run = a.run /\ t.views = a.views /\ t.pending = a.pending
      /\ t.shell = a.shell /\ t.blocked = a.blocked /\ t.conns = [a.conns EXCEPT ![m] = c]
  BY <1>1, <1>4 DEF Shape
<1>6. p.conns = [s.conns EXCEPT ![m] = c]
  BY DEF Placed, Shape
<1>7. /\ Shape(p) /\ Body(p, l) /\ p.track = s.track /\ p.queue = s.queue
      /\ p.run = s.run /\ p.views = s.views /\ p.pending = s.pending
      /\ p.shell = s.shell /\ p.blocked = s.blocked
  BY <1>3, PlacedKeeps
<1> HIDE DEF t, p
<1>8. Grown(p, t, ops) /\ t.blocked = s.blocked
  BY <1>1, <1>2, <1>5, <1>6, <1>7 DEF Grown
<1>9. Shape(t)
  BY <1>1, <1>5, <1>7, <1>8 DEF Shape, Grown
<1>10. \A op \in ops : OpOK(op, l)
  BY <1>2 DEF OpOK
<1>11. Body(t, l)
  <2>1. QueueTyped(t, l)
    BY <1>7, <1>8, <1>10 DEF Body, QueueTyped, Grown
  <2> QED BY <1>7, <1>8, <2>1 DEF Body, ConnsOK, Grown
<1> QED BY <1>1, <1>2, <1>3, <1>5, <1>8, <1>9, <1>11 DEF t, p, c

LEMMA StartedFit ==
    ASSUME NEW s, NEW l, Shape(s), QueueOK(s.queue), s.queue # <<>>, Body(s, l), s.blocked = None,
           s.run.todo # <<>> => ~Stops(s)
    PROVE  Fit(Started(s), l)
<1> DEFINE t == IF s.run.data.how = "embedded" THEN s ELSE ShowModule(s, s.run.m)
<1>1. Beside(s, t)
  BY ShowBeside DEF Beside
<1>2. Started(s) = StartNext(t)
  BY DEF Started
<1> HIDE DEF t
<1>3. Shape(t) /\ QueueOK(t.queue) /\ t.queue # <<>> /\ t.blocked = None
      /\ (t.run.todo # <<>> => ~Stops(t))
  BY <1>1 DEF Shape, Beside, Stops
<1>4. Body(t, l)
  BY <1>1 DEF Beside, Body, QueueTyped, ConnsOK
<1> QED BY <1>2, <1>3, <1>4, StartNextFit

LEMMA ReportsType ==
    ASSUME IInv, TypeInv, NEW m \in Module, NEW st \in ModuleState, ModuleReports(m, st)
    PROVE  /\ TypeInv'
           /\ \E c \in Connection : \E ops :
                 /\ Grown(Placed(story, m, c), story', ops)
                 /\ \A op \in ops : op.kind # "notification"
                 /\ story.conns[m] # None /\ c.data = story.conns[m].data
                 /\ story'.blocked = story.blocked
<1> DEFINE c == [story.conns[m] EXCEPT !.st = st]
           s == Placed(story, m, c)
<1>1. story.conns[m] # None /\ story.conns[m] \in Connection /\ ledger[m] # None
  BY DEF ModuleReports, Running, TypeInv, Fit, Body, ConnsOK
<1>2. c \in Connection /\ c.data = story.conns[m].data
  BY <1>1 DEF Connection
<1>3. c # None
  BY <1>2, DataAssumption
<1>4. [story EXCEPT !.conns[m].st = st] = s
  BY DEF Placed
<1>5. story' = OnModuleStateChange(s, m, st) /\ UNCHANGED <<ledger, seen, change>>
  BY <1>4 DEF ModuleReports
<1> HIDE DEF c
<1>6. /\ Shape(s) /\ Body(s, ledger) /\ s.track = story.track /\ s.queue = story.queue
      /\ s.run = story.run /\ s.blocked = story.blocked
      /\ s.conns[m] = c /\ \A x \in Module \ {m} : s.conns[x] = story.conns[x]
  BY <1>1, <1>2, IInvShape, PlacedKeeps DEF TypeInv, Fit
<1> HIDE DEF s
<1>7. QueueOK(s.queue)
  BY <1>6, IInvShape
<1>8. PICK ops : /\ Grown(s, story', ops)
                 /\ \A op \in ops : op.kind = "save" \/ (op.kind = "stopModule" /\ op.m = m)
  BY <1>5, <1>6, <1>7, StateGrown
<1>9. story'.blocked = s.blocked
  BY <1>5, <1>6, <1>7, StateGrown
<1>10. \A op \in ops : OpOK(op, ledger)
  BY <1>1, <1>8 DEF OpOK
<1>11. RunTyped(s)
  <2>1. \A x \in Module : story.conns[x] = None => s.conns[x] = None
    BY <1>1, <1>6
  <2> QED BY <1>6, <2>1 DEF TypeInv, Fit, RunTyped, Stops
<1>12. RunKnown(s, ledger)
  BY <1>6 DEF TypeInv, Fit, RunKnown, Stops
<1>13. Fit(story', ledger)
  BY <1>6, <1>8, <1>9, <1>10, <1>11, <1>12, IInvShape, GrownFit DEF Fit
<1>14. TypeInv'
  BY <1>5, <1>13, SamePage
<1> QED BY <1>1, <1>2, <1>6, <1>8, <1>9, <1>14 DEF s

LEMMA ShellType ==
    ASSUME IInv, TypeInv, ShellDies
    PROVE  TypeInv'
<1>1. /\ story'.track = story.track /\ story'.conns = story.conns /\ story'.run = story.run
      /\ story'.queue = story.queue /\ story'.blocked = story.blocked
      /\ UNCHANGED <<ledger, seen, change>>
  BY IInvShape DEF ShellDies, Shape
<1>2. Fit(story', ledger)
  BY <1>1 DEF TypeInv, Fit, Body, QueueTyped, ConnsOK, RunTyped, RunKnown, Stops
<1> QED BY <1>1, <1>2, SamePage

\* An operation ends.
LEMMA EndType ==
    ASSUME IInv, TypeInv, story.queue # <<>>, story.blocked = None,
           UNCHANGED <<ledger, seen, change>>, story' = Done(story)
    PROVE  TypeInv'
BY IInvShape, DoneFit, SamePage DEF TypeInv, Fit

\* An operation goes on.
LEMMA GoOnType ==
    ASSUME IInv, TypeInv, UNCHANGED <<ledger, seen, change>>, Moved(story, story'),
           RunTyped(story'), RunKnown(story', ledger)
    PROVE  TypeInv'
BY MovedFit, SamePage DEF TypeInv, Fit

\* At the beginning of an operation.
LEMMA ReadyFacts ==
    ASSUME IInv, TypeInv, story.run.pc = "ready", story.queue # <<>>
    PROVE  /\ story.run.m = None /\ story.run.todo = <<>> /\ story.run.got = None
           /\ story.blocked = None /\ OpOK(Head(story.queue), ledger)
           /\ Body(story, ledger) /\ Shape(story) /\ QueueOK(story.queue)
<1>1. story.run.m = None /\ story.run.todo = <<>> /\ story.run.got = None
  BY IInvShape DEF Idle
<1>2. story.blocked = None
  BY DEF TypeInv, Fit, RunTyped, Writing
<1>3. OpOK(Head(story.queue), ledger)
  BY IInvShape, ToSetTail DEF TypeInv, Fit, Body, QueueTyped
<1> QED BY <1>1, <1>2, <1>3, IInvShape DEF TypeInv, Fit

LEMMA SaveType ==
    ASSUME IInv, TypeInv, SaveState
    PROVE  TypeInv'
<1> DEFINE s == [story EXCEPT !.saved = Head(story.queue).state]
<1>1. story.run.pc = "ready" /\ story.queue # <<>> /\ UNCHANGED <<ledger, seen, change>>
  BY DEF SaveState, Begins, At, Only, Becomes
<1>2. /\ DOMAIN s = DOMAIN story /\ s.track = story.track /\ s.conns = story.conns
      /\ s.queue = story.queue /\ s.run = story.run /\ s.blocked = story.blocked
  BY IInvShape DEF Shape
<1>3. story' = Done(s)
  BY DEF SaveState, Only, Becomes
<1> HIDE DEF s
<1>4. Shape(s) /\ Body(s, ledger)
  BY <1>1, <1>2, ReadyFacts DEF Shape, Body, QueueTyped, ConnsOK
<1>5. Fit(story', ledger)
  BY <1>1, <1>2, <1>3, <1>4, ReadyFacts, DoneFit
<1> QED BY <1>1, <1>5, SamePage

LEMMA StartType ==
    ASSUME IInv, TypeInv, StartRuns
    PROVE  TypeInv'
<1>1. /\ story.run.pc = "ready" /\ story.queue # <<>> /\ UNCHANGED <<ledger, seen, change>>
      /\ Head(story.queue).kind = "start"
  BY DEF StartRuns, Begins, At, Only, Becomes
<1>2. CASE story' = Done(story)
  BY <1>1, <1>2, ReadyFacts, EndType
<1>3. CASE story' = [story EXCEPT !.track = TRUE, !.shell = "up", !.run.pc = "readAll"]
  <2>1. /\ story'.conns = story.conns /\ story'.queue = story.queue
        /\ story'.run.pc = "readAll" /\ story'.run.m = story.run.m
        /\ story'.run.todo = story.run.todo /\ story'.blocked = story.blocked
    BY <1>3, IInvShape DEF Shape
  <2>2. Body(story', ledger)
    BY <1>1, <2>1, ReadyFacts DEF Body, QueueTyped, ConnsOK, TodoOK
  <2>3. ~Stops(story')
    BY <1>1, <2>1 DEF Stops
  <2>4. RunTyped(story') /\ RunKnown(story', ledger)
    BY <1>1, <2>1, <2>3, ReadyFacts
       DEF RunTyped, RunKnown, Apart, Starting, Killing, Writing, Reading
  <2> QED BY <1>1, <2>2, <2>4, SamePage DEF Fit
<1> QED BY <1>2, <1>3 DEF StartRuns, Only, Becomes

\* The modules that StartCall starts.
Wanted == {m \in Module : ledger[m] # None /\ ledger[m].how = "external" /\ ~ledger[m].stopped}

\* What StartCall has read.
LEMMA StartReadsEffect ==
    ASSUME IInv, TypeInv, StartReads
    PROVE  /\ UNCHANGED <<ledger, seen, change, raced>> /\ story.run.pc = "readAll"
           /\ \E s, op :
                 /\ story' = StartNext(s) /\ op.kind = "save" /\ s.track = story.track
                 /\ Shape(s) /\ QueueOK(s.queue) /\ s.queue # <<>> /\ s.blocked = None
                 /\ s.conns = story.conns /\ s.views = story.views
                 /\ s.pending = story.pending /\ s.shell = story.shell
                 /\ Head(s.queue) = Head(story.queue)
                 /\ ToSet(s.queue) = ToSet(story.queue) \cup {op}
                 /\ ToSet(Tail(s.queue)) = ToSet(Tail(story.queue)) \cup {op}
                 /\ s.run.todo \in Seq(Module \X Data)
                 /\ ToSet(s.run.todo) = {<<m, ledger[m]>> : m \in Wanted}
<1> DEFINE D == {<<m, ledger[m]>> : m \in Wanted}
<1>0. /\ UNCHANGED <<ledger, seen, change, raced>> /\ story.run.pc = "readAll"
      /\ story.queue # <<>>
  BY DEF StartReads, At, Only, Becomes
<1>1. PICK todo \in InKeyOrder(D) :
        story' = StartNext(NotifyStateChange([story EXCEPT !.run.todo = todo, !.state = "STARTING"]))
  BY DEF StartReads, Only, Becomes, Wanted
<1> DEFINE b == [story EXCEPT !.run.todo = todo, !.state = "STARTING"]
           op == [kind |-> "save", state |-> b.state]
           s == Queued(b, op)
<1>2. NotifyStateChange(b) = s /\ op.kind = "save"
  BY DEF NotifyStateChange
<1>3. /\ DOMAIN b = DOMAIN story /\ b.track = story.track /\ b.conns = story.conns
      /\ b.queue = story.queue /\ DOMAIN b.run = RunFields /\ b.run.todo = todo
      /\ b.views = story.views /\ b.pending = story.pending /\ b.shell = story.shell
      /\ b.blocked = story.blocked
  BY IInvShape DEF Shape, RunFields
<1>4. D \subseteq Module \X Data
  <2>1. \A m \in Wanted : m \in Module /\ ledger[m] \in Data
    BY DEF TypeInv, PageOK, Wanted
  <2> QED BY <2>1
<1> HIDE DEF b, D
<1>5. Shape(b)
  BY <1>3, IInvShape DEF Shape, RunFields
<1> HIDE DEF op
<1>6. /\ Grown(b, s, {op}) /\ s.blocked = b.blocked /\ Shape(s) /\ QueueOK(s.queue)
  BY <1>2, <1>3, <1>5, IInvShape, QueuedGrown
<1> HIDE DEF s
<1>7. todo \in SeqOf(D, Len(Path)) /\ ToSet(todo) = D
  BY <1>1 DEF InKeyOrder
<1>8. todo \in Seq(Module \X Data)
  <2>1. PICK n \in 0..Len(Path) : todo \in [1..n -> D]
    BY <1>7 DEF SeqOf
  <2>2. n \in Nat
    BY PathAssumption
  <2> QED BY <1>4, <2>1, <2>2
<1>9. story.blocked = None
  BY <1>0 DEF TypeInv, Fit, RunTyped, Writing
<1>10. s.run.todo = todo
  BY <1>3, <1>6 DEF Grown
<1>11. ToSet(s.run.todo) = {<<m, ledger[m]>> : m \in Wanted}
  BY <1>7, <1>10 DEF D
<1>12. story' = StartNext(s)
  BY <1>1, <1>2 DEF b
<1>13. /\ s.track = story.track /\ s.queue # <<>> /\ s.blocked = None
       /\ s.conns = story.conns /\ s.views = story.views
       /\ s.pending = story.pending /\ s.shell = story.shell
       /\ Head(s.queue) = Head(story.queue)
       /\ ToSet(s.queue) = ToSet(story.queue) \cup {op}
       /\ ToSet(Tail(s.queue)) = ToSet(Tail(story.queue)) \cup {op}
       /\ s.run.todo \in Seq(Module \X Data)
  BY <1>0, <1>3, <1>6, <1>8, <1>9, <1>10 DEF Grown
<1> QED BY <1>0, <1>2, <1>6, <1>11, <1>12, <1>13

LEMMA StartReadsType ==
    ASSUME IInv, TypeInv, StartReads
    PROVE  TypeInv'
<1>1. UNCHANGED <<ledger, seen, change>> /\ story.run.pc = "readAll"
  BY StartReadsEffect
<1>2. PICK s, op :
                 /\ story' = StartNext(s) /\ op.kind = "save" /\ s.track = story.track
                 /\ Shape(s) /\ QueueOK(s.queue) /\ s.queue # <<>> /\ s.blocked = None
                 /\ s.conns = story.conns
                 /\ Head(s.queue) = Head(story.queue)
                 /\ ToSet(s.queue) = ToSet(story.queue) \cup {op}
                 /\ s.run.todo \in Seq(Module \X Data)
                 /\ ToSet(s.run.todo) = {<<m, ledger[m]>> : m \in Wanted}
  BY StartReadsEffect
<1>3. QueueTyped(s, ledger)
  BY <1>2 DEF TypeInv, Fit, Body, QueueTyped, OpOK
<1>4. TodoOK(s.run)
  <2>1. ASSUME NEW i \in DOMAIN s.run.todo PROVE ~s.run.todo[i][2].stopped
    <3>1. s.run.todo[i] \in ToSet(s.run.todo)
      BY InToSet
    <3>2. PICK m \in Wanted : s.run.todo[i] = <<m, ledger[m]>>
      BY <1>2, <3>1
    <3>3. ~ledger[m].stopped
      BY DEF Wanted
    <3> QED BY <3>2, <3>3
  <2> QED BY <1>2, <2>1 DEF TodoOK
<1>5. Body(s, ledger)
  BY <1>2, <1>3, <1>4 DEF TypeInv, Fit, Body, ConnsOK
<1>6. ~Stops(s)
  BY <1>1, <1>2 DEF TypeInv, Fit, RunTyped, Stops
<1>7. Fit(story', ledger)
  BY <1>2, <1>5, <1>6, StartNextFit
<1> QED BY <1>1, <1>7, SamePage

LEMMA NotificationEffect ==
    ASSUME IInv, TypeInv, NotificationRuns
    PROVE  LET op == Head(story.queue) IN
             /\ UNCHANGED <<ledger, seen, change>> /\ raced \subseteq raced'
             /\ story.run.pc = "ready" /\ story.queue # <<>> /\ op.kind = "notification"
             /\ \/ /\ story' = Done(story)
                   /\ \/ op.data.how # "external" \/ "ignored" \in raced' \/ "stale" \in raced'
                      \/ op.data = ledger[op.m] /\ op.data.stopped /\ op.m \notin Running(story)
                \/ /\ Moved(story, story') /\ story'.blocked = None /\ op.data.stopped
                   /\ story'.run.pc = "kill" /\ story'.run.m = op.m /\ story'.run.data = op.data
                   /\ op.data = ledger[op.m] \/ "stale" \in raced'
                \/ /\ Moved(story, story') /\ story'.blocked = None
                   /\ story'.run.pc = "read" /\ story'.run.m = op.m
                   /\ story'.run.data = [op.data EXCEPT !.stopped = FALSE]
<1> DEFINE op == Head(story.queue)
           kill == [story EXCEPT !.run.pc = "kill", !.run.m = op.m, !.run.data = op.data]
           begin == StartModule(story, op.m, op.data)
<1>1. /\ UNCHANGED <<ledger, seen, change>> /\ raced \subseteq raced'
      /\ story.run.pc = "ready" /\ story.queue # <<>> /\ op.kind = "notification"
  BY DEF NotificationRuns, Begins, At, Only, Race, Becomes
<1>2. \/ /\ story' = Done(story)
         /\ \/ op.data.how # "external" \/ "ignored" \in raced'
            \/ /\ op.data = ledger[op.m] \/ "stale" \in raced'
               /\ op.data.stopped /\ op.m \notin Running(story)
      \/ story' = kill /\ op.data.stopped /\ (op.data = ledger[op.m] \/ "stale" \in raced')
      \/ story' = begin
  BY DEF NotificationRuns, Only, Race, Becomes
<1>3. story.blocked = None
  BY <1>1, ReadyFacts
<1>4. /\ Moved(story, kill) /\ kill.blocked = None
      /\ kill.run.pc = "kill" /\ kill.run.m = op.m /\ kill.run.data = op.data
  BY <1>3, IInvShape DEF Moved, Shape, RunFields
<1>5. /\ Moved(story, begin) /\ begin.blocked = None
      /\ begin.run.pc = "read" /\ begin.run.m = op.m
      /\ begin.run.data = [op.data EXCEPT !.stopped = FALSE]
  BY <1>3, IInvShape, StartModuleMoves
<1> HIDE DEF op, kill, begin
<1> QED BY <1>1, <1>2, <1>4, <1>5 DEF op

LEMMA NotificationType ==
    ASSUME IInv, TypeInv, NotificationRuns
    PROVE  TypeInv'
<1> DEFINE op == Head(story.queue)
<1>1. /\ UNCHANGED <<ledger, seen, change>>
      /\ story.run.pc = "ready" /\ story.queue # <<>> /\ op.kind = "notification"
  BY NotificationEffect
<1>2. op.m \in Module /\ op.data \in Data /\ story.run.todo = <<>> /\ story.blocked = None
  BY <1>1, ReadyFacts DEF OpOK
<1>3. CASE story' = Done(story)
  BY <1>1, <1>2, <1>3, EndType
<1>4. CASE /\ Moved(story, story') /\ story'.blocked = None /\ op.data.stopped
           /\ story'.run.pc = "kill" /\ story'.run.m = op.m /\ story'.run.data = op.data
  <2>1. RunTyped(story') /\ RunKnown(story', ledger)
    BY <1>2, <1>4 DEF Moved, RunTyped, RunKnown, Apart, Starting, Killing, Writing, Reading
  <2> QED BY <1>1, <1>4, <2>1, GoOnType
<1>5. CASE /\ Moved(story, story') /\ story'.blocked = None
           /\ story'.run.pc = "read" /\ story'.run.m = op.m
           /\ story'.run.data = [op.data EXCEPT !.stopped = FALSE]
  <2>0. story'.run.data \in Data /\ ~story'.run.data.stopped
    BY <1>2, <1>5, DataStarted
  <2>1. ~Stops(story')
    BY <1>1, <1>5 DEF Moved, Stops
  <2> HIDE DEF op
  <2>2. RunTyped(story') /\ RunKnown(story', ledger)
    BY <1>2, <1>5, <2>0, <2>1
       DEF Moved, RunTyped, RunKnown, Apart, Starting, Killing, Writing, Reading
  <2> QED BY <1>1, <1>5, <2>2, GoOnType
<1> QED BY <1>3, <1>4, <1>5, NotificationEffect

\* The other operations that are about a module begin.
LEMMA BeginEffect ==
    ASSUME IInv, TypeInv, StartModuleRuns \/ AddRuns \/ StopModuleRuns
    PROVE  LET op == Head(story.queue) IN
             /\ UNCHANGED <<ledger, seen, change, raced>>
             /\ story.run.pc = "ready" /\ story.queue # <<>> /\ op.kind # "notification"
             /\ Moved(story, story') /\ story'.run.m = op.m
             /\ \/ /\ op.kind = "startModule" /\ story'.run.pc = "read" /\ story'.blocked = None
                   /\ story'.run.data = [op.data EXCEPT !.stopped = FALSE]
                \/ /\ op.kind = "add" /\ story'.run.pc = "write"
                   /\ story'.blocked = <<op.m, op.data>> /\ story'.run.data = op.data
                \/ /\ op.kind = "stopModule" /\ story'.run.pc = "read" /\ story'.blocked = None
<1> DEFINE op == Head(story.queue)
           stop == [story EXCEPT !.run.pc = "read", !.run.m = op.m]
<1>1. UNCHANGED <<ledger, seen, change, raced>> /\ story.run.pc = "ready" /\ story.queue # <<>>
  BY DEF StartModuleRuns, AddRuns, StopModuleRuns, Begins, At, Only, Becomes
<1>2. story.blocked = None
  BY <1>1, ReadyFacts
<1>3. CASE StartModuleRuns
  <2>1. op.kind = "startModule" /\ story' = StartModule(story, op.m, op.data)
    BY <1>3 DEF StartModuleRuns, Begins, Only, Becomes
  <2> QED BY <1>1, <1>2, <2>1, IInvShape, StartModuleMoves
<1>4. CASE AddRuns
  <2>1. op.kind = "add" /\ story' = Write(story, op.m, op.data)
    BY <1>4 DEF AddRuns, Begins, Only, Becomes
  <2> QED BY <1>1, <1>2, <2>1, IInvShape, WriteMoves
<1>5. CASE StopModuleRuns
  <2>1. op.kind = "stopModule" /\ story' = stop
    BY <1>5 DEF StopModuleRuns, Begins, Only, Becomes
  <2>2. Moved(story, stop) /\ stop.run.m = op.m /\ stop.run.pc = "read" /\ stop.blocked = None
    BY <1>2, IInvShape DEF Moved, Shape, RunFields
  <2> QED BY <1>1, <2>1, <2>2
<1> QED BY <1>3, <1>4, <1>5

LEMMA BeginType ==
    ASSUME IInv, TypeInv, StartModuleRuns \/ AddRuns \/ StopModuleRuns
    PROVE  TypeInv'
<1> DEFINE op == Head(story.queue)
<1>1. /\ UNCHANGED <<ledger, seen, change>>
      /\ story.run.pc = "ready" /\ story.queue # <<>>
      /\ Moved(story, story') /\ story'.run.m = op.m
  BY BeginEffect
<1>2. story.run.todo = <<>> /\ OpOK(op, ledger) /\ story'.run.todo = <<>>
  BY <1>1, ReadyFacts DEF Moved
<1>3. Stops(story') <=> op.kind = "stopModule"
  BY <1>1 DEF Moved, Stops
<1>4. \/ op.kind = "startModule" /\ story'.run.pc = "read" /\ story'.blocked = None
           /\ story'.run.data = [op.data EXCEPT !.stopped = FALSE]
      \/ op.kind = "add" /\ story'.run.pc = "write"
           /\ story'.blocked = <<op.m, op.data>> /\ story'.run.data = op.data
      \/ op.kind = "stopModule" /\ story'.run.pc = "read" /\ story'.blocked = None
  BY BeginEffect
<1> HIDE DEF op
<1>5. CASE op.kind = "startModule" /\ story'.run.pc = "read" /\ story'.blocked = None
             /\ story'.run.data = [op.data EXCEPT !.stopped = FALSE]
  <2>1. op.m \in Module /\ op.data \in Data
    BY <1>2, <1>5 DEF OpOK
  <2>2. story'.run.data \in Data /\ ~story'.run.data.stopped
    BY <1>5, <2>1, DataStarted
  <2>3. RunTyped(story') /\ RunKnown(story', ledger)
    BY <1>1, <1>2, <1>3, <1>5, <2>1, <2>2
       DEF RunTyped, RunKnown, Apart, Starting, Killing, Writing, Reading
  <2> QED BY <1>1, <2>3, GoOnType
<1>6. CASE op.kind = "add" /\ story'.run.pc = "write"
             /\ story'.blocked = <<op.m, op.data>> /\ story'.run.data = op.data
  <2>1. op.m \in Module /\ op.data \in Data /\ ~op.data.stopped
    BY <1>2, <1>6 DEF OpOK
  <2>2. story'.blocked # None
    BY <1>6, <2>1, DataAssumption
  <2>3. RunTyped(story') /\ RunKnown(story', ledger)
    BY <1>1, <1>2, <1>3, <1>6, <2>1, <2>2
       DEF RunTyped, RunKnown, Apart, Starting, Killing, Writing, Reading
  <2> QED BY <1>1, <2>3, GoOnType
<1>7. CASE op.kind = "stopModule" /\ story'.run.pc = "read" /\ story'.blocked = None
  <2>1. op.m \in Module /\ ledger[op.m] # None
    BY <1>2, <1>7 DEF OpOK
  <2>2. RunTyped(story') /\ RunKnown(story', ledger)
    BY <1>1, <1>2, <1>3, <1>7, <2>1
       DEF RunTyped, RunKnown, Apart, Starting, Killing, Writing, Reading
  <2> QED BY <1>1, <2>2, GoOnType
<1> QED BY <1>4, <1>5, <1>6, <1>7

LEMMA ReadEffect ==
    ASSUME IInv, TypeInv, DataRead
    PROVE  /\ UNCHANGED <<ledger, seen, change, raced>> /\ Moved(story, story')
           /\ story.run.pc = "read" /\ story'.run.pc = "answer" /\ story'.run.m = story.run.m
           /\ story'.run.data = story.run.data /\ story'.run.got = ledger[story.run.m]
           /\ story'.blocked = story.blocked /\ story.blocked = None
<1>1. /\ UNCHANGED <<ledger, seen, change, raced>> /\ story.run.pc = "read"
      /\ story' = [story EXCEPT !.run.pc = "answer", !.run.got = ledger[story.run.m]]
  BY DEF DataRead, At, Only, Becomes
<1>2. story.blocked = None
  BY <1>1 DEF TypeInv, Fit, RunTyped, Writing
<1> QED BY <1>1, <1>2, IInvShape DEF Moved, Shape, RunFields

LEMMA ReadType ==
    ASSUME IInv, TypeInv, DataRead
    PROVE  TypeInv'
<1>1. story.run.m \in Module /\ ledger[story.run.m] \in Data \cup {None}
  BY ReadEffect DEF TypeInv, Fit, RunTyped, Apart, PageOK
<1>2. Stops(story') <=> Stops(story)
  BY ReadEffect DEF Moved, Stops
<1>3. Stops(story) => ledger[story.run.m] # None
  BY ReadEffect DEF TypeInv, Fit, RunKnown, Reading
<1>4. RunTyped(story')
  BY <1>1, <1>2, <1>3, ReadEffect
     DEF TypeInv, Fit, Moved, RunTyped, Apart, Starting, Killing, Writing, Reading
<1>5. RunKnown(story', ledger)
  BY <1>1, <1>2, <1>3, ReadEffect DEF RunKnown, Starting, Writing, Reading
<1> QED BY <1>4, <1>5, ReadEffect, GoOnType

LEMMA AnswerEffect ==
    ASSUME IInv, TypeInv, DataAnswered
    PROVE  /\ UNCHANGED <<ledger, seen, change, raced>> /\ Moved(story, story')
           /\ story.run.pc = "answer" /\ story'.run.m = story.run.m /\ story.queue # <<>>
           /\ \/ /\ story'.run.pc = "kill" /\ Stops(story) /\ story.run.got.stopped
                 /\ story'.run.data = story.run.got /\ story'.blocked = None
              \/ /\ story'.run.pc = "write" /\ story'.blocked = <<story.run.m, story'.run.data>>
                 /\ story'.run.data = IF Stops(story) THEN [story.run.got EXCEPT !.stopped = TRUE]
                                      ELSE story.run.data
              \/ /\ story'.run.pc = "launch" /\ ~Stops(story) /\ story.run.got = story.run.data
                 /\ story'.run.data = story.run.data /\ story'.blocked = None
<1> DEFINE r == story.run
           d == IF Stops(story) THEN [r.got EXCEPT !.stopped = TRUE] ELSE r.data
           kill == [story EXCEPT !.run.pc = "kill", !.run.data = r.got]
           launch == [story EXCEPT !.run.pc = "launch"]
<1>1. UNCHANGED <<ledger, seen, change, raced>> /\ story.run.pc = "answer" /\ story.queue # <<>>
  BY DEF DataAnswered, At, Only, Becomes
<1>2. story.blocked = None
  BY <1>1 DEF TypeInv, Fit, RunTyped, Writing
<1>3. \/ Stops(story) /\ r.got.stopped /\ story' = kill
      \/ story' = Write(story, r.m, d)
      \/ ~Stops(story) /\ r.got = r.data /\ story' = launch
  BY DEF DataAnswered, Only, Becomes, Stops
<1>4. /\ Moved(story, kill) /\ kill.run.pc = "kill" /\ kill.run.m = r.m
      /\ kill.run.data = r.got /\ kill.blocked = None
  BY <1>2, IInvShape DEF Moved, Shape, RunFields
<1>5. /\ Moved(story, launch) /\ launch.run.pc = "launch" /\ launch.run.m = r.m
      /\ launch.run.data = r.data /\ launch.blocked = None
  BY <1>2, IInvShape, StepMoves
<1>6. LET t == Write(story, r.m, d) IN
        /\ Moved(story, t) /\ t.blocked = <<r.m, d>> /\ t.run.pc = "write" /\ t.run.m = r.m
        /\ t.run.data = d
  BY IInvShape, WriteMoves
<1> HIDE DEF kill, launch, d
<1>7. CASE story' = Write(story, r.m, d)
  <2>1. /\ Moved(story, story') /\ story'.blocked = <<r.m, d>> /\ story'.run.pc = "write"
        /\ story'.run.m = r.m /\ story'.run.data = d
    BY <1>6, <1>7
  <2> QED BY <1>1, <2>1 DEF d
<1> QED BY <1>1, <1>3, <1>4, <1>5, <1>7

LEMMA AnswerType ==
    ASSUME IInv, TypeInv, DataAnswered
    PROVE  TypeInv'
<1> DEFINE r == story.run
<1>1. /\ r.m \in Module /\ r.got \in Data \cup {None}
      /\ Stops(story) => r.got # None /\ ledger[r.m] # None /\ r.todo = <<>>
      /\ ~Stops(story) => r.data \in Data /\ ~r.data.stopped
      /\ r.got # None => ledger[r.m] # None
  <2>1. r.pc = "answer"
    BY AnswerEffect
  <2>2. RunTyped(story)
    BY DEF TypeInv, Fit
  <2>3. RunKnown(story, ledger)
    BY DEF TypeInv, Fit
  <2>4. r.m \in Module /\ r.got \in Data \cup {None} /\ (Stops(story) => r.got # None /\ r.todo = <<>>)
        /\ (~Stops(story) => r.data \in Data /\ ~r.data.stopped)
    BY <2>1, <2>2 DEF RunTyped, Apart, Reading
  <2>5. (Stops(story) \/ r.got # None) => ledger[r.m] # None
    BY <2>1, <2>3 DEF RunKnown, Reading
  <2> QED BY <2>4, <2>5
<1>2. /\ UNCHANGED <<ledger, seen, change>> /\ Moved(story, story') /\ story'.run.m = r.m
      /\ Stops(story') <=> Stops(story)
  BY AnswerEffect DEF Moved, Stops
<1>2a. story'.run.todo = r.todo /\ (r.todo # <<>> => ~Stops(story))
  BY <1>1, <1>2 DEF Moved
<1>3. CASE /\ story'.run.pc = "kill" /\ Stops(story) /\ r.got.stopped
           /\ story'.run.data = r.got /\ story'.blocked = None
  <2>1. RunTyped(story') /\ RunKnown(story', ledger)
    BY <1>1, <1>2, <1>2a, <1>3 DEF RunTyped, RunKnown, Apart, Starting, Killing, Writing, Reading
  <2> QED BY <1>2, <2>1, GoOnType
<1>4. CASE /\ story'.run.pc = "write" /\ story'.blocked = <<r.m, story'.run.data>>
           /\ story'.run.data = IF Stops(story) THEN [r.got EXCEPT !.stopped = TRUE] ELSE r.data
  <2>1. Stops(story) => story'.run.data \in Data /\ story'.run.data.stopped
    <3> SUFFICES ASSUME Stops(story) PROVE story'.run.data \in Data /\ story'.run.data.stopped
      OBVIOUS
    <3>1. r.got \in Data /\ story'.run.data = [r.got EXCEPT !.stopped = TRUE]
      BY <1>1, <1>4
    <3> QED BY <3>1, DataStopped
  <2>2. ~Stops(story) => story'.run.data \in Data /\ ~story'.run.data.stopped
    BY <1>1, <1>4
  <2>3. story'.blocked # None
    <3>1. story'.blocked \in Module \X Data
      <4>1. story'.run.data \in Data
        BY <2>1, <2>2
      <4>2. r.m \in Module /\ story'.blocked = <<r.m, story'.run.data>>
        BY <1>1, <1>4
      <4> QED BY <4>1, <4>2
    <3> QED BY <3>1, DataAssumption
  <2>4. story'.blocked = <<story'.run.m, story'.run.data>> /\ story'.run.pc = "write"
    BY <1>2, <1>4
  <2>5. RunTyped(story') /\ RunKnown(story', ledger)
    BY <1>1, <1>2, <1>2a, <2>1, <2>2, <2>3, <2>4
       DEF RunTyped, RunKnown, Apart, Starting, Killing, Writing, Reading
  <2> QED BY <1>2, <2>5, GoOnType
<1>5. CASE /\ story'.run.pc = "launch" /\ ~Stops(story) /\ r.got = r.data
           /\ story'.run.data = r.data /\ story'.blocked = None
  <2>0. ledger[r.m] # None
    BY <1>1, <1>5, DataAssumption
  <2>1. RunTyped(story') /\ RunKnown(story', ledger)
    BY <1>1, <1>2, <1>2a, <1>5, <2>0
       DEF RunTyped, RunKnown, Apart, Starting, Killing, Writing, Reading
  <2> QED BY <1>2, <2>1, GoOnType
<1> QED BY <1>3, <1>4, <1>5, AnswerEffect

\* The write of an operation, and its failure.
LEMMA PutEffect ==
    ASSUME IInv, TypeInv, DataWritten \/ WriteFails
    PROVE  /\ Moved(story, story') /\ raced \subseteq raced'
           /\ story.run.pc = "write" /\ story'.run.pc = "blocked" /\ story'.run.m = story.run.m
           /\ story'.run.data = story.run.data /\ story'.blocked = story.blocked
           /\ \/ UNCHANGED <<ledger, seen, change>>
              \/ Commit(story.run.m, story.run.data)
           /\ story.run.m \in Module /\ story.run.data \in Data
           /\ (Stops(story') <=> Stops(story))
<1>1. /\ story' = [story EXCEPT !.run.pc = "blocked"] /\ story.run.pc = "write"
      /\ raced \subseteq raced'
      /\ \/ UNCHANGED <<ledger, seen, change>>
         \/ Commit(story.run.m, story.run.data)
  BY DEF DataWritten, WriteFails, At
<1>2. /\ Moved(story, story') /\ story'.run.pc = "blocked" /\ story'.run.m = story.run.m
      /\ story'.run.data = story.run.data /\ story'.blocked = story.blocked
  <2>1. LET t == [story EXCEPT !.run.pc = "blocked"] IN
          /\ Moved(story, t) /\ t.blocked = story.blocked /\ t.run.pc = "blocked"
          /\ t.run.m = story.run.m /\ t.run.data = story.run.data
    BY IInvShape, StepMoves
  <2> QED BY <1>1, <2>1
<1>3. story.run.m \in Module /\ story.run.data \in Data
  BY <1>1 DEF TypeInv, Fit, RunTyped, Apart, Writing
<1>4. Stops(story') <=> Stops(story)
  BY <1>2 DEF Stops, Moved
<1> QED BY <1>1, <1>2, <1>3, <1>4

LEMMA WriteType ==
    ASSUME IInv, TypeInv, DataWritten \/ WriteFails
    PROVE  TypeInv'
<1>1. RunTyped(story')
  BY PutEffect
     DEF TypeInv, Fit, Moved, RunTyped, Apart, Starting, Killing, Writing, Reading
<1>2. RunKnown(story', ledger)
  BY PutEffect DEF TypeInv, Fit, RunKnown, Starting, Writing, Reading
<1>3. CASE UNCHANGED <<ledger, seen, change>>
  BY <1>1, <1>2, <1>3, PutEffect, GoOnType
<1>4. CASE Commit(story.run.m, story.run.data)
  <2>1. PageOK' /\ \A x \in Module : ledger[x] # None => ledger'[x] # None
    BY <1>4, PutEffect, CommitPage DEF TypeInv
  <2>2. Fit(story', ledger)
    BY <1>1, <1>2, PutEffect, MovedFit DEF TypeInv, Fit
  <2> QED BY <2>1, <2>2, PageMore DEF TypeInv
<1> QED BY <1>3, <1>4, PutEffect

\* The write of an operation was reported.
LEMMA ReportedEffect ==
    ASSUME IInv, TypeInv, DataReported
    PROVE  /\ UNCHANGED <<ledger, seen, change>> /\ raced \subseteq raced'
           /\ story.run.pc = "blocked" /\ story.blocked = None /\ story.queue # <<>>
           /\ \/ /\ Moved(story, story') /\ story'.run.m = story.run.m /\ story'.blocked = None
                 /\ story'.run.data = story.run.data
                 /\ \/ Stops(story) /\ story'.run.pc = "kill"
                    \/ ~Stops(story) /\ story'.run.pc = "launch"
              \/ /\ Moved(story, story') /\ story'.run.m = story.run.m /\ story'.blocked = None
                 /\ story'.run.pc = "read" /\ ~Stops(story)
                 /\ story'.run.data = [story.run.data EXCEPT !.stopped = FALSE]
              \/ story' = Done(story) /\ "ignored" \in raced'
<1> DEFINE kill == [story EXCEPT !.run.pc = "kill"]
           launch == [story EXCEPT !.run.pc = "launch"]
           begin == StartModule(story, story.run.m, story.run.data)
           adds == Head(story.queue).kind = "add" /\ story.run.got = None
<1>1. /\ UNCHANGED <<ledger, seen, change>> /\ raced \subseteq raced'
      /\ story.run.pc = "blocked" /\ story.blocked = None /\ story.queue # <<>>
      /\ adds /\ ~IsRunning(story) => "ignored" \in raced'
  BY DEF DataReported, At, Becomes
<1>2. \/ Stops(story) /\ story' = kill
      \/ ~Stops(story) /\ story' = begin
      \/ adds /\ ~IsRunning(story) /\ story' = Done(story)
      \/ ~Stops(story) /\ story' = launch
  BY DEF DataReported, Becomes, Stops
<1>3. /\ Moved(story, kill) /\ kill.run.pc = "kill" /\ kill.run.m = story.run.m
      /\ kill.run.data = story.run.data /\ kill.blocked = None
      /\ Moved(story, launch) /\ launch.run.pc = "launch" /\ launch.run.m = story.run.m
      /\ launch.run.data = story.run.data /\ launch.blocked = None
  <2>1. /\ Moved(story, kill) /\ kill.run.pc = "kill" /\ kill.run.m = story.run.m
        /\ kill.run.data = story.run.data /\ kill.blocked = story.blocked
    BY IInvShape, StepMoves
  <2>2. /\ Moved(story, launch) /\ launch.run.pc = "launch" /\ launch.run.m = story.run.m
        /\ launch.run.data = story.run.data /\ launch.blocked = story.blocked
    BY IInvShape, StepMoves
  <2> HIDE DEF kill, launch
  <2> QED BY <1>1, <2>1, <2>2
<1>4. /\ Moved(story, begin) /\ begin.run.pc = "read" /\ begin.run.m = story.run.m
      /\ begin.run.data = [story.run.data EXCEPT !.stopped = FALSE] /\ begin.blocked = None
  BY <1>1, IInvShape, StartModuleMoves
<1> HIDE DEF kill, launch, begin, adds
<1> QED BY <1>1, <1>2, <1>3, <1>4

LEMMA ReportedType ==
    ASSUME IInv, TypeInv, DataReported
    PROVE  TypeInv'
<1> DEFINE r == story.run
<1>1. /\ UNCHANGED <<ledger, seen, change>> /\ r.pc = "blocked" /\ story.blocked = None
      /\ story.queue # <<>>
  BY ReportedEffect
<1>2. /\ r.m \in Module /\ r.data \in Data /\ ledger[r.m] # None
      /\ Stops(story) => r.data.stopped /\ r.todo = <<>>
      /\ ~Stops(story) => ~r.data.stopped
  <2>1. RunTyped(story) /\ RunKnown(story, ledger)
    BY DEF TypeInv, Fit
  <2>2. /\ r.m \in Module /\ r.data \in Data
        /\ Stops(story) => r.data.stopped /\ r.todo = <<>>
        /\ ~Stops(story) => ~r.data.stopped
    BY <1>1, <2>1 DEF RunTyped, Apart, Writing
  <2>3. ledger[r.m] # None
    BY <1>1, <2>1 DEF RunKnown, Writing
  <2> QED BY <2>2, <2>3
<1>3. CASE /\ Moved(story, story') /\ story'.run.m = r.m /\ story'.blocked = None
           /\ story'.run.data = r.data /\ Stops(story) /\ story'.run.pc = "kill"
  <2>1. story'.run.todo = r.todo /\ Stops(story')
    BY <1>3 DEF Moved, Stops
  <2>2. RunTyped(story') /\ RunKnown(story', ledger)
    BY <1>2, <1>3, <2>1 DEF RunTyped, RunKnown, Apart, Starting, Killing, Writing, Reading
  <2> QED BY <1>1, <1>3, <2>2, GoOnType
<1>4. CASE /\ Moved(story, story') /\ story'.run.m = r.m /\ story'.blocked = None
           /\ story'.run.data = r.data /\ ~Stops(story) /\ story'.run.pc = "launch"
  <2>1. ~Stops(story')
    BY <1>4 DEF Moved, Stops
  <2>2. RunTyped(story') /\ RunKnown(story', ledger)
    BY <1>2, <1>4, <2>1 DEF RunTyped, RunKnown, Apart, Starting, Killing, Writing, Reading
  <2> QED BY <1>1, <1>4, <2>2, GoOnType
<1>5. CASE /\ Moved(story, story') /\ story'.run.m = r.m /\ story'.blocked = None
           /\ story'.run.pc = "read" /\ ~Stops(story)
           /\ story'.run.data = [r.data EXCEPT !.stopped = FALSE]
  <2>1. ~Stops(story') /\ story'.run.data \in Data /\ ~story'.run.data.stopped
    BY <1>2, <1>5, DataStarted DEF Moved, Stops
  <2>2. RunTyped(story') /\ RunKnown(story', ledger)
    BY <1>2, <1>5, <2>1 DEF RunTyped, RunKnown, Apart, Starting, Killing, Writing, Reading
  <2> QED BY <1>1, <1>5, <2>2, GoOnType
<1>6. CASE story' = Done(story)
  BY <1>1, <1>6, EndType
<1> QED BY <1>3, <1>4, <1>5, <1>6, ReportedEffect

\* The operation waits for the module that it tears down.
LEMMA TearFit ==
    ASSUME IInv, TypeInv, story.run.m \in Running(story), NEW p,
           story' = [Teardown(story, {story.run.m}) EXCEPT !.run.pc = p],
           \/ story.run.pc = "launch" /\ p = "relaunch"
           \/ story.run.pc \in {"kill", "defocus"} /\ p = "killing"
    PROVE  /\ Fit(story', ledger)
           /\ story'.track = story.track /\ story'.queue = story.queue
           /\ story'.views = story.views /\ story'.pending = story.pending
           /\ story'.shell = story.shell /\ story'.blocked = story.blocked
           /\ story'.run.pc = p /\ story'.run.m = story.run.m
           /\ story'.run.data = story.run.data /\ story'.run.todo = story.run.todo
           /\ \A m \in Module : /\ story'.conns[m] = None <=> story.conns[m] = None
                                /\ story.conns[m] # None =>
                                      story'.conns[m].data = story.conns[m].data
<1> DEFINE t == Teardown(story, {story.run.m})
<1>1. /\ Shape(t) /\ t.track = story.track /\ t.queue = story.queue /\ t.run = story.run
      /\ t.views = story.views /\ t.pending = story.pending /\ t.shell = story.shell
      /\ t.blocked = story.blocked /\ ConnsOK(t, ledger)
      /\ \A m \in Module : /\ t.conns[m] = None <=> story.conns[m] = None
                           /\ story.conns[m] # None => t.conns[m].data = story.conns[m].data
  BY IInvShape, TeardownKeeps DEF TypeInv, Fit, Body
<1>2. story' = [t EXCEPT !.run.pc = p]
  OBVIOUS
<1> HIDE DEF t
<1>3. /\ Moved(t, story') /\ story'.blocked = t.blocked /\ story'.run.pc = p
      /\ story'.run.m = t.run.m /\ story'.run.data = t.run.data
  <2>1. Shape(t)
    BY <1>1
  <2>2. LET u == [t EXCEPT !.run.pc = p] IN
          /\ Moved(t, u) /\ u.blocked = t.blocked /\ u.run.pc = p /\ u.run.m = t.run.m
          /\ u.run.data = t.run.data
    BY <2>1, StepMoves
  <2> QED BY <1>2, <2>2
<1>4. Body(t, ledger)
  BY <1>1 DEF TypeInv, Fit, Body, QueueTyped
<1>5. Stops(story') <=> Stops(story)
  BY <1>1, <1>3 DEF Moved, Stops
<1>6. RunTyped(story')
  <2>1. /\ story'.run.m = story.run.m /\ story'.run.data = story.run.data
        /\ story'.run.todo = story.run.todo /\ story'.blocked = story.blocked
        /\ story'.run.pc = p
    BY <1>1, <1>3 DEF Moved
  <2>2. RunTyped(story)
    BY DEF TypeInv, Fit
  <2> QED BY <1>5, <2>1, <2>2 DEF RunTyped, Apart, Starting, Killing, Writing, Reading
<1>7. RunKnown(story', ledger)
  BY <1>1, <1>3, <1>5 DEF TypeInv, Fit, RunKnown, Starting, Writing, Reading
<1>8. Fit(story', ledger)
  BY <1>3, <1>4, <1>6, <1>7, MovedFit
<1> QED BY <1>1, <1>3, <1>8 DEF Moved

\* The operation launches its module.
LEMMA LaunchFacts ==
    ASSUME TypeInv, story.run.pc \in Starting
    PROVE  /\ story.run.m \in Module /\ story.run.data \in Data /\ ledger[story.run.m] # None
           /\ story.blocked = None /\ ~story.run.data.stopped
           /\ story.run.todo # <<>> => ~Stops(story)
<1>1. RunTyped(story) /\ RunKnown(story, ledger)
  BY DEF TypeInv, Fit
<1>2. ledger[story.run.m] # None
  BY <1>1 DEF RunKnown
<1>3. /\ story.run.m \in Module /\ story.run.data \in Data
      /\ story.blocked = None /\ ~story.run.data.stopped
      /\ story.run.todo # <<>> => ~Stops(story)
  BY <1>1 DEF RunTyped, Apart, Starting, Writing
<1> QED BY <1>2, <1>3

LEMMA LaunchType ==
    ASSUME IInv, TypeInv, LaunchRuns
    PROVE  TypeInv'
<1> DEFINE m == story.run.m
           d == story.run.data
           t == Launch(story, m, d)
<1>1. /\ story.run.pc = "launch" /\ story.queue # <<>> /\ UNCHANGED <<ledger, seen, change>>
  BY DEF LaunchRuns, At, Becomes
<1>2. /\ m \in Module /\ d \in Data /\ ledger[m] # None /\ story.blocked = None
      /\ story.run.todo # <<>> => ~Stops(story)
  BY <1>1, LaunchFacts DEF Starting
<1>3. \/ story' = Started(t)
      \/ /\ m \in Running(story) /\ story' = [Teardown(story, {m}) EXCEPT !.run.pc = "relaunch"]
      \/ story' = Started(story)
  BY DEF LaunchRuns, Becomes
<1>4. CASE story' = Started(t)
  <2>1. /\ Shape(t) /\ QueueOK(t.queue) /\ Body(t, ledger) /\ t.blocked = None
    BY <1>2, IInvShape, LaunchKeeps DEF TypeInv, Fit
  <2> DEFINE c == [data |-> d, st |-> "STARTING", down |-> FALSE]
  <2>2. c \in Connection /\ \E ops : Grown(Placed(story, m, c), t, ops)
    BY <1>2, IInvShape, LaunchKeeps DEF TypeInv, Fit
  <2> HIDE DEF c
  <2>3. Placed(story, m, c).queue = story.queue /\ Placed(story, m, c).run = story.run
    BY <1>2, <2>2, IInvShape, PlacedKeeps DEF TypeInv, Fit
  <2> HIDE DEF t
  <2>3a. t.run = story.run /\ t.queue # <<>> /\ Head(t.queue) = Head(story.queue)
    BY <1>1, <2>2, <2>3 DEF Grown
  <2>4. t.queue # <<>> /\ (t.run.todo # <<>> => ~Stops(t))
    BY <1>2, <2>3a DEF Stops
  <2>5. Fit(story', ledger)
    BY <1>4, <2>1, <2>4, StartedFit
  <2> QED BY <1>1, <2>5, SamePage
<1>5. CASE m \in Running(story) /\ story' = [Teardown(story, {m}) EXCEPT !.run.pc = "relaunch"]
  BY <1>1, <1>5, TearFit, SamePage
<1>6. CASE story' = Started(story)
  BY <1>1, <1>2, <1>6, IInvShape, StartedFit, SamePage DEF TypeInv, Fit
<1> QED BY <1>3, <1>4, <1>5, <1>6

\* KillModuleCall.
LEMMA KillEffect ==
    ASSUME IInv, TypeInv, KillRuns \/ ViewDefocused
    PROVE  /\ UNCHANGED <<ledger, seen, change, raced>> /\ story.run.pc \in {"kill", "defocus"}
           /\ story.queue # <<>> /\ story.blocked = None
           /\ story.run.m \in Module /\ story.run.data \in Data /\ story.run.data.stopped
           /\ story.run.todo = <<>>
           /\ \/ story' = [story EXCEPT !.run.pc = "defocus"]
              \/ /\ story.run.m \in Running(story)
                 /\ story' = [Teardown(story, {story.run.m}) EXCEPT !.run.pc = "killing"]
              \/ story.run.m \notin Running(story) /\ story' = Done(story)
<1>1. /\ UNCHANGED <<ledger, seen, change, raced>> /\ story.run.pc \in {"kill", "defocus"}
      /\ story.queue # <<>>
  BY DEF KillRuns, ViewDefocused, At, Only, Becomes
<1>2. /\ story.blocked = None /\ story.run.todo = <<>>
      /\ story.run.m \in Module /\ story.run.data \in Data /\ story.run.data.stopped
  BY <1>1 DEF TypeInv, Fit, RunTyped, Apart, Killing, Writing
<1> QED BY <1>1, <1>2 DEF KillRuns, ViewDefocused, Only, Becomes, KillContinues

LEMMA KillType ==
    ASSUME IInv, TypeInv, KillRuns \/ ViewDefocused
    PROVE  TypeInv'
<1>1. CASE story' = [story EXCEPT !.run.pc = "defocus"]
  <2>1. /\ Moved(story, story') /\ story'.blocked = story.blocked /\ story'.run.pc = "defocus"
        /\ story'.run.m = story.run.m /\ story'.run.data = story.run.data
    BY <1>1, IInvShape, StepMoves
  <2>2. RunTyped(story') /\ RunKnown(story', ledger)
    BY <2>1, KillEffect
       DEF Moved, RunTyped, RunKnown, Apart, Starting, Killing, Writing, Reading
  <2> QED BY <2>1, <2>2, KillEffect, GoOnType
<1>2. CASE /\ story.run.m \in Running(story)
           /\ story' = [Teardown(story, {story.run.m}) EXCEPT !.run.pc = "killing"]
  BY <1>2, KillEffect, TearFit, SamePage
<1>3. CASE story' = Done(story)
  BY <1>3, KillEffect, EndType
<1> QED BY <1>1, <1>2, <1>3, KillEffect

\* StopCall tears everything down.
LEMMA StopEffect ==
    ASSUME IInv, TypeInv, StopRuns
    PROVE  /\ UNCHANGED <<ledger, seen, change, raced>> /\ story.run.pc = "ready"
           /\ story.queue # <<>> /\ Head(story.queue).kind \in {"stop", "delete"}
           /\ story'.track = FALSE /\ story'.queue = story.queue
           /\ story'.views = story.views /\ story'.pending = story.pending
           /\ story'.shell = story.shell /\ story'.blocked = None
           /\ story'.run.pc = IF Running(story) = {} THEN "stopShell" ELSE "stopping"
           /\ story'.run.m = None /\ story'.run.todo = <<>>
           /\ ConnsOK(story', ledger)
           /\ \A m \in Module : /\ story'.conns[m] = None <=> story.conns[m] = None
                                /\ story.conns[m] # None =>
                                      story'.conns[m].data = story.conns[m].data
<1> DEFINE t == Teardown(story, Running(story))
           p == IF Running(story) = {} THEN "stopShell" ELSE "stopping"
<1>1. /\ UNCHANGED <<ledger, seen, change, raced>> /\ story.run.pc = "ready"
      /\ story.queue # <<>> /\ Head(story.queue).kind \in {"stop", "delete"}
      /\ story' = [t EXCEPT !.track = FALSE, !.run.pc = p]
  BY DEF StopRuns, Begins, At, Only, Becomes
<1>2. /\ Shape(t) /\ t.queue = story.queue /\ t.run = story.run
      /\ t.views = story.views /\ t.pending = story.pending /\ t.shell = story.shell
      /\ t.blocked = story.blocked /\ ConnsOK(t, ledger)
      /\ \A m \in Module : /\ t.conns[m] = None <=> story.conns[m] = None
                           /\ story.conns[m] # None => t.conns[m].data = story.conns[m].data
  BY IInvShape, TeardownKeeps DEF TypeInv, Fit, Body
<1> HIDE DEF t, p
<1>3. Shape(t)
  BY <1>2
<1>4. /\ story'.track = FALSE /\ story'.queue = t.queue
      /\ story'.views = t.views /\ story'.pending = t.pending
      /\ story'.shell = t.shell /\ story'.blocked = t.blocked /\ story'.conns = t.conns
      /\ story'.run.pc = p /\ story'.run.m = t.run.m /\ story'.run.todo = t.run.todo
  BY <1>1, <1>3 DEF Shape
<1>5. story.run.m = None /\ story.run.todo = <<>> /\ story.blocked = None
  BY <1>1, ReadyFacts
<1>6. ConnsOK(story', ledger)
  BY <1>2, <1>4 DEF ConnsOK
<1> QED BY <1>1, <1>2, <1>4, <1>5, <1>6 DEF p

LEMMA StopType ==
    ASSUME IInv, TypeInv, StopRuns
    PROVE  TypeInv'
<1>1. Body(story', ledger)
  <2>1. TodoOK(story'.run)
    BY StopEffect, ReadyFacts DEF Body, TodoOK
  <2> QED BY <2>1, StopEffect DEF TypeInv, Fit, Body, QueueTyped
<1>2. ~story'.track /\ ~Stops(story') /\ story'.blocked = None /\ story'.run.todo = <<>>
      /\ story'.run.m = None /\ story'.run.pc \in {"stopping", "stopShell"}
      /\ (story'.run.pc = "stopShell" => Running(story) = {})
  BY StopEffect DEF Stops
<1>3. Running(story) = {} => \A m \in Module : story'.conns[m] = None
  BY StopEffect DEF Running
<1>4. RunTyped(story')
  BY <1>2, <1>3 DEF RunTyped, Apart, Starting, Killing, Writing, Reading
<1>5. RunKnown(story', ledger)
  BY <1>2 DEF RunKnown, Starting, Writing, Reading
<1> QED BY <1>1, <1>4, <1>5, StopEffect, SamePage DEF Fit

\* The end of StopCall.
LEMMA CleanupEffect ==
    ASSUME IInv, TypeInv, StopEnds
    PROVE  /\ UNCHANGED <<ledger, seen, change, raced>> /\ story.run.pc = "stopShell"
           /\ story.queue # <<>>
           /\ \/ /\ story'.run.pc = "gone" /\ story'.run.m = None /\ story'.run.todo = <<>>
                 /\ story'.queue = <<>> /\ story'.conns = [m \in Module |-> None]
                 /\ story'.blocked = None /\ story'.pending = story.pending
                 /\ story'.views = story.views /\ story'.shell = "none"
              \/ \E s, op :
                 /\ story' = Done(s) /\ op.kind = "save" /\ s.track = story.track
                 /\ Shape(s) /\ QueueOK(s.queue) /\ s.queue # <<>> /\ s.blocked = None
                 /\ s.conns = [m \in Module |-> None] /\ s.views = story.views
                 /\ s.pending = story.pending /\ s.shell = "none" /\ s.run = story.run
                 /\ ToSet(s.queue) = ToSet(story.queue) \cup {op}
                 /\ ToSet(Tail(s.queue)) = ToSet(Tail(story.queue)) \cup {op}
<1> DEFINE a == [story EXCEPT !.shell = "none", !.conns = [m \in Module |-> None],
                              !.state = "STOPPED"]
           op == [kind |-> "save", state |-> a.state]
           s == Queued(a, op)
           r == [Idle EXCEPT !.pc = "gone"]
           g == [a EXCEPT !.queue = <<>>, !.run = r]
<1>1. /\ UNCHANGED <<ledger, seen, change, raced>> /\ story.run.pc = "stopShell"
      /\ story.queue # <<>> /\ (story' = g \/ story' = Done(s))
  BY DEF StopEnds, At, Only, Becomes, Cleanup, NotifyStateChange
<1>2. story.blocked = None
  BY <1>1 DEF TypeInv, Fit, RunTyped, Writing
<1>3. /\ DOMAIN a = DOMAIN story /\ a.track = story.track /\ a.queue = story.queue
      /\ a.run = story.run /\ a.views = story.views /\ a.pending = story.pending
      /\ a.shell = "none" /\ a.blocked = story.blocked /\ a.conns = [m \in Module |-> None]
  BY IInvShape DEF Shape
<1>4. op.kind = "save"
  OBVIOUS
<1> HIDE DEF a, op
<1>5. Shape(a)
  <2>1. DOMAIN a.conns = Module /\ \A m \in Module : a.conns[m] = None
    BY <1>3
  <2> QED BY <1>3, <2>1, IInvShape DEF Shape
<1>6. CASE story' = Done(s)
  <2>1. /\ Grown(a, s, {op}) /\ s.blocked = a.blocked /\ Shape(s) /\ QueueOK(s.queue)
    BY <1>3, <1>4, <1>5, IInvShape, QueuedGrown
  <2> HIDE DEF s
  <2>2. /\ s.track = story.track /\ s.queue # <<>> /\ s.blocked = None
        /\ s.conns = [m \in Module |-> None] /\ s.views = story.views
        /\ s.pending = story.pending /\ s.shell = "none" /\ s.run = story.run
        /\ ToSet(s.queue) = ToSet(story.queue) \cup {op}
        /\ ToSet(Tail(s.queue)) = ToSet(Tail(story.queue)) \cup {op}
    BY <1>1, <1>2, <1>3, <2>1 DEF Grown
  <2> QED BY <1>1, <1>4, <1>6, <2>1, <2>2
<1>7. CASE story' = g
  <2>1. r.pc = "gone" /\ r.m = None /\ r.todo = <<>>
    BY DEF Idle
  <2> HIDE DEF r
  <2>2. /\ g.run = r /\ g.queue = <<>> /\ g.conns = a.conns /\ g.blocked = a.blocked
        /\ g.pending = a.pending /\ g.views = a.views /\ g.shell = a.shell
    BY <1>5 DEF Shape
  <2> QED BY <1>1, <1>2, <1>3, <1>7, <2>1, <2>2
<1> QED BY <1>1, <1>6, <1>7

LEMMA CleanupType ==
    ASSUME IInv, TypeInv, StopEnds
    PROVE  TypeInv'
<1>0. UNCHANGED <<ledger, seen, change>> /\ story.run.pc = "stopShell" /\ story.run.todo = <<>>
  BY CleanupEffect DEF TypeInv, Fit, RunTyped, Apart
<1>1. CASE /\ story'.run.pc = "gone" /\ story'.run.m = None /\ story'.run.todo = <<>>
           /\ story'.queue = <<>> /\ story'.conns = [m \in Module |-> None]
           /\ story'.blocked = None
  <2>1. ToSet(<<>>) = {}
    BY InToSet
  <2>2. ConnsOK(story', ledger) /\ QueueTyped(story', ledger) /\ TodoOK(story'.run)
    BY <1>1, <2>1 DEF ConnsOK, QueueTyped, TodoOK
  <2>3. RunTyped(story') /\ RunKnown(story', ledger)
    BY <1>1 DEF RunTyped, RunKnown, Apart, Starting, Killing, Writing, Reading
  <2> QED BY <1>0, <2>2, <2>3, SamePage DEF Fit, Body
<1>2. ASSUME NEW s, NEW op,
             /\ story' = Done(s) /\ op.kind = "save"
             /\ Shape(s) /\ QueueOK(s.queue) /\ s.queue # <<>> /\ s.blocked = None
             /\ s.conns = [m \in Module |-> None] /\ s.run = story.run
             /\ ToSet(s.queue) = ToSet(story.queue) \cup {op}
      PROVE  TypeInv'
  <2>1. QueueTyped(s, ledger)
    BY <1>2 DEF TypeInv, Fit, Body, QueueTyped, OpOK
  <2>2. ConnsOK(s, ledger)
    BY <1>2 DEF ConnsOK
  <2>3. Body(s, ledger)
    BY <1>2, <2>1, <2>2 DEF TypeInv, Fit, Body
  <2> QED BY <1>0, <1>2, <2>3, DoneFit, SamePage
<1> QED BY <1>1, <1>2, CleanupEffect

\* s is the controller without the module m, and with its state saved.
Without(s, m) ==
    /\ Shape(s) /\ QueueOK(s.queue) /\ s.queue # <<>> /\ s.blocked = story.blocked
    /\ s.track = story.track /\ s.run = story.run /\ s.views = story.views
    /\ s.shell = story.shell /\ s.pending = story.pending \ {m}
    /\ s.conns[m] = None /\ (\A x \in Module \ {m} : s.conns[x] = story.conns[x])
    /\ Head(s.queue) = Head(story.queue) /\ Body(s, ledger)
    /\ \E ops : /\ \A op \in ops : op.kind = "save"
                /\ ToSet(s.queue) = ToSet(story.queue) \cup ops
                /\ ToSet(Tail(s.queue)) = ToSet(Tail(story.queue)) \cup ops

LEMMA DownEffect ==
    ASSUME IInv, TypeInv, NEW m \in Module, ModuleDown(m)
    PROVE  /\ UNCHANGED <<ledger, seen, change>> /\ raced \subseteq raced'
           /\ story.queue # <<>> /\ story.conns[m] # None
           /\ story.run.pc \in {"relaunch", "killing"} => m = story.run.m
           /\ \E s :
                /\ Without(s, m)
                /\ \/ /\ story.run.pc = "relaunch" /\ story' = Started(Launch(s, m, s.run.data))
                      /\ raced' = raced \cup Unsent(s, m, s.run.data)
                   \/ story.run.pc = "killing" /\ story' = Done(s)
                   \/ /\ story.run.pc = "stopping"
                      /\ story' = IF Running(s) = {} THEN [s EXCEPT !.run.pc = "stopShell"] ELSE s
<1> DEFINE c == [story.conns[m] EXCEPT !.st = "STOPPED"]
           b == Placed(story, m, c)
           a == OnModuleStateChange(b, m, "STOPPED")
           s == [a EXCEPT !.conns[m] = None, !.pending = @ \ {m}]
<1>1. /\ story.conns[m] # None /\ story.conns[m] \in Connection /\ ledger[m] # None
      /\ story.conns[m].down
  BY DEF ModuleDown, Running, TypeInv, Fit, Body, ConnsOK
<1>2. \/ story.run.pc = "stopping"
      \/ story.run.pc \in {"relaunch", "killing"} /\ m = story.run.m
  BY <1>1 DEF IInv, StoryOK, DownOK
<1>3. story.queue # <<>>
  BY <1>2, IInvShape
<1>4. c \in Connection
  BY <1>1 DEF Connection, ModuleState
<1>5. [story EXCEPT !.conns[m].st = "STOPPED"] = b
  BY DEF Placed
<1>6. /\ UNCHANGED <<ledger, seen, change>>
      /\ story' = CASE s.run.pc = "relaunch" -> Started(Launch(s, m, s.run.data))
                    [] s.run.pc = "killing"  -> Done(s)
                    [] s.run.pc = "stopping" ->
                         IF Running(s) = {} THEN [s EXCEPT !.run.pc = "stopShell"] ELSE s
      /\ raced' = raced \cup IF s.run.pc = "relaunch" THEN Unsent(s, m, s.run.data) ELSE {}
  BY <1>5 DEF ModuleDown, Becomes
<1> HIDE DEF c
<1>7. /\ Shape(b) /\ Body(b, ledger) /\ b.track = story.track /\ b.queue = story.queue
      /\ b.run = story.run /\ b.blocked = story.blocked /\ b.views = story.views
      /\ b.pending = story.pending /\ b.shell = story.shell
      /\ b.conns[m] = c /\ \A x \in Module \ {m} : b.conns[x] = story.conns[x]
  BY <1>1, <1>4, IInvShape, PlacedKeeps DEF TypeInv, Fit
<1> HIDE DEF b
<1>8. QueueOK(b.queue)
  BY <1>7, IInvShape
<1>9. a.blocked = b.blocked /\ Shape(a) /\ QueueOK(a.queue)
  BY <1>7, <1>8, StateGrown
<1>10. PICK ops : Grown(b, a, ops) /\ \A op \in ops : op.kind = "save"
  BY <1>7, <1>8, StateGrown
<1> HIDE DEF a
<1>11. /\ DOMAIN s = DOMAIN a /\ s.track = a.track /\ s.queue = a.queue
       /\ s.run = a.run /\ s.views = a.views /\ s.shell = a.shell
       /\ s.blocked = a.blocked /\ s.pending = a.pending \ {m}
       /\ s.conns = [a.conns EXCEPT ![m] = None]
  BY <1>9 DEF Shape
<1> HIDE DEF s
<1>12. DOMAIN s.conns = Module /\ s.conns[m] = None /\ \A x \in Module \ {m} : s.conns[x] = a.conns[x]
  BY <1>9, <1>11 DEF Shape
<1>13. Shape(s) /\ QueueOK(s.queue)
  BY <1>9, <1>11, <1>12 DEF Shape
<1>14. Body(s, ledger)
  <2>1. QueueTyped(s, ledger)
    BY <1>7, <1>10, <1>11 DEF Body, QueueTyped, OpOK, Grown
  <2>2. ConnsOK(s, ledger)
    <3>1. b.conns \in [Module -> Connection \cup {None}] /\ a.conns = b.conns
      BY <1>7, <1>10 DEF Body, ConnsOK, Grown
    <3>2. s.conns \in [Module -> Connection \cup {None}]
      BY <1>11, <3>1
    <3>3. \A x \in Module : s.conns[x] # None => b.conns[x] # None
      BY <1>12, <3>1
    <3> QED BY <1>7, <3>2, <3>3 DEF Body, ConnsOK
  <2> QED BY <1>7, <1>10, <1>11, <2>1, <2>2 DEF Body, Grown
<1>15. Without(s, m)
  <2>1. /\ s.queue # <<>> /\ s.blocked = story.blocked
        /\ s.track = story.track /\ s.run = story.run /\ s.views = story.views
        /\ s.shell = story.shell /\ s.pending = story.pending \ {m}
        /\ Head(s.queue) = Head(story.queue)
    BY <1>3, <1>7, <1>9, <1>10, <1>11 DEF Grown
  <2>2. \A x \in Module \ {m} : s.conns[x] = story.conns[x]
    BY <1>7, <1>10, <1>12 DEF Grown
  <2>3. /\ ToSet(s.queue) = ToSet(story.queue) \cup ops
        /\ ToSet(Tail(s.queue)) = ToSet(Tail(story.queue)) \cup ops
    BY <1>3, <1>7, <1>10, <1>11 DEF Grown
  <2> QED BY <1>10, <1>12, <1>13, <1>14, <2>1, <2>2, <2>3 DEF Without
<1>16. s.run = story.run
  BY <1>15 DEF Without
<1>17. \/ /\ story.run.pc = "relaunch" /\ story' = Started(Launch(s, m, s.run.data))
          /\ raced' = raced \cup Unsent(s, m, s.run.data)
       \/ story.run.pc = "killing" /\ story' = Done(s)
       \/ /\ story.run.pc = "stopping"
          /\ story' = IF Running(s) = {} THEN [s EXCEPT !.run.pc = "stopShell"] ELSE s
  BY <1>2, <1>6, <1>16
<1>18. raced \subseteq raced'
  BY <1>6
<1> QED BY <1>1, <1>2, <1>3, <1>6, <1>15, <1>17, <1>18

\* What is left of the controller when a module is launched again.
LEMMA AgainFit ==
    ASSUME NEW s, NEW l, Shape(s), QueueOK(s.queue), s.queue # <<>>, Body(s, l), s.blocked = None,
           s.run.todo # <<>> => ~Stops(s), NEW m \in Module, NEW d \in Data, l[m] # None
    PROVE  Fit(Started(Launch(s, m, d)), l)
<1> DEFINE t == Launch(s, m, d)
           c == [data |-> d, st |-> "STARTING", down |-> FALSE]
<1>1. /\ Shape(t) /\ QueueOK(t.queue) /\ Body(t, l) /\ t.blocked = None
      /\ c \in Connection /\ \E ops : Grown(Placed(s, m, c), t, ops)
  BY LaunchKeeps
<1> HIDE DEF t, c
<1>2. Placed(s, m, c).queue = s.queue /\ Placed(s, m, c).run = s.run
  BY <1>1, PlacedKeeps
<1>3. t.run = s.run /\ t.queue # <<>> /\ Head(t.queue) = Head(s.queue)
  BY <1>1, <1>2 DEF Grown
<1>4. t.run.todo # <<>> => ~Stops(t)
  BY <1>3 DEF Stops
<1> QED BY <1>1, <1>3, <1>4, StartedFit DEF t

LEMMA DownType ==
    ASSUME IInv, TypeInv, NEW m \in Module, ModuleDown(m)
    PROVE  TypeInv'
<1>1. /\ UNCHANGED <<ledger, seen, change>> /\ story.conns[m] # None
      /\ story.run.pc \in {"relaunch", "killing"} => m = story.run.m
  BY DownEffect
<1>2. PICK s :
        /\ Without(s, m)
        /\ \/ story.run.pc = "relaunch" /\ story' = Started(Launch(s, m, s.run.data))
           \/ story.run.pc = "killing" /\ story' = Done(s)
           \/ /\ story.run.pc = "stopping"
              /\ story' = IF Running(s) = {} THEN [s EXCEPT !.run.pc = "stopShell"] ELSE s
  BY DownEffect
<1>3. /\ Shape(s) /\ QueueOK(s.queue) /\ s.queue # <<>> /\ s.blocked = story.blocked
      /\ s.run = story.run /\ Body(s, ledger) /\ Head(s.queue) = Head(story.queue)
      /\ s.track = story.track
  BY <1>2 DEF Without
<1>4. Stops(s) <=> Stops(story)
  BY <1>3 DEF Stops
<1>5. story.run.pc \notin Writing => s.blocked = None
  BY <1>3 DEF TypeInv, Fit, RunTyped
<1>6. CASE story.run.pc = "relaunch" /\ story' = Started(Launch(s, m, s.run.data))
  <2>1. /\ s.run.data \in Data /\ ledger[m] # None /\ s.blocked = None
        /\ s.run.todo # <<>> => ~Stops(s)
    BY <1>1, <1>3, <1>4, <1>6, LaunchFacts DEF Starting
  <2>2. Fit(story', ledger)
    BY <1>3, <1>6, <2>1, AgainFit
  <2> QED BY <1>1, <2>2, SamePage
<1>7. CASE story.run.pc = "killing" /\ story' = Done(s)
  <2>1. s.blocked = None
    BY <1>5, <1>7 DEF Writing
  <2>2. Fit(story', ledger)
    BY <1>3, <1>7, <2>1, DoneFit
  <2> QED BY <1>1, <2>2, SamePage
<1>8. CASE /\ story.run.pc = "stopping"
           /\ story' = IF Running(s) = {} THEN [s EXCEPT !.run.pc = "stopShell"] ELSE s
  <2>1. /\ s.run.m = None /\ s.run.todo = <<>> /\ ~s.track /\ s.blocked = None
        /\ s.run.pc = "stopping"
    BY <1>3, <1>5, <1>8 DEF TypeInv, Fit, RunTyped, Apart, Writing
  <2>2. CASE Running(s) = {}
    <3>1. /\ Moved(s, story') /\ story'.blocked = None /\ story'.run.pc = "stopShell"
          /\ story'.run.m = None
      BY <1>3, <1>8, <2>1, <2>2, StepMoves
    <3>2. \A x \in Module : story'.conns[x] = None
      BY <2>2, <3>1 DEF Running, Moved
    <3>3. RunTyped(story') /\ RunKnown(story', ledger)
      BY <2>1, <3>1, <3>2
         DEF Moved, RunTyped, RunKnown, Apart, Starting, Killing, Writing, Reading
    <3>4. Fit(story', ledger)
      BY <1>3, <3>1, <3>3, MovedFit
    <3> QED BY <1>1, <3>4, SamePage
  <2>3. CASE Running(s) # {}
    <3>1. story' = s
      BY <1>8, <2>3
    <3>2. RunTyped(s) /\ RunKnown(s, ledger)
      BY <2>1 DEF RunTyped, RunKnown, Apart, Starting, Killing, Writing, Reading
    <3> QED BY <1>1, <1>3, <3>1, <3>2, SamePage DEF Fit
  <2> QED BY <2>2, <2>3
<1> QED BY <1>2, <1>6, <1>7, <1>8

LEMMA InitType == Init => TypeInv
<1> SUFFICES ASSUME Init PROVE TypeInv
  OBVIOUS
<1>1. PageOK
  BY DataAssumption DEF Init, PageOK
<1>2. /\ story.track = TRUE /\ story.queue = <<>> /\ story.run = Idle /\ story.blocked = None
      /\ story.conns = [m \in Module |-> None]
  BY DEF Init
<1>3. Idle.pc = "ready" /\ Idle.m = None /\ Idle.todo = <<>>
  BY DEF Idle
<1>4. ToSet(<<>>) = {}
  BY InToSet
<1>5. Body(story, ledger)
  BY <1>2, <1>3, <1>4 DEF Body, QueueTyped, ConnsOK, TodoOK
<1>6. RunTyped(story) /\ RunKnown(story, ledger)
  BY <1>2, <1>3 DEF RunTyped, RunKnown, Apart, Starting, Killing, Writing, Reading
<1> QED BY <1>1, <1>5, <1>6 DEF TypeInv, Fit

LEMMA NextType == IInv /\ TypeInv /\ [Next]_vars => TypeInv'
<1> SUFFICES ASSUME IInv, TypeInv, [Next]_vars PROVE TypeInv'
  OBVIOUS
<1>1. CASE UNCHANGED vars
  BY <1>1 DEF vars, TypeInv, PageOK
<1>2. CASE Runs
  BY <1>2, SaveType, StartType, StartReadsType, NotificationType, BeginType, ReadType,
     AnswerType, WriteType, ReportedType, LaunchType, KillType, StopType, CleanupType DEF Runs
<1>3. CASE Progress
  BY <1>2, <1>3, ReportType, DownType DEF Progress
<1> QED BY <1>1, <1>3, CallsType, RemoteType, ReportsType, ShellType, WriteType DEF Next

\* Only modules the page knows run, and an operation has the data it needs.
THEOREM StoryTypes == Spec => []TypeInv
BY InitType, NextType, Invariance, PTL DEF Spec

-----------------------------------------------------------------------------
(* What runs is what the page wants *)

\* The modules whose external data some operations of S are about.
NotesOf(S) == {op.m : op \in {x \in S : x.kind = "notification" /\ x.data.how = "external"}}

\* The operations that are still to be run.
Ahead(s) == IF s.run.pc = "ready" THEN s.queue ELSE Tail(s.queue)
Notes(s) == NotesOf(ToSet(Ahead(s)))

\* What StartCall has still to start.
Todo(s) == {x[1] : x \in ToSet(s.run.todo)}

\* The page watcher has still to be told of a module.
Dirty(m) == ledger[m] # seen[m] \/ \E c \in change : c[1] = m

Wants(d) == d # None /\ d.how = "external"

\* A module does what the data d want, or StartCall has still to come to it.
Does(s, m, d) ==
    IF d.stopped THEN m \notin Running(s)
    ELSE s.track /\ s.shell # "none" /\ m \notin Todo(s) =>
            m \in Running(s) /\ s.conns[m].data.url = d.url

\* ... or is about to be told.
Matches(s, m, d) ==
    Wants(d) => m \in Notes(s) \/ Does(s, m, d) \/ (s.run.pc = "readAll" /\ ~d.stopped)

\* The operation under way acts on the data the page has.
Agrees(s, m, d, x) == Wants(d) => m \in Notes(s) \/ d = x

Settled(s) ==
    /\ \A m \in Module \ {s.run.m} : Dirty(m) \/ Matches(s, m, seen[m])
    /\ s.run.pc = "answer" => Dirty(s.run.m) \/ Agrees(s, s.run.m, seen[s.run.m], s.run.got)
    /\ s.run.pc \in Starting \cup Killing \/ (s.run.pc \in Writing /\ s.blocked = None) =>
          Dirty(s.run.m) \/ Agrees(s, s.run.m, seen[s.run.m], s.run.data)

Quiet == Alive /\ raced \cap {"stale", "ignored", "undone"} = {}

SettledInv == Quiet => Settled(story)

\* Every module does what the page wants when the operation at the head ends.
AllDone(s) ==
    \A m \in Module : Dirty(m) \/ (Wants(seen[m]) => m \in NotesOf(ToSet(Tail(s.queue)))
                                                     \/ Does(s, m, seen[m]))

LEMMA NotesMore ==
    ASSUME NEW S, NEW T
    PROVE  /\ NotesOf(S \cup T) = NotesOf(S) \cup NotesOf(T)
           /\ (\A x \in T : x.kind # "notification" \/ x.data.how # "external") => NotesOf(T) = {}
BY DEF NotesOf

LEMMA NotesGrown ==
    ASSUME NEW s, NEW t, NEW ops, Grown(s, t, ops), s.run.pc # "ready" => s.queue # <<>>
    PROVE  Notes(t) = Notes(s) \cup NotesOf(ops)
<1>1. ToSet(Ahead(t)) = ToSet(Ahead(s)) \cup ops
  BY DEF Grown, Ahead
<1> QED BY <1>1, NotesMore DEF Notes

LEMMA SameSettled ==
    ASSUME UNCHANGED <<ledger, seen, change>>, Settled(story')
    PROVE  Settled(story)'
BY DEF Settled, Dirty, Matches, Agrees

LEMMA GrownSettled ==
    ASSUME NEW s, NEW t, NEW ops, Grown(s, t, ops), t.blocked = s.blocked, Settled(s),
           s.run.pc # "ready" => s.queue # <<>>
    PROVE  Settled(t)
<1>1. Notes(s) \subseteq Notes(t)
  BY NotesGrown
<1>2. t.run = s.run /\ t.track = s.track
        /\ t.shell = s.shell /\ t.conns = s.conns /\ t.blocked = s.blocked
  BY DEF Grown
<1>3. \A m, d : Matches(s, m, d) => Matches(t, m, d)
  BY <1>1, <1>2 DEF Matches, Does, Running, Todo
<1>4. \A m, d, x : Agrees(s, m, d, x) => Agrees(t, m, d, x)
  BY <1>1 DEF Agrees
<1> QED BY <1>2, <1>3, <1>4 DEF Settled

\* t differs from s in what the modules do not depend on.
LEMMA DoesSame ==
    ASSUME NEW s, NEW t, t.track = s.track /\ t.shell = s.shell, t.run.todo = s.run.todo,
           \A m \in Module : /\ t.conns[m] = None <=> s.conns[m] = None
                             /\ s.conns[m] # None => t.conns[m].data = s.conns[m].data
    PROVE  \A m \in Module : \A d : Does(s, m, d) => Does(t, m, d)
BY DEF Does, Running, Todo

\* The operation under way goes on with its module.
LEMMA GoesOnSettled ==
    ASSUME NEW s, NEW t, Settled(s), t.queue = s.queue,
           s.run.pc \notin {"ready", "readAll"}, t.run.pc \notin {"ready", "readAll"},
           t.run.m = s.run.m, \A m \in Module : \A d : Does(s, m, d) => Does(t, m, d),
           t.run.pc = "answer" => Dirty(t.run.m) \/ Agrees(t, t.run.m, seen[t.run.m], t.run.got),
           t.run.pc \in Starting \cup Killing \/ (t.run.pc \in Writing /\ t.blocked = None) =>
               Dirty(t.run.m) \/ Agrees(t, t.run.m, seen[t.run.m], t.run.data)
    PROVE  Settled(t)
<1>1. Notes(t) = Notes(s)
  BY DEF Notes, Ahead
<1>2. \A m \in Module : \A d : Matches(s, m, d) => Matches(t, m, d)
  BY <1>1 DEF Matches
<1> QED BY <1>2 DEF Settled

LEMMA IdleFacts == Idle.pc = "ready" /\ Idle.m = None /\ Idle.todo = <<>> /\ ToSet(<<>>) = {}
<1>1. ToSet(<<>>) = {}
  BY InToSet
<1> QED BY <1>1 DEF Idle

LEMMA DoneSettled ==
    ASSUME NEW s, Shape(s), AllDone(s), s.run.todo = <<>>
    PROVE  Settled(Done(s))
<1> DEFINE t == Done(s)
<1>1. /\ t.track = s.track
      /\ t.shell = s.shell /\ t.conns = s.conns /\ t.queue = Tail(s.queue) /\ t.run = Idle
  BY DEF Done, Shape
<1> HIDE DEF t
<1>2. Notes(t) = NotesOf(ToSet(Tail(s.queue)))
  BY <1>1, IdleFacts DEF Notes, Ahead
<1>3. \A m \in Module : \A d : Does(s, m, d) => Does(t, m, d)
  BY <1>1, IdleFacts, DoesSame
<1>4. \A m \in Module : Dirty(m) \/ Matches(t, m, seen[m])
  BY <1>2, <1>3 DEF AllDone, Matches
<1> QED BY <1>1, <1>4, IdleFacts DEF Settled, Starting, Killing, Writing, t

LEMMA NextSettled ==
    ASSUME NEW s, Shape(s), AllDone(s), s.run.todo \in Seq(Module \X Data)
    PROVE  Settled(StartNext(s))
<1>1. CASE s.run.todo = <<>>
  BY <1>1, DoneSettled DEF StartNext
<1>2. CASE s.run.todo # <<>>
  <2> DEFINE h == Head(s.run.todo)
             r == [Idle EXCEPT !.pc = "read", !.m = h[1], !.data = h[2], !.todo = Tail(s.run.todo)]
             t == [s EXCEPT !.run = r]
  <2>1. StartNext(s) = t
    BY <1>2 DEF StartNext
  <2>2. r.pc = "read" /\ r.m = h[1] /\ r.todo = Tail(s.run.todo)
    BY DEF Idle
  <2>3. t.track = s.track
          /\ t.shell = s.shell /\ t.conns = s.conns /\ t.queue = s.queue /\ t.run = r
    BY DEF Shape
  <2> HIDE DEF r, t
  <2>4. \A x \in ToSet(s.run.todo) : x = h \/ x \in ToSet(Tail(s.run.todo))
    <3> SUFFICES ASSUME NEW x \in ToSet(s.run.todo), x # h PROVE x \in ToSet(Tail(s.run.todo))
      OBVIOUS
    <3> DEFINE q == s.run.todo
    <3> HIDE DEF q
    <3>1. PICK i \in DOMAIN q : q[i] = x
      BY InToSet DEF q
    <3>2. /\ Len(q) \in Nat /\ DOMAIN q = 1..Len(q) /\ Head(q) = q[1]
          /\ DOMAIN Tail(q) = 1..Len(q) - 1
          /\ \A k \in 1..Len(q) - 1 : Tail(q)[k] = q[k + 1]
      BY <1>2 DEF q
    <3>3. i # 1
      BY <3>1, <3>2 DEF q
    <3> DEFINE k == i - 1
    <3>4. k \in 1..Len(q) - 1 /\ k + 1 = i
      BY <3>2, <3>3
    <3> HIDE DEF k
    <3>5. k \in DOMAIN Tail(q) /\ Tail(q)[k] = x
      BY <3>1, <3>2, <3>4
    <3> QED BY <3>5, InToSet DEF q
  <2> HIDE DEF h
  <2>5. \A m : m \in Todo(s) => m = h[1] \/ m \in Todo(t)
    BY <2>2, <2>3, <2>4 DEF Todo
  <2>6. Notes(t) = NotesOf(ToSet(Tail(s.queue)))
    BY <2>2, <2>3 DEF Notes, Ahead
  <2>7. ASSUME NEW m \in Module, m # h[1], NEW d, Does(s, m, d) PROVE Does(t, m, d)
    BY <2>3, <2>5, <2>7 DEF Does, Running
  <2>8. \A m \in Module \ {t.run.m} : Dirty(m) \/ Matches(t, m, seen[m])
    BY <2>2, <2>3, <2>6, <2>7 DEF AllDone, Matches
  <2> QED BY <2>1, <2>2, <2>3, <2>8 DEF Settled, Starting, Killing, Writing
<1> QED BY <1>1, <1>2

LEMMA StartedSettled ==
    ASSUME NEW s, Shape(s), AllDone(s), s.run.todo \in Seq(Module \X Data)
    PROVE  Settled(Started(s))
<1> DEFINE t == IF s.run.data.how = "embedded" THEN s ELSE ShowModule(s, s.run.m)
<1>1. Beside(s, t)
  BY ShowBeside DEF Beside
<1>2. Started(s) = StartNext(t)
  BY DEF Started
<1> HIDE DEF t
<1>3. Shape(t) /\ t.run.todo \in Seq(Module \X Data)
  BY <1>1 DEF Shape, Beside
<1>4. \A m \in Module : \A d : Does(s, m, d) => Does(t, m, d)
  BY <1>1, DoesSame DEF Beside
<1>5. AllDone(t)
  BY <1>1, <1>4 DEF AllDone, Beside
<1> QED BY <1>2, <1>3, <1>5, NextSettled

\* The module of an operation that ends does what the page wants.
LEMMA AllDoneOf ==
    ASSUME NEW s, Settled(s), s.run.pc \notin {"ready", "readAll"},
           s.run.m \in Module =>
               Dirty(s.run.m) \/ (Wants(seen[s.run.m]) => s.run.m \in Notes(s)
                                                          \/ Does(s, s.run.m, seen[s.run.m]))
    PROVE  AllDone(s)
<1>1. Notes(s) = NotesOf(ToSet(Tail(s.queue)))
  BY DEF Notes, Ahead
<1> QED BY <1>1 DEF Settled, AllDone, Matches

\* When no operation is under way, the modules that the next one is not about.
LEMMA ReadySettled ==
    ASSUME NEW s, Settled(s), s.run.pc = "ready", s.run.m = None, QueueOK(s.queue), s.queue # <<>>,
           NEW m \in Module,
           \/ Head(s.queue).kind # "notification" \/ Head(s.queue).data.how # "external"
           \/ Head(s.queue).m # m
    PROVE  Dirty(m) \/ (Wants(seen[m]) => m \in NotesOf(ToSet(Tail(s.queue)))
                                          \/ Does(s, m, seen[m]))
<1>1. m # None
  BY PathAssumption
<1>2. Dirty(m) \/ Matches(s, m, seen[m])
  BY <1>1 DEF Settled
<1>3. ToSet(s.queue) = {Head(s.queue)} \cup ToSet(Tail(s.queue))
  BY ToSetTail
<1>4. Notes(s) = NotesOf({Head(s.queue)}) \cup NotesOf(ToSet(Tail(s.queue)))
  BY <1>3, NotesMore DEF Notes, Ahead
<1>5. m \notin NotesOf({Head(s.queue)})
  BY DEF NotesOf
<1> QED BY <1>2, <1>4, <1>5 DEF Matches

LEMMA QuietBefore ==
    ASSUME SettledInv, Quiet', raced \subseteq raced', story.run.pc # "gone"
    PROVE  Settled(story)
BY DEF SettledInv, Quiet, Alive

LEMMA CallsSettled ==
    ASSUME IInv, SettledInv, Quiet',
           \/ Start \/ Stop \/ Delete
           \/ \E m \in Module : AddModule(m) \/ StopModule(m) \/ ModuleStarts(m)
    PROVE  Settled(story)'
<1>1. ASSUME NEW op, Call(op), op.kind = "startModule" => op.m # Root PROVE Settled(story)'
  <2>1. story' = Queued(story, op) /\ UNCHANGED <<ledger, seen, change, raced>> /\ Alive
    BY <1>1 DEF Call
  <2>2. Grown(story, story', {op}) /\ story'.blocked = story.blocked
    BY <1>1, <2>1, IInvShape, QueuedGrown
  <2>3. story.run.pc # "ready" => story.queue # <<>>
    BY <2>1, IInvShape DEF Alive
  <2>4. Settled(story)
    BY <2>1, QuietBefore DEF Alive
  <2>5. Settled(story')
    BY <2>2, <2>3, <2>4, GrownSettled
  <2> QED BY <2>1, <2>5, SameSettled
<1>2. CASE Start \/ Stop \/ Delete
  BY <1>1, <1>2 DEF Start, Stop, Delete
<1>3. ASSUME NEW m \in Module, AddModule(m) \/ StopModule(m) PROVE Settled(story)'
  BY <1>1, <1>3 DEF AddModule, StopModule
<1>4. ASSUME NEW m \in Module, ModuleStarts(m) PROVE Settled(story)'
  <2>1. m # Root
    BY <1>4, PathAssumption DEF ModuleStarts, Running
  <2> QED BY <1>1, <1>4, <2>1 DEF ModuleStarts
<1> QED BY <1>2, <1>3, <1>4

\* A commit is reported later, or leaves what the watcher was told.
LEMMA CommitDirty ==
    ASSUME PageOK, NEW m \in Module, NEW d \in Data, Commit(m, d)
    PROVE  /\ \A x \in Module \ {m} : Dirty(x) => Dirty(x)'
           /\ Dirty(m)' \/ seen'[m] = d
           /\ d # ledger[m] /\ ~(change # {} /\ d = seen[m]) => Dirty(m)'
<1>1. /\ ledger' = [ledger EXCEPT ![m] = d] /\ ledger'[m] = d
      /\ \A x \in Module \ {m} : ledger'[x] = ledger[x]
  BY DEF Commit, PageOK
<1>2. CASE change = {}
  <2>1. change' = Differences(seen, ledger') /\ seen' = ledger' /\ seen = ledger
    BY <1>1, <1>2 DEF Commit, PageOK
  <2>2. \A x \in Module \ {m} : ~Dirty(x)
    BY <1>2, <2>1 DEF Dirty
  <2>3. d # ledger[m] => Dirty(m)'
    <3>1. d # ledger[m] => <<m, d>> \in change'
      BY <1>1, <2>1 DEF Differences
    <3> QED BY <3>1 DEF Dirty
  <2> QED BY <1>1, <2>1, <2>2, <2>3
<1>3. CASE change # {}
  <2>1. change' = change /\ seen' = seen
    BY <1>3 DEF Commit
  <2> QED BY <1>1, <1>3, <2>1 DEF Dirty
<1> QED BY <1>2, <1>3

LEMMA RemoteSettled ==
    ASSUME TypeInv, SettledInv, Quiet', NEW m \in Module, RemoteWrites(m)
    PROVE  Settled(story)'
<1>1. PICK d \in Data :
             /\ d # ledger[m] /\ Commit(m, d) /\ story' = story /\ raced \subseteq raced'
             /\ change # {} /\ d = seen[m] => "undone" \in raced'
  BY RemoteData DEF TypeInv
<1>2. Settled(story)
  BY <1>1, QuietBefore DEF Quiet, Alive
<1>3. ~(change # {} /\ d = seen[m])
  BY <1>1 DEF Quiet
<1>4. /\ \A x \in Module \ {m} : Dirty(x) => Dirty(x)'
      /\ Dirty(m)'
      /\ \A x \in Module \ {m} : seen'[x] = seen[x]
  BY <1>1, <1>3, CommitDirty, CommitPage DEF TypeInv
<1>5. PICK z : z = story.run.m
  OBVIOUS
<1>6. story.run.pc \in {"answer"} \cup Starting \cup Killing \cup Writing => z \in Module
  BY <1>5 DEF TypeInv, Fit, RunTyped, Apart, Starting, Killing, Writing
<1>7. \A x \in Module : (Dirty(x) \/ Matches(story, x, seen[x])) =>
                           (Dirty(x)' \/ Matches(story, x, seen'[x]))
  BY <1>4
<1>8. \A x \in Module : \A y : (Dirty(x) \/ Agrees(story, x, seen[x], y)) =>
                           (Dirty(x)' \/ Agrees(story, x, seen'[x], y))
  BY <1>4
<1>9. \A x \in Module \ {z} : Dirty(x)' \/ Matches(story, x, seen'[x])
  BY <1>2, <1>5, <1>7 DEF Settled
<1>10. story.run.pc = "answer" => Dirty(z)' \/ Agrees(story, z, seen'[z], story.run.got)
  BY <1>2, <1>5, <1>6, <1>8 DEF Settled
<1>11. story.run.pc \in Starting \cup Killing \/ (story.run.pc \in Writing /\ story.blocked = None) =>
         Dirty(z)' \/ Agrees(story, z, seen'[z], story.run.data)
  BY <1>2, <1>5, <1>6, <1>8 DEF Settled
<1> QED BY <1>1, <1>5, <1>9, <1>10, <1>11 DEF Settled, Dirty

\* A report: the module joins the queue, or its operation goes on, or the page
\* has something newer to report.
LEMMA ReportSettled ==
    ASSUME IInv, TypeInv, SettledInv, Quiet', PageReports
    PROVE  Settled(story)'
<1>1. PICK ops : /\ Grown(story, story', ops)
                 /\ \A y : y \in ops <=> \E c \in change \ {story.blocked} :
                       y = [kind |-> "notification", m |-> c[1], data |-> c[2]]
                 /\ story'.blocked = IF story.blocked \in change THEN None ELSE story.blocked
  BY ReportGrown
<1>2. /\ change' = Differences(seen, ledger) /\ seen' = ledger /\ ledger' = ledger
      /\ raced' = raced /\ Alive
  BY DEF PageReports
<1>3. Settled(story)
  BY <1>2, QuietBefore DEF Alive
<1>4. story.run.pc # "ready" => story.queue # <<>>
  BY <1>2, IInvShape DEF Alive
<1>5. Notes(story') = Notes(story) \cup NotesOf(ops)
  BY <1>1, <1>4, NotesGrown
<1>6. /\ story'.run = story.run /\ story'.track = story.track
      /\ story'.shell = story.shell /\ story'.conns = story.conns
  BY <1>1 DEF Grown
<1>7. \A m, d : Does(story, m, d) => Does(story', m, d)
  BY <1>6 DEF Does, Running, Todo
<1>8. ASSUME NEW m \in Module, ~Dirty(m)'
      PROVE  /\ seen'[m] = seen[m] /\ ledger[m] = seen[m]
             /\ \/ ~Dirty(m)
                \/ Wants(seen[m]) => m \in Notes(story')
                \/ story.blocked = <<m, seen[m]>> /\ story.blocked \in change
  <2>1. seen[m] = ledger[m]
    <3>1. seen[m] # ledger[m] => <<m, ledger[m]>> \in change'
      BY <1>2 DEF Differences
    <3> QED BY <1>8, <3>1 DEF Dirty
  <2>2. ASSUME NEW c \in change, c[1] = m, Wants(seen[m]), c # story.blocked
        PROVE  m \in Notes(story')
    <3> DEFINE op == [kind |-> "notification", m |-> c[1], data |-> c[2]]
    <3>1. op \in ops
      BY <1>1, <2>2
    <3>2. op.kind = "notification" /\ op.m = m /\ op.data = seen[m]
      BY <2>2 DEF TypeInv, PageOK
    <3> HIDE DEF op
    <3>3. m \in NotesOf(ops)
      BY <2>2, <3>1, <3>2 DEF NotesOf, Wants
    <3> QED BY <1>5, <3>3
  <2>3. \A c \in change : c[1] = m => c = <<m, seen[m]>>
    <3> SUFFICES ASSUME NEW c \in change, c[1] = m PROVE c = <<m, seen[m]>>
      OBVIOUS
    <3>1. c \in Module \X Data /\ c[2] = seen[c[1]]
      BY DEF TypeInv, PageOK
    <3> QED BY <3>1
  <2>4. ~Dirty(m) \/ \E c \in change : c[1] = m
    BY <2>1 DEF Dirty
  <2> QED BY <1>2, <2>1, <2>2, <2>3, <2>4
<1>9. story.blocked \in change =>
        /\ story.run.pc \in Writing /\ story.blocked = <<story.run.m, story.run.data>>
  <2>1. story.blocked \in change => story.blocked # None
    BY DataAssumption DEF TypeInv, PageOK
  <2> QED BY <2>1 DEF TypeInv, Fit, RunTyped
<1>10. story.run.pc \in {"answer"} \cup Starting \cup Killing \cup Writing => story.run.m \in Module
  BY DEF TypeInv, Fit, RunTyped, Apart, Starting, Killing, Writing
<1>11. ASSUME NEW m \in Module \ {story.run.m} PROVE Dirty(m)' \/ Matches(story', m, seen'[m])
  <2>1. CASE story.blocked = <<m, seen[m]>> /\ story.blocked \in change
    <3>1. <<m, seen[m]>> = <<story.run.m, story.run.data>>
      BY <1>9, <2>1
    <3> QED BY <3>1
  <2>2. CASE ~Dirty(m) /\ ~Dirty(m)'
    <3>1. Matches(story, m, seen[m])
      BY <1>3, <2>2 DEF Settled
    <3>2. Matches(story', m, seen[m])
      BY <1>5, <1>6, <1>7, <3>1 DEF Matches
    <3> QED BY <1>8, <2>2, <3>2
  <2>3. CASE (Wants(seen[m]) => m \in Notes(story')) /\ ~Dirty(m)'
    BY <1>8, <2>3 DEF Matches
  <2> QED BY <1>8, <2>1, <2>2, <2>3
<1>14. PICK z : z = story.run.m
  OBVIOUS
<1>12. story.run.pc = "answer" =>
         Dirty(z)' \/ Agrees(story', z, seen'[z], story.run.got)
  <2> SUFFICES ASSUME story.run.pc = "answer", ~Dirty(z)'
               PROVE  Agrees(story', z, seen'[z], story.run.got)
    OBVIOUS
  <2>0. z \in Module /\ story.blocked \notin change
    BY <1>9, <1>10, <1>14 DEF Writing
  <2>1. CASE ~Dirty(z)
    <3>1. Agrees(story, z, seen[z], story.run.got)
      BY <1>3, <1>14, <2>1 DEF Settled
    <3>2. Agrees(story', z, seen[z], story.run.got)
      BY <1>5, <3>1 DEF Agrees
    <3> QED BY <1>8, <1>14, <2>0, <3>2
  <2>2. CASE Wants(seen[z]) => z \in Notes(story')
    BY <1>8, <1>14, <2>0, <2>2 DEF Agrees
  <2> QED BY <1>8, <1>14, <2>0, <2>1, <2>2
<1>13. story.run.pc \in Starting \cup Killing \/ (story.run.pc \in Writing /\ story'.blocked = None) =>
         Dirty(z)' \/ Agrees(story', z, seen'[z], story.run.data)
  <2> SUFFICES ASSUME \/ story.run.pc \in Starting \cup Killing
                      \/ story.run.pc \in Writing /\ story'.blocked = None,
                      ~Dirty(z)'
               PROVE  Agrees(story', z, seen'[z], story.run.data)
    OBVIOUS
  <2>0. z \in Module
    BY <1>10, <1>14
  <2>1. CASE story.blocked \in change
    <3>1. story.blocked = <<z, story.run.data>> /\ story.blocked[2] = seen[story.blocked[1]]
      BY <1>9, <1>14, <2>1 DEF TypeInv, PageOK
    <3>2. seen[z] = story.run.data
      BY <3>1
    <3> QED BY <1>8, <1>14, <2>0, <3>2 DEF Agrees
  <2>2. CASE story.blocked \notin change /\ ~Dirty(z)
    <3>0. story'.blocked = story.blocked
      BY <1>1, <2>2
    <3>1. Agrees(story, z, seen[z], story.run.data)
      BY <1>3, <1>14, <2>2, <3>0 DEF Settled
    <3>2. Agrees(story', z, seen[z], story.run.data)
      BY <1>5, <3>1 DEF Agrees
    <3> QED BY <1>8, <1>14, <2>0, <3>2
  <2>3. CASE Wants(seen[z]) => z \in Notes(story')
    BY <1>8, <1>14, <2>0, <2>3 DEF Agrees
  <2> QED BY <1>8, <1>14, <2>0, <2>1, <2>2, <2>3
<1> QED BY <1>6, <1>11, <1>12, <1>13, <1>14 DEF Settled, Dirty

LEMMA ReportsSettled ==
    ASSUME IInv, TypeInv, SettledInv, Quiet', NEW m \in Module, NEW st \in ModuleState,
           ModuleReports(m, st)
    PROVE  Settled(story)'
<1>1. PICK c, ops :
                 /\ c \in Connection /\ Grown(Placed(story, m, c), story', ops)
                 /\ \A op \in ops : op.kind # "notification"
                 /\ story.conns[m] # None /\ c.data = story.conns[m].data
                 /\ story'.blocked = story.blocked
  BY ReportsType
<1> DEFINE p == Placed(story, m, c)
<1>2. /\ p.track = story.track
      /\ p.shell = story.shell /\ p.queue = story.queue /\ p.run = story.run
      /\ p.blocked = story.blocked
      /\ p.conns[m] = c /\ \A x \in Module \ {m} : p.conns[x] = story.conns[x]
  <2>1. ledger[m] # None
    BY <1>1 DEF TypeInv, Fit, Body, ConnsOK
  <2> QED BY <1>1, <2>1, IInvShape, PlacedKeeps DEF TypeInv, Fit
<1> HIDE DEF p
<1>3. c # None
  BY <1>1, DataAssumption
<1>4. UNCHANGED <<ledger, seen, change, raced>>
  BY DEF ModuleReports
<1>5. story'.run = story.run
  BY <1>1, <1>2 DEF Grown, p
<1>6. story.run.pc # "gone"
  BY <1>5 DEF Quiet, Alive
<1>7. Settled(story)
  BY <1>4, <1>6, QuietBefore
<1>8. \A x \in Module : \A d : Does(story, x, d) => Does(p, x, d)
  BY <1>1, <1>2, <1>3, DoesSame
<1>9. Notes(p) = Notes(story)
  BY <1>2 DEF Notes, Ahead
<1>10. \A x \in Module : \A d : Matches(story, x, d) => Matches(p, x, d)
  BY <1>2, <1>8, <1>9 DEF Matches
<1>11. Settled(p)
  BY <1>2, <1>7, <1>9, <1>10 DEF Settled, Agrees
<1>12. Settled(story')
  BY <1>1, <1>2, <1>6, <1>11, IInvShape, GrownSettled DEF p
<1> QED BY <1>4, <1>12, SameSettled

LEMMA ShellSettled ==
    ASSUME IInv, SettledInv, Quiet', ShellDies
    PROVE  Settled(story)'
<1>1. /\ story'.track = story.track
      /\ (story'.shell = "none" <=> story.shell = "none") /\ story'.conns = story.conns /\ story'.run = story.run
      /\ story'.queue = story.queue /\ story'.blocked = story.blocked
      /\ UNCHANGED <<ledger, seen, change>> /\ raced \subseteq raced'
      /\ story.run.pc = "defocus"
  BY IInvShape DEF ShellDies, Shape, At
<1>2. Settled(story)
  BY <1>1, QuietBefore
<1>3. \A m \in Module : \A d : Does(story, m, d) => Does(story', m, d)
  BY <1>1 DEF Does, Running, Todo
<1>4. Notes(story') = Notes(story)
  BY <1>1 DEF Notes, Ahead
<1>5. Settled(story')
  BY <1>1, <1>2, <1>3, <1>4 DEF Settled, Matches, Agrees
<1> QED BY <1>1, <1>5, SameSettled

\* An operation that is not about a module ends where it began.
LEMMA EndSettled ==
    ASSUME NEW s, Settled(s), s.run.pc = "ready", s.run = Idle, Shape(s), QueueOK(s.queue),
           s.queue # <<>>,
           Head(s.queue).kind # "notification" \/ Head(s.queue).data.how # "external"
    PROVE  AllDone(s) /\ Settled(Done(s))
<1>1. s.run.m = None /\ s.run.todo = <<>>
  BY IdleFacts
<1>2. AllDone(s)
  BY <1>1, ReadySettled DEF AllDone
<1> QED BY <1>1, <1>2, DoneSettled

LEMMA SaveSettled ==
    ASSUME IInv, SettledInv, Quiet', SaveState
    PROVE  Settled(story)'
<1> DEFINE s == [story EXCEPT !.saved = Head(story.queue).state]
<1>1. /\ story.run.pc = "ready" /\ story.queue # <<>> /\ UNCHANGED <<ledger, seen, change, raced>>
      /\ Head(story.queue).kind = "save" /\ story' = Done(s)
  BY DEF SaveState, Begins, At, Only, Becomes
<1>2. /\ DOMAIN s = DOMAIN story /\ s.track = story.track
      /\ s.shell = story.shell /\ s.conns = story.conns
      /\ s.queue = story.queue /\ s.run = story.run /\ s.blocked = story.blocked
  BY IInvShape DEF Shape
<1> HIDE DEF s
<1>3. Settled(story)
  BY <1>1, QuietBefore
<1>4. AllDone(story)
  BY <1>1, <1>3, IInvShape, EndSettled
<1>5. \A m \in Module : \A d : Does(story, m, d) => Does(s, m, d)
  BY <1>2 DEF Does, Running, Todo
<1>6. AllDone(s) /\ Shape(s) /\ s.run.todo = <<>>
  BY <1>1, <1>2, <1>4, <1>5, IInvShape, IdleFacts DEF AllDone, Shape
<1>7. Settled(story')
  BY <1>1, <1>6, DoneSettled
<1> QED BY <1>1, <1>7, SameSettled

LEMMA StartSettled ==
    ASSUME IInv, SettledInv, Quiet', StartRuns
    PROVE  Settled(story)'
<1>1. /\ story.run.pc = "ready" /\ story.queue # <<>> /\ UNCHANGED <<ledger, seen, change>>
      /\ Head(story.queue).kind = "start" /\ raced \subseteq raced'
  BY DEF StartRuns, Begins, At, Only, Becomes
<1>2. Settled(story)
  BY <1>1, QuietBefore
<1>3. AllDone(story) /\ Settled(Done(story))
  BY <1>1, <1>2, IInvShape, EndSettled
<1>4. CASE story' = Done(story)
  BY <1>1, <1>3, <1>4, SameSettled
<1>5. CASE story' = [story EXCEPT !.track = TRUE, !.shell = "up", !.run.pc = "readAll"]
  <2>1. /\ story'.conns = story.conns /\ story'.queue = story.queue
        /\ story'.run.pc = "readAll"
    BY <1>5, IInvShape DEF Shape
  <2>2. Notes(story') = NotesOf(ToSet(Tail(story.queue)))
    BY <2>1 DEF Notes, Ahead
  <2>3. \A m \in Module : \A d : Does(story, m, d) /\ d.stopped => Does(story', m, d)
    BY <2>1 DEF Does, Running
  <2>4. \A m \in Module : Dirty(m) \/ Matches(story', m, seen[m])
    BY <1>3, <2>1, <2>2, <2>3 DEF AllDone, Matches
  <2>5. Settled(story')
    BY <2>1, <2>4 DEF Settled, Starting, Killing, Writing
  <2> QED BY <1>1, <2>5, SameSettled
<1> QED BY <1>4, <1>5 DEF StartRuns, Only, Becomes

LEMMA StartReadsSettled ==
    ASSUME IInv, TypeInv, SettledInv, Quiet', StartReads
    PROVE  Settled(story)'
<1>1. UNCHANGED <<ledger, seen, change, raced>> /\ story.run.pc = "readAll"
  BY StartReadsEffect
<1>2. PICK s, op :
                 /\ story' = StartNext(s) /\ op.kind = "save" /\ s.track = story.track
                 /\ s.shell = story.shell
                 /\ Shape(s) /\ s.conns = story.conns
                 /\ ToSet(Tail(s.queue)) = ToSet(Tail(story.queue)) \cup {op}
                 /\ s.run.todo \in Seq(Module \X Data)
                 /\ ToSet(s.run.todo) = {<<m, ledger[m]>> : m \in Wanted}
  BY StartReadsEffect
<1>3. Settled(story) /\ story.run.m = None
  BY <1>1, QuietBefore DEF TypeInv, Fit, RunTyped, Apart
<1>4. Notes(story) \subseteq NotesOf(ToSet(Tail(s.queue)))
  BY <1>1, <1>2, NotesMore DEF Notes, Ahead
<1>5. ASSUME NEW m \in Wanted PROVE m \in Todo(s)
  <2>1. <<m, ledger[m]>> \in ToSet(s.run.todo) /\ <<m, ledger[m]>>[1] = m
    BY <1>2
  <2> QED BY <2>1 DEF Todo
<1>6. ASSUME NEW m \in Module, ~Dirty(m), Wants(seen[m]), m \notin NotesOf(ToSet(Tail(s.queue)))
      PROVE  Does(s, m, seen[m])
  <2>1. ledger[m] = seen[m]
    BY <1>6 DEF Dirty
  <2>2. Matches(story, m, seen[m])
    BY <1>3, <1>6, PathAssumption DEF Settled
  <2>3. CASE ~seen[m].stopped
    <3>1. m \in Todo(s)
      BY <1>5, <1>6, <2>1, <2>3 DEF Wanted, Wants
    <3> QED BY <2>3, <3>1 DEF Does
  <2>4. CASE seen[m].stopped
    <3>1. m \notin Running(story)
      BY <1>4, <1>6, <2>2, <2>4 DEF Matches, Does
    <3> QED BY <1>2, <2>4, <3>1 DEF Does, Running
  <2> QED BY <2>3, <2>4
<1>7. AllDone(s)
  BY <1>6 DEF AllDone
<1>8. Settled(story')
  BY <1>2, <1>7, NextSettled
<1> QED BY <1>1, <1>8, SameSettled

\* An operation begins that is about a module.
LEMMA BeginsSettled ==
    ASSUME NEW s, NEW t, Settled(s), s.run.pc = "ready", s.run = Idle, Shape(s), QueueOK(s.queue),
           s.queue # <<>>, Moved(s, t), t.run.m = Head(s.queue).m,
           t.run.pc \notin {"ready", "answer"},
           t.run.pc \in Starting \cup Killing \/ (t.run.pc \in Writing /\ t.blocked = None) =>
               Dirty(t.run.m) \/ Agrees(t, t.run.m, seen[t.run.m], t.run.data)
    PROVE  Settled(t)
<1>1. s.run.m = None /\ s.run.todo = <<>>
  BY IdleFacts
<1>2. Notes(t) = NotesOf(ToSet(Tail(s.queue)))
  BY DEF Notes, Ahead, Moved
<1>3. \A m \in Module : \A d : Does(s, m, d) => Does(t, m, d)
  BY DoesSame DEF Moved
<1>4. \A m \in Module \ {t.run.m} : Dirty(m) \/ Matches(t, m, seen[m])
  <2> SUFFICES ASSUME NEW m \in Module \ {t.run.m} PROVE Dirty(m) \/ Matches(t, m, seen[m])
    OBVIOUS
  <2>1. Dirty(m) \/ (Wants(seen[m]) => m \in NotesOf(ToSet(Tail(s.queue))) \/ Does(s, m, seen[m]))
    BY <1>1, ReadySettled
  <2> QED BY <1>2, <1>3, <2>1 DEF Matches
<1> QED BY <1>4 DEF Settled

LEMMA BeginSettled ==
    ASSUME IInv, TypeInv, SettledInv, Quiet', StartModuleRuns \/ AddRuns \/ StopModuleRuns
    PROVE  Settled(story)'
<1> DEFINE op == Head(story.queue)
<1>1. /\ UNCHANGED <<ledger, seen, change, raced>>
      /\ story.run.pc = "ready" /\ story.queue # <<>> /\ op.kind # "notification"
      /\ Moved(story, story') /\ story'.run.m = op.m
  BY BeginEffect
<1>2. \/ story'.run.pc = "read"
      \/ /\ op.kind = "add" /\ story'.run.pc = "write" /\ story'.blocked = <<op.m, op.data>>
  BY BeginEffect
<1>3. op.kind = "add" => <<op.m, op.data>> # None
  <2> SUFFICES ASSUME op.kind = "add" PROVE <<op.m, op.data>> # None
    OBVIOUS
  <2>1. op.m \in Module /\ op.data \in Data
    BY <1>1, ReadyFacts DEF OpOK
  <2> QED BY <2>1, DataAssumption
<1>4. Settled(story)
  BY <1>1, QuietBefore
<1> HIDE DEF op
<1>5. ~(story'.run.pc \in Starting \cup Killing \/ (story'.run.pc \in Writing /\ story'.blocked = None))
      /\ story'.run.pc \notin {"ready", "answer"}
  BY <1>2, <1>3 DEF Starting, Killing, Writing
<1>6. Settled(story')
  BY <1>1, <1>4, <1>5, IInvShape, BeginsSettled DEF op
<1> QED BY <1>1, <1>6, SameSettled

LEMMA NotificationSettled ==
    ASSUME IInv, TypeInv, SettledInv, Quiet', NotificationRuns
    PROVE  Settled(story)'
<1> DEFINE op == Head(story.queue)
<1>1. /\ UNCHANGED <<ledger, seen, change>> /\ raced \subseteq raced'
      /\ story.run.pc = "ready" /\ story.queue # <<>> /\ op.kind = "notification"
  BY NotificationEffect
<1>2. Settled(story) /\ story.run = Idle
  BY <1>1, QuietBefore, IInvShape
<1>3. "ignored" \notin raced' /\ "stale" \notin raced'
  BY DEF Quiet
<1>4. story.run.m = None /\ story.run.todo = <<>>
  BY <1>2, IdleFacts
<1>5. CASE story' = Done(story) /\ op.data.how # "external"
  <2>1. Settled(Done(story))
    BY <1>1, <1>2, <1>5, IInvShape, EndSettled
  <2> QED BY <1>1, <1>5, <2>1, SameSettled
<1>6. CASE /\ story' = Done(story) /\ op.data = ledger[op.m] /\ op.data.stopped
           /\ op.m \notin Running(story)
  <2>1. ASSUME NEW m \in Module, ~Dirty(m), Wants(seen[m]), m \notin NotesOf(ToSet(Tail(story.queue)))
        PROVE  Does(story, m, seen[m])
    <3>1. CASE m = op.m
      <4>1. seen[m] = op.data
        BY <1>6, <2>1, <3>1 DEF Dirty
      <4> QED BY <1>6, <3>1, <4>1 DEF Does
    <3>2. CASE m # op.m
      BY <1>1, <1>2, <1>4, <2>1, <3>2, IInvShape, ReadySettled
    <3> QED BY <3>1, <3>2
  <2>2. AllDone(story)
    BY <2>1 DEF AllDone
  <2>3. Settled(story')
    BY <1>4, <1>6, <2>2, IInvShape, DoneSettled
  <2> QED BY <1>1, <2>3, SameSettled
<1>7. CASE /\ Moved(story, story') /\ story'.blocked = None
           /\ story'.run.pc = "kill" /\ story'.run.m = op.m /\ story'.run.data = op.data
           /\ op.data = ledger[op.m]
  <2>1. Dirty(op.m) \/ seen[op.m] = op.data
    BY <1>7 DEF Dirty
  <2>2. Dirty(story'.run.m) \/ Agrees(story', story'.run.m, seen[story'.run.m], story'.run.data)
    BY <1>7, <2>1 DEF Agrees
  <2>3. Settled(story')
    BY <1>1, <1>2, <1>7, <2>2, IInvShape, BeginsSettled
  <2> QED BY <1>1, <2>3, SameSettled
<1>8. CASE /\ Moved(story, story') /\ story'.blocked = None
           /\ story'.run.pc = "read" /\ story'.run.m = op.m
  <2>1. ~(story'.run.pc \in Starting \cup Killing \cup Writing)
    BY <1>8 DEF Starting, Killing, Writing
  <2>2. Settled(story')
    BY <1>1, <1>2, <1>8, <2>1, IInvShape, BeginsSettled
  <2> QED BY <1>1, <2>2, SameSettled
<1> QED BY <1>3, <1>5, <1>6, <1>7, <1>8, NotificationEffect

\* The steps in which an operation goes on with its module.
LEMMA MovesSettled ==
    ASSUME Settled(story), Moved(story, story'), story'.run.m = story.run.m,
           story.run.pc \notin {"ready", "readAll"}, story'.run.pc \notin {"ready", "readAll"},
           story'.run.pc = "answer" =>
               Dirty(story.run.m) \/ Agrees(story, story.run.m, seen[story.run.m], story'.run.got),
           \/ story'.run.pc \in Starting \cup Killing
           \/ story'.run.pc \in Writing /\ story'.blocked = None
           => Dirty(story.run.m) \/ Agrees(story, story.run.m, seen[story.run.m], story'.run.data)
    PROVE  Settled(story')
<1>1. \A m \in Module : \A d : Does(story, m, d) => Does(story', m, d)
  BY DoesSame DEF Moved
<1>2. Notes(story') = Notes(story)
  BY DEF Notes, Ahead, Moved
<1>3. \A m, d, x : Agrees(story, m, d, x) => Agrees(story', m, d, x)
  BY <1>2 DEF Agrees
<1> QED BY <1>1, <1>3, GoesOnSettled DEF Moved

LEMMA ReadSettled ==
    ASSUME IInv, TypeInv, SettledInv, Quiet', DataRead
    PROVE  Settled(story)'
<1>1. /\ UNCHANGED <<ledger, seen, change, raced>> /\ Moved(story, story')
      /\ story.run.pc = "read" /\ story'.run.pc = "answer" /\ story'.run.m = story.run.m
      /\ story'.run.got = ledger[story.run.m]
  BY ReadEffect
<1>2. Settled(story)
  BY <1>1, QuietBefore
<1>3. Dirty(story.run.m) \/ Agrees(story, story.run.m, seen[story.run.m], story'.run.got)
  BY <1>1 DEF Dirty, Agrees
<1>4. ~(story'.run.pc \in Starting \cup Killing \cup Writing)
  BY <1>1 DEF Starting, Killing, Writing
<1>5. Settled(story')
  BY <1>1, <1>2, <1>3, <1>4, MovesSettled
<1> QED BY <1>1, <1>5, SameSettled

LEMMA AnswerSettled ==
    ASSUME IInv, TypeInv, SettledInv, Quiet', DataAnswered
    PROVE  Settled(story)'
<1>1. /\ UNCHANGED <<ledger, seen, change, raced>> /\ Moved(story, story')
      /\ story.run.pc = "answer" /\ story'.run.m = story.run.m
  BY AnswerEffect
<1>2. \/ story'.run.pc \in {"kill", "launch"} /\ story'.run.data = story.run.got
      \/ story'.run.pc = "write" /\ story'.blocked = <<story.run.m, story'.run.data>>
  BY AnswerEffect
<1>3. Settled(story)
  BY <1>1, QuietBefore
<1>4. Dirty(story.run.m) \/ Agrees(story, story.run.m, seen[story.run.m], story.run.got)
  BY <1>1, <1>3 DEF Settled
<1>5. story'.run.pc = "write" => story'.blocked # None
  <2>1. TypeInv'
    BY AnswerType
  <2>2. story'.run.pc = "write" => story'.run.m \in Module /\ story'.run.data \in Data
    BY <2>1 DEF TypeInv, Fit, RunTyped, Apart, Writing
  <2>3. story'.run.pc = "write" => story'.blocked = <<story'.run.m, story'.run.data>>
    BY <1>1, <1>2
  <2>4. story'.run.pc = "write" => <<story'.run.m, story'.run.data>> \in Module \X Data
    BY <2>2
  <2> QED BY <2>3, <2>4, DataAssumption
<1>6. Settled(story')
  BY <1>1, <1>2, <1>3, <1>4, <1>5, MovesSettled DEF Starting, Killing, Writing
<1> QED BY <1>1, <1>6, SameSettled

LEMMA ReportedSettled ==
    ASSUME IInv, TypeInv, SettledInv, Quiet', DataReported
    PROVE  Settled(story)'
<1>1. /\ UNCHANGED <<ledger, seen, change>> /\ raced \subseteq raced'
      /\ story.run.pc = "blocked" /\ story.blocked = None
  BY ReportedEffect
<1>2. "ignored" \notin raced'
  BY DEF Quiet
<1>3. /\ Moved(story, story') /\ story'.run.m = story.run.m
      /\ \/ story'.run.pc \in {"kill", "launch"} /\ story'.run.data = story.run.data
         \/ story'.run.pc = "read"
  BY <1>2, ReportedEffect
<1>4. Settled(story)
  BY <1>1, QuietBefore
<1>5. Dirty(story.run.m) \/ Agrees(story, story.run.m, seen[story.run.m], story.run.data)
  BY <1>1, <1>4 DEF Settled, Writing
<1>6. Settled(story')
  BY <1>1, <1>3, <1>4, <1>5, MovesSettled DEF Starting, Killing, Writing
<1> QED BY <1>1, <1>6, SameSettled

LEMMA WriteSettled ==
    ASSUME IInv, TypeInv, SettledInv, Quiet', DataWritten \/ WriteFails
    PROVE  Settled(story)'
<1>1. /\ Moved(story, story') /\ raced \subseteq raced'
      /\ story.run.pc = "write" /\ story'.run.pc = "blocked" /\ story'.run.m = story.run.m
      /\ story'.run.data = story.run.data /\ story'.blocked = story.blocked
      /\ story.run.m \in Module /\ story.run.data \in Data
  BY PutEffect
<1>2. Settled(story)
  BY <1>1, QuietBefore
<1>3. Settled(story')
  <2>1. story.blocked = None =>
          Dirty(story.run.m) \/ Agrees(story, story.run.m, seen[story.run.m], story.run.data)
    BY <1>1, <1>2 DEF Settled, Writing
  <2> QED BY <1>1, <1>2, <2>1, MovesSettled DEF Starting, Killing, Writing
<1>4. CASE UNCHANGED <<ledger, seen, change>>
  BY <1>3, <1>4, SameSettled
<1>5. CASE Commit(story.run.m, story.run.data)
  <2>1. PICK z \in Module : z = story.run.m
    BY <1>1
  <2>2. PICK d \in Data : d = story.run.data
    BY <1>1
  <2>3. Commit(z, d)
    BY <1>5, <2>1, <2>2
  <2>4. /\ \A x \in Module \ {z} : Dirty(x) => Dirty(x)'
        /\ Dirty(z)' \/ seen'[z] = d
        /\ \A x \in Module \ {z} : seen'[x] = seen[x]
    BY <2>3, CommitDirty, CommitPage DEF TypeInv
  <2>5. story'.run.m = z /\ story'.run.data = d
    BY <1>1, <2>1, <2>2
  <2>6. \A x \in Module \ {z} : Dirty(x)' \/ Matches(story', x, seen'[x])
    BY <1>3, <2>4, <2>5 DEF Settled
  <2>7. Dirty(z)' \/ Agrees(story', z, seen'[z], d)
    BY <2>4 DEF Agrees
  <2> QED BY <1>1, <2>5, <2>6, <2>7 DEF Settled, Dirty, Starting, Killing, Writing
<1> QED BY <1>4, <1>5, PutEffect

\* The module of the operation was launched.
LEMMA LaunchDone ==
    ASSUME NEW s, Shape(s), QueueOK(s.queue), s.queue # <<>>, Body(s, ledger),
           NEW m \in Module, NEW d \in Data, ~d.stopped, ledger[m] # None,
           \A x \in Module \ {m} :
               Dirty(x) \/ (Wants(seen[x]) => x \in NotesOf(ToSet(Tail(s.queue)))
                                              \/ Does(s, x, seen[x])),
           Dirty(m) \/ (Wants(seen[m]) => m \in NotesOf(ToSet(Tail(s.queue))) \/ seen[m] = d)
    PROVE  Settled(Started(Launch(s, m, d)))
<1> DEFINE t == Launch(s, m, d)
           c == [data |-> d, st |-> "STARTING", down |-> FALSE]
           p == Placed(s, m, c)
<1>1. Shape(t) /\ Body(t, ledger) /\ c \in Connection
  BY LaunchKeeps
<1>2. PICK ops : Grown(p, t, ops)
  BY LaunchKeeps
<1>3. c.data = d
  OBVIOUS
<1> HIDE DEF t, c
<1>4. /\ p.track = s.track /\ p.shell = s.shell /\ p.queue = s.queue /\ p.run = s.run
      /\ p.conns[m] = c /\ \A x \in Module \ {m} : p.conns[x] = s.conns[x]
  BY <1>1, PlacedKeeps
<1> HIDE DEF p
<1>5. /\ t.track = s.track /\ t.shell = s.shell /\ t.run = s.run
      /\ t.conns[m] = c /\ \A x \in Module \ {m} : t.conns[x] = s.conns[x]
      /\ ToSet(Tail(t.queue)) = ToSet(Tail(s.queue)) \cup ops
  BY <1>2, <1>4 DEF Grown
<1>6. NotesOf(ToSet(Tail(s.queue))) \subseteq NotesOf(ToSet(Tail(t.queue)))
  BY <1>5, NotesMore
<1>7. \A x \in Module \ {m} : \A e : Does(s, x, e) => Does(t, x, e)
  BY <1>5 DEF Does, Running, Todo
<1>8. c # None
  BY <1>1, DataAssumption
<1>9. Does(t, m, d)
  BY <1>3, <1>5, <1>8 DEF Does, Running
<1>10. AllDone(t)
  BY <1>6, <1>7, <1>9 DEF AllDone
<1>11. t.run.todo \in Seq(Module \X Data)
  BY <1>1 DEF Body, TodoOK
<1> QED BY <1>1, <1>10, <1>11, StartedSettled DEF t

LEMMA LaunchSettled ==
    ASSUME IInv, TypeInv, SettledInv, Quiet', LaunchRuns
    PROVE  Settled(story)'
<1> DEFINE m == story.run.m
           d == story.run.data
<1>1. /\ story.run.pc = "launch" /\ story.queue # <<>> /\ UNCHANGED <<ledger, seen, change>>
      /\ raced \subseteq raced'
  BY DEF LaunchRuns, At, Becomes
<1>2. m \in Module /\ d \in Data /\ ledger[m] # None /\ ~d.stopped
  BY <1>1, LaunchFacts DEF Starting
<1>3. Settled(story)
  BY <1>1, QuietBefore
<1>4. Notes(story) = NotesOf(ToSet(Tail(story.queue)))
  BY <1>1 DEF Notes, Ahead
<1>5. Dirty(m) \/ Agrees(story, m, seen[m], d)
  BY <1>1, <1>3 DEF Settled, Starting
<1>6. \A x \in Module \ {m} :
        Dirty(x) \/ (Wants(seen[x]) => x \in NotesOf(ToSet(Tail(story.queue)))
                                       \/ Does(story, x, seen[x]))
  BY <1>1, <1>3, <1>4 DEF Settled, Matches
<1>7. \/ story' = Started(Launch(story, m, d))
      \/ /\ m \in Running(story) /\ story' = [Teardown(story, {m}) EXCEPT !.run.pc = "relaunch"]
      \/ m \in Running(story) /\ story.conns[m].data.url = d.url /\ story' = Started(story)
  BY DEF LaunchRuns, Becomes
<1>8. CASE story' = Started(Launch(story, m, d))
  <2>1. Body(story, ledger)
    BY DEF TypeInv, Fit
  <2>2. Dirty(m) \/ (Wants(seen[m]) => m \in NotesOf(ToSet(Tail(story.queue))) \/ seen[m] = d)
    BY <1>4, <1>5 DEF Agrees
  <2>3. Settled(story')
    BY <1>1, <1>2, <1>6, <1>8, <2>1, <2>2, IInvShape, LaunchDone
  <2> QED BY <1>1, <2>3, SameSettled
<1>9. CASE m \in Running(story) /\ story' = [Teardown(story, {m}) EXCEPT !.run.pc = "relaunch"]
  <2>1. /\ story'.track = story.track /\ story'.shell = story.shell /\ story'.queue = story.queue
        /\ story'.run.pc = "relaunch" /\ story'.run.m = story.run.m
        /\ story'.run.data = story.run.data /\ story'.run.todo = story.run.todo
        /\ \A x \in Module : /\ story'.conns[x] = None <=> story.conns[x] = None
                             /\ story.conns[x] # None =>
                                   story'.conns[x].data = story.conns[x].data
    BY <1>1, <1>9, TearFit
  <2>2. \A x \in Module : \A e : Does(story, x, e) => Does(story', x, e)
    BY <2>1, DoesSame
  <2>3. Notes(story') = Notes(story)
    BY <1>1, <2>1 DEF Notes, Ahead
  <2>4. Dirty(m) \/ Agrees(story', m, seen[m], d)
    BY <1>5, <2>3 DEF Agrees
  <2>5. Settled(story')
    BY <1>1, <1>3, <2>1, <2>2, <2>4, GoesOnSettled DEF Starting, Killing, Writing
  <2> QED BY <1>1, <2>5, SameSettled
<1>10. CASE m \in Running(story) /\ story.conns[m].data.url = d.url /\ story' = Started(story)
  <2>1. Does(story, m, d)
    BY <1>2, <1>10 DEF Does
  <2>2. AllDone(story)
    BY <1>4, <1>5, <1>6, <2>1 DEF AllDone, Agrees
  <2>3. story.run.todo \in Seq(Module \X Data)
    BY DEF TypeInv, Fit, Body, TodoOK
  <2>4. Settled(story')
    BY <1>10, <2>2, <2>3, IInvShape, StartedSettled
  <2> QED BY <1>1, <2>4, SameSettled
<1> QED BY <1>7, <1>8, <1>9, <1>10

LEMMA KillSettled ==
    ASSUME IInv, TypeInv, SettledInv, Quiet', KillRuns \/ ViewDefocused
    PROVE  Settled(story)'
<1> DEFINE m == story.run.m
           d == story.run.data
<1>1. /\ UNCHANGED <<ledger, seen, change, raced>> /\ story.run.pc \in {"kill", "defocus"}
      /\ story.queue # <<>> /\ m \in Module /\ d \in Data /\ d.stopped /\ story.run.todo = <<>>
  BY KillEffect
<1>2. Settled(story)
  BY <1>1, QuietBefore
<1>3. Dirty(m) \/ Agrees(story, m, seen[m], d)
  BY <1>1, <1>2 DEF Settled, Killing
<1>4. CASE story' = [story EXCEPT !.run.pc = "defocus"]
  <2>1. /\ Moved(story, story') /\ story'.blocked = story.blocked /\ story'.run.pc = "defocus"
        /\ story'.run.m = m /\ story'.run.data = d
    BY <1>4, IInvShape, StepMoves
  <2>2. Settled(story')
    BY <1>1, <1>2, <1>3, <2>1, MovesSettled
  <2> QED BY <1>1, <2>2, SameSettled
<1>5. CASE m \in Running(story) /\ story' = [Teardown(story, {m}) EXCEPT !.run.pc = "killing"]
  <2>1. /\ story'.track = story.track /\ story'.shell = story.shell /\ story'.queue = story.queue
        /\ story'.run.pc = "killing" /\ story'.run.m = story.run.m
        /\ story'.run.data = story.run.data /\ story'.run.todo = story.run.todo
        /\ \A x \in Module : /\ story'.conns[x] = None <=> story.conns[x] = None
                             /\ story.conns[x] # None =>
                                   story'.conns[x].data = story.conns[x].data
    BY <1>1, <1>5, TearFit
  <2>2. \A x \in Module : \A e : Does(story, x, e) => Does(story', x, e)
    BY <2>1, DoesSame
  <2>3. Notes(story') = Notes(story)
    BY <1>1, <2>1 DEF Notes, Ahead
  <2>4. Dirty(m) \/ Agrees(story', m, seen[m], d)
    BY <1>3, <2>3 DEF Agrees
  <2>5. Settled(story')
    BY <1>1, <1>2, <2>1, <2>2, <2>4, GoesOnSettled
  <2> QED BY <1>1, <2>5, SameSettled
<1>6. CASE m \notin Running(story) /\ story' = Done(story)
  <2>1. Does(story, m, d)
    BY <1>1, <1>6 DEF Does
  <2>2. AllDone(story)
    BY <1>1, <1>2, <1>3, <2>1, AllDoneOf DEF Agrees
  <2>3. Settled(story')
    BY <1>1, <1>6, <2>2, IInvShape, DoneSettled
  <2> QED BY <1>1, <2>3, SameSettled
<1> QED BY <1>4, <1>5, <1>6, KillEffect

LEMMA StopSettled ==
    ASSUME IInv, TypeInv, SettledInv, Quiet', StopRuns
    PROVE  Settled(story)'
<1>1. /\ UNCHANGED <<ledger, seen, change, raced>> /\ story.run.pc = "ready"
      /\ story.queue # <<>> /\ Head(story.queue).kind \in {"stop", "delete"}
      /\ story'.track = FALSE /\ story'.queue = story.queue
      /\ story'.run.pc \in {"stopShell", "stopping"}
      /\ \A m \in Module : story'.conns[m] = None <=> story.conns[m] = None
  BY StopEffect
<1>2. Settled(story)
  BY <1>1, QuietBefore
<1>3. AllDone(story)
  BY <1>1, <1>2, IInvShape, EndSettled
<1>4. Notes(story') = NotesOf(ToSet(Tail(story.queue)))
  BY <1>1 DEF Notes, Ahead
<1>5. \A m \in Module : \A d : Does(story, m, d) => Does(story', m, d)
  BY <1>1 DEF Does, Running
<1>6. \A m \in Module : Dirty(m) \/ Matches(story', m, seen[m])
  BY <1>3, <1>4, <1>5 DEF AllDone, Matches
<1>7. Settled(story')
  BY <1>1, <1>6 DEF Settled, Starting, Killing, Writing
<1> QED BY <1>1, <1>7, SameSettled

LEMMA CleanupSettled ==
    ASSUME IInv, TypeInv, SettledInv, Quiet', StopEnds
    PROVE  Settled(story)'
<1>1. /\ UNCHANGED <<ledger, seen, change, raced>> /\ story.run.pc = "stopShell"
      /\ ~story.track /\ story.run.todo = <<>>
  BY CleanupEffect DEF TypeInv, Fit, RunTyped, Apart
<1>2. story'.run.pc # "gone"
  BY DEF Quiet, Alive
<1>3. PICK s : /\ story' = Done(s) /\ s.track = story.track /\ s.shell = "none" /\ Shape(s)
               /\ s.conns = [m \in Module |-> None] /\ s.run = story.run
  BY <1>2, CleanupEffect
<1>4. \A m \in Module : \A d : Does(s, m, d)
  BY <1>1, <1>3 DEF Does, Running
<1>5. AllDone(s)
  BY <1>4 DEF AllDone
<1>6. Settled(story')
  BY <1>1, <1>3, <1>5, DoneSettled
<1> QED BY <1>1, <1>6, SameSettled

LEMMA DownSettled ==
    ASSUME IInv, TypeInv, SettledInv, Quiet', NEW m \in Module, ModuleDown(m)
    PROVE  Settled(story)'
<1>1. /\ UNCHANGED <<ledger, seen, change>> /\ raced \subseteq raced' /\ story.conns[m] # None
      /\ story.run.pc \in {"relaunch", "killing"} => m = story.run.m
  BY DownEffect
<1>2. PICK s :
        /\ Without(s, m)
        /\ \/ story.run.pc = "relaunch" /\ story' = Started(Launch(s, m, s.run.data))
           \/ story.run.pc = "killing" /\ story' = Done(s)
           \/ /\ story.run.pc = "stopping"
              /\ story' = IF Running(s) = {} THEN [s EXCEPT !.run.pc = "stopShell"] ELSE s
  BY DownEffect
<1>3. /\ Shape(s) /\ QueueOK(s.queue) /\ s.queue # <<>> /\ s.track = story.track
      /\ s.shell = story.shell
      /\ s.run = story.run /\ Body(s, ledger) /\ s.conns[m] = None
      /\ \A x \in Module \ {m} : s.conns[x] = story.conns[x]
  BY <1>2 DEF Without
<1>4. Settled(story)
  BY <1>1, <1>2, QuietBefore
<1>5. Notes(story) \subseteq NotesOf(ToSet(Tail(s.queue)))
  <2>1. PICK ops : ToSet(Tail(s.queue)) = ToSet(Tail(story.queue)) \cup ops
    BY <1>2 DEF Without
  <2> QED BY <1>2, <2>1, NotesMore DEF Notes, Ahead
<1>6. \A x \in Module \ {m} : \A d : Does(story, x, d) => Does(s, x, d)
  BY <1>3 DEF Does, Running, Todo
<1>7. m \notin Running(s)
  BY <1>3 DEF Running
<1>8. \A x \in Module \ {story.run.m, m} :
        Dirty(x) \/ (Wants(seen[x]) => x \in NotesOf(ToSet(Tail(s.queue))) \/ Does(s, x, seen[x]))
  BY <1>2, <1>4, <1>5, <1>6 DEF Settled, Matches
<1>9. story.run.pc \in {"relaunch", "killing"} =>
        Dirty(m) \/ (Wants(seen[m]) => m \in NotesOf(ToSet(Tail(s.queue)))
                                       \/ seen[m] = story.run.data)
  BY <1>1, <1>4, <1>5 DEF Settled, Agrees, Starting, Killing
<1>10. CASE story.run.pc = "relaunch" /\ story' = Started(Launch(s, m, s.run.data))
  <2>1. story.run.data \in Data /\ ~story.run.data.stopped /\ ledger[m] # None
    BY <1>1, <1>10, LaunchFacts DEF Starting
  <2>2. \A x \in Module \ {m} :
          Dirty(x) \/ (Wants(seen[x]) => x \in NotesOf(ToSet(Tail(s.queue))) \/ Does(s, x, seen[x]))
    BY <1>1, <1>8, <1>10
  <2>3. Settled(story')
    BY <1>3, <1>9, <1>10, <2>1, <2>2, LaunchDone
  <2> QED BY <1>1, <2>3, SameSettled
<1>11. CASE story.run.pc = "killing" /\ story' = Done(s)
  <2>1. story.run.data.stopped /\ story.run.todo = <<>>
    BY <1>11 DEF TypeInv, Fit, RunTyped, Killing
  <2>2. Does(s, m, story.run.data)
    BY <1>7, <2>1 DEF Does
  <2>3. AllDone(s)
    BY <1>1, <1>8, <1>9, <1>11, <2>2 DEF AllDone
  <2>4. Settled(story')
    BY <1>3, <1>11, <2>1, <2>3, DoneSettled
  <2> QED BY <1>1, <2>4, SameSettled
<1>12. CASE /\ story.run.pc = "stopping"
            /\ story' = IF Running(s) = {} THEN [s EXCEPT !.run.pc = "stopShell"] ELSE s
  <2>1. story.run.m = None /\ ~story.track
    BY <1>12 DEF TypeInv, Fit, RunTyped, Apart
  <2>2. /\ story'.track = s.track
        /\ story'.shell = s.shell /\ story'.conns = s.conns /\ story'.queue = s.queue
        /\ story'.run.pc \in {"stopping", "stopShell"}
    <3>1. CASE Running(s) = {}
      <4>1. story' = [s EXCEPT !.run.pc = "stopShell"]
        BY <1>12, <3>1
      <4>2. LET u == [s EXCEPT !.run.pc = "stopShell"]
            IN Moved(s, u) /\ u.run.pc = "stopShell"
        <5>1. Shape(s)
          BY <1>3
        <5>2. LET u == [s EXCEPT !.run.pc = "stopShell"] IN
                /\ Moved(s, u) /\ u.blocked = s.blocked /\ u.run.pc = "stopShell"
                /\ u.run.m = s.run.m /\ u.run.data = s.run.data /\ u.run.got = s.run.got
          BY <5>1, StepMoves
        <5> QED BY <5>2
      <4>3. Moved(s, story') /\ story'.run.pc = "stopShell"
        BY <4>1, <4>2
      <4> QED BY <4>3 DEF Moved
    <3> QED BY <1>3, <1>12, <3>1
  <2>3. \A x \in Module : \A d : Does(s, x, d) => Does(story', x, d)
    BY <1>3, <2>1, <2>2 DEF Does, Running
  <2>4. \A d : Does(s, m, d)
    BY <1>3, <1>7, <2>1 DEF Does
  <2>5. Notes(story') = NotesOf(ToSet(Tail(s.queue)))
    BY <2>2 DEF Notes, Ahead
  <2>6. \A x \in Module : Dirty(x) \/ Matches(story', x, seen[x])
    <3>1. \A x \in Module : x # None
      BY PathAssumption
    <3> QED BY <1>8, <2>1, <2>3, <2>4, <2>5, <3>1 DEF Matches
  <2>7. Settled(story')
    BY <2>2, <2>6 DEF Settled, Starting, Killing, Writing
  <2> QED BY <1>1, <2>7, SameSettled
<1> QED BY <1>2, <1>10, <1>11, <1>12

LEMMA InitSettled == Init => SettledInv
<1> SUFFICES ASSUME Init PROVE Settled(story)
  BY DEF SettledInv
<1>1. /\ story.shell = "none" /\ story.queue = <<>> /\ story.run = Idle
      /\ story.conns = [m \in Module |-> None]
  BY DEF Init
<1>2. \A m \in Module : \A d : Does(story, m, d)
  BY <1>1 DEF Does, Running
<1> QED BY <1>1, <1>2, IdleFacts DEF Settled, Matches, Starting, Killing, Writing

LEMMA NextSettledInv == IInv /\ TypeInv /\ SettledInv /\ [Next]_vars => SettledInv'
<1> SUFFICES ASSUME IInv, TypeInv, SettledInv, [Next]_vars, Quiet' PROVE Settled(story)'
  BY DEF SettledInv
<1>1. CASE UNCHANGED vars
  BY <1>1 DEF vars, SettledInv, Quiet, Alive, Settled, Dirty, Matches, Agrees
<1>2. CASE Runs
  BY <1>2, SaveSettled, StartSettled, StartReadsSettled, NotificationSettled, BeginSettled,
     ReadSettled, AnswerSettled, WriteSettled, ReportedSettled, LaunchSettled, KillSettled,
     StopSettled, CleanupSettled DEF Runs
<1>3. CASE Progress
  BY <1>2, <1>3, ReportSettled, DownSettled DEF Progress
<1> QED BY <1>1, <1>3, CallsSettled, RemoteSettled, ReportsSettled, ShellSettled, WriteSettled
        DEF Next

\* When a story rests, the external modules that run are those the page says
\* should run, whoever added or stopped them (LedgerNotificationCall,
\* StartModuleCall, StopModuleCall), unless one of the named races happened.
THEOREM StoryRunsWhatIsStored == Spec => []RunsWhatIsStored
<1>1. IInv /\ TypeInv /\ SettledInv => RunsWhatIsStored
  <2> SUFFICES ASSUME IInv, TypeInv, SettledInv, Rest, IsRunning(story),
                      raced \cap {"stale", "ignored", "undone"} = {},
                      NEW m \in Module, ledger[m] # None, ledger[m].how = "external"
               PROVE  IF ledger[m].stopped THEN m \notin Running(story)
                      ELSE m \in Running(story) /\ story.conns[m].data.url = ledger[m].url
    BY DEF RunsWhatIsStored
  <2>1. story.queue = <<>> /\ change = {} /\ Alive /\ seen = ledger
    BY DEF Rest, TypeInv, PageOK
  <2>2. story.run.pc = "ready" /\ story.run = Idle
    BY <2>1, IInvShape DEF Alive
  <2>3. story.track /\ story.shell # "none"
    BY <2>2 DEF IInv, StoryOK, TrackOK, Shape
  <2>4. story.run.m = None /\ Todo(story) = {} /\ Notes(story) = {}
    BY <2>1, <2>2, IdleFacts DEF Todo, Notes, Ahead, NotesOf
  <2>5. ~Dirty(m) /\ m # None
    BY <2>1, PathAssumption DEF Dirty
  <2>6. Settled(story)
    BY <2>1 DEF SettledInv, Quiet
  <2>7. Matches(story, m, ledger[m])
    BY <2>1, <2>4, <2>5, <2>6 DEF Settled
  <2> QED BY <2>2, <2>3, <2>4, <2>7 DEF Matches, Does, Wants
<1> QED BY <1>1, InitSettled, NextSettledInv, Invariance, StoryTypes, PTL DEF Spec

-----------------------------------------------------------------------------
(* Anchors *)

\* Induction over the natural numbers, for a set.
LEMMA SetInduction ==
    ASSUME NEW S, 0 \in S, \A n \in Nat : n \in S => n + 1 \in S
    PROVE  Nat \subseteq S
<1> DEFINE T == Nat \ S
<1> SUFFICES ASSUME T # {} PROVE FALSE
  OBVIOUS
<1>1. PICK x \in T : \A y \in T : ~(<<y, x>> \in OpToRel(<, Nat))
  <2>1. T \subseteq Nat
    OBVIOUS
  <2> HIDE DEF T
  <2> QED BY <2>1, WFMin, NatLessThanWellFounded
<1>2. x # 0 /\ x - 1 \in Nat /\ x - 1 \notin T
  <2>1. x \in Nat /\ x # 0
    OBVIOUS
  <2>2. x - 1 \in Nat /\ x - 1 < x
    BY <2>1
  <2>3. <<x - 1, x>> \in OpToRel(<, Nat)
    BY <2>1, <2>2 DEF OpToRel
  <2> QED BY <1>1, <2>1, <2>2, <2>3
<1>3. (x - 1) + 1 = x
  BY <1>2
<1> QED BY <1>2, <1>3

\* The place of a module in the order of the keys, and that of its parent.
LEMMA PathFacts ==
    /\ Len(Path) \in Nat /\ DOMAIN Path = 1..Len(Path)
    /\ \A i \in DOMAIN Path : Path[i] \in Module
    /\ \A x \in Module : \E i \in DOMAIN Path : Path[i] = x
    /\ \A j \in DOMAIN Path : Parent[Path[j]] # None =>
          \E i \in DOMAIN Path : Path[i] = Parent[Path[j]] /\ i < j
<1>1. Path \in Seq(Module) /\ ToSet(Path) = Module
  BY PathAssumption
<1>2. Len(Path) \in Nat /\ DOMAIN Path = 1..Len(Path) /\ \A i \in DOMAIN Path : Path[i] \in Module
  BY <1>1
<1>3. \A x \in Module : \E i \in DOMAIN Path : Path[i] = x
  BY <1>1, InToSet
<1>4. ASSUME NEW j \in DOMAIN Path, Parent[Path[j]] # None
      PROVE  \E i \in DOMAIN Path : Path[i] = Parent[Path[j]] /\ i < j
  <2>1. Parent[Path[j]] \in Module
    BY <1>2, <1>4, PathAssumption
  <2>2. PICK i \in DOMAIN Path : Path[i] = Parent[Path[j]]
    BY <1>3, <2>1
  <2> QED BY <2>2, PathAssumption
<1> QED BY <1>2, <1>3, <1>4

\* Induction from the parents to their children.
LEMMA TreeInduction ==
    ASSUME NEW S, \A x \in Module : Parent[x] = None \/ Parent[x] \in S => x \in S
    PROVE  Module \subseteq S
<1> DEFINE G == {n \in Nat : \A i \in DOMAIN Path : i <= n => Path[i] \in S}
<1>1. 0 \in G
  BY PathFacts
<1>2. ASSUME NEW n \in Nat, n \in G PROVE n + 1 \in G
  <2>1. \A i \in DOMAIN Path : i <= n => Path[i] \in S
    BY <1>2
  <2>2. ASSUME NEW i \in DOMAIN Path, i <= n + 1 PROVE Path[i] \in S
    <3>1. CASE Parent[Path[i]] = None
      BY <3>1, PathFacts
    <3>2. CASE Parent[Path[i]] # None
      <4>1. PICK k \in DOMAIN Path : Path[k] = Parent[Path[i]] /\ k < i
        BY <3>2, PathFacts
      <4>2. k <= n
        BY <2>2, <4>1, PathFacts
      <4> QED BY <2>1, <4>1, <4>2, PathFacts
    <3> QED BY <3>1, <3>2
  <2> QED BY <2>2
<1>3. Nat \subseteq G
  <2> HIDE DEF G
  <2> QED BY <1>1, <1>2, SetInduction
<1>4. ASSUME NEW x \in Module PROVE x \in S
  <2>1. PICK i \in DOMAIN Path : Path[i] = x
    BY PathFacts
  <2>2. i \in Nat /\ i <= i
    BY PathFacts
  <2> QED BY <1>3, <2>1, <2>2
<1> QED BY <1>4

\* What FindAnchor finds for a module, if f is what it finds for the others.
Up(s, f, x) ==
    LET p == Parent[x]
    IN IF p = None \/ p \notin Running(s) THEN None
       ELSE IF s.conns[p].data.how = "embedded" THEN f[p] ELSE p

\* The parents of a module have no circle: what FindAnchor asks for exists.
LEMMA AnchorsExist ==
    ASSUME NEW s
    PROVE  \E f : f = [x \in Module |-> Up(s, f, x)]
<1> DEFINE Good(f, n) == /\ f = [x \in Module |-> f[x]]
                         /\ \A i \in DOMAIN Path : i <= n => f[Path[i]] = Up(s, f, Path[i])
           G == {n \in Nat : \E f : Good(f, n)}
<1>1. 0 \in G
  <2>1. Good([x \in Module |-> None], 0)
    BY PathFacts
  <2> QED BY <2>1
<1>2. ASSUME NEW n \in Nat, n \in G PROVE n + 1 \in G
  <2>1. PICK f : Good(f, n)
    BY <1>2
  <2>2. CASE n + 1 \notin DOMAIN Path \/ \E i \in DOMAIN Path : i <= n /\ Path[i] = Path[n + 1]
    <3>1. ASSUME NEW i \in DOMAIN Path, i <= n + 1 PROVE f[Path[i]] = Up(s, f, Path[i])
      <4>1. i <= n \/ i = n + 1
        BY <3>1, PathFacts
      <4> QED BY <2>1, <2>2, <4>1
    <3> QED BY <2>1, <3>1
  <2>3. CASE n + 1 \in DOMAIN Path /\ \A i \in DOMAIN Path : i <= n => Path[i] # Path[n + 1]
    <3> DEFINE z == Path[n + 1]
               g == [x \in Module |-> IF x = z THEN Up(s, f, z) ELSE f[x]]
    <3>1. \A i \in DOMAIN Path : i <= n => g[Path[i]] = f[Path[i]]
      BY <2>3, PathFacts
    <3>2. g[z] = Up(s, f, z)
      BY <2>3, PathFacts
    <3>3. g = [x \in Module |-> g[x]]
      OBVIOUS
    <3> HIDE DEF g
    <3>4. ASSUME NEW i \in DOMAIN Path, i <= n + 1 PROVE Up(s, g, Path[i]) = Up(s, f, Path[i])
      <4>1. CASE Parent[Path[i]] = None
        BY <4>1 DEF Up
      <4>2. CASE Parent[Path[i]] # None
        <5>1. PICK k \in DOMAIN Path : Path[k] = Parent[Path[i]] /\ k < i
          BY <4>2, PathFacts
        <5>2. k <= n
          BY <3>4, <5>1, PathFacts
        <5>3. g[Parent[Path[i]]] = f[Parent[Path[i]]]
          BY <3>1, <5>1, <5>2
        <5> QED BY <5>3 DEF Up
      <4> QED BY <4>1, <4>2
    <3>5. ASSUME NEW i \in DOMAIN Path, i <= n + 1 PROVE g[Path[i]] = Up(s, g, Path[i])
      <4>1. CASE i <= n
        BY <2>1, <3>1, <3>4, <3>5, <4>1
      <4>2. CASE i = n + 1
        BY <3>2, <3>4, <3>5, <4>2
      <4> QED BY <3>5, <4>1, <4>2, PathFacts
    <3>6. Good(g, n + 1)
      BY <3>3, <3>5
    <3> QED BY <3>6
  <2> QED BY <2>2, <2>3
<1>3. Nat \subseteq G
  <2> HIDE DEF G
  <2> QED BY <1>1, <1>2, SetInduction
<1>4. Len(Path) \in G
  <2> HIDE DEF G
  <2> QED BY <1>3, PathFacts
<1>5. PICK f : Good(f, Len(Path))
  BY <1>4
<1>6. \A x \in Module : f[x] = Up(s, f, x)
  <2> TAKE x \in Module
  <2>1. PICK i \in DOMAIN Path : Path[i] = x
    BY PathFacts
  <2>2. i <= Len(Path)
    BY PathFacts
  <2> QED BY <1>5, <2>1, <2>2
<1>7. f = [x \in Module |-> f[x]]
  BY <1>5
<1>8. f = [x \in Module |-> Up(s, f, x)]
  BY <1>6, <1>7
<1> QED BY <1>8

\* FindAnchor goes from a module to its parent.
LEMMA AnchorUp ==
    ASSUME NEW s, NEW m \in Module
    PROVE  LET p == Parent[m] IN
             FindAnchor(s, m) = IF p = None \/ p \notin Running(s) THEN None
                                ELSE IF s.conns[p].data.how = "embedded" THEN FindAnchor(s, p)
                                ELSE p
<1> DEFINE F == CHOOSE f : f = [x \in Module |-> Up(s, f, x)]
<1>1. F = [x \in Module |-> Up(s, F, x)]
  BY AnchorsExist
<1>2. \A x : FindAnchor(s, x) = F[x]
  BY DEF FindAnchor, Up
<1> HIDE DEF F
<1>3. F[m] = Up(s, F, m)
  BY <1>1
<1> QED BY <1>2, <1>3 DEF Up

\* Anchors depend on which modules run, and which of these are embedded.
SameModules(s, t) ==
    \A x \in Module : /\ t.conns[x] = None <=> s.conns[x] = None
                      /\ s.conns[x] # None => t.conns[x].data = s.conns[x].data

LEMMA SameAnchors ==
    ASSUME NEW s, NEW t, SameModules(s, t)
    PROVE  \A m \in Module : FindAnchor(t, m) = FindAnchor(s, m)
<1> DEFINE S == {m \in Module : FindAnchor(t, m) = FindAnchor(s, m)}
<1>1. ASSUME NEW x \in Module, Parent[x] = None \/ Parent[x] \in S
      PROVE  FindAnchor(t, x) = FindAnchor(s, x)
  BY <1>1, AnchorUp DEF SameModules, Running
<1>2. \A x \in Module : Parent[x] = None \/ Parent[x] \in S => x \in S
  BY <1>1
<1>3. Module \subseteq S
  <2> HIDE DEF S
  <2> QED BY <1>2, TreeInduction
<1> QED BY <1>3

\* A module that comes with a view of its own becomes an anchor, or changes none.
LEMMA NewAnchor ==
    ASSUME NEW s, NEW t, NEW m \in Module, s.conns[m] = None,
           \A x \in Module \ {m} : t.conns[x] = s.conns[x],
           t.conns[m] # None, t.conns[m].data.how # "embedded"
    PROVE  \A x \in Module : FindAnchor(t, x) \in {FindAnchor(s, x), m}
<1> DEFINE S == {x \in Module : FindAnchor(t, x) \in {FindAnchor(s, x), m}}
<1>1. ASSUME NEW x \in Module, Parent[x] = None \/ Parent[x] \in S
      PROVE  FindAnchor(t, x) \in {FindAnchor(s, x), m}
  <2>1. CASE Parent[x] = m
    BY <2>1, AnchorUp, PathAssumption DEF Running
  <2>2. CASE Parent[x] # m
    BY <1>1, <2>2, AnchorUp DEF Running
  <2> QED BY <2>1, <2>2
<1>2. \A x \in Module : Parent[x] = None \/ Parent[x] \in S => x \in S
  BY <1>1
<1>3. Module \subseteq S
  <2> HIDE DEF S
  <2> QED BY <1>2, TreeInduction
<1> QED BY <1>3

\* A module that goes takes anchors away.
LEMMA LostAnchor ==
    ASSUME NEW s, NEW t, NEW m \in Module, t.conns[m] = None,
           \A x \in Module \ {m} : t.conns[x] = s.conns[x]
    PROVE  \A x \in Module : FindAnchor(t, x) \in {FindAnchor(s, x), None}
<1> DEFINE S == {x \in Module : FindAnchor(t, x) \in {FindAnchor(s, x), None}}
<1>1. ASSUME NEW x \in Module, Parent[x] = None \/ Parent[x] \in S
      PROVE  FindAnchor(t, x) \in {FindAnchor(s, x), None}
  <2>1. CASE Parent[x] = m
    BY <2>1, AnchorUp DEF Running
  <2>2. CASE Parent[x] # m
    BY <1>1, <2>2, AnchorUp DEF Running
  <2> QED BY <2>1, <2>2
<1>2. \A x \in Module : Parent[x] = None \/ Parent[x] \in S => x \in S
  BY <1>1
<1>3. Module \subseteq S
  <2> HIDE DEF S
  <2> QED BY <1>2, TreeInduction
<1> QED BY <1>3

-----------------------------------------------------------------------------
(* Views that wait *)

\* Only views of running modules wait, and only for a shell.
ViewsOK(s) ==
    /\ s.pending \subseteq Running(s) /\ s.views \subseteq Module
    /\ s.shell = "none" => s.pending = {}

\* None of them could be sent.
Waiting(s) == \A m \in s.pending : FindAnchor(s, m) \notin s.views

ViewInv == ViewsOK(story) /\ ("unsent" \notin raced => Waiting(story))

\* t differs from s in nothing that concerns the views.
SameViews(s, t) ==
    SameModules(s, t) /\ t.pending = s.pending /\ t.views = s.views /\ t.shell = s.shell

LEMMA ViewsKept ==
    ASSUME NEW s, NEW t, SameViews(s, t), ViewsOK(s)
    PROVE  ViewsOK(t) /\ (Waiting(s) => Waiting(t))
<1>1. Running(t) = Running(s)
  BY DEF SameViews, SameModules, Running
<1>2. \A m \in t.pending : FindAnchor(t, m) = FindAnchor(s, m)
  BY SameAnchors DEF SameViews, ViewsOK, Running
<1> QED BY <1>1, <1>2 DEF ViewsOK, Waiting, SameViews

\* ProcessPendingViews leaves no view whose anchor has been sent.
LEMMA ProcessWaits ==
    ASSUME NEW s, Shape(s), ViewsOK(s)
    PROVE  ViewsOK(ProcessPendingViews(s)) /\ Waiting(ProcessPendingViews(s))
<1> DEFINE S == Sendable(s)
           t == ProcessPendingViews(s)
           waiting == s.pending \cap Running(s)
<1>1. /\ t.views = s.views \cup S /\ t.pending = s.pending \ S
      /\ t.conns = s.conns /\ t.shell = s.shell
  BY DEF ProcessPendingViews, Connected, Shape
<1>2. S \subseteq waiting
  BY DEF Sendable
<1>3. waiting = s.pending
  BY DEF ViewsOK
<1>4. ASSUME NEW m \in s.pending \ S, FindAnchor(s, m) \in s.views \cup S PROVE FALSE
  <2>1. PICK ms \in SUBSET waiting :
          /\ \A x \in waiting : FindAnchor(s, x) \in s.views \cup ms => x \in ms
          /\ m \notin ms
    BY <1>3, <1>4 DEF Sendable
  <2>2. S \subseteq ms
    BY <2>1 DEF Sendable
  <2> QED BY <1>3, <1>4, <2>1, <2>2
<1>5. SameModules(s, t) /\ Running(t) = Running(s)
  BY <1>1 DEF SameModules, Running
<1> HIDE DEF S, t
<1>6. ASSUME NEW m \in t.pending PROVE FindAnchor(t, m) \notin t.views
  <2>1. m \in s.pending \ S /\ m \in Module
    BY <1>1 DEF ViewsOK, Running
  <2>2. FindAnchor(t, m) = FindAnchor(s, m)
    BY <1>5, <2>1, SameAnchors
  <2> QED BY <1>1, <1>4, <2>1, <2>2
<1>7. ViewsOK(t)
  BY <1>1, <1>2, <1>3, <1>5 DEF ViewsOK, Running
<1> QED BY <1>6, <1>7 DEF Waiting, t

\* The view of a module that runs is sent, with those that waited for it, or waits.
LEMMA ShowWaits ==
    ASSUME NEW s, Shape(s), ViewsOK(s), NEW m \in Running(s), Anchored(s, m) \/ Waiting(s)
    PROVE  ViewsOK(ShowModule(s, m)) /\ Waiting(ShowModule(s, m))
<1>0. m \in Module
  BY DEF Running
<1>1. CASE s.shell = "none"
  BY <1>1 DEF ShowModule, ViewsOK, Waiting
<1>2. CASE s.shell # "none" /\ Anchored(s, m)
  <2> DEFINE t == Connected(s, {m})
  <2>1. /\ t.views = s.views \cup {m} /\ t.pending = s.pending \ {m} /\ DOMAIN t = DOMAIN s
        /\ t.conns = s.conns /\ t.shell = s.shell /\ t.run = s.run /\ t.track = s.track
    BY DEF Connected, Shape
  <2>2. Shape(t) /\ ViewsOK(t)
    BY <1>0, <2>1 DEF Shape, ViewsOK, Running
  <2>3. ShowModule(s, m) = ProcessPendingViews(t)
    BY <1>2 DEF ShowModule
  <2> HIDE DEF t
  <2> QED BY <2>2, <2>3, ProcessWaits
<1>3. CASE s.shell # "none" /\ ~Anchored(s, m)
  <2> DEFINE t == [s EXCEPT !.pending = @ \cup {m}]
  <2>1. /\ t.views = s.views /\ t.pending = s.pending \cup {m}
        /\ t.conns = s.conns /\ t.shell = s.shell
    BY DEF Shape
  <2>2. ShowModule(s, m) = t
    BY <1>3 DEF ShowModule
  <2> HIDE DEF t
  <2>3. SameModules(s, t) /\ Running(t) = Running(s)
    BY <2>1 DEF SameModules, Running
  <2>4. ViewsOK(t)
    BY <1>3, <2>1, <2>3 DEF ViewsOK
  <2>5. ASSUME NEW x \in t.pending PROVE FindAnchor(t, x) \notin t.views
    <3>1. x \in Module
      BY <2>4 DEF ViewsOK, Running
    <3>2. FindAnchor(t, x) = FindAnchor(s, x)
      BY <2>3, <3>1, SameAnchors
    <3> QED BY <1>3, <2>1, <3>2 DEF Waiting, Anchored
  <2> QED BY <2>2, <2>4, <2>5 DEF Waiting
<1> QED BY <1>1, <1>2, <1>3

LEMMA ShowViews ==
    ASSUME NEW s, Shape(s), ViewsOK(s), NEW m \in Running(s)
    PROVE  ViewsOK(ShowModule(s, m))
<1>1. CASE Anchored(s, m)
  BY <1>1, ShowWaits
<1>2. CASE ~Anchored(s, m)
  <2> DEFINE t == [s EXCEPT !.pending = @ \cup {m}]
  <2>1. /\ t.views = s.views /\ t.pending = s.pending \cup {m}
        /\ t.conns = s.conns /\ t.shell = s.shell
    BY DEF Shape
  <2>2. ShowModule(s, m) = IF s.shell = "none" THEN s ELSE t
    BY <1>2 DEF ShowModule
  <2> HIDE DEF t
  <2> QED BY <2>1, <2>2 DEF ViewsOK, Running
<1> QED BY <1>1, <1>2

LEMMA SameStory ==
    ASSUME ViewsOK(story'), "unsent" \notin raced' => Waiting(story')
    PROVE  ViewInv'
BY DEF ViewInv, ViewsOK, Waiting, Running

LEMMA StepViews ==
    ASSUME ViewInv, SameViews(story, story'), raced \subseteq raced'
    PROVE  ViewInv'
BY ViewsKept, SameStory DEF ViewInv

LEMMA MovedViews ==
    ASSUME NEW s, NEW t, Moved(s, t) \/ \E ops : Grown(s, t, ops)
    PROVE  SameViews(s, t)
BY DEF Moved, Grown, SameViews, SameModules

LEMMA DoneViews ==
    ASSUME NEW s, Shape(s)
    PROVE  SameViews(s, Done(s)) /\ SameViews(s, StartNext(s))
<1>1. SameViews(s, Done(s))
  BY DEF Done, Shape, SameViews, SameModules
<1> DEFINE r == [Idle EXCEPT !.pc = "read", !.m = Head(s.run.todo)[1],
                            !.data = Head(s.run.todo)[2], !.todo = Tail(s.run.todo)]
           t == [s EXCEPT !.run = r]
<1>2. StartNext(s) = IF s.run.todo = <<>> THEN Done(s) ELSE t
  BY DEF StartNext
<1> HIDE DEF r
<1>3. SameViews(s, t)
  BY DEF Shape, SameViews, SameModules
<1> QED BY <1>1, <1>2, <1>3

LEMMA CallsViews ==
    ASSUME IInv, ViewInv,
           \/ Start \/ Stop \/ Delete
           \/ \E m \in Module : AddModule(m) \/ StopModule(m) \/ ModuleStarts(m)
    PROVE  ViewInv'
<1>1. ASSUME NEW op, Call(op) PROVE ViewInv'
  <2>1. story' = Queued(story, op) /\ UNCHANGED raced
    BY <1>1 DEF Call
  <2>2. SameViews(story, story')
    BY <2>1, IInvShape DEF Queued, Shape, SameViews, SameModules
  <2> QED BY <2>1, <2>2, StepViews
<1>2. CASE Start \/ Stop \/ Delete
  BY <1>1, <1>2 DEF Start, Stop, Delete
<1>3. ASSUME NEW m \in Module, AddModule(m) \/ StopModule(m) \/ ModuleStarts(m) PROVE ViewInv'
  BY <1>1, <1>3 DEF AddModule, StopModule, ModuleStarts
<1> QED BY <1>2, <1>3

\* The page, the modules and the shell change no view.
LEMMA OutsideViews ==
    ASSUME IInv, TypeInv, ViewInv,
           \/ ShellDies \/ PageReports
           \/ \E m \in Module : RemoteWrites(m) \/ \E st \in ModuleState : ModuleReports(m, st)
    PROVE  ViewInv'
<1>1. CASE ShellDies
  <2>1. /\ story'.conns = story.conns /\ story'.views = story.views
        /\ story'.pending = story.pending /\ story'.shell = "dead" /\ story.shell = "up"
        /\ raced \subseteq raced'
    BY <1>1, IInvShape DEF ShellDies, Shape
  <2>2. SameModules(story, story') /\ Running(story') = Running(story)
    BY <2>1 DEF SameModules, Running
  <2>3. ViewsOK(story')
    BY <2>1, <2>2 DEF ViewInv, ViewsOK
  <2>4. ASSUME Waiting(story), NEW m \in story'.pending PROVE FindAnchor(story', m) \notin story'.views
    <3>1. m \in Module
      BY <2>3 DEF ViewsOK, Running
    <3> QED BY <2>1, <2>2, <2>4, <3>1, SameAnchors DEF Waiting
  <2> QED BY <2>1, <2>3, <2>4, SameStory DEF ViewInv, Waiting
<1>2. CASE PageReports
  <2>1. UNCHANGED raced /\ \E ops : Grown(story, story', ops)
    BY <1>2, ReportGrown DEF PageReports
  <2> QED BY <2>1, MovedViews, StepViews
<1>3. ASSUME NEW m \in Module, RemoteWrites(m) PROVE ViewInv'
  <2>1. story' = story /\ raced \subseteq raced'
    BY <1>3 DEF RemoteWrites
  <2>2. SameViews(story, story')
    BY <2>1 DEF SameViews, SameModules
  <2> QED BY <2>1, <2>2, StepViews
<1>4. ASSUME NEW m \in Module, NEW st \in ModuleState, ModuleReports(m, st) PROVE ViewInv'
  <2>1. PICK c, ops :
          /\ c \in Connection /\ Grown(Placed(story, m, c), story', ops)
          /\ story.conns[m] # None /\ c.data = story.conns[m].data
    BY <1>4, ReportsType
  <2>2. UNCHANGED raced
    BY <1>4 DEF ModuleReports
  <2>3. SameViews(story, Placed(story, m, c))
    <3>1. c # None
      BY <2>1, DataAssumption
    <3>2. LET t == Placed(story, m, c) IN
            /\ t.views = story.views /\ t.pending = story.pending /\ t.shell = story.shell
            /\ t.conns = [story.conns EXCEPT ![m] = c]
      BY IInvShape DEF Placed, Shape
    <3>3. \A x \in Module : Placed(story, m, c).conns[x] = IF x = m THEN c ELSE story.conns[x]
      BY <3>2, IInvShape DEF Shape
    <3> QED BY <2>1, <3>1, <3>2, <3>3 DEF SameViews, SameModules
  <2>4. SameViews(story, story')
    <3>1. SameViews(Placed(story, m, c), story')
      BY <2>1, MovedViews
    <3> QED BY <2>3, <3>1 DEF SameViews, SameModules
  <2> QED BY <2>2, <2>4, StepViews
<1> QED BY <1>1, <1>2, <1>3, <1>4

\* The operations that launch nothing and take nothing down.
LEMMA QuietRunsViews ==
    ASSUME IInv, TypeInv, ViewInv,
           \/ SaveState \/ StartReads \/ NotificationRuns \/ StartModuleRuns \/ AddRuns
           \/ StopModuleRuns \/ DataRead \/ DataAnswered \/ DataWritten \/ WriteFails
           \/ DataReported
    PROVE  ViewInv'
<1>0. ASSUME story' = Done(story), raced \subseteq raced' PROVE ViewInv'
  BY <1>0, IInvShape, DoneViews, StepViews
<1>1. ASSUME Moved(story, story'), raced \subseteq raced' PROVE ViewInv'
  BY <1>1, MovedViews, StepViews
<1>2. CASE SaveState
  <2> DEFINE s == [story EXCEPT !.saved = Head(story.queue).state]
  <2>1. story' = Done(s) /\ UNCHANGED raced
    BY <1>2 DEF SaveState, Only, Becomes
  <2>2. Shape(s) /\ SameViews(story, s)
    BY IInvShape DEF Shape, SameViews, SameModules
  <2> HIDE DEF s
  <2>3. SameViews(story, story')
    BY <2>1, <2>2, DoneViews DEF SameViews, SameModules
  <2> QED BY <2>1, <2>3, StepViews
<1>3. CASE StartReads
  <2>1. UNCHANGED raced
    BY <1>3, StartReadsEffect
  <2>2. PICK s : /\ story' = StartNext(s) /\ Shape(s) /\ s.conns = story.conns
                 /\ s.views = story.views /\ s.pending = story.pending /\ s.shell = story.shell
    BY <1>3, StartReadsEffect
  <2>3. SameViews(story, story')
    BY <2>2, DoneViews DEF SameViews, SameModules
  <2> QED BY <2>1, <2>3, StepViews
<1>4. CASE NotificationRuns
  BY <1>0, <1>1, <1>4, NotificationEffect
<1>5. CASE StartModuleRuns \/ AddRuns \/ StopModuleRuns
  BY <1>1, <1>5, BeginEffect
<1>6. CASE DataRead
  BY <1>1, <1>6, ReadEffect
<1>7. CASE DataAnswered
  BY <1>1, <1>7, AnswerEffect
<1>8. CASE DataWritten \/ WriteFails
  <2>1. raced \subseteq raced'
    BY <1>8 DEF DataWritten, WriteFails
  <2> QED BY <1>1, <1>8, <2>1, PutEffect
<1>9. CASE DataReported
  BY <1>0, <1>1, <1>9, ReportedEffect
<1> QED BY <1>2, <1>3, <1>4, <1>5, <1>6, <1>7, <1>8, <1>9

LEMMA StartViews ==
    ASSUME IInv, ViewInv, StartRuns
    PROVE  ViewInv'
<1>1. CASE story' = Done(story) /\ raced \subseteq raced'
  BY <1>1, IInvShape, DoneViews, StepViews
<1>2. CASE /\ story' = [story EXCEPT !.track = TRUE, !.shell = "up", !.run.pc = "readAll"]
           /\ raced \subseteq raced'
  <2>1. /\ story'.conns = story.conns /\ story'.views = story.views
        /\ story'.pending = story.pending /\ story'.shell = "up"
    BY <1>2, IInvShape DEF Shape
  <2>2. SameModules(story, story') /\ Running(story') = Running(story)
    BY <2>1 DEF SameModules, Running
  <2>3. ViewsOK(story')
    BY <2>1, <2>2 DEF ViewInv, ViewsOK
  <2>4. ASSUME Waiting(story), NEW m \in story'.pending PROVE FindAnchor(story', m) \notin story'.views
    <3>1. m \in Module
      BY <2>3 DEF ViewsOK, Running
    <3> QED BY <2>1, <2>2, <2>4, <3>1, SameAnchors DEF Waiting
  <2> QED BY <1>2, <2>3, <2>4, SameStory DEF ViewInv, Waiting
<1> QED BY <1>1, <1>2 DEF StartRuns, Only, Becomes

\* A module is launched: the views that wait are looked at, unless none is sent.
LEMMA LaunchViews ==
    ASSUME NEW s, Shape(s), QueueOK(s.queue), Body(s, ledger), ViewsOK(s), s.conns[s.run.m] = None,
           s.run.m \in Module, s.run.data \in Data, ledger[s.run.m] # None,
           story' = Started(Launch(s, s.run.m, s.run.data)),
           raced' = raced \cup Unsent(s, s.run.m, s.run.data),
           "unsent" \notin raced => Waiting(s)
    PROVE  ViewInv'
<1>1. PICK m, d : m = s.run.m /\ d = s.run.data
  OBVIOUS
<1> DEFINE t == Launch(s, m, d)
           c == [data |-> d, st |-> "STARTING", down |-> FALSE]
           p == Placed(s, m, c)
<1>2. Shape(t) /\ c \in Connection
  BY <1>1, LaunchKeeps
<1>3. PICK ops : Grown(p, t, ops)
  BY <1>1, LaunchKeeps
<1>4. c.data = d
  OBVIOUS
<1>5. story' = Started(t) /\ raced' = raced \cup Unsent(s, m, d)
  BY <1>1
<1> HIDE DEF t, c
<1>6. /\ p.run = s.run /\ p.views = s.views /\ p.pending = s.pending /\ p.shell = s.shell
      /\ p.conns[m] = c /\ \A x \in Module \ {m} : p.conns[x] = s.conns[x]
  BY <1>1, <1>2, PlacedKeeps
<1> HIDE DEF p
<1>7. /\ t.run = s.run /\ t.views = s.views /\ t.pending = s.pending /\ t.shell = s.shell
      /\ t.conns[m] = c /\ \A x \in Module \ {m} : t.conns[x] = s.conns[x]
  BY <1>3, <1>6 DEF Grown
<1>8. c # None
  BY <1>2, DataAssumption
<1>9. ViewsOK(t) /\ m \in Running(t)
  BY <1>1, <1>7, <1>8 DEF ViewsOK, Running
<1>10. CASE d.how = "embedded"
  <2>1. story' = StartNext(t)
    BY <1>1, <1>5, <1>7, <1>10 DEF Started
  <2>2. SameViews(t, story')
    BY <1>2, <2>1, DoneViews
  <2>3. "unsent" \notin raced' => t.pending = {}
    BY <1>5, <1>7, <1>10 DEF Unsent
  <2>4. "unsent" \notin raced' => Waiting(t)
    BY <2>3 DEF Waiting
  <2>5. ViewsOK(story') /\ ("unsent" \notin raced' => Waiting(story'))
    BY <1>9, <2>2, <2>4, ViewsKept
  <2> QED BY <2>5, SameStory
<1>11. CASE d.how # "embedded"
  <2> DEFINE u == ShowModule(t, m)
  <2>1. story' = StartNext(u)
    BY <1>1, <1>5, <1>7, <1>11 DEF Started
  <2>2. Shape(u)
    BY <1>2, ShowBeside DEF Beside, Shape
  <2>3. ViewsOK(u)
    BY <1>2, <1>9, ShowViews
  <2>4. \A x \in Module : FindAnchor(t, x) \in {FindAnchor(s, x), m}
    BY <1>1, <1>4, <1>7, <1>8, <1>11, NewAnchor
  <2>5. ASSUME "unsent" \notin raced', ~Anchored(t, m) PROVE Waiting(t)
    <3>1. Waiting(s) /\ "unsent" \notin Unsent(s, m, d)
      BY <1>5, <2>5
    <3>2. CASE s.pending = {}
      BY <1>7, <3>2 DEF Waiting
    <3>3. CASE s.pending # {}
      <4>1. m \notin s.views \/ Anchored(s, m)
        BY <3>1, <3>3 DEF Unsent
      <4>2. m \notin s.views
        BY <1>1, <1>7, <2>4, <2>5, <4>1 DEF Anchored
      <4>3. s.pending \subseteq Module
        BY DEF ViewsOK, Running
      <4> QED BY <1>7, <2>4, <3>1, <4>2, <4>3 DEF Waiting
    <3> QED BY <3>2, <3>3
  <2>6. "unsent" \notin raced' => Waiting(u)
    BY <1>2, <1>9, <2>5, ShowWaits
  <2> HIDE DEF u
  <2>7. SameViews(u, story')
    BY <2>1, <2>2, DoneViews
  <2>8. ViewsOK(story') /\ ("unsent" \notin raced' => Waiting(story'))
    BY <2>3, <2>6, <2>7, ViewsKept
  <2> QED BY <2>8, SameStory
<1> QED BY <1>10, <1>11

LEMMA LaunchRunsViews ==
    ASSUME IInv, TypeInv, ViewInv, LaunchRuns
    PROVE  ViewInv'
<1> DEFINE m == story.run.m
           d == story.run.data
<1>1. /\ story.run.pc = "launch" /\ raced \subseteq raced'
      /\ Shape(story) /\ QueueOK(story.queue) /\ Body(story, ledger)
  BY IInvShape DEF LaunchRuns, At, TypeInv, Fit
<1>2. m \in Module /\ d \in Data /\ ledger[m] # None
  BY <1>1, LaunchFacts DEF Starting
<1>3. \/ /\ story.conns[m] = None /\ story' = Started(Launch(story, m, d))
         /\ raced' = raced \cup Unsent(story, m, d)
      \/ /\ m \in Running(story) /\ story' = [Teardown(story, {m}) EXCEPT !.run.pc = "relaunch"]
      \/ m \in Running(story) /\ d.how # "embedded" /\ story' = Started(story)
  BY <1>2 DEF LaunchRuns, Becomes, Running
<1>4. CASE /\ story.conns[m] = None /\ story' = Started(Launch(story, m, d))
           /\ raced' = raced \cup Unsent(story, m, d)
  BY <1>1, <1>2, <1>4, LaunchViews DEF ViewInv
<1>5. CASE m \in Running(story) /\ story' = [Teardown(story, {m}) EXCEPT !.run.pc = "relaunch"]
  <2>1. SameViews(story, story')
    BY <1>1, <1>5, TearFit DEF SameViews, SameModules
  <2> QED BY <1>1, <2>1, StepViews
<1>6. CASE m \in Running(story) /\ d.how # "embedded" /\ story' = Started(story)
  <2> DEFINE u == ShowModule(story, m)
  <2>1. story' = StartNext(u)
    BY <1>6 DEF Started
  <2>2. Shape(u)
    BY <1>1, ShowBeside DEF Beside, Shape
  <2>3. ViewsOK(u)
    BY <1>1, <1>6, ShowViews DEF ViewInv
  <2>4. Waiting(story) => Waiting(u)
    BY <1>1, <1>6, ShowWaits DEF ViewInv
  <2> HIDE DEF u
  <2>5. SameViews(u, story')
    BY <2>1, <2>2, DoneViews
  <2>6. ViewsOK(story') /\ (Waiting(u) => Waiting(story'))
    BY <2>3, <2>5, ViewsKept
  <2> QED BY <1>1, <2>4, <2>6, SameStory DEF ViewInv
<1> QED BY <1>3, <1>4, <1>5, <1>6

LEMMA KillViews ==
    ASSUME IInv, TypeInv, ViewInv, KillRuns \/ ViewDefocused
    PROVE  ViewInv'
<1>1. /\ raced' = raced /\ story.run.pc \in {"kill", "defocus"}
      /\ \/ story' = [story EXCEPT !.run.pc = "defocus"]
         \/ /\ story.run.m \in Running(story)
            /\ story' = [Teardown(story, {story.run.m}) EXCEPT !.run.pc = "killing"]
         \/ story' = Done(story)
  BY KillEffect
<1>2. CASE story' = [story EXCEPT !.run.pc = "defocus"]
  BY <1>1, <1>2, IInvShape, StepMoves, MovedViews, StepViews
<1>3. CASE /\ story.run.m \in Running(story)
           /\ story' = [Teardown(story, {story.run.m}) EXCEPT !.run.pc = "killing"]
  <2>1. SameViews(story, story')
    BY <1>1, <1>3, TearFit DEF SameViews, SameModules
  <2> QED BY <1>1, <2>1, StepViews
<1>4. CASE story' = Done(story)
  BY <1>1, <1>4, IInvShape, DoneViews, StepViews
<1> QED BY <1>1, <1>2, <1>3, <1>4

LEMMA StopViews ==
    ASSUME IInv, TypeInv, ViewInv, StopRuns
    PROVE  ViewInv'
<1>1. SameViews(story, story') /\ raced' = raced
  BY StopEffect DEF SameViews, SameModules
<1> QED BY <1>1, StepViews

\* When the story has stopped no module runs, and no view waits.
LEMMA CleanupViews ==
    ASSUME IInv, TypeInv, ViewInv, StopEnds
    PROVE  ViewInv'
<1>1. story.pending = {} /\ story.views \subseteq Module
  <2>1. \A m \in Module : story.conns[m] = None
    BY CleanupEffect DEF TypeInv, Fit, RunTyped
  <2> QED BY <2>1 DEF ViewInv, ViewsOK, Running
<1>2. story'.pending = {} /\ story'.views \subseteq Module
  <2>1. ASSUME NEW s, story' = Done(s), Shape(s), s.views = story.views, s.pending = story.pending
        PROVE  story'.pending = {} /\ story'.views \subseteq Module
    BY <1>1, <2>1, DoneViews DEF SameViews
  <2> QED BY <1>1, <2>1, CleanupEffect
<1>3. ViewsOK(story') /\ Waiting(story')
  BY <1>2 DEF ViewsOK, Waiting
<1> QED BY <1>3, SameStory

LEMMA DownViews ==
    ASSUME IInv, TypeInv, ViewInv, NEW m \in Module, ModuleDown(m)
    PROVE  ViewInv'
<1>1. /\ raced \subseteq raced'
      /\ story.run.pc \in {"relaunch", "killing"} => m = story.run.m
  BY DownEffect
<1>2. PICK s :
        /\ Without(s, m)
        /\ \/ /\ story.run.pc = "relaunch" /\ story' = Started(Launch(s, m, s.run.data))
              /\ raced' = raced \cup Unsent(s, m, s.run.data)
           \/ story.run.pc = "killing" /\ story' = Done(s)
           \/ /\ story.run.pc = "stopping"
              /\ story' = IF Running(s) = {} THEN [s EXCEPT !.run.pc = "stopShell"] ELSE s
  BY DownEffect
<1>3. /\ Shape(s) /\ QueueOK(s.queue) /\ s.run = story.run /\ Body(s, ledger)
      /\ s.conns[m] = None /\ \A x \in Module \ {m} : s.conns[x] = story.conns[x]
      /\ s.views = story.views /\ s.shell = story.shell /\ s.pending = story.pending \ {m}
  BY <1>2 DEF Without
<1>4. ViewsOK(s)
  BY <1>3 DEF ViewInv, ViewsOK, Running
<1>5. "unsent" \notin raced => Waiting(s)
  <2> SUFFICES ASSUME Waiting(story), NEW x \in s.pending PROVE FindAnchor(s, x) \notin s.views
    BY DEF ViewInv, Waiting
  <2>1. x \in Module
    BY <1>4 DEF ViewsOK, Running
  <2>2. FindAnchor(s, x) \in {FindAnchor(story, x), None}
    BY <1>3, <2>1, LostAnchor
  <2>3. None \notin s.views
    BY <1>4, PathAssumption DEF ViewsOK
  <2> QED BY <1>3, <2>2, <2>3 DEF Waiting
<1>6. ASSUME SameViews(s, story') PROVE ViewInv'
  <2>1. ViewsOK(story') /\ (Waiting(s) => Waiting(story'))
    BY <1>4, <1>6, ViewsKept
  <2>2. "unsent" \notin raced' => Waiting(story')
    BY <1>1, <1>5, <2>1
  <2> QED BY <2>1, <2>2, SameStory
<1>7. CASE /\ story.run.pc = "relaunch" /\ story' = Started(Launch(s, m, s.run.data))
           /\ raced' = raced \cup Unsent(s, m, s.run.data)
  <2>1. /\ m = s.run.m /\ s.run.data \in Data /\ ledger[m] # None
    BY <1>1, <1>3, <1>7, LaunchFacts DEF Starting
  <2> QED BY <1>3, <1>4, <1>5, <1>7, <2>1, LaunchViews
<1>8. CASE story.run.pc = "killing" /\ story' = Done(s)
  BY <1>3, <1>6, <1>8, DoneViews
<1>9. CASE story' = IF Running(s) = {} THEN [s EXCEPT !.run.pc = "stopShell"] ELSE s
  <2>1. SameViews(s, s)
    BY DEF SameViews, SameModules
  <2>2. SameViews(s, [s EXCEPT !.run.pc = "stopShell"])
    <3>1. LET u == [s EXCEPT !.run.pc = "stopShell"] IN Moved(s, u)
      <4>1. Shape(s)
        BY <1>3
      <4> QED BY <4>1, StepMoves
    <3> QED BY <3>1, MovedViews
  <2>3. SameViews(s, story')
    <3>1. CASE Running(s) = {}
      <4>1. story' = [s EXCEPT !.run.pc = "stopShell"]
        BY <1>9, <3>1
      <4> QED BY <2>2, <4>1
    <3> QED BY <1>9, <2>1, <3>1
  <2> QED BY <1>6, <2>3
<1> QED BY <1>2, <1>7, <1>8, <1>9

LEMMA InitViews == Init => ViewInv
BY DEF Init, ViewInv, ViewsOK, Waiting

LEMMA NextViews == IInv /\ TypeInv /\ ViewInv /\ [Next]_vars => ViewInv'
<1> SUFFICES ASSUME IInv, TypeInv, ViewInv, [Next]_vars PROVE ViewInv'
  OBVIOUS
<1>1. CASE UNCHANGED vars
  <2>1. story' = story /\ raced' = raced
    BY <1>1 DEF vars
  <2>2. SameViews(story, story')
    BY <2>1 DEF SameViews, SameModules
  <2> QED BY <2>1, <2>2, StepViews
<1>2. CASE Runs
  BY <1>2, StartViews, QuietRunsViews, LaunchRunsViews, KillViews, StopViews, CleanupViews DEF Runs
<1>3. CASE Progress
  BY <1>2, <1>3, OutsideViews, DownViews DEF Progress
<1> QED BY <1>1, <1>3, CallsViews, OutsideViews, QuietRunsViews DEF Next

\* No view whose anchor has been sent is kept back from the shell, whatever the
\* tree of the modules and the order in which they come and go
\* (ProcessPendingViews), unless a module came between the two without a view.
THEOREM StoryForgetsNoView == Spec => []NoViewForgotten
<1>1. ViewInv => NoViewForgotten
  BY DEF ViewInv, Waiting, NoViewForgotten
<1> QED BY <1>1, StoryTypes, InitViews, NextViews, Invariance, PTL DEF Spec

=============================================================================
