-------------------------- MODULE AgentRunnerProofs --------------------------
(***************************************************************************)
(* Proofs about AgentRunner, for any finite number of agents, any number   *)
(* of calls and of faults: the watchers of AgentProvider know the agents   *)
(* that run or will be run, the alarms follow the tasks of the page, and   *)
(* no request that was accepted is lost.                                   *)
(***************************************************************************)
EXTENDS AgentRunner, FiniteSetTheorems, WellFoundedInduction, TLAPS

Fields == {"up", "state", "ops", "busy", "conns", "tasks", "waiting", "entity", "callbacks",
           "watched", "alarm", "due", "known", "unstored", "owed"}

\* What is kept of one agent.
AgentOK(r) ==
    /\ DOMAIN r = Fields
    /\ r.up \in BOOLEAN /\ r.watched \in BOOLEAN /\ r.alarm \in BOOLEAN
    /\ r.known \in BOOLEAN /\ r.unstored \in BOOLEAN
    /\ r.due \in Nat
    /\ r.callbacks \in Seq(Callback)

StorageCall == [op : {"initialize", "write", "delete", "added", "deleted"}, tasks : SUBSET Agent]

TypeInv ==
    /\ DOMAIN agents = Agent /\ \A a \in Agent : AgentOK(agents[a])
    /\ stored \subseteq Agent /\ reported \subseteq Agent /\ queue \in Seq(StorageCall)

\* Watchers are told the agents there are.
ToldInv == ~terminating => told = GetAllAgents(agents)

\* An alarm is posted, or waits for its agent.
Posted(r) == r.alarm => r.due > 0 \/ "alarm" \in ToSet(r.callbacks)

PostedInv == ~terminating => \A a \in Agent : Posted(agents[a])

\* An alarm that waits for its agent is still wanted, and can be deleted.
Wanted(r) == ("alarm" \in ToSet(r.callbacks) => r.alarm) /\ (r.alarm => r.known)

WantedInv == "alarmDeleted" \notin raced => \A a \in Agent : Wanted(agents[a])

\* The operations in the queue that add or delete the task of an agent.
Changes(a) ==
    {i \in DOMAIN queue : a \in queue[i].tasks /\ queue[i].op \in {"initialize", "added", "deleted"}}

\* The last of them agrees with what the page has reported.
LastAgrees(a) ==
    \A i \in Changes(a) :
        (\A k \in Changes(a) : k <= i) => (queue[i].op # "deleted" <=> a \in reported)

\* If there is none, the alarms do.
AlarmAgrees(a) ==
    Changes(a) = {} => /\ a \in reported => agents[a].alarm
                       /\ agents[a].alarm => a \in reported \/ agents[a].unstored

PageInv ==
    raced \cap {"alarmDeleted", "unkeyed", "unread"} = {} =>
        \A a \in Agent : LastAgrees(a) /\ AlarmAgrees(a)

IInv == TypeInv /\ ToldInv /\ PostedInv /\ WantedInv /\ PageInv
USE AgentAssumption, BoundAssumption

-----------------------------------------------------------------------------
(* Callbacks *)

\* Alarms among some callbacks can be counted.
LEMMA AlarmCount ==
    ASSUME NEW cs \in Seq(Callback)
    PROVE  LET n == Cardinality({i \in DOMAIN cs : cs[i] = "alarm"})
           IN  n \in Nat /\ ("alarm" \in ToSet(cs) => n > 0)
<1> DEFINE S == {i \in DOMAIN cs : cs[i] = "alarm"}
<1>1. IsFiniteSet(S)
  <2>1. IsFiniteSet(1..Len(cs))
    BY FS_Interval
  <2> QED BY <2>1, FS_Subset
<1>2. Cardinality(S) \in Nat
  BY <1>1, FS_CardinalityType
<1>3. "alarm" \in ToSet(cs) => S # {}
  BY DEF ToSet
<1>4. S # {} => Cardinality(S) # 0
  BY <1>1, FS_EmptySet
<1> QED BY <1>2, <1>3, <1>4

\* What running some callbacks does to an agent.
LEMMA DoneOK ==
    ASSUME NEW r, AgentOK(r), NEW cs \in Seq(Callback)
    PROVE  LET d == Done(r, cs) IN
             /\ AgentOK(d)
             /\ d.up = r.up /\ d.watched = r.watched /\ d.known = r.known
             /\ d.unstored = r.unstored /\ d.callbacks = r.callbacks
             /\ d.alarm = (r.alarm \/ "alarm" \in ToSet(cs))
             /\ r.due > 0 \/ "alarm" \in ToSet(cs) => d.due > 0
<1> DEFINE n == Cardinality({i \in DOMAIN cs : cs[i] = "alarm"})
           o == r.ops \o FlattenSeq([i \in DOMAIN cs |-> Posts(r, cs, i)])
           d == Done(r, cs)
<1>1. n \in Nat /\ ("alarm" \in ToSet(cs) => n > 0)
  BY AlarmCount
<1>2. d = [r EXCEPT !.ops = o, !.waiting = IF "connect" \in ToSet(cs) THEN 0 ELSE @,
                    !.entity = @ /\ "entity" \notin ToSet(cs),
                    !.alarm = @ \/ "alarm" \in ToSet(cs), !.due = @ + n]
  BY DEF Done
<1> HIDE DEF n, o, d
<1>3. /\ DOMAIN d = Fields /\ d.up = r.up /\ d.watched = r.watched /\ d.known = r.known
      /\ d.unstored = r.unstored /\ d.callbacks = r.callbacks
      /\ d.alarm = (r.alarm \/ "alarm" \in ToSet(cs)) /\ d.due = r.due + n
  BY <1>2 DEF AgentOK, Fields
<1>4. r.due \in Nat /\ d.due \in Nat /\ (r.due > 0 \/ "alarm" \in ToSet(cs) => d.due > 0)
  BY <1>1, <1>3 DEF AgentOK
<1>5. AgentOK(d)
  BY <1>3, <1>4 DEF AgentOK
<1> QED BY <1>3, <1>4, <1>5 DEF d

\* RunAgent runs the callbacks that wait.
LEMMA RunAgentOK ==
    ASSUME NEW r, AgentOK(r)
    PROVE  LET q == RunAgent(r) IN
             /\ AgentOK(q)
             /\ q.up = TRUE /\ q.watched = r.watched /\ q.known = r.known
             /\ q.unstored = r.unstored /\ q.callbacks = <<>>
             /\ q.alarm = (r.alarm \/ "alarm" \in ToSet(r.callbacks))
             /\ r.due > 0 \/ "alarm" \in ToSet(r.callbacks) => q.due > 0
<1> DEFINE s == [r EXCEPT !.up = TRUE, !.state = "INITIALIZING", !.ops = <<"init">>,
                          !.busy = FALSE, !.conns = 0, !.tasks = 0]
           d == Done(s, r.callbacks)
<1>1. /\ AgentOK(s) /\ s.up = TRUE /\ s.watched = r.watched /\ s.known = r.known
      /\ s.unstored = r.unstored /\ s.callbacks = r.callbacks /\ s.alarm = r.alarm
      /\ s.due = r.due /\ r.callbacks \in Seq(Callback)
  BY DEF AgentOK, Fields
<1>2. RunAgent(r) = [d EXCEPT !.callbacks = <<>>]
  BY DEF RunAgent
<1> HIDE DEF s
<1>3. /\ AgentOK(d)
      /\ d.up = s.up /\ d.watched = s.watched /\ d.known = s.known
      /\ d.unstored = s.unstored /\ d.callbacks = s.callbacks
      /\ d.alarm = (s.alarm \/ "alarm" \in ToSet(r.callbacks))
      /\ s.due > 0 \/ "alarm" \in ToSet(r.callbacks) => d.due > 0
  BY <1>1, DoneOK
<1> HIDE DEF d
<1> DEFINE q == [d EXCEPT !.callbacks = <<>>]
<1>4. /\ DOMAIN q = Fields /\ q.up = d.up /\ q.watched = d.watched /\ q.known = d.known
      /\ q.unstored = d.unstored /\ q.callbacks = <<>> /\ q.alarm = d.alarm /\ q.due = d.due
  BY <1>3 DEF AgentOK, Fields
<1> HIDE DEF q
<1>5. AgentOK(q)
  BY <1>3, <1>4 DEF AgentOK
<1> QED BY <1>1, <1>2, <1>3, <1>4, <1>5 DEF q

\* A callback joins the others.
LEMMA WaitOK ==
    ASSUME NEW r, AgentOK(r), NEW c \in Callback
    PROVE  LET q == [r EXCEPT !.callbacks = Append(@, c)] IN
             /\ AgentOK(q)
             /\ q.up = r.up /\ q.watched = r.watched /\ q.known = r.known
             /\ q.unstored = r.unstored /\ q.alarm = r.alarm /\ q.due = r.due
             /\ q.state = r.state
             /\ ToSet(q.callbacks) = ToSet(r.callbacks) \cup {c}
<1> DEFINE q == [r EXCEPT !.callbacks = Append(@, c)]
<1>1. /\ DOMAIN q = Fields /\ q.up = r.up /\ q.watched = r.watched /\ q.known = r.known
      /\ q.unstored = r.unstored /\ q.alarm = r.alarm /\ q.due = r.due
      /\ q.state = r.state /\ q.callbacks = Append(r.callbacks, c)
  BY DEF AgentOK, Fields
<1>2. r.callbacks \in Seq(Callback)
  BY DEF AgentOK
<1>3. ToSet(Append(r.callbacks, c)) = ToSet(r.callbacks) \cup {c}
  <2> DEFINE s == r.callbacks
  <2>1. /\ s \in Seq(Callback) /\ Len(s) \in Nat /\ DOMAIN s = 1..Len(s)
        /\ DOMAIN Append(s, c) = 1..(Len(s) + 1) /\ Append(s, c)[Len(s) + 1] = c
        /\ \A i \in 1..Len(s) : Append(s, c)[i] = s[i]
    BY <1>2
  <2> HIDE DEF s
  <2>2. \A i \in 1..(Len(s) + 1) : i \in 1..Len(s) \/ i = Len(s) + 1
    BY <2>1
  <2>3. ToSet(Append(s, c)) \subseteq ToSet(s) \cup {c}
    BY <2>1, <2>2 DEF ToSet
  <2>4. ToSet(s) \cup {c} \subseteq ToSet(Append(s, c))
    <3>1. Len(s) + 1 \in 1..(Len(s) + 1) /\ 1..Len(s) \subseteq 1..(Len(s) + 1)
      BY <2>1
    <3> QED BY <2>1, <3>1 DEF ToSet
  <2> QED BY <2>3, <2>4 DEF s
<1> HIDE DEF q
<1>4. AgentOK(q)
  BY <1>1, <1>2 DEF AgentOK
<1> QED BY <1>1, <1>3, <1>4 DEF q

\* MaybeRunAgent: the alarms of the agent and its callbacks after it.
LEMMA MaybeRunAgentOK ==
    ASSUME NEW r, AgentOK(r), NEW c \in Callback
    PROVE  LET q == MaybeRunAgent(r, c) IN
             /\ AgentOK(q)
             /\ q.watched = r.watched /\ q.known = r.known /\ q.unstored = r.unstored
             /\ r.up => q.up
             /\ r.up /\ q.alarm => r.alarm \/ c = "alarm"
             /\ r.alarm => q.alarm
             /\ q.alarm => r.alarm \/ "alarm" \in ToSet(r.callbacks) \/ c = "alarm"
             /\ "alarm" \in ToSet(q.callbacks) => "alarm" \in ToSet(r.callbacks) \/ c = "alarm"
             /\ r.due > 0 \/ "alarm" \in ToSet(r.callbacks) \/ c = "alarm" =>
                  q.due > 0 \/ "alarm" \in ToSet(q.callbacks)
<1> DEFINE q == MaybeRunAgent(r, c)
           w == [r EXCEPT !.callbacks = Append(@, c)]
<1>1. CASE r.up /\ r.state # "TERMINATING"
  <2>1. q = Done(r, <<c>>) /\ <<c>> \in Seq(Callback)
    BY <1>1 DEF MaybeRunAgent
  <2>2. ToSet(<<c>>) = {c}
    BY DEF ToSet
  <2>3. /\ AgentOK(Done(r, <<c>>))
        /\ Done(r, <<c>>).up = r.up /\ Done(r, <<c>>).watched = r.watched
        /\ Done(r, <<c>>).known = r.known
        /\ Done(r, <<c>>).unstored = r.unstored /\ Done(r, <<c>>).callbacks = r.callbacks
        /\ Done(r, <<c>>).alarm = (r.alarm \/ "alarm" \in ToSet(<<c>>))
        /\ r.due > 0 \/ "alarm" \in ToSet(<<c>>) => Done(r, <<c>>).due > 0
    BY <2>1, DoneOK
  <2> HIDE DEF q
  <2> QED BY <1>1, <2>1, <2>2, <2>3 DEF q
<1>w. /\ AgentOK(w)
      /\ w.up = r.up /\ w.watched = r.watched /\ w.known = r.known
      /\ w.unstored = r.unstored /\ w.alarm = r.alarm /\ w.due = r.due
      /\ w.state = r.state
      /\ ToSet(w.callbacks) = ToSet(r.callbacks) \cup {c}
  BY WaitOK
<1>2. CASE r.up /\ r.state = "TERMINATING"
  <2>1. q = w
    BY <1>2 DEF MaybeRunAgent
  <2> HIDE DEF w, q
  <2> QED BY <1>2, <1>w, <2>1 DEF q
<1>3. CASE ~r.up
  <2>1. q = RunAgent(w)
    BY <1>3 DEF MaybeRunAgent
  <2> HIDE DEF w, q
  <2>2. /\ AgentOK(RunAgent(w))
        /\ RunAgent(w).up = TRUE /\ RunAgent(w).watched = w.watched /\ RunAgent(w).known = w.known
        /\ RunAgent(w).unstored = w.unstored /\ RunAgent(w).callbacks = <<>>
        /\ RunAgent(w).alarm = (w.alarm \/ "alarm" \in ToSet(w.callbacks))
        /\ w.due > 0 \/ "alarm" \in ToSet(w.callbacks) => RunAgent(w).due > 0
    BY <1>w, RunAgentOK
  <2>3. ToSet(<<>>) = {}
    BY DEF ToSet
  <2> QED BY <1>3, <1>w, <2>1, <2>2, <2>3 DEF q
<1> QED BY <1>1, <1>2, <1>3 DEF AgentOK
-----------------------------------------------------------------------------
(* The queue of AgentRunnerStorageImpl *)

\* When the first operation leaves the queue, the last change of a task stays
\* the last, or was the first operation.
LEMMA TailChanges ==
    ASSUME queue \in Seq(StorageCall), queue # <<>>, queue' = Tail(queue), reported' = reported,
           NEW a \in Agent, LastAgrees(a)
    PROVE  /\ LastAgrees(a)'
           /\ Changes(a)' = {} =>
                \/ Changes(a) = {} /\ ~(/\ a \in Head(queue).tasks
                                        /\ Head(queue).op \in {"initialize", "added", "deleted"})
                \/ a \in Head(queue).tasks /\ (Head(queue).op # "deleted" <=> a \in reported)
<1>1. /\ Len(queue) \in Nat /\ Len(queue) > 0 /\ DOMAIN queue = 1..Len(queue)
      /\ DOMAIN queue' = 1..(Len(queue) - 1) /\ Head(queue) = queue[1]
      /\ \A i \in 1..(Len(queue) - 1) : queue'[i] = queue[i + 1]
  OBVIOUS
<1>2. \A i \in 1..(Len(queue) - 1) : i \in Changes(a)' <=> i + 1 \in Changes(a)
  <2>1. \A i \in 1..(Len(queue) - 1) : i + 1 \in 1..Len(queue)
    BY <1>1
  <2> QED BY <1>1, <2>1 DEF Changes
<1>3. Changes(a)' \subseteq 1..(Len(queue) - 1) /\ Changes(a) \subseteq 1..Len(queue)
  BY <1>1 DEF Changes
<1>4. \A k \in 1..Len(queue) : k = 1 \/ (k - 1 \in 1..(Len(queue) - 1) /\ (k - 1) + 1 = k)
  BY <1>1
<1>5. LastAgrees(a)'
  <2> SUFFICES ASSUME NEW i \in Changes(a)', \A k \in Changes(a)' : k <= i
               PROVE  queue'[i].op # "deleted" <=> a \in reported
    BY DEF LastAgrees
  <2>1. i \in 1..(Len(queue) - 1) /\ i + 1 \in Changes(a) /\ queue'[i] = queue[i + 1]
    BY <1>1, <1>2, <1>3
  <2>2. ASSUME NEW k \in Changes(a) PROVE k <= i + 1
    <3>1. CASE k = 1
      BY <1>1, <2>1, <3>1
    <3>2. CASE k # 1
      <4>1. k - 1 \in Changes(a)' /\ k - 1 \in 1..(Len(queue) - 1)
        BY <1>2, <1>3, <1>4, <3>2
      <4>2. k - 1 <= i
        BY <4>1
      <4> QED BY <1>1, <1>3, <2>1, <4>1, <4>2
    <3> QED BY <3>1, <3>2
  <2> QED BY <2>1, <2>2 DEF LastAgrees
<1>6. ASSUME Changes(a)' = {}, Changes(a) # {}
      PROVE  a \in Head(queue).tasks /\ (Head(queue).op # "deleted" <=> a \in reported)
  <2>1. \A k \in Changes(a) : k = 1
    BY <1>2, <1>3, <1>4, <1>6
  <2>2. 1 \in Changes(a)
    BY <1>6, <2>1
  <2>3. queue[1].op # "deleted" <=> a \in reported
    BY <2>1, <2>2 DEF LastAgrees
  <2> QED BY <1>1, <2>2, <2>3 DEF Changes
<1>7. Changes(a) = {} => ~(/\ a \in Head(queue).tasks
                           /\ Head(queue).op \in {"initialize", "added", "deleted"})
  <2>1. 1 \in DOMAIN queue
    BY <1>1
  <2> QED BY <1>1, <2>1 DEF Changes
<1> QED BY <1>5, <1>6, <1>7

\* A step of the queue that leaves alarms alone.
LEMMA TailKeeps ==
    ASSUME TypeInv, PageInv, queue # <<>>, queue' = Tail(queue),
           UNCHANGED reported, raced \subseteq raced',
           \A a \in Agent :
               /\ agents'[a].alarm = agents[a].alarm
               /\ agents'[a].unstored = agents[a].unstored
                  \/ (a \notin reported /\ agents[a].unstored /\ agents[a].alarm =>
                        "unkeyed" \in raced'),
           Head(queue).op \in {"write", "delete"} \/ "unread" \in raced'
    PROVE  PageInv'
<1> SUFFICES ASSUME raced' \cap {"alarmDeleted", "unkeyed", "unread"} = {}, NEW a \in Agent
             PROVE  LastAgrees(a)' /\ AlarmAgrees(a)'
  BY DEF PageInv
<1>1. LastAgrees(a) /\ AlarmAgrees(a) /\ Head(queue).op \in {"write", "delete"}
  BY DEF PageInv
<1>2. queue \in Seq(StorageCall)
  BY DEF TypeInv
<1>3. /\ LastAgrees(a)'
      /\ Changes(a)' = {} =>
           \/ Changes(a) = {} /\ ~(/\ a \in Head(queue).tasks
                                   /\ Head(queue).op \in {"initialize", "added", "deleted"})
           \/ a \in Head(queue).tasks /\ (Head(queue).op # "deleted" <=> a \in reported)
  BY <1>1, <1>2, TailChanges
<1>4. Changes(a)' = {} => Changes(a) = {}
  <2>1. 1 \notin Changes(a)
    BY <1>1, <1>2 DEF Changes
  <2> SUFFICES ASSUME Changes(a)' = {}, NEW k \in Changes(a) PROVE FALSE
    OBVIOUS
  <2>2. k \in 1..Len(queue) /\ k # 1 /\ Len(queue) \in Nat
    BY <1>2, <2>1 DEF Changes
  <2>3. k - 1 \in 1..(Len(queue) - 1) /\ (k - 1) + 1 = k
    BY <2>2
  <2>4. k - 1 \in DOMAIN queue' /\ queue'[k - 1] = queue[k]
    BY <1>2, <2>3
  <2> QED BY <2>4 DEF Changes
<1> QED BY <1>1, <1>3, <1>4 DEF AlarmAgrees

\* A write or a deletion joins the queue.
LEMMA AppendKeeps ==
    ASSUME TypeInv, PageInv, NEW c \in StorageCall, c.op \in {"write", "delete"},
           queue' = Append(queue, c), UNCHANGED <<reported, agents, raced>>
    PROVE  PageInv'
<1>1. queue \in Seq(StorageCall)
  BY DEF TypeInv
<1>2. /\ Len(queue) \in Nat /\ DOMAIN queue = 1..Len(queue) /\ DOMAIN queue' = 1..(Len(queue) + 1)
      /\ queue'[Len(queue) + 1] = c /\ \A i \in 1..Len(queue) : queue'[i] = queue[i]
  BY <1>1
<1>3. \A i \in 1..(Len(queue) + 1) : i \in 1..Len(queue) \/ i = Len(queue) + 1
  BY <1>2
<1>4. 1..Len(queue) \subseteq 1..(Len(queue) + 1)
  BY <1>2
<1>5. ASSUME NEW a \in Agent
      PROVE  Changes(a)' = Changes(a) /\ \A i \in Changes(a) : queue'[i] = queue[i]
  BY <1>2, <1>3, <1>4 DEF Changes
<1> QED BY <1>5 DEF PageInv, LastAgrees, AlarmAgrees

\* The page reports: the new operations are the last changes of their tasks.
LEMMA ReportKeeps ==
    ASSUME TypeInv, PageInv, PageReports
    PROVE  PageInv' /\ queue' \in Seq(StorageCall)
<1>1. PICK added \in Listed(stored \ reported), deleted \in Listed(reported \ stored) :
        queue' = queue \o Each("added", added) \o Each("deleted", deleted)
  BY DEF PageReports
<1> DEFINE x == Each("added", added)
           y == Each("deleted", deleted)
           n == Len(queue)
<1>2. /\ queue \in Seq(StorageCall) /\ stored \subseteq Agent /\ reported \subseteq Agent
      /\ reported' = stored /\ UNCHANGED <<agents, raced>>
  BY DEF TypeInv, PageReports
<1>3. ASSUME NEW S \in SUBSET Agent, NEW s \in Listed(S), NEW op \in {"added", "deleted"}
      PROVE  /\ Each(op, s) \in Seq(StorageCall)
             /\ \A i \in DOMAIN Each(op, s) : Each(op, s)[i].op = op
             /\ \A i \in DOMAIN Each(op, s) : Each(op, s)[i].tasks \subseteq S
             /\ \A a \in S : \E i \in DOMAIN Each(op, s) : a \in Each(op, s)[i].tasks
  <2>1. IsFiniteSet(S)
    BY FS_Subset
  <2>2. Cardinality(S) \in Nat
    BY <2>1, FS_CardinalityType
  <2>3. s \in [1..Cardinality(S) -> S] /\ ToSet(s) = S
    BY DEF Listed
  <2>4. Each(op, s) \in [1..Cardinality(S) -> StorageCall]
    BY <2>3 DEF Each, StorageCall
  <2>5. \A a \in S : \E i \in DOMAIN s : a = s[i]
    BY <2>3 DEF ToSet
  <2>6. \A i \in DOMAIN s : s[i] \in S
    BY <2>3
  <2>7. DOMAIN Each(op, s) = DOMAIN s
        /\ \A i \in DOMAIN s : Each(op, s)[i].op = op /\ Each(op, s)[i].tasks = {s[i]}
    BY DEF Each
  <2>8. Each(op, s) \in Seq(StorageCall)
    BY <2>2, <2>4
  <2> QED BY <2>5, <2>6, <2>7, <2>8
<1>4. /\ x \in Seq(StorageCall) /\ y \in Seq(StorageCall)
      /\ \A i \in DOMAIN x : x[i].op = "added" /\ x[i].tasks \subseteq stored \ reported
      /\ \A i \in DOMAIN y : y[i].op = "deleted" /\ y[i].tasks \subseteq reported \ stored
      /\ \A a \in stored \ reported : \E i \in DOMAIN x : a \in x[i].tasks
      /\ \A a \in reported \ stored : \E i \in DOMAIN y : a \in y[i].tasks
  <2>1. (stored \ reported) \in SUBSET Agent /\ (reported \ stored) \in SUBSET Agent
    BY <1>2
  <2> QED BY <1>3, <2>1
<1>5. queue' = (queue \o x) \o y
  BY <1>1
<1> HIDE DEF x, y
<1>6. /\ queue' \in Seq(StorageCall)
      /\ n \in Nat /\ Len(x) \in Nat /\ Len(y) \in Nat
      /\ DOMAIN queue = 1..n /\ DOMAIN x = 1..Len(x) /\ DOMAIN y = 1..Len(y)
      /\ DOMAIN queue' = 1..(n + Len(x) + Len(y))
      /\ \A i \in 1..n : queue'[i] = queue[i]
  BY <1>2, <1>4, <1>5
<1>7. \A i \in 1..Len(x) : queue'[n + i] = x[i]
  BY <1>2, <1>4, <1>5
<1>8. \A i \in 1..Len(y) : queue'[n + Len(x) + i] = y[i]
  BY <1>2, <1>4, <1>5
<1> HIDE DEF n
<1>9. ASSUME NEW i \in DOMAIN queue'
      PROVE  \/ i \in 1..n
             \/ \E k \in 1..Len(x) : i = n + k
             \/ \E k \in 1..Len(y) : i = n + Len(x) + k
  <2>1. CASE i <= n
    BY <1>6, <2>1
  <2>2. CASE i > n /\ i <= n + Len(x)
    <3>1. i - n \in 1..Len(x) /\ i = n + (i - n)
      BY <1>6, <2>2
    <3> QED BY <3>1
  <2>3. CASE i > n + Len(x)
    <3>1. i - (n + Len(x)) \in 1..Len(y) /\ i = n + Len(x) + (i - (n + Len(x)))
      BY <1>6, <2>3
    <3> QED BY <3>1
  <2> QED BY <1>6, <2>1, <2>2, <2>3
<1>10. ASSUME NEW a \in Agent, NEW i \in DOMAIN queue', a \in queue'[i].tasks
       PROVE  \/ i \in 1..n
              \/ i > n /\ a \in stored \ reported /\ queue'[i].op = "added"
              \/ i > n /\ a \in reported \ stored /\ queue'[i].op = "deleted"
  <2>1. CASE i \in 1..n
    BY <2>1
  <2>2. ASSUME NEW k \in 1..Len(x), i = n + k
        PROVE  i > n /\ a \in stored \ reported /\ queue'[i].op = "added"
    BY <1>4, <1>6, <1>7, <1>10, <2>2
  <2>3. ASSUME NEW k \in 1..Len(y), i = n + Len(x) + k
        PROVE  i > n /\ a \in reported \ stored /\ queue'[i].op = "deleted"
    BY <1>4, <1>6, <1>8, <1>10, <2>3
  <2> QED BY <1>9, <2>1, <2>2, <2>3
<1>11. ASSUME NEW a \in stored \ reported PROVE \E i \in Changes(a)' : i > n
  <2>1. PICK k \in 1..Len(x) : a \in x[k].tasks /\ x[k].op = "added"
    BY <1>4, <1>6
  <2>2. n + k \in DOMAIN queue' /\ n + k > n /\ queue'[n + k] = x[k]
    BY <1>6, <1>7
  <2> QED BY <2>1, <2>2 DEF Changes
<1>12. ASSUME NEW a \in reported \ stored PROVE \E i \in Changes(a)' : i > n
  <2>1. PICK k \in 1..Len(y) : a \in y[k].tasks /\ y[k].op = "deleted"
    BY <1>4, <1>6
  <2>2. n + Len(x) + k \in DOMAIN queue' /\ n + Len(x) + k > n /\ queue'[n + Len(x) + k] = y[k]
    BY <1>6, <1>8
  <2> QED BY <2>1, <2>2 DEF Changes
<1>13. PageInv'
  <2> SUFFICES ASSUME raced \cap {"alarmDeleted", "unkeyed", "unread"} = {}, NEW a \in Agent
               PROVE  LastAgrees(a)' /\ AlarmAgrees(a)'
    BY <1>2 DEF PageInv
  <2>1. LastAgrees(a) /\ AlarmAgrees(a)
    BY DEF PageInv
  <2>2. Changes(a)' \subseteq DOMAIN queue' /\ \A i \in Changes(a)' : a \in queue'[i].tasks
    BY DEF Changes
  <2>3. CASE (\E i \in Changes(a)' : i > n) /\ (a \in stored \ reported \/ a \in reported \ stored)
    <3>1. ASSUME NEW i \in Changes(a)', \A k \in Changes(a)' : k <= i
          PROVE  queue'[i].op # "deleted" <=> a \in stored
      <4>1. i \in DOMAIN queue' /\ i \notin 1..n
        BY <1>6, <2>2, <2>3, <3>1
      <4> QED BY <1>10, <2>2, <4>1
    <3> QED BY <1>2, <2>3, <3>1 DEF LastAgrees, AlarmAgrees
  <2>4. CASE ~(a \in stored \ reported \/ a \in reported \ stored)
    <3>1. Changes(a)' = Changes(a)
      <4>1. Changes(a)' \subseteq 1..n
        BY <1>10, <2>2, <2>4
      <4>2. 1..n \subseteq DOMAIN queue' /\ Changes(a) \subseteq 1..n
        BY <1>6 DEF Changes
      <4> QED BY <1>6, <4>1, <4>2 DEF Changes
    <3>2. \A i \in Changes(a) : queue'[i] = queue[i]
      BY <1>6 DEF Changes
    <3> QED BY <1>2, <2>1, <2>4, <3>1, <3>2 DEF LastAgrees, AlarmAgrees
  <2> QED BY <1>11, <1>12, <2>3, <2>4
<1> QED BY <1>6, <1>13
-----------------------------------------------------------------------------
(* Steps *)

\* What the invariant reads of an agent and a step may leave alone.
Same(r, q) ==
    /\ q.up = r.up /\ q.watched = r.watched /\ q.alarm = r.alarm /\ q.known = r.known
    /\ q.unstored = r.unstored /\ q.callbacks = r.callbacks

\* The agents that watchers see, by agent.
LEMMA SameAgents ==
    ASSUME \A a \in Agent : (agents'[a].up \/ agents'[a].watched \/ agents'[a].alarm)
                              = (agents[a].up \/ agents[a].watched \/ agents[a].alarm)
    PROVE  GetAllAgents(agents') = GetAllAgents(agents)
BY DEF GetAllAgents

\* A step of a context.
LEMMA QuietStep ==
    ASSUME IInv, DOMAIN agents' = Agent,
           \A a \in Agent : /\ AgentOK(agents'[a]) /\ Same(agents[a], agents'[a])
                            /\ \/ agents'[a].due = agents[a].due
                               \/ terminating \/ ~agents[a].alarm,
           UNCHANGED <<storage, told, raced>>, terminating => terminating'
    PROVE  IInv'
<1>0. UNCHANGED <<stored, reported, queue>>
  BY DEF storage
<1>1. TypeInv'
  BY <1>0 DEF IInv, TypeInv
<1>2. ToldInv'
  <2>1. GetAllAgents(agents') = GetAllAgents(agents)
    BY SameAgents DEF Same
  <2> QED BY <2>1 DEF IInv, ToldInv
<1>3. PostedInv'
  BY DEF IInv, PostedInv, Posted, Same
<1>4. WantedInv'
  BY DEF IInv, WantedInv, Wanted, Same
<1>5. PageInv'
  <2>1. \A a \in Agent : Changes(a)' = Changes(a)
    BY <1>0 DEF Changes
  <2> QED BY <1>0, <2>1 DEF IInv, PageInv, LastAgrees, AlarmAgrees, Same
<1> QED BY <1>1, <1>2, <1>3, <1>4, <1>5 DEF IInv

\* The same, for a step of one agent.
LEMMA BecomesStep ==
    ASSUME IInv, NEW a \in Agent, NEW r, Becomes(a, r), AgentOK(r), Same(agents[a], r),
           r.due = agents[a].due
    PROVE  IInv'
<1>1. DOMAIN agents = Agent /\ agents' = [agents EXCEPT ![a] = r]
  BY DEF IInv, TypeInv, Becomes
<1>2. DOMAIN agents' = Agent /\ agents'[a] = r /\ \A b \in Agent \ {a} : agents'[b] = agents[b]
  BY <1>1
<1>3. \A b \in Agent : /\ AgentOK(agents'[b]) /\ Same(agents[b], agents'[b])
                       /\ agents'[b].due = agents[b].due
  BY <1>2 DEF IInv, TypeInv, Same
<1> QED BY <1>2, <1>3, QuietStep DEF Becomes

\* The steps of AgentContextImpl that leave the agent in running_agents_.
LEMMA ContextStep ==
    ASSUME IInv, NEW a \in Agent,
           \/ InitializeRuns(a) \/ InitializeContinues(a) \/ ConnectionRuns(a) \/ TaskRuns(a)
           \/ StopRuns(a) \/ ControllerCloses(a) \/ TaskEnds(a)
    PROVE  IInv'
<1> DEFINE r == agents[a]
<1>0. AgentOK(r)
  BY DEF IInv, TypeInv
<1>d. AgentOK(Drop(r)) /\ Same(r, Drop(r)) /\ Drop(r).due = r.due
  BY <1>0 DEF Drop, AgentOK, Fields, Same
<1> HIDE DEF r
<1>a. ASSUME NEW q, Becomes(a, q), AgentOK(q), Same(r, q), q.due = r.due PROVE IInv'
  BY <1>a, BecomesStep DEF r
<1>1. CASE InitializeRuns(a)
  <2> DEFINE q == [r EXCEPT !.busy = TRUE]
  <2>1. AgentOK(q) /\ Same(r, q) /\ q.due = r.due
    BY <1>0 DEF AgentOK, Fields, Same
  <2>2. Becomes(a, q)
    BY <1>1 DEF InitializeRuns, r
  <2> HIDE DEF q
  <2> QED BY <1>a, <2>1, <2>2
<1>2. CASE InitializeContinues(a)
  <2> DEFINE q == [Drop(r) EXCEPT !.state = "RUNNING"]
  <2>1. AgentOK(q) /\ Same(r, q) /\ q.due = r.due
    BY <1>d DEF AgentOK, Fields, Same
  <2>2. Becomes(a, q)
    BY <1>2 DEF InitializeContinues, r
  <2> HIDE DEF q
  <2> QED BY <1>a, <2>1, <2>2
<1>3. CASE ConnectionRuns(a)
  <2> DEFINE q == [Drop(r) EXCEPT !.conns = @ + 1, !.owed = @ - 1]
  <2>1. AgentOK(q) /\ Same(r, q) /\ q.due = r.due
    BY <1>d DEF AgentOK, Fields, Same
  <2>2. Becomes(a, q)
    BY <1>3 DEF ConnectionRuns, r
  <2> HIDE DEF q
  <2> QED BY <1>a, <2>1, <2>2
<1>4. CASE TaskRuns(a)
  <2> DEFINE q == [Drop(r) EXCEPT !.tasks = @ + 1]
  <2>1. AgentOK(q) /\ Same(r, q) /\ q.due = r.due
    BY <1>d DEF AgentOK, Fields, Same
  <2>2. Becomes(a, q)
    BY <1>4 DEF TaskRuns, r
  <2> HIDE DEF q
  <2> QED BY <1>a, <2>1, <2>2
<1>5. CASE StopRuns(a)
  <2> DEFINE q == [r EXCEPT !.state = "TERMINATING", !.busy = TRUE]
  <2>1. AgentOK(q) /\ Same(r, q) /\ q.due = r.due
    BY <1>0 DEF AgentOK, Fields, Same
  <2>2. Becomes(a, q) \/ Becomes(a, Drop(r))
    BY <1>5 DEF StopRuns, r
  <2> HIDE DEF q
  <2> QED BY <1>a, <1>d, <2>1, <2>2
<1>6. CASE ControllerCloses(a)
  <2> DEFINE q == [r EXCEPT !.conns = @ - 1]
  <2>1. AgentOK(q) /\ Same(r, q) /\ q.due = r.due
    BY <1>0 DEF AgentOK, Fields, Same
  <2>2. Becomes(a, q) \/ Becomes(a, Queue(q, "stop"))
    BY <1>6 DEF ControllerCloses, r
  <2> HIDE DEF q
  <2>3. AgentOK(Queue(q, "stop")) /\ Same(r, Queue(q, "stop")) /\ Queue(q, "stop").due = r.due
    BY <2>1 DEF Queue, AgentOK, Fields, Same
  <2> QED BY <1>a, <2>1, <2>2, <2>3
<1>7. CASE TaskEnds(a)
  <2> DEFINE q == [r EXCEPT !.tasks = @ - 1]
  <2>1. AgentOK(q) /\ Same(r, q) /\ q.due = r.due
    BY <1>0 DEF AgentOK, Fields, Same
  <2>2. Becomes(a, Queue(q, "stop"))
    BY <1>7 DEF TaskEnds, r
  <2> HIDE DEF q
  <2>3. AgentOK(Queue(q, "stop")) /\ Same(r, Queue(q, "stop")) /\ Queue(q, "stop").due = r.due
    BY <2>1 DEF Queue, AgentOK, Fields, Same
  <2> QED BY <1>a, <2>2, <2>3
<1> QED BY <1>1, <1>2, <1>3, <1>4, <1>5, <1>6, <1>7

\* An alarm that nobody wants any more, or that Teardown ends.
LEMMA AlarmExpiresStep ==
    ASSUME IInv, NEW a \in Agent, AlarmExpires(a)
    PROVE  IInv'
<1> DEFINE r == [agents[a] EXCEPT !.due = @ - 1]
<1>1. AgentOK(agents[a]) /\ DOMAIN agents = Agent /\ agents[a].due > 0
  BY DEF IInv, TypeInv, AlarmExpires
<1>2. r.due = agents[a].due - 1 /\ agents[a].due \in Nat
  BY <1>1 DEF AgentOK, Fields
<1>3. AgentOK(r) /\ Same(agents[a], r)
  <2>1. DOMAIN r = Fields /\ Same(agents[a], r) /\ r.due \in Nat
    BY <1>1, <1>2 DEF AgentOK, Fields, Same
  <2> QED BY <1>1, <2>1 DEF AgentOK, Same
<1>4. agents' = [agents EXCEPT ![a] = r]
  BY DEF AlarmExpires
<1> HIDE DEF r
<1>5. DOMAIN agents' = Agent /\ agents'[a] = r /\ \A b \in Agent \ {a} : agents'[b] = agents[b]
  BY <1>1, <1>4
<1>6. \A b \in Agent : /\ AgentOK(agents'[b]) /\ Same(agents[b], agents'[b])
                       /\ \/ agents'[b].due = agents[b].due
                          \/ terminating \/ ~agents[b].alarm
  BY <1>3, <1>5 DEF IInv, TypeInv, Same, AlarmExpires
<1> QED BY <1>5, <1>6, QuietStep DEF AlarmExpires

\* Teardown and its timeout.
LEMMA TeardownStep ==
    ASSUME IInv, Teardown \/ TeardownTimeout
    PROVE  IInv'
<1>1. CASE TeardownTimeout
  BY <1>1, QuietStep DEF TeardownTimeout, IInv, TypeInv, Same
<1>2. CASE Teardown
  <2>1. agents' = [a \in Agent |-> IF agents[a].up THEN Queue(agents[a], "teardown") ELSE agents[a]]
    BY <1>2 DEF Teardown
  <2>2. ASSUME NEW a \in Agent
        PROVE  /\ AgentOK(agents'[a]) /\ Same(agents[a], agents'[a])
               /\ agents'[a].due = agents[a].due
    <3>1. AgentOK(agents[a])
      BY DEF IInv, TypeInv
    <3>2. agents'[a] = Queue(agents[a], "teardown") \/ agents'[a] = agents[a]
      BY <2>1
    <3>3. LET q == Queue(agents[a], "teardown")
          IN  AgentOK(q) /\ Same(agents[a], q) /\ q.due = agents[a].due
      BY <3>1 DEF Queue, AgentOK, Fields, Same
    <3> QED BY <3>1, <3>2, <3>3 DEF Same
  <2>3. DOMAIN agents' = Agent /\ terminating' /\ UNCHANGED <<storage, told, raced>>
    BY <1>2, <2>1 DEF Teardown
  <2> QED BY <2>2, <2>3, QuietStep
<1> QED BY <1>1, <1>2
\* The alarms and their history stay, for all that PageInv reads.
LEMMA PageKept ==
    ASSUME PageInv, UNCHANGED <<reported, queue>>, raced \subseteq raced',
           "alarmDeleted" \notin raced' =>
             \A a \in Agent : /\ agents'[a].alarm = agents[a].alarm
                              /\ agents'[a].unstored = agents[a].unstored
    PROVE  PageInv'
<1>1. \A a \in Agent : Changes(a)' = Changes(a)
  BY DEF Changes
<1> QED BY <1>1 DEF PageInv, LastAgrees, AlarmAgrees

\* A request for an agent: MaybeRunAgent for a record r of it.
LEMMA AskStep ==
    ASSUME IInv, NEW a \in Agent, NEW c \in Callback, NEW r, Asks(a, c, r),
           AgentOK(r), Same(agents[a], r),
           c = "alarm" => agents[a].alarm,
           c # "alarm" => r.due = agents[a].due
    PROVE  IInv'
<1> DEFINE q == MaybeRunAgent(r, c)
<1>1. /\ AgentOK(q)
      /\ q.watched = r.watched /\ q.known = r.known /\ q.unstored = r.unstored
      /\ r.up => q.up
      /\ r.up /\ q.alarm => r.alarm \/ c = "alarm"
      /\ r.alarm => q.alarm
      /\ q.alarm => r.alarm \/ "alarm" \in ToSet(r.callbacks) \/ c = "alarm"
      /\ "alarm" \in ToSet(q.callbacks) => "alarm" \in ToSet(r.callbacks) \/ c = "alarm"
      /\ r.due > 0 \/ "alarm" \in ToSet(r.callbacks) \/ c = "alarm" =>
           q.due > 0 \/ "alarm" \in ToSet(q.callbacks)
  BY MaybeRunAgentOK
<1>2. /\ ~terminating /\ UNCHANGED <<storage, terminating>> /\ raced \subseteq raced'
      /\ IF agents[a].up THEN UNCHANGED told ELSE UpdateWatchers(agents')
  BY DEF Asks
<1>3. DOMAIN agents = Agent /\ agents' = [agents EXCEPT ![a] = q]
  BY DEF IInv, TypeInv, Asks
<1> HIDE DEF q
<1>4. DOMAIN agents' = Agent /\ agents'[a] = q /\ \A b \in Agent \ {a} : agents'[b] = agents[b]
  BY <1>3
<1>5. TypeInv'
  BY <1>1, <1>2, <1>4 DEF IInv, TypeInv, storage
<1>6. ToldInv'
  <2>1. CASE agents[a].up
    <3>1. q.up
      BY <1>1, <2>1 DEF Same
    <3>2. \A b \in Agent : (agents'[b].up \/ agents'[b].watched \/ agents'[b].alarm)
                             = (agents[b].up \/ agents[b].watched \/ agents[b].alarm)
      BY <1>4, <2>1, <3>1
    <3>3. GetAllAgents(agents') = GetAllAgents(agents)
      BY <3>2, SameAgents
    <3> QED BY <1>2, <2>1, <3>3 DEF IInv, ToldInv
  <2>2. CASE ~agents[a].up
    BY <1>2, <2>2 DEF UpdateWatchers, ToldInv
  <2> QED BY <2>1, <2>2
<1>7. PostedInv'
  <2>1. Posted(agents[a])
    BY <1>2 DEF IInv, PostedInv
  <2>2. Posted(q)
    BY <1>1, <2>1 DEF Posted, Same
  <2> QED BY <1>2, <1>4, <2>2 DEF IInv, PostedInv
<1>8. WantedInv'
  <2> SUFFICES ASSUME "alarmDeleted" \notin raced' PROVE \A b \in Agent : Wanted(agents'[b])
    BY DEF WantedInv
  <2>1. \A b \in Agent : Wanted(agents[b])
    BY <1>2 DEF IInv, WantedInv
  <2>2. Wanted(q)
    BY <1>1, <2>1 DEF Wanted, Same
  <2> QED BY <1>4, <2>1, <2>2
<1>9. PageInv'
  <2>1. ASSUME "alarmDeleted" \notin raced'
        PROVE  q.alarm = agents[a].alarm /\ q.unstored = agents[a].unstored
    <3>1. Wanted(agents[a]) /\ AgentOK(agents[a])
      BY <1>2, <2>1 DEF IInv, WantedInv, TypeInv
    <3>2. q.alarm <=> agents[a].alarm
      BY <1>1, <3>1 DEF Wanted, Same
    <3> QED BY <1>1, <3>1, <3>2 DEF AgentOK, Same
  <2>2. UNCHANGED <<reported, queue>>
    BY <1>2 DEF storage
  <2>3. "alarmDeleted" \notin raced' =>
          \A b \in Agent : /\ agents'[b].alarm = agents[b].alarm
                           /\ agents'[b].unstored = agents[b].unstored
    BY <1>4, <2>1
  <2> QED BY <1>2, <2>2, <2>3, PageKept DEF IInv
<1> QED BY <1>5, <1>6, <1>7, <1>8, <1>9 DEF IInv

\* The requests of clients, and the triggers.
LEMMA RequestStep ==
    ASSUME IInv, NEW a \in Agent,
           \/ ConnectToAgent(a) \/ ConnectToEntityProvider(a)
           \/ MessageArrives(a) \/ AlarmFires(a)
    PROVE  IInv'
<1>0. AgentOK(agents[a])
  BY DEF IInv, TypeInv
<1>1. CASE ConnectToAgent(a)
  <2> DEFINE r == [agents[a] EXCEPT !.waiting = @ + 1, !.owed = @ + 1]
  <2>1. AgentOK(r) /\ Same(agents[a], r) /\ r.due = agents[a].due
    BY <1>0 DEF AgentOK, Fields, Same
  <2>2. Asks(a, "connect", r)
    BY <1>1 DEF ConnectToAgent
  <2> HIDE DEF r
  <2> QED BY <2>1, <2>2, AskStep DEF Callback
<1>2. CASE ConnectToEntityProvider(a)
  <2> DEFINE r == [agents[a] EXCEPT !.entity = TRUE, !.owed = @ + 1]
  <2>1. AgentOK(r) /\ Same(agents[a], r) /\ r.due = agents[a].due
    BY <1>0 DEF AgentOK, Fields, Same
  <2>2. Asks(a, "entity", r)
    BY <1>2 DEF ConnectToEntityProvider
  <2> HIDE DEF r
  <2> QED BY <2>1, <2>2, AskStep DEF Callback
<1>3. CASE MessageArrives(a)
  <2>1. Asks(a, "task", agents[a]) /\ Same(agents[a], agents[a])
    BY <1>3 DEF MessageArrives, Same
  <2> QED BY <1>0, <2>1, AskStep DEF Callback
<1>4. CASE AlarmFires(a)
  <2> DEFINE r == [agents[a] EXCEPT !.due = @ - 1]
  <2>1. Asks(a, "alarm", r) /\ agents[a].due > 0 /\ agents[a].alarm
    BY <1>4 DEF AlarmFires
  <2>2. DOMAIN r = Fields /\ Same(agents[a], r) /\ r.due \in Nat
    <3>1. DOMAIN r = Fields /\ r.due = agents[a].due - 1
      BY <1>0 DEF AgentOK, Fields
    <3>2. Same(agents[a], r)
      BY <1>0 DEF AgentOK, Fields, Same
    <3>3. agents[a].due \in Nat
      BY <1>0 DEF AgentOK
    <3> HIDE DEF r
    <3>4. r.due \in Nat
      BY <2>1, <3>1, <3>3
    <3> QED BY <3>1, <3>2, <3>4
  <2> HIDE DEF r
  <2>3. AgentOK(r)
    BY <1>0, <2>2 DEF AgentOK, Same
  <2> QED BY <2>1, <2>2, <2>3, AskStep DEF Callback
<1> QED BY <1>1, <1>2, <1>3, <1>4

\* An agent is removed, and started again when it is asked for.
LEMMA RemoveStep ==
    ASSUME IInv, NEW a \in Agent, NEW n, RemoveAgent(a, n), UNCHANGED <<storage, terminating>>
    PROVE  IInv'
<1> DEFINE gone == [agents[a] EXCEPT !.up = FALSE, !.state = "INITIALIZING", !.ops = <<>>,
                                     !.busy = FALSE, !.conns = 0, !.tasks = 0, !.owed = @ - n]
<1>1. DOMAIN agents = Agent /\ AgentOK(agents[a])
  BY DEF IInv, TypeInv
<1>2. /\ AgentOK(gone) /\ gone.watched = agents[a].watched /\ gone.alarm = agents[a].alarm
      /\ gone.known = agents[a].known /\ gone.unstored = agents[a].unstored
      /\ gone.callbacks = agents[a].callbacks /\ gone.due = agents[a].due
  BY <1>1 DEF AgentOK, Fields
<1>3. PICK q \in {gone, RunAgent(gone)} : agents' = [agents EXCEPT ![a] = q]
  BY DEF RemoveAgent
<1>4. UpdateWatchers(agents') /\ raced \subseteq raced'
  BY DEF RemoveAgent
<1> HIDE DEF gone
<1>5. /\ AgentOK(RunAgent(gone))
      /\ RunAgent(gone).up = TRUE /\ RunAgent(gone).watched = gone.watched
      /\ RunAgent(gone).known = gone.known
      /\ RunAgent(gone).unstored = gone.unstored /\ RunAgent(gone).callbacks = <<>>
      /\ RunAgent(gone).alarm = (gone.alarm \/ "alarm" \in ToSet(gone.callbacks))
      /\ gone.due > 0 \/ "alarm" \in ToSet(gone.callbacks) => RunAgent(gone).due > 0
  BY <1>2, RunAgentOK
<1>6. DOMAIN agents' = Agent /\ agents'[a] = q /\ \A b \in Agent \ {a} : agents'[b] = agents[b]
  BY <1>1, <1>3
<1>7. AgentOK(q) /\ q.unstored = agents[a].unstored /\ q.known = agents[a].known
  BY <1>2, <1>3, <1>5
<1>8. TypeInv'
  BY <1>6, <1>7 DEF IInv, TypeInv, storage
<1>9. ToldInv'
  BY <1>4 DEF UpdateWatchers, ToldInv
<1>10. PostedInv'
  <2> SUFFICES ASSUME ~terminating PROVE \A b \in Agent : Posted(agents'[b])
    BY DEF PostedInv
  <2>1. \A b \in Agent : Posted(agents[b])
    BY DEF IInv, PostedInv
  <2>2. Posted(q)
    BY <1>2, <1>3, <1>5, <2>1 DEF Posted
  <2> QED BY <1>6, <2>1, <2>2
<1>11. ASSUME "alarmDeleted" \notin raced' PROVE Wanted(q) /\ q.alarm = agents[a].alarm
  <2>1. Wanted(agents[a])
    BY <1>4, <1>11 DEF IInv, WantedInv
  <2>2. ToSet(<<>>) = {}
    BY DEF ToSet
  <2>3. CASE q = gone
    BY <1>2, <2>1, <2>3 DEF Wanted
  <2>4. CASE q = RunAgent(gone)
    <3>1. q.alarm <=> agents[a].alarm
      BY <1>2, <1>5, <2>1, <2>4 DEF Wanted
    <3>2. q.alarm = agents[a].alarm
      BY <1>1, <1>7, <3>1 DEF AgentOK
    <3> QED BY <1>5, <1>7, <2>1, <2>2, <2>4, <3>2 DEF Wanted
  <2> QED BY <1>3, <2>3, <2>4
<1>12. WantedInv'
  BY <1>4, <1>6, <1>11 DEF IInv, WantedInv
<1>13. PageInv'
  <2>1. UNCHANGED <<reported, queue>>
    BY DEF storage
  <2>2. "alarmDeleted" \notin raced' =>
          \A b \in Agent : /\ agents'[b].alarm = agents[b].alarm
                           /\ agents'[b].unstored = agents[b].unstored
    BY <1>6, <1>7, <1>11
  <2> QED BY <1>4, <2>1, <2>2, PageKept DEF IInv
<1> QED BY <1>8, <1>9, <1>10, <1>12, <1>13 DEF IInv

-----------------------------------------------------------------------------
(* Tasks *)

\* AddedTask leaves an alarm that is posted or waits.
LEMMA AddedTaskOK ==
    ASSUME NEW r, AgentOK(r)
    PROVE  LET q == AddedTask(r) IN
             /\ AgentOK(q) /\ q.alarm = TRUE /\ q.known = TRUE
             /\ q.up = r.up /\ q.watched = r.watched /\ q.unstored = r.unstored
             /\ q.callbacks = r.callbacks
             /\ Posted(r) => Posted(q)
             /\ Wanted(q)
<1> DEFINE s == ScheduleAlarmTask(r)
           q == AddedTask(r)
<1>1. /\ DOMAIN s = Fields /\ s.alarm = TRUE /\ s.known = r.known /\ s.up = r.up
      /\ s.watched = r.watched /\ s.unstored = r.unstored /\ s.callbacks = r.callbacks
      /\ (s.due = r.due /\ r.alarm) \/ s.due = r.due + 1
  BY DEF ScheduleAlarmTask, AgentOK, Fields
<1>2. q = [s EXCEPT !.known = TRUE]
  BY DEF AddedTask
<1> HIDE DEF s, q
<1>3. /\ DOMAIN q = Fields /\ q.alarm = TRUE /\ q.known = TRUE /\ q.up = r.up
      /\ q.watched = r.watched /\ q.unstored = r.unstored /\ q.callbacks = r.callbacks
      /\ q.due = s.due
  BY <1>1, <1>2 DEF Fields
<1>4. r.due \in Nat /\ q.due \in Nat /\ (Posted(r) => Posted(q))
  BY <1>1, <1>3 DEF AgentOK, Posted
<1>5. AgentOK(q) /\ Wanted(q)
  BY <1>3, <1>4 DEF AgentOK, Wanted
<1> QED BY <1>3, <1>4, <1>5 DEF q

\* InitializeCall and OnPageChange add the tasks of the first operation.
LEMMA AddTasksStep ==
    ASSUME IInv, InitializeCall \/ TaskAdded
    PROVE  IInv'
<1> DEFINE T == Head(queue).tasks
<1>1. /\ queue # <<>> /\ queue' = Tail(queue) /\ Head(queue).op \in {"initialize", "added"}
      /\ agents' = [a \in Agent |-> IF a \in T THEN AddedTask(agents[a]) ELSE agents[a]]
      /\ UNCHANGED <<stored, reported, terminating, raced>>
      /\ (T = {} /\ UNCHANGED told) \/ UpdateWatchers(agents')
  BY DEF InitializeCall, TaskAdded, Storage
<1>2. \A a \in Agent : AgentOK(agents[a])
  BY DEF IInv, TypeInv
<1> HIDE DEF T
<1>3. ASSUME NEW a \in T, a \in Agent
      PROVE  /\ AgentOK(agents'[a]) /\ agents'[a].alarm = TRUE /\ Wanted(agents'[a])
             /\ Posted(agents[a]) => Posted(agents'[a])
  <2>1. agents'[a] = AddedTask(agents[a])
    BY <1>1, <1>3
  <2>2. LET q == AddedTask(agents[a]) IN
             /\ AgentOK(q) /\ q.alarm = TRUE /\ q.known = TRUE
             /\ q.up = agents[a].up /\ q.watched = agents[a].watched
             /\ q.unstored = agents[a].unstored
             /\ q.callbacks = agents[a].callbacks
             /\ Posted(agents[a]) => Posted(q)
             /\ Wanted(q)
    BY <1>2, <1>3, AddedTaskOK
  <2> QED BY <2>1, <2>2
<1>4. DOMAIN agents' = Agent /\ \A a \in Agent \ T : agents'[a] = agents[a]
  BY <1>1
<1>5. queue \in Seq(StorageCall) /\ queue' \in Seq(StorageCall)
  BY <1>1 DEF IInv, TypeInv
<1>6. TypeInv'
  BY <1>1, <1>2, <1>3, <1>4, <1>5 DEF IInv, TypeInv
<1>7. ToldInv'
  <2>1. CASE UpdateWatchers(agents')
    BY <1>1, <2>1 DEF UpdateWatchers, ToldInv
  <2>2. CASE T = {} /\ UNCHANGED told
    <3>1. GetAllAgents(agents') = GetAllAgents(agents)
      BY <1>4, <2>2, SameAgents
    <3> QED BY <1>1, <2>2, <3>1 DEF IInv, ToldInv
  <2> QED BY <1>1, <2>1, <2>2
<1>8. PostedInv'
  BY <1>1, <1>3, <1>4 DEF IInv, PostedInv
<1>9. WantedInv'
  BY <1>1, <1>3, <1>4 DEF IInv, WantedInv
<1>10. PageInv'
  <2> SUFFICES ASSUME raced \cap {"alarmDeleted", "unkeyed", "unread"} = {}, NEW a \in Agent
               PROVE  LastAgrees(a)' /\ AlarmAgrees(a)'
    BY <1>1 DEF PageInv
  <2>1. LastAgrees(a) /\ AlarmAgrees(a)
    BY DEF IInv, PageInv
  <2>2. /\ LastAgrees(a)'
        /\ Changes(a)' = {} =>
             \/ Changes(a) = {} /\ ~(/\ a \in Head(queue).tasks
                                     /\ Head(queue).op \in {"initialize", "added", "deleted"})
             \/ a \in Head(queue).tasks /\ (Head(queue).op # "deleted" <=> a \in reported)
    BY <1>1, <1>5, <2>1, TailChanges
  <2>3. CASE a \in T
    BY <1>1, <1>3, <2>2, <2>3 DEF AlarmAgrees, T
  <2>4. CASE a \notin T
    BY <1>1, <1>4, <2>1, <2>2, <2>4 DEF AlarmAgrees, T
  <2> QED BY <2>2, <2>3, <2>4
<1> QED BY <1>6, <1>7, <1>8, <1>9, <1>10 DEF IInv

\* OnPageDelete removes the alarm of a task it knows.
LEMMA DeleteTaskStep ==
    ASSUME IInv, TaskDeleted
    PROVE  IInv'
<1> DEFINE T == {a \in Head(queue).tasks : agents[a].known}
<1>1. /\ queue # <<>> /\ queue' = Tail(queue) /\ Head(queue).op = "deleted"
      /\ agents' = [a \in Agent |-> IF a \in T THEN DeletedTask(agents[a]) ELSE agents[a]]
      /\ UNCHANGED <<stored, reported, terminating>>
      /\ (T = {} /\ UNCHANGED told) \/ UpdateWatchers(agents')
      /\ raced \subseteq raced'
      /\ (\E a \in T : "alarm" \in ToSet(agents[a].callbacks)) => "alarmDeleted" \in raced'
  BY DEF TaskDeleted, Storage
<1>2. \A a \in Agent : AgentOK(agents[a])
  BY DEF IInv, TypeInv
<1>3. ASSUME NEW a \in T, a \in Agent
      PROVE  /\ AgentOK(agents'[a]) /\ agents'[a].alarm = FALSE
             /\ agents'[a].callbacks = agents[a].callbacks
  <2>1. agents'[a] = [[agents[a] EXCEPT !.alarm = FALSE] EXCEPT !.known = FALSE]
    BY <1>1, <1>3 DEF DeletedTask, DeleteAlarmTask
  <2> QED BY <1>2, <1>3, <2>1 DEF AgentOK, Fields
<1>4. DOMAIN agents' = Agent /\ \A a \in Agent \ T : agents'[a] = agents[a]
  BY <1>1
<1>5. queue \in Seq(StorageCall) /\ queue' \in Seq(StorageCall)
  BY <1>1 DEF IInv, TypeInv
<1>a. \A a \in Head(queue).tasks \ T : ~agents[a].known
  OBVIOUS
<1>b. \A a \in T : a \in Head(queue).tasks
  OBVIOUS
<1> HIDE DEF T
<1>6. TypeInv'
  BY <1>1, <1>2, <1>3, <1>4, <1>5 DEF IInv, TypeInv
<1>7. ToldInv'
  <2>1. CASE UpdateWatchers(agents')
    BY <1>1, <2>1 DEF UpdateWatchers, ToldInv
  <2>2. CASE T = {} /\ UNCHANGED told
    <3>1. GetAllAgents(agents') = GetAllAgents(agents)
      BY <1>4, <2>2, SameAgents
    <3> QED BY <1>1, <2>2, <3>1 DEF IInv, ToldInv
  <2> QED BY <1>1, <2>1, <2>2
<1>8. PostedInv'
  BY <1>1, <1>3, <1>4 DEF IInv, PostedInv, Posted
<1>9. WantedInv'
  <2> SUFFICES ASSUME "alarmDeleted" \notin raced', NEW a \in Agent PROVE Wanted(agents'[a])
    BY DEF WantedInv
  <2>1. Wanted(agents[a])
    BY <1>1 DEF IInv, WantedInv
  <2>2. CASE a \in T
    BY <1>1, <1>3, <2>2 DEF Wanted
  <2>3. CASE a \notin T
    BY <1>4, <2>1, <2>3
  <2> QED BY <2>2, <2>3
<1>10. PageInv'
  <2> SUFFICES ASSUME raced' \cap {"alarmDeleted", "unkeyed", "unread"} = {}, NEW a \in Agent
               PROVE  LastAgrees(a)' /\ AlarmAgrees(a)'
    BY DEF PageInv
  <2>1. LastAgrees(a) /\ AlarmAgrees(a) /\ Wanted(agents[a])
    BY <1>1 DEF IInv, PageInv, WantedInv
  <2>2. /\ LastAgrees(a)'
        /\ Changes(a)' = {} =>
             \/ Changes(a) = {} /\ ~(/\ a \in Head(queue).tasks
                                     /\ Head(queue).op \in {"initialize", "added", "deleted"})
             \/ a \in Head(queue).tasks /\ (Head(queue).op # "deleted" <=> a \in reported)
    BY <1>1, <1>5, <2>1, TailChanges
  <2>3. CASE a \in Head(queue).tasks
    <3>1. ~agents'[a].alarm
      BY <1>3, <1>4, <1>a, <2>1, <2>3 DEF Wanted
    <3>2. Changes(a)' = {} => a \notin reported
      BY <1>1, <2>2, <2>3
    <3> QED BY <1>1, <2>2, <3>1, <3>2 DEF AlarmAgrees
  <2>4. CASE a \notin Head(queue).tasks
    BY <1>1, <1>4, <1>b, <2>1, <2>2, <2>4 DEF AlarmAgrees
  <2> QED BY <2>3, <2>4
<1> QED BY <1>6, <1>7, <1>8, <1>9, <1>10 DEF IInv

\* A task that is not persistent.
LEMMA ScheduleStep ==
    ASSUME IInv, NEW a \in Agent, ScheduleQueueTask(a) \/ ScheduleAlarm(a)
    PROVE  IInv'
<1>0. AgentOK(agents[a]) /\ DOMAIN agents = Agent
  BY DEF IInv, TypeInv
<1>1. PICK q : /\ agents' = [agents EXCEPT ![a] = q]
               /\ AgentOK(q) /\ (Posted(agents[a]) => Posted(q))
               /\ Wanted(agents[a]) => Wanted(q)
               /\ \/ q.alarm = agents[a].alarm /\ q.unstored = agents[a].unstored
                  \/ q.alarm = TRUE /\ q.unstored = TRUE
  <2>1. CASE ScheduleQueueTask(a)
    <3> DEFINE q == [agents[a] EXCEPT !.watched = TRUE]
    <3>1. agents' = [agents EXCEPT ![a] = q]
      BY <2>1 DEF ScheduleQueueTask
    <3>2. /\ DOMAIN q = Fields /\ q.watched = TRUE /\ q.up = agents[a].up
          /\ q.alarm = agents[a].alarm /\ q.known = agents[a].known
          /\ q.unstored = agents[a].unstored /\ q.callbacks = agents[a].callbacks
          /\ q.due = agents[a].due
      BY <1>0 DEF AgentOK, Fields
    <3> HIDE DEF q
    <3>3. AgentOK(q) /\ (Posted(agents[a]) => Posted(q)) /\ (Wanted(agents[a]) => Wanted(q))
      BY <1>0, <3>2 DEF AgentOK, Posted, Wanted
    <3> QED BY <3>1, <3>2, <3>3
  <2>2. CASE ScheduleAlarm(a)
    <3> DEFINE s == AddedTask(agents[a])
               q == [s EXCEPT !.unstored = TRUE]
    <3>1. agents' = [agents EXCEPT ![a] = q]
      BY <2>2 DEF ScheduleAlarm
    <3>2. /\ AgentOK(s) /\ s.alarm = TRUE /\ s.known = TRUE
          /\ s.up = agents[a].up /\ s.watched = agents[a].watched
          /\ s.unstored = agents[a].unstored
          /\ s.callbacks = agents[a].callbacks
          /\ Posted(agents[a]) => Posted(s)
          /\ Wanted(s)
      BY <1>0, AddedTaskOK
    <3> HIDE DEF s
    <3>3. /\ DOMAIN q = Fields /\ q.watched = s.watched /\ q.up = s.up
          /\ q.alarm = TRUE /\ q.known = TRUE
          /\ q.unstored = TRUE /\ q.callbacks = s.callbacks
          /\ q.due = s.due
      BY <3>2 DEF AgentOK, Fields
    <3> HIDE DEF q
    <3>4. AgentOK(q) /\ (Posted(agents[a]) => Posted(q)) /\ Wanted(q)
      BY <3>2, <3>3 DEF AgentOK, Posted, Wanted
    <3> QED BY <3>1, <3>3, <3>4
  <2> QED BY <2>1, <2>2
<1>2. UpdateWatchers(agents') /\ UNCHANGED <<stored, reported, queue, terminating, raced>>
  BY DEF ScheduleQueueTask, ScheduleAlarm, Schedules
<1>3. DOMAIN agents' = Agent /\ agents'[a] = q /\ \A b \in Agent \ {a} : agents'[b] = agents[b]
  BY <1>0, <1>1
<1>4. TypeInv'
  BY <1>1, <1>2, <1>3 DEF IInv, TypeInv
<1>5. ToldInv'
  BY <1>2 DEF UpdateWatchers, ToldInv
<1>6. PostedInv'
  BY <1>1, <1>2, <1>3 DEF IInv, PostedInv
<1>7. WantedInv'
  BY <1>1, <1>2, <1>3 DEF IInv, WantedInv
<1>8. PageInv'
  <2>1. \A b \in Agent : Changes(b)' = Changes(b)
    BY <1>2 DEF Changes
  <2> QED BY <1>1, <1>2, <1>3, <2>1 DEF IInv, PageInv, LastAgrees, AlarmAgrees
<1> QED BY <1>4, <1>5, <1>6, <1>7, <1>8 DEF IInv

\* DeleteTaskCall: an alarm that has no key in the page is excepted.
LEMMA DeleteCallStep ==
    ASSUME IInv, DeleteTaskCall
    PROVE  IInv'
<1> DEFINE T == Head(queue).tasks
           u(r) == [r EXCEPT !.unstored = FALSE]
<1>1. /\ queue # <<>> /\ queue' = Tail(queue) /\ Head(queue).op = "delete"
      /\ agents' = [a \in Agent |-> IF a \in T THEN u(agents[a]) ELSE agents[a]]
      /\ stored' = stored \ T
      /\ UNCHANGED <<reported, told, terminating>>
      /\ raced \subseteq raced' /\ raced' \subseteq raced \cup {"unkeyed"}
      /\ (\E a \in T \ reported : agents[a].unstored /\ agents[a].alarm) => "unkeyed" \in raced'
  BY DEF DeleteTaskCall, Storage
<1>2. \A a \in Agent : AgentOK(agents[a])
  BY DEF IInv, TypeInv
<1>3. ASSUME NEW r, AgentOK(r)
      PROVE  /\ DOMAIN u(r) = Fields /\ u(r).up = r.up /\ u(r).watched = r.watched
             /\ u(r).alarm = r.alarm /\ u(r).known = r.known /\ u(r).due = r.due
             /\ u(r).callbacks = r.callbacks /\ u(r).unstored = FALSE
  BY <1>3 DEF AgentOK, Fields
<1> HIDE DEF T, u
<1>4. ASSUME NEW a \in Agent
      PROVE  /\ AgentOK(agents'[a]) /\ agents'[a].up = agents[a].up
             /\ agents'[a].watched = agents[a].watched /\ agents'[a].alarm = agents[a].alarm
             /\ Posted(agents[a]) => Posted(agents'[a])
             /\ Wanted(agents[a]) => Wanted(agents'[a])
             /\ a \notin T => agents'[a].unstored = agents[a].unstored
  <2>1. CASE a \in T
    <3>1. agents'[a] = u(agents[a])
      BY <1>1, <2>1
    <3>2. u(agents[a]).unstored \in BOOLEAN
      BY <1>2, <1>3, Zenon
    <3> DEFINE q == u(agents[a])
    <3>3. /\ DOMAIN q = Fields /\ q.up = agents[a].up /\ q.watched = agents[a].watched
          /\ q.alarm = agents[a].alarm /\ q.known = agents[a].known /\ q.due = agents[a].due
          /\ q.callbacks = agents[a].callbacks /\ AgentOK(agents[a])
      BY <1>2, <1>3
    <3> HIDE DEF q
    <3>4. AgentOK(q)
      BY <3>2, <3>3, Zenon DEF AgentOK, q
    <3>5. (Posted(agents[a]) => Posted(q)) /\ (Wanted(agents[a]) => Wanted(q))
      BY <3>3, Zenon DEF Posted, Wanted
    <3> QED BY <2>1, <3>1, <3>3, <3>4, <3>5, Zenon DEF q
  <2>2. CASE a \notin T
    BY <1>1, <1>2, <2>2
  <2> QED BY <2>1, <2>2
<1>5. DOMAIN agents' = Agent
  BY <1>1
<1>6. TypeInv'
  <2>1. queue' \in Seq(StorageCall)
    BY <1>1 DEF IInv, TypeInv
  <2> QED BY <1>1, <1>4, <1>5, <2>1 DEF IInv, TypeInv
<1>7. ToldInv'
  <2>1. GetAllAgents(agents') = GetAllAgents(agents)
    BY <1>4 DEF GetAllAgents
  <2> QED BY <1>1, <2>1 DEF IInv, ToldInv
<1>8. PostedInv' /\ WantedInv'
  BY <1>1, <1>4 DEF IInv, PostedInv, WantedInv
<1>9. PageInv'
  BY <1>1, <1>4, TailKeeps DEF IInv
<1> QED BY <1>6, <1>7, <1>8, <1>9 DEF IInv

\* The page, and what is on its way to it.
LEMMA StorageStep ==
    ASSUME IInv, \/ WriteTaskCall \/ StorageFails \/ PageReports
                 \/ \E a \in Tasked : StoresTask(a, "write") \/ StoresTask(a, "delete")
    PROVE  IInv'
<1>0. /\ queue \in Seq(StorageCall) /\ stored \subseteq Agent /\ reported \subseteq Agent
      /\ UNCHANGED <<agents, told, terminating>> /\ raced \subseteq raced'
  BY DEF IInv, TypeInv, WriteTaskCall, StorageFails, PageReports, StoresTask, Schedules
<1>1. ASSUME stored' \subseteq Agent, reported' \subseteq Agent, queue' \in Seq(StorageCall), PageInv'
      PROVE  IInv'
  <2>1. TypeInv' /\ ToldInv' /\ PostedInv'
    BY <1>0, <1>1 DEF IInv, TypeInv, ToldInv, PostedInv
  <2>2. WantedInv'
    BY <1>0 DEF IInv, WantedInv
  <2> QED BY <1>1, <2>1, <2>2 DEF IInv
<1>2. CASE WriteTaskCall
  <2>1. /\ queue # <<>> /\ queue' = Tail(queue) /\ Head(queue).op \in {"write", "delete"}
        /\ reported' = reported
        /\ stored' = stored \cup Head(queue).tasks
    BY <1>2 DEF WriteTaskCall, Storage
  <2>2. Head(queue).tasks \subseteq Agent /\ queue' \in Seq(StorageCall)
    <3>1. Head(queue) \in StorageCall /\ queue' \in Seq(StorageCall)
      BY <1>0, <2>1
    <3> QED BY <3>1 DEF StorageCall
  <2>3. PageInv'
    BY <1>0, <2>1, TailKeeps DEF IInv
  <2> QED BY <1>0, <1>1, <2>1, <2>2, <2>3
<1>3. CASE StorageFails
  <2>1. /\ queue # <<>> /\ queue' = Tail(queue) /\ UNCHANGED <<stored, reported>>
        /\ Head(queue).op \in {"write", "delete"} \/ "unread" \in raced'
    BY <1>3 DEF StorageFails, Storage
  <2>2. PageInv'
    BY <1>0, <2>1, TailKeeps DEF IInv
  <2>3. queue' \in Seq(StorageCall)
    BY <1>0, <2>1
  <2> QED BY <1>0, <1>1, <2>1, <2>2, <2>3
<1>4. CASE PageReports
  <2>1. PageInv' /\ queue' \in Seq(StorageCall)
    BY <1>4, ReportKeeps DEF IInv
  <2> QED BY <1>0, <1>1, <1>4, <2>1 DEF PageReports
<1>5. ASSUME NEW a \in Tasked, NEW op \in {"write", "delete"}, StoresTask(a, op) PROVE IInv'
  <2> DEFINE c == [op |-> op, tasks |-> {a}]
  <2>1. c \in StorageCall /\ c.op = op
    BY DEF StorageCall
  <2>2. queue' = Append(queue, c) /\ UNCHANGED <<stored, reported, raced>>
    BY <1>5 DEF StoresTask, Schedules
  <2> HIDE DEF c
  <2>3. PageInv'
    BY <1>0, <2>1, <2>2, AppendKeeps DEF IInv
  <2>4. queue' \in Seq(StorageCall)
    BY <1>0, <2>1, <2>2
  <2> QED BY <1>0, <1>1, <2>2, <2>3, <2>4
<1> QED BY <1>2, <1>3, <1>4, <1>5

-----------------------------------------------------------------------------
(* Theorems *)

\* The invariant holds initially.
LEMMA InitIInv == Init => IInv
<1> SUFFICES ASSUME Init PROVE IInv
  OBVIOUS
<1>1. \A a \in Agent : /\ AgentOK(agents[a]) /\ ~agents[a].up /\ ~agents[a].watched
                       /\ ~agents[a].alarm /\ agents[a].callbacks = <<>>
  <2> SUFFICES ASSUME NEW a \in Agent
               PROVE  /\ AgentOK(agents[a]) /\ ~agents[a].up /\ ~agents[a].watched
                      /\ ~agents[a].alarm /\ agents[a].callbacks = <<>>
    OBVIOUS
  <2>1. /\ DOMAIN agents[a] = Fields
        /\ agents[a].up = FALSE /\ agents[a].watched = FALSE /\ agents[a].alarm = FALSE
        /\ agents[a].known = FALSE /\ agents[a].unstored = FALSE /\ agents[a].due = 0
    BY DEF Init, Fields
  <2>2. agents[a].callbacks = <<>>
    BY DEF Init
  <2>3. agents[a].callbacks \in Seq(Callback)
    BY <2>2
  <2>4. agents[a].due \in Nat
    BY <2>1
  <2>5. /\ agents[a].up \in BOOLEAN /\ agents[a].watched \in BOOLEAN
        /\ agents[a].alarm \in BOOLEAN /\ agents[a].known \in BOOLEAN
        /\ agents[a].unstored \in BOOLEAN
    BY <2>1, Zenon
  <2>6. AgentOK(agents[a])
    BY <2>1, <2>3, <2>4, <2>5, Zenon DEF AgentOK
  <2> QED BY <2>1, <2>2, <2>6
<1>2. [op |-> "initialize", tasks |-> stored] \in StorageCall
  BY DEF Init, StorageCall
<1>3. TypeInv
  BY <1>1, <1>2 DEF Init, TypeInv
<1>4. ToldInv
  BY <1>1 DEF Init, ToldInv, GetAllAgents
<1>5. PostedInv
  BY <1>1 DEF PostedInv, Posted
<1>6. WantedInv
  <2>1. ToSet(<<>>) = {}
    BY DEF ToSet
  <2> QED BY <1>1, <2>1 DEF WantedInv, Wanted
<1>7. PageInv
  <2>1. /\ DOMAIN queue = {1} /\ queue[1].op = "initialize" /\ queue[1].tasks = stored
        /\ reported = stored
    BY DEF Init
  <2>2. \A a \in Agent : Changes(a) = IF a \in stored THEN {1} ELSE {}
    BY <2>1 DEF Changes
  <2> QED BY <1>1, <2>1, <2>2 DEF PageInv, LastAgrees, AlarmAgrees
<1> QED BY <1>3, <1>4, <1>5, <1>6, <1>7 DEF IInv

\* Every step keeps it.
LEMMA NextIInv == IInv /\ [Next]_vars => IInv'
<1> SUFFICES ASSUME IInv, [Next]_vars PROVE IInv'
  OBVIOUS
<1>1. ASSUME NEW a \in Agent, Loop(a) PROVE IInv'
  <2>1. CASE StopEnds(a)
    BY <2>1, RemoveStep DEF StopEnds
  <2> QED BY <1>1, <2>1, ContextStep, AlarmExpiresStep DEF Loop
<1>2. ASSUME NEW a \in Agent, Environment(a) PROVE IInv'
  <2>1. CASE ApplicationDies(a)
    BY <2>1, RemoveStep DEF ApplicationDies
  <2>2. ASSUME a \in Tasked, StoresTask(a, "write") \/ StoresTask(a, "delete") PROVE IInv'
    BY <2>2, StorageStep
  <2> QED BY <1>2, <2>1, <2>2, RequestStep, ScheduleStep, ContextStep DEF Environment
<1>3. CASE UNCHANGED vars
  <2>1. UNCHANGED <<agents, storage, told, raced, terminating>>
    BY <1>3 DEF vars
  <2> QED BY <2>1, QuietStep DEF IInv, TypeInv, Same
<1> QED BY <1>1, <1>2, <1>3, AddTasksStep, DeleteTaskStep, DeleteCallStep, StorageStep,
        TeardownStep DEF Next

\* The invariant of AgentRunner's maps and of the queue of its storage.
THEOREM Invariance == Spec => []IInv
BY InitIInv, NextIInv, PTL DEF Spec

\* Every change of running_agents_, watched_queues_ and running_alarms_ ends in
\* UpdateWatchers, whatever starts, stops or dies in between: watchers know the
\* agents there are, for any number of agents.
THEOREM WatchersAreTold == Spec => []WatchersKnowAgents
<1>1. IInv => WatchersKnowAgents
  BY DEF IInv, ToldInv, WatchersKnowAgents
<1> QED BY <1>1, Invariance, PTL

\* Alarms that fire, tasks that are deleted and scheduled again and operations
\* that fail neither lose an alarm nor bring one back, once the queue is empty.
THEOREM AlarmsAreThoseOfThePage == Spec => []AlarmsFollowPage
<1>1. IInv => AlarmsFollowPage
  <2> SUFFICES ASSUME IInv, queue = <<>>, reported = stored, ~terminating,
                      raced \cap {"alarmDeleted", "unkeyed", "unread"} = {}, NEW a \in Agent
               PROVE  /\ a \in stored => agents[a].alarm
                      /\ agents[a].alarm =>
                           /\ a \in stored \/ agents[a].unstored
                           /\ agents[a].due > 0 \/ "alarm" \in ToSet(agents[a].callbacks)
    BY DEF AlarmsFollowPage
  <2>1. Changes(a) = {}
    BY DEF Changes
  <2> QED BY <2>1 DEF IInv, PageInv, AlarmAgrees, PostedInv, Posted
<1> QED BY <1>1, Invariance, PTL

-----------------------------------------------------------------------------
(* Connections in a queue *)

\* Induction over the natural numbers, for a set.
LEMMA SetInduction ==
    ASSUME NEW S, 0 \in S, \A n \in Nat : n \in S => n + 1 \in S
    PROVE  Nat \subseteq S
<1> DEFINE T == Nat \ S
<1> SUFFICES ASSUME T # {} PROVE FALSE
  OBVIOUS
<1>1. PICK x \in T : \A y \in T : ~(<<y, x>> \in OpToRel(<, Nat))
  <2>1. T \subseteq Nat
    OBVIOUS
  <2> HIDE DEF T
  <2> QED BY <2>1, WFMin, NatLessThanWellFounded
<1>2. x # 0 /\ x - 1 \in Nat /\ x - 1 \notin T
  <2>1. x \in Nat /\ x # 0
    OBVIOUS
  <2>2. x - 1 \in Nat /\ x - 1 < x
    BY <2>1
  <2>3. <<x - 1, x>> \in OpToRel(<, Nat)
    BY <2>1, <2>2 DEF OpToRel
  <2> QED BY <1>1, <2>1, <2>2, <2>3
<1>3. x - 1 \in S /\ x = (x - 1) + 1
  BY <1>2
<1> QED BY <1>2, <1>3

\* FlattenSeq joins its sequences one after the other.
LEMMA FlattenDef ==
    ASSUME NEW s, NEW n \in Nat, n > 0, Len(s) = n
    PROVE  \E f : /\ f = [i \in 1..n |-> IF i = 1 THEN s[i] ELSE f[i - 1] \o s[i]]
                  /\ FlattenSeq(s) = f[n]
<1> DEFINE G(g, m) == g = [i \in 1..m |-> IF i = 1 THEN s[i] ELSE g[i - 1] \o s[i]]
           S == {m \in Nat : \E g : G(g, m)}
<1>1. 0 \in S
  <2>1. G([i \in 1..0 |-> s[i]], 0)
    OBVIOUS
  <2> QED BY <2>1
<1>2. ASSUME NEW m \in Nat, m \in S PROVE m + 1 \in S
  <2>1. PICK g : G(g, m)
    BY <1>2
  <2> DEFINE h == [i \in 1..m + 1 |-> IF i <= m THEN g[i]
                                     ELSE IF i = 1 THEN s[i] ELSE g[i - 1] \o s[i]]
  <2>2. ASSUME NEW i \in 1..m + 1
        PROVE  h[i] = IF i = 1 THEN s[i] ELSE h[i - 1] \o s[i]
    <3>0. \A k \in 1..m : g[k] = IF k = 1 THEN s[k] ELSE g[k - 1] \o s[k]
      BY <2>1
    <3> HIDE DEF G
    <3>1. CASE i = 1
      BY <3>0, <3>1
    <3>2. CASE i # 1 /\ i <= m
      <4>1. i \in 1..m /\ i - 1 \in 1..m
        BY <3>2
      <4>2. h[i] = g[i] /\ h[i - 1] = g[i - 1]
        BY <4>1
      <4> QED BY <3>0, <3>2, <4>1, <4>2
    <3>3. CASE i # 1 /\ i > m
      <4>1. i - 1 \in 1..m /\ i - 1 \in 1..m + 1 /\ ~(i <= m)
        BY <3>3
      <4>2. h[i] = g[i - 1] \o s[i]
        BY <3>3, <4>1
      <4>3. h[i - 1] = g[i - 1]
        BY <4>1
      <4> QED BY <3>3, <4>2, <4>3
    <3> QED BY <3>1, <3>2, <3>3
  <2>3. h = [i \in 1..m + 1 |-> h[i]]
    OBVIOUS
  <2> HIDE DEF h
  <2>4. G(h, m + 1)
    BY <2>2, <2>3
  <2> HIDE DEF G
  <2> QED BY <2>4
<1>3. \E g : G(g, n)
  <2> HIDE DEF G
  <2> QED BY <1>1, <1>2, SetInduction
<1>4. FlattenSeq(s) = (CHOOSE g : G(g, n))[n]
  BY DEF FlattenSeq
<1>5. G(CHOOSE g : G(g, n), n)
  <2> HIDE DEF G
  <2> QED BY <1>3
<1> QED BY <1>4, <1>5

-----------------------------------------------------------------------------
(* Requests *)

\* The connections in a queue of operations.
Connections(q) == {i \in DOMAIN q : q[i] \in {"connect", "entity"}}
Count(q) == Cardinality(Connections(q))

LEMMA CountType ==
    ASSUME NEW q \in Seq(Operation)
    PROVE  IsFiniteSet(Connections(q)) /\ Count(q) \in Nat
<1>1. IsFiniteSet(1..Len(q))
  BY FS_Interval
<1>2. Connections(q) \in SUBSET (1..Len(q))
  BY DEF Connections
<1>3. IsFiniteSet(Connections(q))
  BY <1>1, <1>2, FS_Subset
<1> QED BY <1>3, FS_CardinalityType DEF Count

LEMMA CountConcat ==
    ASSUME NEW p \in Seq(Operation), NEW q \in Seq(Operation)
    PROVE  p \o q \in Seq(Operation) /\ Count(p \o q) = Count(p) + Count(q)
<1> DEFINE T == {Len(p) + i : i \in Connections(q)}
           f == [i \in Connections(q) |-> Len(p) + i]
<1>0. Len(p) \in Nat /\ Len(q) \in Nat /\ p \o q \in Seq(Operation)
  OBVIOUS
<1>1. Connections(q) \subseteq 1..Len(q) /\ Connections(p) \subseteq 1..Len(p)
  BY DEF Connections
<1>2. f \in Bijection(Connections(q), T)
  <2>1. f \in [Connections(q) -> T]
    OBVIOUS
  <2>2. \A i, j \in Connections(q) : f[i] = f[j] => i = j
    BY <1>0, <1>1
  <2>3. \A t \in T : \E i \in Connections(q) : f[i] = t
    OBVIOUS
  <2> HIDE DEF f, T
  <2> QED BY <2>1, <2>2, <2>3 DEF Bijection, Injection, Surjection, IsInjective
<1>3. IsFiniteSet(T) /\ Cardinality(T) = Count(q)
  BY <1>2, CountType, FS_Bijection DEF ExistsBijection, Count
<1>4. Connections(p \o q) = Connections(p) \cup T
  <2>1. ASSUME NEW i \in Connections(p \o q) PROVE i \in Connections(p) \cup T
    <3>1. i \in 1..Len(p) + Len(q) /\ (p \o q)[i] \in {"connect", "entity"}
      BY <1>0, <2>1 DEF Connections
    <3>2. CASE i <= Len(p)
      BY <3>1, <3>2 DEF Connections
    <3>3. CASE i > Len(p)
      <4>1. i - Len(p) \in 1..Len(q) /\ (p \o q)[i] = q[i - Len(p)]
        BY <1>0, <3>1, <3>3
      <4>2. i - Len(p) \in Connections(q)
        BY <3>1, <4>1 DEF Connections
      <4>3. i = Len(p) + (i - Len(p))
        BY <1>0, <3>1
      <4> QED BY <4>2, <4>3
    <3> QED BY <1>0, <3>1, <3>2, <3>3
  <2>2. ASSUME NEW i \in Connections(p) PROVE i \in Connections(p \o q)
    BY <1>0, <1>1, <2>2 DEF Connections
  <2>3. ASSUME NEW i \in Connections(q) PROVE Len(p) + i \in Connections(p \o q)
    <3>1. i \in 1..Len(q) /\ q[i] \in {"connect", "entity"}
      BY <2>3 DEF Connections
    <3>2. Len(p) + i \in 1..Len(p \o q) /\ (p \o q)[Len(p) + i] = q[i]
      BY <1>0, <3>1
    <3> QED BY <3>1, <3>2 DEF Connections
  <2> QED BY <2>1, <2>2, <2>3
<1>5. Connections(p) \cap T = {}
  BY <1>0, <1>1
<1>6. Cardinality(Connections(p) \cup T) = Count(p) + Count(q) - 0
  BY <1>3, <1>5, CountType, FS_Union, FS_EmptySet DEF Count
<1>7. Count(p) \in Nat /\ Count(q) \in Nat
  BY CountType
<1> QED BY <1>0, <1>4, <1>6, <1>7 DEF Count

LEMMA CountOne ==
    /\ Count(<<>>) = 0
    /\ \A op \in Operation : Count(<<op>>) = IF op \in {"connect", "entity"} THEN 1 ELSE 0
<1>1. Connections(<<>>) = {}
  BY DEF Connections
<1>2. \A op \in Operation : Connections(<<op>>) = IF op \in {"connect", "entity"} THEN {1} ELSE {}
  BY DEF Connections
<1> QED BY <1>1, <1>2, FS_EmptySet, FS_Singleton DEF Count

\* The first operation leaves a queue.
LEMMA CountTail ==
    ASSUME NEW q \in Seq(Operation), q # <<>>
    PROVE  /\ Tail(q) \in Seq(Operation) /\ Head(q) \in Operation
           /\ Count(q) = Count(Tail(q)) + IF Head(q) \in {"connect", "entity"} THEN 1 ELSE 0
<1>1. Head(q) \in Operation /\ Tail(q) \in Seq(Operation) /\ <<Head(q)>> \in Seq(Operation)
  OBVIOUS
<1>2. q = <<Head(q)>> \o Tail(q)
  OBVIOUS
<1>3. Count(q) = Count(<<Head(q)>>) + Count(Tail(q))
  BY <1>1, <1>2, CountConcat
<1>4. Count(Tail(q)) \in Nat
  BY <1>1, CountType
<1> QED BY <1>1, <1>3, <1>4, CountOne

\* ForwardConnectionsToAgent posts as many connections as wait.
LEMMA CountForward ==
    ASSUME NEW n \in Nat
    PROVE  [i \in 1..n |-> "connect"] \in Seq(Operation) /\ Count([i \in 1..n |-> "connect"]) = n
<1>1. [i \in 1..n |-> "connect"] \in Seq(Operation)
  BY DEF Operation
<1>2. Connections([i \in 1..n |-> "connect"]) = 1..n
  BY DEF Connections
<1>3. Cardinality(1..n) = n
  BY FS_Interval
<1> QED BY <1>1, <1>2, <1>3 DEF Count

\* What callbacks can post.
Posting == {"connect", "entity", "task"}

LEMMA PostingIsOperation == \A q \in Seq(Posting) : q \in Seq(Operation)
BY DEF Posting, Operation

\* The requests that the first n of some callbacks bring into the queue.
Brought(r, cs, n) ==
    (IF \E k \in 1..n : cs[k] = "connect" THEN r.waiting ELSE 0)
    + (IF r.entity /\ \E k \in 1..n : cs[k] = "entity" THEN 1 ELSE 0)

LEMMA PostsCount ==
    ASSUME NEW r, r.waiting \in Nat, r.entity \in BOOLEAN, NEW cs \in Seq(Callback),
           NEW i \in 1..Len(cs)
    PROVE  /\ Posts(r, cs, i) \in Seq(Posting)
           /\ Brought(r, cs, i) = Brought(r, cs, i - 1) + Count(Posts(r, cs, i))
<1> DEFINE first == \A k \in 1..(i - 1) : cs[k] # cs[i]
           p == Posts(r, cs, i)
<1>0. cs[i] \in {"connect", "entity", "task", "alarm"}
  BY DEF Callback
<1>1. \A x : (\E k \in 1..i : cs[k] = x) <=> (cs[i] = x \/ \E k \in 1..(i - 1) : cs[k] = x)
  <2>1. 1..i = (1..(i - 1)) \cup {i}
    OBVIOUS
  <2> QED BY <2>1
<1>2. CASE cs[i] = "connect"
  <2>1. p = IF first THEN [j \in 1..r.waiting |-> "connect"] ELSE <<>>
    BY <1>2 DEF Posts, ForwardConnectionsToAgent
  <2>2. p \in Seq(Posting) /\ Count(p) = IF first THEN r.waiting ELSE 0
    BY <2>1, CountForward, CountOne DEF Posting
  <2>3. first <=> ~\E k \in 1..(i - 1) : cs[k] = "connect"
    BY <1>2
  <2> QED BY <1>1, <1>2, <2>2, <2>3 DEF Brought
<1>3. CASE cs[i] = "entity"
  <2>1. p = IF first /\ r.entity THEN <<"entity">> ELSE <<>>
    BY <1>3 DEF Posts
  <2> HIDE DEF first, p
  <2>2. p \in Seq(Posting) /\ Count(p) = IF first /\ r.entity THEN 1 ELSE 0
    <3>1. Count(<<"entity">>) = 1
      BY CountOne DEF Operation
    <3>2. CASE first /\ r.entity
      BY <2>1, <3>1, <3>2 DEF Posting
    <3>3. CASE ~(first /\ r.entity)
      BY <2>1, <3>3, CountOne
    <3> QED BY <3>2, <3>3
  <2>3. first <=> ~\E k \in 1..(i - 1) : cs[k] = "entity"
    BY <1>3 DEF first
  <2> QED BY <1>1, <1>3, <2>2, <2>3 DEF Brought, p
<1>4. CASE cs[i] \in {"task", "alarm"}
  <2>1. p = <<"task">>
    BY <1>4 DEF Posts
  <2>2. p \in Seq(Posting) /\ Count(p) = 0
    BY <2>1, CountOne DEF Posting, Operation
  <2> QED BY <1>1, <1>4, <2>2 DEF Brought
<1> QED BY <1>0, <1>2, <1>3, <1>4

LEMMA FlattenPosts ==
    ASSUME NEW r, r.waiting \in Nat, r.entity \in BOOLEAN, NEW cs \in Seq(Callback),
           NEW n \in Nat, n > 0, n = Len(cs), NEW s, Len(s) = n,
           \A i \in 1..n : s[i] = Posts(r, cs, i)
    PROVE  FlattenSeq(s) \in Seq(Posting) /\ Count(FlattenSeq(s)) = Brought(r, cs, n)
<1>1. PICK f : /\ f = [i \in 1..n |-> IF i = 1 THEN s[i] ELSE f[i - 1] \o s[i]]
               /\ FlattenSeq(s) = f[n]
  BY FlattenDef, Zenon
<1>2. \A i \in 1..n : f[i] = IF i = 1 THEN s[i] ELSE f[i - 1] \o s[i]
  BY <1>1
<1> DEFINE S == {k \in Nat : k \in 1..n => f[k] \in Seq(Posting) /\ Count(f[k]) = Brought(r, cs, k)}
<1>3. 0 \in S
  OBVIOUS
<1>4. ASSUME NEW k \in Nat, k \in S PROVE k + 1 \in S
  <2> SUFFICES ASSUME k + 1 \in 1..n
               PROVE  f[k + 1] \in Seq(Posting) /\ Count(f[k + 1]) = Brought(r, cs, k + 1)
    OBVIOUS
  <2> DEFINE p == Posts(r, cs, k + 1)
  <2>1. p \in Seq(Posting) /\ Brought(r, cs, k + 1) = Brought(r, cs, k) + Count(p)
    <3>1. (k + 1) - 1 = k
      OBVIOUS
    <3>2. p \in Seq(Posting) /\ Brought(r, cs, k + 1) = Brought(r, cs, (k + 1) - 1) + Count(p)
      BY PostsCount
    <3> QED BY <3>1, <3>2
  <2>2. Count(p) \in Nat
    BY <2>1, CountType, PostingIsOperation
  <2>3. CASE k = 0
    <3>1. f[k + 1] = p
      BY <1>2, <2>3
    <3>2. Brought(r, cs, 0) = 0
      BY DEF Brought
    <3> QED BY <2>1, <2>2, <2>3, <3>1, <3>2
  <2>4. CASE k > 0
    <3>1. k \in 1..n
      BY <2>4
    <3>2. f[k] \in Seq(Posting) /\ Count(f[k]) = Brought(r, cs, k)
      BY <1>4, <3>1
    <3>3. f[k + 1] = f[k] \o p
      <4>0. k + 1 # 1
        BY <2>4
      <4>1. f[k + 1] = f[(k + 1) - 1] \o s[k + 1]
        BY <1>2, <4>0
      <4>2. (k + 1) - 1 = k
        OBVIOUS
      <4> QED BY <4>1, <4>2
    <3>4. Count(f[k + 1]) = Count(f[k]) + Count(p)
      BY <2>1, <3>2, <3>3, CountConcat, PostingIsOperation
    <3> HIDE DEF p
    <3>5. f[k + 1] \in Seq(Posting)
      BY <2>1, <3>2, <3>3
    <3> QED BY <2>1, <3>2, <3>4, <3>5
  <2> QED BY <2>3, <2>4
<1>5. n \in S
  <2> HIDE DEF S
  <2> QED BY <1>3, <1>4, SetInduction
<1> QED BY <1>1, <1>5

LEMMA FlattenCount ==
    ASSUME NEW r, r.waiting \in Nat, r.entity \in BOOLEAN, NEW cs \in Seq(Callback)
    PROVE  LET q == FlattenSeq([i \in DOMAIN cs |-> Posts(r, cs, i)])
           IN  q \in Seq(Posting) /\ Count(q) = Brought(r, cs, Len(cs))
<1> DEFINE s == [i \in DOMAIN cs |-> Posts(r, cs, i)]
           n == Len(cs)
<1>0. n \in Nat /\ DOMAIN cs = 1..n /\ s = [i \in 1..n |-> Posts(r, cs, i)] /\ Len(s) = n
  OBVIOUS
<1>1. \A i \in 1..n : s[i] = Posts(r, cs, i)
  BY <1>0
<1> HIDE DEF s
<1>2. FlattenSeq(s) \in Seq(Posting) /\ Count(FlattenSeq(s)) = Brought(r, cs, n)
  <2>1. CASE n = 0
    <3>1. FlattenSeq(s) = <<>>
      BY <1>0, <2>1 DEF FlattenSeq
    <3>2. Brought(r, cs, 0) = 0
      BY DEF Brought
    <3> HIDE DEF n
    <3> QED BY <2>1, <3>1, <3>2, CountOne
  <2>2. CASE n > 0
    BY <1>0, <1>1, <2>2, FlattenPosts
  <2> QED BY <1>0, <2>1, <2>2
<1> QED BY <1>2 DEF s

-----------------------------------------------------------------------------
(* No request is lost *)

Typed(r) == r.ops \in Seq(Operation) /\ r.waiting \in Nat /\ r.entity \in BOOLEAN

\* The requests of an agent that are neither served nor refused.
Owes(r) == Count(r.ops) + r.waiting + (IF r.entity THEN 1 ELSE 0)

Stopping == {"stop", "teardown"}

\* A StopCall is the last of what a queue runs, InitializeCall the first.
Ordered(q) ==
    /\ \A i, j \in DOMAIN q : i < j /\ q[i] \in Stopping => q[j] \notin {"connect", "entity"}
    /\ \A i \in DOMAIN q : q[i] = "init" => i = 1

\* A request that waits has a callback, and callbacks wait for the end of an
\* agent that is terminating.
Kept(r) ==
    /\ r.owed = Owes(r)
    /\ r.waiting > 0 => "connect" \in ToSet(r.callbacks)
    /\ r.entity => "entity" \in ToSet(r.callbacks)
    /\ r.callbacks # <<>> => r.up /\ r.state = "TERMINATING"
    /\ ~r.up => r.ops = <<>>
    /\ Ordered(r.ops)
    /\ \A i \in DOMAIN r.ops : r.ops[i] = "init" => r.state = "INITIALIZING"

RequestInv ==
    /\ \A a \in Agent : Typed(agents[a])
    /\ raced \cap {"behindStop", "entityTwice"} = {} /\ ~torn =>
          \A a \in Agent : Kept(agents[a])

\* The callbacks move the requests that wait into the queue.
LEMMA DoneOwes ==
    ASSUME NEW r, AgentOK(r), Typed(r), NEW cs \in Seq(Callback)
    PROVE  LET d == Done(r, cs) IN
             /\ AgentOK(d) /\ Typed(d) /\ Owes(d) = Owes(r)
             /\ d.up = r.up /\ d.state = r.state /\ d.callbacks = r.callbacks
             /\ d.owed = r.owed
             /\ d.waiting = IF "connect" \in ToSet(cs) THEN 0 ELSE r.waiting
             /\ d.entity = (r.entity /\ "entity" \notin ToSet(cs))
             /\ \E q \in Seq(Posting) : d.ops = r.ops \o q
<1> DEFINE n == Cardinality({i \in DOMAIN cs : cs[i] = "alarm"})
           q == FlattenSeq([i \in DOMAIN cs |-> Posts(r, cs, i)])
           d == Done(r, cs)
<1>1. d = [r EXCEPT !.ops = @ \o q, !.waiting = IF "connect" \in ToSet(cs) THEN 0 ELSE @,
                    !.entity = @ /\ "entity" \notin ToSet(cs),
                    !.alarm = @ \/ "alarm" \in ToSet(cs), !.due = @ + n]
  BY DEF Done
<1>2. q \in Seq(Posting) /\ Count(q) = Brought(r, cs, Len(cs))
  BY FlattenCount DEF Typed
<1>3. AgentOK(d)
  BY DoneOK
<1> HIDE DEF n, q, d
<1>4. /\ d.ops = r.ops \o q /\ d.waiting = (IF "connect" \in ToSet(cs) THEN 0 ELSE r.waiting)
      /\ d.entity = (r.entity /\ "entity" \notin ToSet(cs))
      /\ d.up = r.up /\ d.state = r.state /\ d.callbacks = r.callbacks /\ d.owed = r.owed
  BY <1>1 DEF AgentOK, Fields
<1>5. d.ops \in Seq(Operation) /\ Count(d.ops) = Count(r.ops) + Brought(r, cs, Len(cs))
  BY <1>2, <1>4, CountConcat, PostingIsOperation DEF Typed
<1>6. \A x : x \in ToSet(cs) <=> \E k \in 1..Len(cs) : cs[k] = x
  BY DEF ToSet
<1>7. Typed(d)
  BY <1>4, <1>5 DEF Typed
<1>8. Owes(d) = Owes(r)
  <2>1. Count(r.ops) \in Nat
    BY CountType DEF Typed
  <2>2. r.waiting \in Nat /\ r.entity \in BOOLEAN
    BY DEF Typed
  <2>3. Brought(r, cs, Len(cs)) = (IF "connect" \in ToSet(cs) THEN r.waiting ELSE 0)
                                  + (IF r.entity /\ "entity" \in ToSet(cs) THEN 1 ELSE 0)
    BY <1>6 DEF Brought
  <2>4. (IF d.entity THEN 1 ELSE 0) + (IF r.entity /\ "entity" \in ToSet(cs) THEN 1 ELSE 0)
          = IF r.entity THEN 1 ELSE 0
    <3>1. CASE r.entity /\ "entity" \in ToSet(cs)
      <4>1. ~d.entity
        BY <1>4, <3>1, Zenon
      <4> QED BY <3>1, <4>1
    <3>2. CASE r.entity /\ "entity" \notin ToSet(cs)
      <4>1. d.entity
        BY <1>4, <3>2, Zenon
      <4> QED BY <3>2, <4>1
    <3>3. CASE ~r.entity
      <4>1. ~d.entity
        BY <1>4, <3>3, Zenon
      <4> QED BY <3>3, <4>1
    <3> QED BY <3>1, <3>2, <3>3
  <2>5. d.waiting + (IF "connect" \in ToSet(cs) THEN r.waiting ELSE 0) = r.waiting
    BY <1>4, <2>2
  <2> DEFINE b == IF "connect" \in ToSet(cs) THEN r.waiting ELSE 0
             c == IF r.entity /\ "entity" \in ToSet(cs) THEN 1 ELSE 0
             x == IF d.entity THEN 1 ELSE 0
  <2>6. b \in Nat /\ c \in Nat /\ x \in Nat /\ d.waiting \in Nat
    BY <1>4, <2>2
  <2> HIDE DEF b, c, x
  <2>7. Owes(d) = (Count(r.ops) + (b + c)) + d.waiting + x
    BY <1>5, <2>3 DEF Owes, b, c, x
  <2>8. Owes(r) = Count(r.ops) + (d.waiting + b) + (x + c)
    BY <2>4, <2>5 DEF Owes, b, c, x
  <2> QED BY <2>1, <2>6, <2>7, <2>8
<1> QED BY <1>2, <1>3, <1>4, <1>7, <1>8 DEF d

\* Nothing joins a queue behind a StopCall.
LEMMA OrderedConcat ==
    ASSUME NEW p \in Seq(Operation), Ordered(p), NEW q \in Seq(Posting),
           \A i \in DOMAIN p : p[i] \notin Stopping
    PROVE  Ordered(p \o q) /\ \A i \in DOMAIN (p \o q) : (p \o q)[i] = "init" => i \in DOMAIN p /\ p[i] = "init"
<1>0. Len(p) \in Nat /\ Len(q) \in Nat /\ DOMAIN (p \o q) = 1..Len(p) + Len(q)
  OBVIOUS
<1>1. ASSUME NEW i \in 1..Len(p) + Len(q)
      PROVE  IF i <= Len(p) THEN i \in DOMAIN p /\ (p \o q)[i] = p[i] ELSE (p \o q)[i] \in Posting
  BY <1>0
<1>2. "init" \notin Posting /\ Posting \cap Stopping = {}
  BY DEF Posting, Stopping
<1> HIDE DEF Posting
<1>3. \A i \in 1..Len(p) + Len(q) : (p \o q)[i] \notin Stopping
  BY <1>1, <1>2
<1> QED BY <1>0, <1>1, <1>2, <1>3 DEF Ordered

\* A new context runs the callbacks that waited for it.
LEMMA RunAgentKept ==
    ASSUME NEW r, AgentOK(r), Typed(r)
    PROVE  /\ Typed(RunAgent(r))
           /\ /\ r.owed = r.waiting + (IF r.entity THEN 1 ELSE 0)
              /\ r.waiting > 0 => "connect" \in ToSet(r.callbacks)
              /\ r.entity => "entity" \in ToSet(r.callbacks)
              => Kept(RunAgent(r))
<1> DEFINE s == [r EXCEPT !.up = TRUE, !.state = "INITIALIZING", !.ops = <<"init">>,
                          !.busy = FALSE, !.conns = 0, !.tasks = 0]
           d == Done(s, r.callbacks)
           q == [d EXCEPT !.callbacks = <<>>]
<1>1. /\ AgentOK(s) /\ s.up = TRUE /\ s.state = "INITIALIZING" /\ s.ops = <<"init">>
      /\ s.waiting = r.waiting /\ s.entity = r.entity /\ s.owed = r.owed
      /\ r.callbacks \in Seq(Callback)
  BY DEF AgentOK, Fields
<1>2. RunAgent(r) = q
  BY DEF RunAgent
<1> HIDE DEF s
<1>3. Typed(s) /\ Owes(s) = r.waiting + (IF r.entity THEN 1 ELSE 0)
  <2>1. Count(s.ops) = 0
    BY <1>1, CountOne DEF Operation
  <2> QED BY <1>1, <2>1 DEF Typed, Owes, Operation
<1>4. /\ AgentOK(d) /\ Typed(d) /\ Owes(d) = Owes(s)
      /\ d.up = s.up /\ d.state = s.state /\ d.owed = s.owed
      /\ d.waiting = IF "connect" \in ToSet(r.callbacks) THEN 0 ELSE s.waiting
      /\ d.entity = (s.entity /\ "entity" \notin ToSet(r.callbacks))
      /\ \E p \in Seq(Posting) : d.ops = s.ops \o p
  BY <1>1, <1>3, DoneOwes
<1>5. /\ Ordered(d.ops)
  <2>1. PICK p \in Seq(Posting) : d.ops = <<"init">> \o p
    BY <1>1, <1>4
  <2>2. <<"init">> \in Seq(Operation) /\ Ordered(<<"init">>)
    BY DEF Operation, Ordered
  <2>3. \A i \in DOMAIN <<"init">> : <<"init">>[i] \notin Stopping
    BY DEF Stopping
  <2> QED BY <2>1, <2>2, <2>3, OrderedConcat
<1> HIDE DEF d
<1>6. /\ q.ops = d.ops /\ q.waiting = d.waiting /\ q.entity = d.entity /\ q.callbacks = <<>>
      /\ q.up = d.up /\ q.state = d.state /\ q.owed = d.owed
  BY <1>4 DEF AgentOK, Fields
<1> HIDE DEF q
<1>7. Typed(q) /\ Owes(q) = r.waiting + (IF r.entity THEN 1 ELSE 0)
  BY <1>1, <1>3, <1>4, <1>6 DEF Typed, Owes
<1>8. ASSUME r.owed = r.waiting + (IF r.entity THEN 1 ELSE 0),
             r.waiting > 0 => "connect" \in ToSet(r.callbacks),
             r.entity => "entity" \in ToSet(r.callbacks)
      PROVE  Kept(q)
  <2>1. r.waiting \in Nat /\ r.entity \in BOOLEAN
    BY DEF Typed
  <2>2. ~(q.waiting > 0)
    BY <1>1, <1>4, <1>6, <1>8, <2>1
  <2>3. ~q.entity
    BY <1>1, <1>4, <1>6, <1>8, <2>1
  <2>4. q.owed = Owes(q)
    BY <1>1, <1>4, <1>6, <1>7, <1>8
  <2> QED BY <1>1, <1>4, <1>5, <1>6, <2>2, <2>3, <2>4 DEF Kept
<1> QED BY <1>2, <1>7, <1>8

\* MaybeRunAgent keeps the request that comes with a callback.
LEMMA MaybeRunAgentKept ==
    ASSUME NEW r, AgentOK(r), Typed(r), NEW c \in Callback
    PROVE  /\ Typed(MaybeRunAgent(r, c))
           /\ /\ r.owed = Owes(r)
              /\ r.waiting > 0 => "connect" \in ToSet(r.callbacks) \cup {c}
              /\ r.entity => "entity" \in ToSet(r.callbacks) \cup {c}
              /\ r.callbacks # <<>> => r.up /\ r.state = "TERMINATING"
              /\ ~r.up => r.ops = <<>>
              /\ Ordered(r.ops)
              /\ \A i \in DOMAIN r.ops : r.ops[i] = "init" => r.state = "INITIALIZING"
              /\ r.up /\ r.state # "TERMINATING" => \A i \in DOMAIN r.ops : r.ops[i] \notin Stopping
              => Kept(MaybeRunAgent(r, c))
<1> DEFINE s == [r EXCEPT !.callbacks = Append(@, c)]
<1>1. r.up \in BOOLEAN /\ r.callbacks \in Seq(Callback) /\ <<c>> \in Seq(Callback)
  BY DEF AgentOK
<1>2. ToSet(<<c>>) = {c} /\ ToSet(Append(r.callbacks, c)) = ToSet(r.callbacks) \cup {c}
  <2>1. ToSet(<<c>>) = {c}
    BY DEF ToSet
  <2>2. ToSet(Append(r.callbacks, c)) = ToSet(r.callbacks) \cup {c}
    <3>1. s.callbacks = Append(r.callbacks, c)
      BY DEF AgentOK, Fields
    <3> QED BY <3>1, WaitOK
  <2> QED BY <2>1, <2>2
<1>3. /\ AgentOK(s) /\ Typed(s) /\ s.callbacks = Append(r.callbacks, c) /\ s.ops = r.ops
      /\ s.waiting = r.waiting /\ s.entity = r.entity /\ s.up = r.up /\ s.state = r.state
      /\ s.owed = r.owed
  <2>1. DOMAIN s = Fields
    BY DEF AgentOK
  <2> QED BY <1>1, <2>1 DEF AgentOK, Fields, Typed
<1> HIDE DEF s
<1>4. CASE r.up /\ r.state # "TERMINATING"
  <2> DEFINE d == Done(r, <<c>>)
  <2>1. MaybeRunAgent(r, c) = d
    BY <1>4 DEF MaybeRunAgent
  <2>2. /\ AgentOK(d) /\ Typed(d) /\ Owes(d) = Owes(r)
        /\ d.up = r.up /\ d.state = r.state /\ d.callbacks = r.callbacks /\ d.owed = r.owed
        /\ d.waiting = IF "connect" \in {c} THEN 0 ELSE r.waiting
        /\ d.entity = (r.entity /\ "entity" \notin {c})
        /\ \E q \in Seq(Posting) : d.ops = r.ops \o q
    BY <1>1, <1>2, DoneOwes
  <2> HIDE DEF d
  <2>3. ASSUME r.owed = Owes(r),
               r.waiting > 0 => "connect" \in ToSet(r.callbacks) \cup {c},
               r.entity => "entity" \in ToSet(r.callbacks) \cup {c},
               r.callbacks # <<>> => r.up /\ r.state = "TERMINATING",
               Ordered(r.ops),
               \A i \in DOMAIN r.ops : r.ops[i] = "init" => r.state = "INITIALIZING",
               \A i \in DOMAIN r.ops : r.ops[i] \notin Stopping
        PROVE  Kept(d)
    <3>1. r.callbacks = <<>> /\ ToSet(r.callbacks) = {}
      BY <1>4, <2>3 DEF ToSet
    <3>2. ~(d.waiting > 0)
      BY <2>2, <2>3, <3>1 DEF Typed
    <3>3. ~d.entity
      BY <2>2, <2>3, <3>1
    <3>4. Ordered(d.ops) /\ \A i \in DOMAIN d.ops : d.ops[i] = "init" => d.state = "INITIALIZING"
      <4>1. PICK q \in Seq(Posting) : d.ops = r.ops \o q
        BY <2>2
      <4>2. r.ops \in Seq(Operation)
        BY DEF Typed
      <4>3. /\ Ordered(d.ops)
            /\ \A i \in DOMAIN d.ops : d.ops[i] = "init" => i \in DOMAIN r.ops /\ r.ops[i] = "init"
        BY <2>3, <4>1, <4>2, OrderedConcat
      <4> QED BY <2>2, <2>3, <4>3
    <3> QED BY <1>4, <2>2, <2>3, <3>1, <3>2, <3>3, <3>4 DEF Kept
  <2> QED BY <1>4, <2>1, <2>2, <2>3
<1>5. CASE r.up /\ r.state = "TERMINATING"
  <2>1. MaybeRunAgent(r, c) = s
    BY <1>5 DEF MaybeRunAgent, s
  <2>2. Owes(s) = Owes(r)
    BY <1>3 DEF Owes
  <2> QED BY <1>2, <1>3, <1>5, <2>1, <2>2 DEF Kept
<1>6. CASE ~r.up
  <2>1. MaybeRunAgent(r, c) = RunAgent(s)
    BY <1>6 DEF MaybeRunAgent, s
  <2>2. Typed(RunAgent(s))
    BY <1>3, RunAgentKept
  <2>3. ASSUME r.owed = Owes(r),
               r.waiting > 0 => "connect" \in ToSet(r.callbacks) \cup {c},
               r.entity => "entity" \in ToSet(r.callbacks) \cup {c},
               ~r.up => r.ops = <<>>
        PROVE  Kept(RunAgent(s))
    <3>1. s.owed = s.waiting + (IF s.entity THEN 1 ELSE 0)
      BY <1>3, <1>6, <2>3, CountOne DEF Owes, Typed
    <3> QED BY <1>2, <1>3, <2>3, <3>1, RunAgentKept
  <2> QED BY <1>6, <2>1, <2>2, <2>3
<1> QED BY <1>1, <1>4, <1>5, <1>6

Excused == raced \cap {"behindStop", "entityTwice"} # {} \/ torn

\* A step of one agent.
LEMMA RequestOne ==
    ASSUME IInv, RequestInv, NEW a \in Agent, NEW r, agents' = [agents EXCEPT ![a] = r],
           raced \subseteq raced', torn => torn', Typed(r),
           ~Excused' /\ Kept(agents[a]) => Kept(r)
    PROVE  RequestInv'
<1>1. agents'[a] = r /\ \A b \in Agent \ {a} : agents'[b] = agents[b]
  BY DEF IInv, TypeInv
<1>2. \A b \in Agent : Typed(agents'[b])
  BY <1>1 DEF RequestInv
<1>3. ASSUME ~Excused' PROVE \A b \in Agent : Kept(agents'[b])
  <2>1. \A b \in Agent : Kept(agents[b])
    BY <1>3 DEF RequestInv, Excused
  <2> QED BY <1>1, <1>3, <2>1
<1> QED BY <1>2, <1>3 DEF RequestInv, Excused

\* What requests are made of.
SameRequests(r, q) ==
    /\ q.ops = r.ops /\ q.waiting = r.waiting /\ q.entity = r.entity
    /\ q.callbacks = r.callbacks /\ q.up = r.up /\ q.state = r.state /\ q.owed = r.owed

\* A step that has nothing to do with requests.
LEMMA RequestQuiet ==
    ASSUME RequestInv, \A a \in Agent : SameRequests(agents[a], agents'[a]),
           raced \subseteq raced', torn => torn'
    PROVE  RequestInv'
<1>1. \A a \in Agent : Typed(agents'[a])
  BY DEF RequestInv, Typed, SameRequests
<1>2. \A a \in Agent : Kept(agents[a]) => Kept(agents'[a])
  BY DEF Kept, SameRequests, Owes
<1> QED BY <1>1, <1>2 DEF RequestInv

\* The first operation of a queue is done.
LEMMA TailOrdered ==
    ASSUME NEW q \in Seq(Operation), q # <<>>, Ordered(q)
    PROVE  /\ Ordered(Tail(q))
           /\ \A i \in DOMAIN Tail(q) : Tail(q)[i] # "init"
<1> DEFINE p == Tail(q)
<1>1. Len(p) \in Nat /\ \A i \in DOMAIN p : i + 1 \in DOMAIN q /\ i \in Nat /\ i > 0 /\ p[i] = q[i + 1]
  OBVIOUS
<1> HIDE DEF p
<1>2. \A i \in DOMAIN p : p[i] # "init"
  BY <1>1 DEF Ordered
<1>3. Ordered(p)
  BY <1>1, <1>2 DEF Ordered
<1> QED BY <1>2, <1>3 DEF p

\* An operation that brings no request joins it.
LEMMA AppendOrdered ==
    ASSUME NEW q \in Seq(Operation), NEW op \in Stopping
    PROVE  /\ Append(q, op) \in Seq(Operation) /\ Count(Append(q, op)) = Count(q)
           /\ Ordered(q) => Ordered(Append(q, op))
           /\ \A i \in DOMAIN Append(q, op) : Append(q, op)[i] = "init" => i \in DOMAIN q /\ q[i] = "init"
<1>1. op \in Operation /\ op \notin {"connect", "entity", "init"} /\ <<op>> \in Seq(Operation)
  BY DEF Stopping, Operation
<1>2. Append(q, op) = q \o <<op>>
  OBVIOUS
<1>3. Count(q) \in Nat /\ Count(<<op>>) = 0
  BY <1>1, CountType, CountOne
<1>4. Append(q, op) \in Seq(Operation) /\ Count(Append(q, op)) = Count(q)
  <2>1. Count(q \o <<op>>) = Count(q) + Count(<<op>>)
    BY <1>1, CountConcat
  <2>2. Count(q) + Count(<<op>>) = Count(q)
    BY <1>3
  <2> QED BY <1>1, <1>2, <2>1, <2>2
<1> DEFINE p == Append(q, op)
<1>5. /\ Len(q) \in Nat /\ DOMAIN q = 1..Len(q) /\ DOMAIN p = 1..Len(q) + 1
      /\ p[Len(q) + 1] = op /\ \A i \in DOMAIN q : p[i] = q[i]
  OBVIOUS
<1> HIDE DEF p
<1>6. \A i \in DOMAIN p : i \in DOMAIN q \/ i = Len(q) + 1
  BY <1>5
<1>7. \A i \in DOMAIN p : p[i] = "init" => i \in DOMAIN q /\ q[i] = "init"
  BY <1>1, <1>5, <1>6
<1>8. Ordered(q) => Ordered(p)
  <2> SUFFICES ASSUME Ordered(q) PROVE Ordered(p)
    OBVIOUS
  <2>1. ASSUME NEW i \in DOMAIN p, NEW j \in DOMAIN p, i < j, p[i] \in Stopping
        PROVE  p[j] \notin {"connect", "entity"}
    <3>1. CASE j = Len(q) + 1
      BY <1>1, <1>5, <3>1
    <3>2. CASE j # Len(q) + 1
      <4>1. i \in DOMAIN q /\ j \in DOMAIN q
        BY <1>5, <2>1, <3>2
      <4> QED BY <1>5, <2>1, <4>1 DEF Ordered
    <3> QED BY <3>1, <3>2
  <2> QED BY <1>7, <2>1 DEF Ordered
<1> QED BY <1>4, <1>7, <1>8 DEF p

\* MaybeStopAgent and Teardown: a StopCall joins the queue.
LEMMA QueueKept ==
    ASSUME NEW r, AgentOK(r), Typed(r), NEW op \in Stopping
    PROVE  Typed(Queue(r, op)) /\ (Kept(r) /\ r.up => Kept(Queue(r, op)))
<1> DEFINE q == Queue(r, op)
<1>1. /\ q.ops = Append(r.ops, op) /\ q.waiting = r.waiting /\ q.entity = r.entity
      /\ q.callbacks = r.callbacks /\ q.up = r.up /\ q.state = r.state /\ q.owed = r.owed
  BY DEF AgentOK, Fields, Queue
<1>2. r.ops \in Seq(Operation)
  BY DEF Typed
<1> HIDE DEF q
<1>3. Typed(q)
  BY <1>1, <1>2, AppendOrdered DEF Typed
<1>4. Owes(q) = Owes(r)
  BY <1>1, <1>2, AppendOrdered DEF Owes
<1>5. ASSUME Kept(r), r.up PROVE Kept(q)
  <2>1. Ordered(q.ops) /\ \A i \in DOMAIN q.ops : q.ops[i] = "init" => i \in DOMAIN r.ops /\ r.ops[i] = "init"
    BY <1>1, <1>2, <1>5, AppendOrdered DEF Kept
  <2> QED BY <1>1, <1>4, <1>5, <2>1 DEF Kept
<1> QED BY <1>3, <1>5 DEF q

-----------------------------------------------------------------------------
(* Steps *)

\* A change of the fields that have nothing to do with requests.
SameStep(a) == \E r : agents' = [agents EXCEPT ![a] = r] /\ SameRequests(agents[a], r)

LEMMA SameStepKept ==
    ASSUME IInv, RequestInv, NEW a \in Agent, SameStep(a), raced \subseteq raced', torn => torn'
    PROVE  RequestInv'
<1>1. PICK r : agents' = [agents EXCEPT ![a] = r] /\ SameRequests(agents[a], r)
  BY DEF SameStep
<1>2. agents'[a] = r /\ \A b \in Agent \ {a} : agents'[b] = agents[b]
  BY <1>1 DEF IInv, TypeInv
<1>3. \A b \in Agent : SameRequests(agents[b], agents'[b])
  BY <1>1, <1>2 DEF SameRequests
<1> QED BY <1>3, RequestQuiet

\* AgentRunner takes a request or a task.
LEMMA AsksKept ==
    ASSUME IInv, RequestInv, NEW a \in Agent,
           ConnectToAgent(a) \/ ConnectToEntityProvider(a) \/ MessageArrives(a) \/ AlarmFires(a)
    PROVE  RequestInv'
<1> DEFINE o == agents[a]
<1>0. AgentOK(o) /\ Typed(o)
  BY DEF IInv, TypeInv, RequestInv
<1>1. /\ Count(o.ops) \in Nat /\ o.waiting \in Nat /\ o.entity \in BOOLEAN /\ DOMAIN o = Fields
      /\ o.due \in Nat
  BY <1>0, CountType DEF Typed, AgentOK
<1> HIDE DEF o
<1>2. ASSUME NEW c \in Callback, NEW r, Asks(a, c, r),
             AgentOK(r), Typed(r), r.ops = o.ops, r.callbacks = o.callbacks, r.up = o.up,
             r.state = o.state, ~Excused' /\ Kept(o) => r.owed = Owes(r),
             r.waiting > 0 => o.waiting > 0 \/ c = "connect",
             r.entity => o.entity \/ c = "entity"
      PROVE  RequestInv'
  <2> DEFINE m == MaybeRunAgent(r, c)
  <2>1. agents' = [agents EXCEPT ![a] = m] /\ raced' = raced \cup Races(o, c) /\ torn' = torn
    BY <1>2 DEF Asks, o
  <2>2. Typed(m)
    BY <1>2, MaybeRunAgentKept
  <2> HIDE DEF m
  <2>3. ASSUME ~Excused', Kept(o) PROVE Kept(m)
    <3>1. r.owed = Owes(r)
      BY <1>2, <2>3 DEF Kept
    <3>2. r.waiting > 0 => "connect" \in ToSet(r.callbacks) \cup {c}
      BY <1>2, <2>3 DEF Kept
    <3>3. r.entity => "entity" \in ToSet(r.callbacks) \cup {c}
      BY <1>2, <2>3 DEF Kept
    <3>4. /\ r.callbacks # <<>> => r.up /\ r.state = "TERMINATING"
          /\ ~r.up => r.ops = <<>>
          /\ Ordered(r.ops)
          /\ \A i \in DOMAIN r.ops : r.ops[i] = "init" => r.state = "INITIALIZING"
      BY <1>2, <2>3 DEF Kept
    <3>5. "behindStop" \notin Races(o, c)
      BY <2>1, <2>3 DEF Excused
    <3>6. r.up /\ r.state # "TERMINATING" => \A i \in DOMAIN r.ops : r.ops[i] \notin Stopping
      BY <1>2, <3>5 DEF Races, Stopping
    <3> QED BY <1>2, <3>1, <3>2, <3>3, <3>4, <3>6, MaybeRunAgentKept DEF m
  <2> QED BY <2>1, <2>2, <2>3, RequestOne DEF o
<1>3. CASE ConnectToAgent(a)
  <2> DEFINE r == [o EXCEPT !.waiting = @ + 1, !.owed = @ + 1]
  <2>1. Asks(a, "connect", r) /\ "connect" \in Callback
    BY <1>3 DEF ConnectToAgent, o, Callback
  <2>2. /\ AgentOK(r) /\ r.ops = o.ops /\ r.callbacks = o.callbacks /\ r.up = o.up
        /\ r.state = o.state /\ r.entity = o.entity /\ r.waiting = o.waiting + 1 /\ r.owed = o.owed + 1
    BY <1>0, <1>1 DEF AgentOK, Fields
  <2> HIDE DEF r
  <2>3. Typed(r)
    BY <1>0, <2>2 DEF Typed
  <2>4. Owes(r) = Owes(o) + 1
    BY <1>1, <2>2 DEF Owes
  <2>5. Kept(o) => r.owed = Owes(r)
    BY <2>2, <2>4 DEF Kept
  <2> QED BY <1>2, <2>1, <2>2, <2>3, <2>5
<1>4. CASE ConnectToEntityProvider(a)
  <2> DEFINE r == [o EXCEPT !.entity = TRUE, !.owed = @ + 1]
  <2>1. Asks(a, "entity", r) /\ "entity" \in Callback
    BY <1>4 DEF ConnectToEntityProvider, o, Callback
  <2>2. /\ AgentOK(r) /\ r.ops = o.ops /\ r.callbacks = o.callbacks /\ r.up = o.up
        /\ r.state = o.state /\ r.entity = TRUE /\ r.waiting = o.waiting /\ r.owed = o.owed + 1
    BY <1>0, <1>1 DEF AgentOK, Fields
  <2> HIDE DEF r
  <2>3. Typed(r)
    BY <1>0, <2>2 DEF Typed
  <2>4. ~Excused' => ~o.entity
    <3>1. raced' = raced \cup Races(o, "entity")
      BY <2>1 DEF Asks, o
    <3> QED BY <3>1 DEF Races, Excused
  <2>5. ASSUME ~Excused', Kept(o) PROVE r.owed = Owes(r)
    <3>1. ~o.entity
      BY <2>4, <2>5
    <3>2. Owes(o) = Count(o.ops) + o.waiting
      BY <1>1, <3>1 DEF Owes
    <3>3. Owes(r) = Count(o.ops) + o.waiting + 1
      BY <1>1, <2>2 DEF Owes
    <3> QED BY <2>2, <2>5, <3>2, <3>3 DEF Kept
  <2> QED BY <1>2, <2>1, <2>2, <2>3, <2>5
<1>5. CASE MessageArrives(a)
  BY <1>0, <1>2, <1>5 DEF MessageArrives, Callback, Kept, o
<1>6. CASE AlarmFires(a)
  <2> DEFINE r == [o EXCEPT !.due = @ - 1]
  <2>1. Asks(a, "alarm", r) /\ "alarm" \in Callback /\ o.due - 1 \in Nat
    BY <1>1, <1>6 DEF AlarmFires, o, Callback
  <2>2. /\ AgentOK(r) /\ r.ops = o.ops /\ r.callbacks = o.callbacks /\ r.up = o.up
        /\ r.state = o.state /\ r.entity = o.entity /\ r.waiting = o.waiting /\ r.owed = o.owed
    BY <1>0, <1>1, <2>1 DEF AgentOK, Fields
  <2> HIDE DEF r
  <2>3. Typed(r)
    BY <1>0, <2>2 DEF Typed
  <2>4. Kept(o) => r.owed = Owes(r)
    BY <2>2 DEF Kept, Owes
  <2> QED BY <1>2, <2>1, <2>2, <2>3, <2>4
<1> QED BY <1>3, <1>4, <1>5, <1>6

\* The first operation of a context runs and leaves the queue.
LEMMA DropKept ==
    ASSUME NEW o, AgentOK(o), Typed(o), o.ops # <<>>, NEW r, Typed(r),
           r.ops = Tail(o.ops), r.waiting = o.waiting, r.entity = o.entity,
           r.callbacks = o.callbacks, r.up = o.up, r.state = o.state,
           r.owed = o.owed - (Count(o.ops) - Count(r.ops)), o.up
    PROVE  Kept(o) => Kept(r)
<1> SUFFICES ASSUME Kept(o) PROVE Kept(r)
  OBVIOUS
<1>1. o.ops \in Seq(Operation) /\ Ordered(o.ops)
  BY DEF Typed, Kept
<1>2. Ordered(r.ops) /\ \A i \in DOMAIN r.ops : r.ops[i] # "init"
  BY <1>1, TailOrdered
<1>3. Count(o.ops) \in Nat /\ Count(r.ops) \in Nat /\ o.waiting \in Nat
  BY CountType DEF Typed
<1>4. r.owed = Owes(r)
  <2> DEFINE e == IF o.entity THEN 1 ELSE 0
  <2>1. e \in Nat
    OBVIOUS
  <2>2. Owes(o) = Count(o.ops) + o.waiting + e /\ Owes(r) = Count(r.ops) + o.waiting + e
    BY DEF Owes
  <2> HIDE DEF e
  <2> QED BY <1>3, <2>1, <2>2 DEF Kept
<1> QED BY <1>2, <1>4 DEF Kept

LEMMA RunsKept ==
    ASSUME IInv, RequestInv, NEW a \in Agent,
           InitializeContinues(a) \/ ConnectionRuns(a) \/ TaskRuns(a) \/ StopRuns(a)
    PROVE  RequestInv'
<1> DEFINE o == agents[a]
<1>0. AgentOK(o) /\ Typed(o) /\ DOMAIN o = Fields
  BY DEF IInv, TypeInv, RequestInv, AgentOK
<1>1. UNCHANGED <<raced, torn>> /\ o.up /\ o.ops # <<>>
  BY DEF InitializeContinues, ConnectionRuns, TaskRuns, StopRuns, Becomes, Runs, Waits, limits
<1> HIDE DEF o
<1>2. /\ o.ops \in Seq(Operation) /\ Tail(o.ops) \in Seq(Operation)
      /\ Count(o.ops) \in Nat /\ Count(Tail(o.ops)) \in Nat
      /\ Count(o.ops) = Count(Tail(o.ops)) + (IF Head(o.ops) \in {"connect", "entity"} THEN 1 ELSE 0)
  <2>1. o.ops \in Seq(Operation) /\ Tail(o.ops) \in Seq(Operation)
    BY <1>0, <1>1 DEF Typed
  <2> QED BY <1>1, <2>1, CountType, CountTail
<1>3. CASE InitializeContinues(a)
  <2> DEFINE r == [Drop(o) EXCEPT !.state = "RUNNING"]
  <2>1. agents' = [agents EXCEPT ![a] = r] /\ Head(o.ops) = "init"
    BY <1>3 DEF InitializeContinues, Becomes, Waits, o
  <2>2. /\ r.ops = Tail(o.ops) /\ r.waiting = o.waiting /\ r.entity = o.entity
        /\ r.callbacks = o.callbacks /\ r.up = o.up /\ r.state = "RUNNING" /\ r.owed = o.owed
    BY <1>0 DEF Drop, Fields
  <2> HIDE DEF r
  <2>3. Typed(r)
    BY <1>0, <1>2, <2>2 DEF Typed
  <2>4. ASSUME Kept(o) PROVE Kept(r)
    <3>1. 1 \in DOMAIN o.ops /\ o.ops[1] = "init"
      BY <1>1, <1>2, <2>1
    <3>2. o.state = "INITIALIZING" /\ o.callbacks = <<>>
      BY <2>4, <3>1 DEF Kept
    <3>3. Ordered(r.ops) /\ \A i \in DOMAIN r.ops : r.ops[i] # "init"
      BY <1>1, <1>2, <2>2, <2>4, TailOrdered DEF Kept
    <3>4. Owes(r) = Owes(o)
      BY <1>2, <2>1, <2>2 DEF Owes
    <3> QED BY <1>1, <2>2, <2>4, <3>2, <3>3, <3>4 DEF Kept
  <2> QED BY <1>1, <2>1, <2>3, <2>4, RequestOne DEF o
<1>4. CASE ConnectionRuns(a)
  <2> DEFINE r == [Drop(o) EXCEPT !.conns = @ + 1, !.owed = @ - 1]
  <2>1. agents' = [agents EXCEPT ![a] = r] /\ Head(o.ops) \in {"connect", "entity"}
    BY <1>4 DEF ConnectionRuns, Becomes, Runs, o
  <2>2. /\ r.ops = Tail(o.ops) /\ r.waiting = o.waiting /\ r.entity = o.entity
        /\ r.callbacks = o.callbacks /\ r.up = o.up /\ r.state = o.state /\ r.owed = o.owed - 1
    BY <1>0 DEF Drop, Fields
  <2> HIDE DEF r
  <2>3. Typed(r) /\ r.owed = o.owed - (Count(o.ops) - Count(r.ops))
    BY <1>0, <1>2, <2>1, <2>2 DEF Typed
  <2>4. Kept(o) => Kept(r)
    BY <1>0, <1>1, <2>2, <2>3, DropKept
  <2> QED BY <1>1, <2>1, <2>3, <2>4, RequestOne DEF o
<1>5. CASE TaskRuns(a)
  <2> DEFINE r == [Drop(o) EXCEPT !.tasks = @ + 1]
  <2>1. agents' = [agents EXCEPT ![a] = r] /\ Head(o.ops) = "task"
    BY <1>5 DEF TaskRuns, Becomes, Runs, o
  <2>2. /\ r.ops = Tail(o.ops) /\ r.waiting = o.waiting /\ r.entity = o.entity
        /\ r.callbacks = o.callbacks /\ r.up = o.up /\ r.state = o.state /\ r.owed = o.owed
    BY <1>0 DEF Drop, Fields
  <2> HIDE DEF r
  <2>3. Typed(r) /\ Count(r.ops) = Count(o.ops)
    BY <1>0, <1>2, <2>1, <2>2 DEF Typed
  <2>4. ASSUME Kept(o) PROVE r.owed = o.owed - (Count(o.ops) - Count(r.ops))
    BY <1>0, <1>2, <2>2, <2>3, <2>4 DEF Kept, Owes, Typed
  <2>5. Kept(o) => Kept(r)
    BY <1>0, <1>1, <2>2, <2>3, <2>4, DropKept
  <2> QED BY <1>1, <2>1, <2>3, <2>5, RequestOne DEF o
<1>6. CASE StopRuns(a)
  <2>0. Head(o.ops) \in {"stop", "teardown"}
    BY <1>6 DEF StopRuns, Runs, o
  <2>1. CASE agents' = [agents EXCEPT ![a] = Drop(o)]
    <3> DEFINE r == Drop(o)
    <3>2. /\ r.ops = Tail(o.ops) /\ r.waiting = o.waiting /\ r.entity = o.entity
          /\ r.callbacks = o.callbacks /\ r.up = o.up /\ r.state = o.state /\ r.owed = o.owed
      BY <1>0 DEF Drop, Fields
    <3> HIDE DEF r
    <3>3. Typed(r) /\ Count(r.ops) = Count(o.ops)
      BY <1>0, <1>2, <2>0, <3>2 DEF Typed
    <3>4. ASSUME Kept(o) PROVE r.owed = o.owed - (Count(o.ops) - Count(r.ops))
      BY <1>0, <1>2, <3>2, <3>3, <3>4 DEF Kept, Owes, Typed
    <3>5. Kept(o) => Kept(r)
      BY <1>0, <1>1, <3>2, <3>3, <3>4, DropKept
    <3> QED BY <1>1, <2>1, <3>3, <3>5, RequestOne DEF o, r
  <2>2. CASE agents' = [agents EXCEPT ![a] = [o EXCEPT !.state = "TERMINATING", !.busy = TRUE]]
    <3> DEFINE r == [o EXCEPT !.state = "TERMINATING", !.busy = TRUE]
    <3>2. /\ r.ops = o.ops /\ r.waiting = o.waiting /\ r.entity = o.entity
          /\ r.callbacks = o.callbacks /\ r.up = o.up /\ r.state = "TERMINATING" /\ r.owed = o.owed
      BY <1>0 DEF Fields
    <3> HIDE DEF r
    <3>3. Typed(r)
      BY <1>0, <3>2 DEF Typed
    <3>4. ASSUME Kept(o) PROVE Kept(r)
      <4>1. \A i \in DOMAIN o.ops : o.ops[i] # "init"
        <5>1. o.ops[1] \in {"stop", "teardown"}
          BY <1>1, <1>2, <2>0
        <5> QED BY <3>4, <5>1 DEF Kept, Ordered
      <4> QED BY <1>1, <3>2, <3>4, <4>1 DEF Kept, Owes
    <3> QED BY <1>1, <2>2, <3>3, <3>4, RequestOne DEF o, r
  <2> QED BY <1>6, <2>1, <2>2 DEF StopRuns, Becomes, o
<1> QED BY <1>3, <1>4, <1>5, <1>6

\* MaybeStopAgent
LEMMA ClosesKept ==
    ASSUME IInv, RequestInv, NEW a \in Agent, ControllerCloses(a) \/ TaskEnds(a)
    PROVE  RequestInv'
<1> DEFINE o == agents[a]
<1>0. AgentOK(o) /\ Typed(o) /\ DOMAIN o = Fields
  BY DEF IInv, TypeInv, RequestInv, AgentOK
<1>1. UNCHANGED <<raced, torn>> /\ o.up
  BY DEF ControllerCloses, TaskEnds, Becomes, limits
<1> HIDE DEF o
<1>2. ASSUME NEW r, SameRequests(o, r), AgentOK(r), Typed(r)
      PROVE  /\ agents' = [agents EXCEPT ![a] = r] => RequestInv'
             /\ agents' = [agents EXCEPT ![a] = Queue(r, "stop")] => RequestInv'
  <2>1. Kept(o) => Kept(r) /\ r.up
    BY <1>1, <1>2 DEF Kept, SameRequests, Owes
  <2>2. Typed(Queue(r, "stop")) /\ (Kept(r) /\ r.up => Kept(Queue(r, "stop")))
    BY <1>2, QueueKept DEF Stopping
  <2>3. agents' = [agents EXCEPT ![a] = r] => RequestInv'
    BY <1>1, <1>2, <2>1, RequestOne DEF o
  <2>4. ASSUME agents' = [agents EXCEPT ![a] = Queue(r, "stop")] PROVE RequestInv'
    BY <1>1, <2>1, <2>2, <2>4, RequestOne DEF o
  <2> QED BY <2>3, <2>4
<1>3. CASE ControllerCloses(a)
  <2> DEFINE r == [o EXCEPT !.conns = @ - 1]
  <2>1. SameRequests(o, r) /\ AgentOK(r)
    BY <1>0 DEF SameRequests, AgentOK, Fields
  <2>2. \/ agents' = [agents EXCEPT ![a] = r]
        \/ agents' = [agents EXCEPT ![a] = Queue(r, "stop")]
    BY <1>3 DEF ControllerCloses, Becomes, o
  <2> HIDE DEF r
  <2>3. Typed(r)
    BY <1>0, <2>1 DEF Typed, SameRequests
  <2> QED BY <1>2, <2>1, <2>2, <2>3
<1>4. CASE TaskEnds(a)
  <2> DEFINE r == [o EXCEPT !.tasks = @ - 1]
  <2>1. SameRequests(o, r) /\ AgentOK(r)
    BY <1>0 DEF SameRequests, AgentOK, Fields
  <2>2. agents' = [agents EXCEPT ![a] = Queue(r, "stop")]
    BY <1>4 DEF TaskEnds, Becomes, o
  <2> HIDE DEF r
  <2>3. Typed(r)
    BY <1>0, <2>1 DEF Typed, SameRequests
  <2> QED BY <1>2, <2>1, <2>2, <2>3
<1> QED BY <1>3, <1>4

\* Teardown queues a StopCall for every agent.
LEMMA TeardownKept ==
    ASSUME IInv, RequestInv, Teardown, ~torn
    PROVE  RequestInv'
<1>1. raced' = raced /\ \A a \in Agent :
        agents'[a] = IF agents[a].up THEN Queue(agents[a], "teardown") ELSE agents[a]
  BY DEF Teardown
<1>3. \A a \in Agent : Typed(agents'[a])
  BY <1>1, QueueKept DEF IInv, TypeInv, RequestInv, Stopping
<1>4. \A a \in Agent : Kept(agents[a]) => Kept(agents'[a])
  BY <1>1, QueueKept DEF IInv, TypeInv, RequestInv, Stopping
<1> QED BY <1>1, <1>3, <1>4 DEF RequestInv

\* RemoveAgent destroys no request that it does not refuse.
LEMMA RemoveKept ==
    ASSUME IInv, RequestInv, NEW a \in Agent, NEW refused, RemoveAgent(a, refused),
           Kept(agents[a]) => refused = Count(agents[a].ops)
    PROVE  RequestInv'
<1> DEFINE o == agents[a]
           gone == [o EXCEPT !.up = FALSE, !.state = "INITIALIZING", !.ops = <<>>,
                             !.busy = FALSE, !.conns = 0, !.tasks = 0, !.owed = @ - refused]
           last == terminating /\ \A b \in Agent \ {a} : ~agents[b].up
           again == ~last /\ gone.callbacks # <<>>
<1>0. AgentOK(o) /\ Typed(o) /\ DOMAIN o = Fields
  BY DEF IInv, TypeInv, RequestInv, AgentOK
<1>1. /\ agents' = [agents EXCEPT ![a] = IF again THEN RunAgent(gone) ELSE gone]
      /\ raced \subseteq raced' /\ torn' = (torn \/ last)
  BY DEF RemoveAgent
<1>2. /\ AgentOK(gone) /\ gone.up = FALSE /\ gone.ops = <<>> /\ gone.waiting = o.waiting
      /\ gone.entity = o.entity /\ gone.callbacks = o.callbacks /\ gone.owed = o.owed - refused
  BY <1>0 DEF AgentOK, Fields
<1> HIDE DEF gone, last
<1>3. Typed(gone) /\ Count(gone.ops) = 0
  BY <1>0, <1>2, CountOne DEF Typed
<1>4. Typed(RunAgent(gone))
  BY <1>2, <1>3, RunAgentKept
<1>5. ASSUME Kept(o), ~Excused'
      PROVE  Kept(IF again THEN RunAgent(gone) ELSE gone)
  <2>1. Count(o.ops) \in Nat /\ o.waiting \in Nat /\ o.entity \in BOOLEAN
    BY <1>0, CountType DEF Typed
  <2>2. gone.owed = gone.waiting + (IF gone.entity THEN 1 ELSE 0)
    <3> DEFINE e == IF o.entity THEN 1 ELSE 0
    <3>1. e \in Nat
      OBVIOUS
    <3>2. o.owed = Count(o.ops) + o.waiting + e /\ refused = Count(o.ops)
      BY <1>5 DEF Kept, Owes, o
    <3>3. gone.owed = o.waiting + e
      <4> HIDE DEF e, o
      <4> QED BY <1>2, <2>1, <3>1, <3>2
    <3> QED BY <1>2, <3>3
  <2>3. /\ gone.waiting > 0 => "connect" \in ToSet(gone.callbacks)
        /\ gone.entity => "entity" \in ToSet(gone.callbacks)
    BY <1>2, <1>5 DEF Kept
  <2>4. CASE again
    BY <1>2, <1>3, <2>2, <2>3, <2>4, RunAgentKept
  <2>5. CASE ~again
    <3>1. gone.callbacks = <<>>
      BY <1>1, <1>5, <2>5 DEF Excused
    <3>2. Ordered(gone.ops)
      BY <1>2 DEF Ordered
    <3>3. gone.owed = Owes(gone)
      BY <1>2, <1>3, <2>1, <2>2 DEF Owes
    <3>4. Kept(gone)
      BY <1>2, <2>3, <3>1, <3>2, <3>3 DEF Kept
    <3> QED BY <2>5, <3>4
  <2> QED BY <2>4, <2>5
<1>6. Typed(IF again THEN RunAgent(gone) ELSE gone)
  BY <1>3, <1>4
<1> DEFINE r == IF again THEN RunAgent(gone) ELSE gone
<1>7. /\ agents' = [agents EXCEPT ![a] = r] /\ Typed(r) /\ (torn => torn')
      /\ (~Excused' /\ Kept(agents[a]) => Kept(r))
  BY <1>1, <1>5, <1>6
<1> HIDE DEF r
<1> QED BY <1>1, <1>7, RequestOne

LEMMA StopEndsKept ==
    ASSUME IInv, RequestInv, NEW a \in Agent, StopEnds(a)
    PROVE  RequestInv'
<1> DEFINE q == agents[a].ops
<1>1. q \in Seq(Operation) /\ q # <<>> /\ Head(q) \in Stopping /\ RemoveAgent(a, 0)
  BY DEF StopEnds, Waits, Stopping, RequestInv, Typed
<1>2. ASSUME Kept(agents[a]) PROVE 0 = Count(q)
  <2>1. Ordered(q)
    BY <1>2 DEF Kept
  <2> HIDE DEF q
  <2>2. \A i \in DOMAIN q : i \in Nat /\ i > 0 /\ (i = 1 \/ 1 < i)
    BY <1>1
  <2>3. 1 \in DOMAIN q /\ q[1] \in Stopping
    BY <1>1
  <2>4. \A i \in DOMAIN q : q[i] \notin {"connect", "entity"}
    BY <2>1, <2>2, <2>3 DEF Ordered, Stopping
  <2>5. Connections(q) = {}
    BY <2>4 DEF Connections
  <2> QED BY <2>5, FS_EmptySet DEF Count
<1> QED BY <1>1, <1>2, RemoveKept

LEMMA DiesKept ==
    ASSUME IInv, RequestInv, NEW a \in Agent, ApplicationDies(a)
    PROVE  RequestInv'
<1>1. Queued(agents[a]) = Count(agents[a].ops)
  BY DEF Queued, Count, Connections
<1> QED BY <1>1, RemoveKept DEF ApplicationDies

\* Steps that have nothing to do with requests.
LEMMA OthersKept ==
    ASSUME IInv, RequestInv, NEW a \in Agent,
           \/ InitializeRuns(a) \/ AlarmExpires(a) \/ ScheduleQueueTask(a) \/ ScheduleAlarm(a)
    PROVE  RequestInv'
<1>0. DOMAIN agents[a] = Fields
  BY DEF IInv, TypeInv, AgentOK
<1>1. UNCHANGED <<raced, torn>>
  BY DEF InitializeRuns, AlarmExpires, ScheduleQueueTask, ScheduleAlarm, Becomes, Schedules, limits
<1> DEFINE U(r) == agents' = [agents EXCEPT ![a] = r]
<1>2. \/ U([agents[a] EXCEPT !.busy = TRUE]) \/ U([agents[a] EXCEPT !.due = @ - 1])
      \/ U([agents[a] EXCEPT !.watched = TRUE])
      \/ U([AddedTask(agents[a]) EXCEPT !.unstored = TRUE])
  <2>1. InitializeRuns(a) => U([agents[a] EXCEPT !.busy = TRUE])
    BY DEF InitializeRuns, Becomes
  <2>2. AlarmExpires(a) => U([agents[a] EXCEPT !.due = @ - 1])
    BY DEF AlarmExpires
  <2>3. ScheduleQueueTask(a) => U([agents[a] EXCEPT !.watched = TRUE])
    BY DEF ScheduleQueueTask
  <2>4. ScheduleAlarm(a) => U([AddedTask(agents[a]) EXCEPT !.unstored = TRUE])
    BY DEF ScheduleAlarm
  <2> HIDE DEF U
  <2> QED BY <2>1, <2>2, <2>3, <2>4
<1>3. SameRequests(agents[a], [AddedTask(agents[a]) EXCEPT !.unstored = TRUE])
  BY <1>0 DEF AddedTask, ScheduleAlarmTask, SameRequests, Fields
<1>4. /\ SameRequests(agents[a], [agents[a] EXCEPT !.busy = TRUE])
      /\ SameRequests(agents[a], [agents[a] EXCEPT !.due = @ - 1])
      /\ SameRequests(agents[a], [agents[a] EXCEPT !.watched = TRUE])
  BY <1>0 DEF SameRequests, Fields
<1>5. SameStep(a)
  BY <1>2, <1>3, <1>4, Zenon DEF SameStep
<1> QED BY <1>1, <1>5, SameStepKept

LEMMA TasksKept ==
    ASSUME IInv, RequestInv,
           \/ InitializeCall \/ WriteTaskCall \/ DeleteTaskCall \/ StorageFails \/ PageReports
           \/ TaskAdded \/ TaskDeleted
           \/ TeardownTimeout \/ UNCHANGED vars
           \/ \E a \in Agent : StoresTask(a, "write") \/ StoresTask(a, "delete")
    PROVE  RequestInv'
<1>0. \A a \in Agent : DOMAIN agents[a] = Fields
  BY DEF IInv, TypeInv, AgentOK
<1>1. raced \subseteq raced' /\ (torn => torn')
  <2>1. TaskDeleted => raced \subseteq raced' /\ torn' = torn
    BY DEF TaskDeleted
  <2>2. StorageFails \/ DeleteTaskCall => raced \subseteq raced' /\ torn' = torn
    BY DEF StorageFails, DeleteTaskCall
  <2>3. \/ InitializeCall \/ WriteTaskCall \/ PageReports \/ TaskAdded \/ UNCHANGED vars
        \/ \E a \in Agent : StoresTask(a, "write") \/ StoresTask(a, "delete")
        => raced' = raced /\ torn' = torn
    BY DEF InitializeCall, WriteTaskCall, PageReports, TaskAdded, StoresTask, Schedules, vars
  <2>4. TeardownTimeout => raced' = raced /\ torn'
    BY DEF TeardownTimeout
  <2> QED BY <2>1, <2>2, <2>3, <2>4
<1>2. \A a \in Agent : /\ SameRequests(agents[a], agents[a])
                       /\ SameRequests(agents[a], AddedTask(agents[a]))
                       /\ SameRequests(agents[a], DeletedTask(agents[a]))
                       /\ SameRequests(agents[a], [agents[a] EXCEPT !.unstored = FALSE])
  BY <1>0 DEF AddedTask, ScheduleAlarmTask, DeletedTask, DeleteAlarmTask, SameRequests, Fields
<1>3. \A a \in Agent : agents'[a] \in {agents[a], AddedTask(agents[a]), DeletedTask(agents[a]),
                                       [agents[a] EXCEPT !.unstored = FALSE]}
  BY DEF InitializeCall, WriteTaskCall, DeleteTaskCall, StorageFails, PageReports, TaskAdded, TaskDeleted,
         TeardownTimeout, StoresTask, Schedules, vars
<1>4. \A a \in Agent : SameRequests(agents[a], agents'[a])
  BY <1>2, <1>3
<1> QED BY <1>1, <1>4, RequestQuiet

LEMMA InitRequestInv == Init => RequestInv
<1> SUFFICES ASSUME Init, NEW a \in Agent PROVE Typed(agents[a]) /\ Kept(agents[a])
  BY DEF RequestInv
<1> DEFINE r == agents[a]
<1>1. /\ r.ops = <<>> /\ r.waiting = 0 /\ r.entity = FALSE /\ r.callbacks = <<>>
      /\ r.up = FALSE /\ r.owed = 0
  BY DEF Init
<1> HIDE DEF r
<1>2. Typed(r) /\ Owes(r) = 0
  <2>1. ~r.entity /\ r.entity \in BOOLEAN
    BY <1>1, Zenon
  <2>2. Count(r.ops) = 0 /\ r.ops \in Seq(Operation)
    BY <1>1, CountOne
  <2> QED BY <1>1, <2>1, <2>2 DEF Typed, Owes
<1>3. Kept(r)
  BY <1>1, <1>2 DEF Kept, Ordered
<1> QED BY <1>2, <1>3 DEF r

LEMMA NextRequestInv == IInv /\ RequestInv /\ [Next]_vars => RequestInv'
<1> SUFFICES ASSUME IInv, RequestInv, [Next]_vars PROVE RequestInv'
  OBVIOUS
<1>1. ASSUME NEW a \in Agent, Loop(a) PROVE RequestInv'
  BY <1>1, RunsKept, OthersKept, StopEndsKept DEF Loop
<1>2. ASSUME NEW a \in Agent, Environment(a) PROVE RequestInv'
  BY <1>2, AsksKept, OthersKept, TasksKept, DiesKept, ClosesKept DEF Environment
<1> QED BY <1>1, <1>2, TasksKept, TeardownKept DEF Next

\* No connection that was accepted is forgotten, whatever starts, stops, dies or
\* is torn down while it waits: for any number of agents and of calls.
THEOREM RequestsAreNotLost == Spec => []RequestsAreKept
<1>1. RequestInv => RequestsAreKept
  <2> SUFFICES ASSUME RequestInv, raced \cap {"behindStop", "entityTwice"} = {}, ~torn,
                      NEW a \in Agent
               PROVE  LET r == agents[a]
                      IN /\ r.owed = Queued(r) + r.waiting + (IF r.entity THEN 1 ELSE 0)
                         /\ r.waiting > 0 \/ r.entity \/ r.callbacks # <<>> =>
                              r.up /\ r.state = "TERMINATING" /\ r.callbacks # <<>>
    BY DEF RequestsAreKept
  <2> DEFINE r == agents[a]
  <2>1. Kept(r)
    BY DEF RequestInv
  <2>2. Queued(r) = Count(r.ops)
    BY DEF Queued, Count, Connections
  <2>3. r.owed = Queued(r) + r.waiting + (IF r.entity THEN 1 ELSE 0)
    BY <2>1, <2>2 DEF Kept, Owes
  <2>4. ToSet(<<>>) = {}
    BY DEF ToSet
  <2>5. r.waiting > 0 \/ r.entity => r.callbacks # <<>>
    BY <2>1, <2>4 DEF Kept
  <2> HIDE DEF r
  <2> QED BY <2>1, <2>3, <2>5 DEF Kept, r
<1>2. IInv /\ RequestInv /\ [Next]_vars => (IInv /\ RequestInv)'
  BY NextIInv, NextRequestInv
<1> QED BY <1>1, <1>2, InitIInv, InitRequestInv, PTL DEF Spec

=============================================================================
