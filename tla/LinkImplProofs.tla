--------------------------- MODULE LinkImplProofs ---------------------------
(***************************************************************************)
(* Proofs about LinkImpl, for any number of links, members of a document,  *)
(* calls, devices and faults:                                              *)
(*                                                                         *)
(*  - whoever watches a link knows its value (LinkWatchersAreCurrent), by  *)
(*    the invariant LinksOK;                                               *)
(*                                                                         *)
(*  - a link that has nothing left to do holds the value of its history in *)
(*    the page, in whatever order the changes of the devices came to it    *)
(*    (LinkQuietIsReplay), by the invariant ReplayInv.  The document is at *)
(*    every moment the value of some set D of changes (Holds), and what D  *)
(*    lacks of the page will be reported or read.  The value of a set does *)
(*    not depend on the order of the changes (IsValue), so that applying   *)
(*    the newest change to the document and replaying the whole history    *)
(*    must agree.                                                          *)
(***************************************************************************)
EXTENDS LinkImpl, WellFoundedInduction, FiniteSetTheorems, TLAPS

-----------------------------------------------------------------------------
(* Whoever watches a link knows its value *)

\* The operations in a queue; no client watches under the name of the page.
LinkQueueOK(q) ==
    /\ \E S : q \in Seq(S)
    /\ \A i \in DOMAIN q :
          /\ DOMAIN q[i] = {"kind", "change", "src"}
          /\ q[i].kind = "watch" => q[i].src # 1

\* The fields of a link.
LinkShape(k) ==
    /\ DOMAIN k = {"made", "initial", "connections", "next_connection_id", "orphaned_handler",
                   "doc", "latest_key", "pending_ops", "last_gen_time", "watchers", "watched",
                   "queue", "step"}
    /\ k.made
    /\ k.next_connection_id \in Nat /\ k.next_connection_id >= 2
    /\ \A id \in k.connections : id # 1
    /\ LinkQueueOK(k.queue)
    /\ k.step # "start" => k.queue # <<>>
    /\ 1 \notin DOMAIN k.watchers

\* Whoever watches, and is not behind, knows a value.
Know(ws, doc) ==
    \A w \in DOMAIN ws :
        /\ DOMAIN ws[w] = {"knows", "behind"}
        /\ ~ws[w].behind => ws[w].knows = doc

\* Whoever watches the link knows its value.
Current(k) == Know(k.watchers, k.doc)

LinkOK(k) == k = NoLink \/ (LinkShape(k) /\ Current(k))

LinksOK ==
    /\ \E S : links \in [Link -> S]
    /\ \A l \in Link : LinkOK(links[l])
    /\ IsFiniteSet(page)

\* One link changes.
LEMMA LinkUpdate ==
    ASSUME LinksOK, NEW l \in Link, NEW k, Update(l, k), LinkOK(k),
           IsFiniteSet(page')
    PROVE  LinksOK'
<1>1. PICK S : links \in [Link -> S]
  BY DEF LinksOK
<1>2. links' = [links EXCEPT ![l] = k]
  BY DEF Update
<1>3. links' \in [Link -> S \cup {k}]
  BY <1>1, <1>2
<1>4. ASSUME NEW m \in Link PROVE LinkOK(links'[m])
  <2>1. links'[m] = IF m = l THEN k ELSE links[m]
    BY <1>1, <1>2
  <2> QED BY <2>1 DEF LinksOK
<1> QED BY <1>3, <1>4 DEF LinksOK

\* A LinkImpl is constructed: a Reload call and the one that connects wait.
LEMMA LinkNew ==
    ASSUME NEW init, NEW s
    PROVE  LinkOK(NewLink(init, s))
<1> DEFINE k == NewLink(init, s)
           q == <<Call("reload"), Call("connected")>>
<1>1. /\ k.queue = q /\ k.watchers = <<>> /\ k.connections = {} /\ k.next_connection_id = 2
      /\ k.made
  BY DEF NewLink
<1>2. LinkQueueOK(q)
  <2>1. q \in Seq({q[1], q[2]}) /\ DOMAIN q = {1, 2}
    OBVIOUS
  <2>2. \A i \in DOMAIN q : DOMAIN q[i] = {"kind", "change", "src"} /\ q[i].kind # "watch"
    BY DEF Call, Op
  <2> HIDE DEF q
  <2> QED BY <2>1, <2>2 DEF LinkQueueOK
<1>3. q # <<>> /\ DOMAIN <<>> = {}
  OBVIOUS
<1>4. DOMAIN k = {"made", "initial", "connections", "next_connection_id", "orphaned_handler",
                   "doc", "latest_key", "pending_ops", "last_gen_time", "watchers", "watched",
                   "queue", "step"}
  BY DEF NewLink
<1> HIDE DEF k, q
<1>5. LinkShape(k)
  BY <1>1, <1>2, <1>3, <1>4 DEF LinkShape
<1>6. Current(k)
  BY <1>1, <1>3 DEF Current, Know
<1> QED BY <1>5, <1>6 DEF LinkOK, k

\* An operation is queued.
LEMMA LinkPushed ==
    ASSUME NEW k, LinkShape(k), Current(k), NEW op, DOMAIN op = {"kind", "change", "src"},
           op.kind = "watch" => op.src # 1
    PROVE  LinkShape(Push(k, op)) /\ Current(Push(k, op))
<1>1. PICK S : k.queue \in Seq(S)
  BY DEF LinkShape, LinkQueueOK
<1> DEFINE q == Append(k.queue, op)
<1>2. q \in Seq(S \cup {op}) /\ q # <<>>
  BY <1>1
<1>3. LinkQueueOK(q)
  <2>1. ASSUME NEW i \in DOMAIN q
        PROVE  DOMAIN q[i] = {"kind", "change", "src"} /\ (q[i].kind = "watch" => q[i].src # 1)
    <3>1. i \in 1..Len(k.queue) + 1 /\ q[i] = IF i <= Len(k.queue) THEN k.queue[i] ELSE op
      BY <1>1
    <3> QED BY <3>1, <1>1 DEF LinkShape, LinkQueueOK
  <2> QED BY <1>2, <2>1 DEF LinkQueueOK
<1> HIDE DEF q
<1>4. Push(k, op) = [k EXCEPT !.queue = q]
  BY DEF Push, q
<1> QED BY <1>2, <1>3, <1>4 DEF LinkShape, Current

\* An operation ends.
LEMMA LinkPopped ==
    ASSUME NEW k, LinkShape(k), Current(k), k.queue # <<>>
    PROVE  LinkShape(Pop(k)) /\ Current(Pop(k))
<1>1. PICK S : k.queue \in Seq(S)
  BY DEF LinkShape, LinkQueueOK
<1> DEFINE q == Tail(k.queue)
<1>2. q \in Seq(S)
  BY <1>1
<1>3. LinkQueueOK(q)
  <2>1. ASSUME NEW i \in DOMAIN q
        PROVE  DOMAIN q[i] = {"kind", "change", "src"} /\ (q[i].kind = "watch" => q[i].src # 1)
    <3>1. i + 1 \in DOMAIN k.queue /\ q[i] = k.queue[i + 1]
      BY <1>1
    <3> QED BY <3>1, <1>1 DEF LinkShape, LinkQueueOK
  <2> QED BY <1>2, <2>1 DEF LinkQueueOK
<1> HIDE DEF q
<1>4. Pop(k) = [k EXCEPT !.queue = q, !.step = "start"]
  BY DEF Pop, q
<1> QED BY <1>2, <1>3, <1>4 DEF LinkShape, Current

\* A client gets a connection, under an id no other one had.
LEMMA LinkConnected ==
    ASSUME NEW k, LinkShape(k), Current(k)
    PROVE  LinkShape(NewConnection(k)) /\ Current(NewConnection(k))
           /\ NewConnection(k).queue = k.queue
  BY DEF LinkShape, Current, NewConnection

\* The last step of an operation.
LEMMA LinkFinished ==
    ASSUME NEW k, LinkShape(k), Current(k), k.queue # <<>>
    PROVE  LinkShape(Finish(k)) /\ Current(Finish(k))
<1>1. Finish(k) = IF First(k).kind = "reload" THEN Pop(NewConnection(k))
                        ELSE Pop(k)
  BY DEF Finish
<1> QED BY <1>1, LinkConnected, LinkPopped

\* The watchers are told the new value, all but the one who made the change.
LEMMA LinkNotified ==
    ASSUME NEW k, LinkShape(k), NEW old, NEW c, NEW src,
           Know(k.watchers, old),
           src = 1 \/ k.doc = ApplyChange(old, c)
    PROVE  LET n == NotifyIfChanged(old, k, c, src) IN
           LinkShape(n) /\ Current(n) /\ n.queue = k.queue
<1> DEFINE ws == [w \in DOMAIN k.watchers |->
                    IF w = src THEN Blocked(k.watchers[w], c, w) ELSE Told(k, w)]
<1>1. CASE old = k.doc
  BY <1>1 DEF NotifyIfChanged, Current
<1>2. CASE old # k.doc
  <2>1. NotifyIfChanged(old, k, c, src) = [k EXCEPT !.watchers = ws]
    BY <1>2 DEF NotifyIfChanged, NotifyWatchers
  <2>2. Know(ws, k.doc)
    <3>1. ASSUME NEW w \in DOMAIN k.watchers
          PROVE  /\ DOMAIN ws[w] = {"knows", "behind"}
                 /\ ~ws[w].behind => ws[w].knows = k.doc
      <4> DEFINE v == k.watchers[w]
                 a == ApplyChange(old, c)
      <4>1. w # 1 /\ DOMAIN v = {"knows", "behind"} /\ (~v.behind => v.knows = old)
        BY DEF LinkShape, Know
      <4>2. CASE w # src
        BY <4>2 DEF Told
      <4>3. CASE w = src
        <5>1. ws[w] = Blocked(v, c, w) /\ k.doc = a
          BY <4>1, <4>3
        <5> HIDE DEF a
        <5>2. CASE w = kWatchAllConnectionId
          <6>1. ws[w] = [v EXCEPT !.behind = TRUE]
            BY <5>1, <5>2 DEF Blocked
          <6> HIDE DEF ws, v
          <6> QED BY <4>1, <6>1
        <5>3. CASE w # kWatchAllConnectionId /\ v.behind
          BY <4>1, <5>1, <5>3 DEF Blocked
        <5>4. CASE w # kWatchAllConnectionId /\ ~v.behind
          <6>1. ws[w] = [v EXCEPT !.knows = ApplyChange(v.knows, c)]
            BY <5>1, <5>4 DEF Blocked
          <6>2. ws[w] = [v EXCEPT !.knows = a]
            BY <4>1, <5>4, <6>1 DEF a
          <6> HIDE DEF ws, v
          <6> QED BY <4>1, <5>1, <6>2
        <5> QED BY <5>2, <5>3, <5>4
      <4> QED BY <4>2, <4>3
    <3>2. DOMAIN ws = DOMAIN k.watchers
      OBVIOUS
    <3> HIDE DEF ws
    <3> QED BY <3>1, <3>2 DEF Know
  <2>3. 1 \notin DOMAIN ws
    BY DEF LinkShape
  <2> HIDE DEF ws
  <2> QED BY <2>1, <2>2, <2>3 DEF LinkShape, Current
<1> QED BY <1>1, <1>2

\* A client that a value will reach late is behind.
LEMMA LinkCrosses ==
    ASSUME NEW k, LinkShape(k), Current(k), NEW id
    PROVE  LinkShape(Crosses(k, id)) /\ Current(Crosses(k, id))
<1> DEFINE ws == [w \in DOMAIN k.watchers |->
                    IF w = id THEN [k.watchers[w] EXCEPT !.behind = TRUE] ELSE k.watchers[w]]
<1>1. Crosses(k, id) = [k EXCEPT !.watchers = ws]
  BY DEF Crosses
<1>2. ASSUME NEW w \in DOMAIN k.watchers
      PROVE  /\ DOMAIN ws[w] = {"knows", "behind"}
             /\ ~ws[w].behind => ws[w].knows = k.doc
  BY DEF Current, Know
<1>3. DOMAIN ws = DOMAIN k.watchers
  OBVIOUS
<1> HIDE DEF ws
<1>4. Know(ws, k.doc)
  BY <1>2, <1>3 DEF Know
<1> QED BY <1>1, <1>3, <1>4 DEF LinkShape, Current

\* ApplyChange and the new latest_key_ touch no other field.
LEMMA LinkApplied ==
    ASSUME NEW k, LinkShape(k), Current(k), NEW c, NEW src
    PROVE  LET n == ApplyNewest(k, c, src) IN
           LinkShape(n) /\ Current(n) /\ n.queue = k.queue
<1> DEFINE d == ApplyChange(k.doc, c)
           kk == [k EXCEPT !.doc = d, !.latest_key = c.key]
<1>1. LinkShape(kk) /\ kk.queue = k.queue /\ kk.watchers = k.watchers /\ kk.doc = d
  <2> HIDE DEF d
  <2> QED BY DEF LinkShape
<1>2. ApplyNewest(k, c, src) = NotifyIfChanged(k.doc, kk, c, src)
  BY DEF ApplyNewest
<1> HIDE DEF kk
<1> QED BY <1>1, <1>2, LinkNotified DEF Current

\* NewChange: the change gets its key and joins pending_ops_.
LEMMA LinkChanged ==
    ASSUME NEW k, LinkShape(k), Current(k), k.queue # <<>>, NEW c, NEW src, NEW t
    PROVE  LinkShape(NewChange(k, c, src, t)) /\ Current(NewChange(k, c, src, t))
<1>1. PICK S : k.queue \in Seq(S)
  BY DEF LinkShape, LinkQueueOK
<1> DEFINE q == [k.queue EXCEPT ![1].change = c]
           kk == [k EXCEPT !.pending_ops = Append(@, c), !.last_gen_time = t,
                           !.step = "write", !.queue[1].change = c]
           e == [k.queue[1] EXCEPT !.change = c]
<1>2. 1 \in DOMAIN k.queue
  BY <1>1
<1>3. DOMAIN e = {"kind", "change", "src"} /\ (e.kind = "watch" => e.src # 1)
  BY <1>2 DEF LinkShape, LinkQueueOK
<1>4. q \in Seq(S \cup {e}) /\ q # <<>> /\ DOMAIN q = DOMAIN k.queue
  BY <1>1, <1>2
<1>5. LinkQueueOK(q)
  <2>1. ASSUME NEW i \in DOMAIN q
        PROVE  DOMAIN q[i] = {"kind", "change", "src"} /\ (q[i].kind = "watch" => q[i].src # 1)
    <3>1. q[i] = IF i = 1 THEN e ELSE k.queue[i]
      BY <1>1, <1>2, <1>4
    <3> HIDE DEF e, q
    <3> QED BY <3>1, <1>3, <1>4 DEF LinkShape, LinkQueueOK
  <2> QED BY <1>4, <2>1 DEF LinkQueueOK
<1>6. kk = [k EXCEPT !.pending_ops = Append(@, c), !.last_gen_time = t, !.step = "write",
                     !.queue = q]
  OBVIOUS
<1>7. LinkShape(kk) /\ Current(kk)
  <2> HIDE DEF q, kk
  <2> QED BY <1>4, <1>5, <1>6 DEF LinkShape, Current
<1>8. NewChange(k, c, src, t) = IF c.key < k.latest_key THEN kk
                                      ELSE ApplyNewest(kk, c, src)
  BY DEF NewChange
<1> HIDE DEF kk
<1> QED BY <1>7, <1>8, LinkApplied

\* The story has its root link.
LEMMA LinksStart == Init => LinksOK
<1> SUFFICES ASSUME Init PROVE LinksOK
  OBVIOUS
<1>1. links = [l \in Link |-> IF l = 1 THEN NewLink(TRUE, {}) ELSE NoLink]
  BY DEF Init
<1>2. links \in [Link -> {NewLink(TRUE, {}), NoLink}]
  BY <1>1
<1>3. ASSUME NEW l \in Link PROVE LinkOK(links[l])
  <2>1. links[l] = NewLink(TRUE, {}) \/ links[l] = NoLink
    BY <1>1
  <2> QED BY <2>1, LinkNew DEF LinkOK
<1>4. IsFiniteSet(page)
  BY FS_EmptySet DEF Init
<1> QED BY <1>2, <1>3, <1>4 DEF LinksOK

\* What is known of a link that is made.
LEMMA LinkIsMade ==
    ASSUME LinksOK, NEW l \in Link, links[l].made
    PROVE  LinkShape(links[l]) /\ Current(links[l])
  BY DEF LinksOK, LinkOK, NoLink

\* What clients do.
LEMMA LinkClients ==
    ASSUME LinksOK, NEW l \in Link, links[l].made, NEW id, id # 1,
           \/ RemoveConnection(l, id) \/ Watch(l, id)
           \/ MakeIncrementalChangeCall(l, id)
    PROVE  LinksOK'
<1> DEFINE k == links[l]
<1>0. LinkShape(k) /\ Current(k)
  BY LinkIsMade
<1> IsFiniteSet(page')
  BY DEF LinksOK, RemoveConnection, Watch, MakeIncrementalChangeCall
<1>1. CASE RemoveConnection(l, id)
  <2> DEFINE kk == [k EXCEPT !.connections = @ \ {id}]
  <2>1. LinkShape(kk) /\ Current(kk)
    BY <1>0 DEF LinkShape, Current
  <2> DEFINE p == Push(kk, Call("orphaned"))
  <2>2. LinkOK(p)
    <3>1. DOMAIN Call("orphaned") = {"kind", "change", "src"}
          /\ Call("orphaned").kind # "watch"
      BY DEF Call, Op
    <3> HIDE DEF kk
    <3> QED BY <2>1, <3>1, LinkPushed DEF LinkOK
  <2>3. Update(l, p) \/ Update(l, kk)
    BY <1>1 DEF RemoveConnection
  <2> HIDE DEF kk, p
  <2> QED BY <2>1, <2>2, <2>3, LinkUpdate DEF LinkOK
<1>2. CASE Watch(l, id)
  <2> DEFINE op == Op("watch", NoChange, id)
  <2>1. DOMAIN op = {"kind", "change", "src"} /\ op.src = id
    BY DEF Op
  <2>2. Update(l, Push(k, op))
    BY <1>2 DEF Watch
  <2> HIDE DEF op
  <2> QED BY <1>0, <2>1, <2>2, LinkPushed, LinkUpdate DEF LinkOK
<1>3. CASE MakeIncrementalChangeCall(l, id)
  <2> DEFINE op == Op("change", NextChange(l), id)
  <2>1. DOMAIN op = {"kind", "change", "src"} /\ op.kind = "change"
    BY DEF Op
  <2>2. PICK kk \in {k, Crosses(k, id)} : Update(l, Push(kk, op))
    BY <1>3 DEF MakeIncrementalChangeCall
  <2>3. LinkShape(kk) /\ Current(kk)
    BY <1>0, LinkCrosses
  <2> HIDE DEF op
  <2> QED BY <2>1, <2>2, <2>3, LinkPushed, LinkUpdate DEF LinkOK
<1> QED BY <1>1, <1>2, <1>3

\* ConnectLinkCall finds the link or makes it.
LEMMA LinkConnects ==
    ASSUME LinksOK, NEW l \in Link, ConnectLinkCall(l)
    PROVE  LinksOK'
<1> IsFiniteSet(page')
  BY DEF LinksOK, ConnectLinkCall
<1>1. CASE links[l].made
  <2>1. Update(l, NewConnection(links[l]))
    BY <1>1 DEF ConnectLinkCall
  <2> QED BY <1>1, <2>1, LinkIsMade, LinkConnected, LinkUpdate DEF LinkOK
<1>2. CASE ~links[l].made
  <2>1. Update(l, NewLink(FALSE, page))
    BY <1>2 DEF ConnectLinkCall
  <2> QED BY <2>1, LinkNew, LinkUpdate
<1> QED BY <1>1, <1>2

\* Every link gets a call that stops it.
LEMMA LinksStop ==
    ASSUME LinksOK, StopLinks
    PROVE  LinksOK'
<1> DEFINE f(l) == IF l \notin Made THEN NoLink
                   ELSE Push([links[l] EXCEPT !.orphaned_handler = FALSE],
                                   Call("stop"))
<1>1. links' = [l \in Link |-> f(l)]
  BY DEF StopLinks
<1>2. ASSUME NEW l \in Link PROVE LinkOK(f(l))
  <2>1. CASE l \notin Made
    BY <2>1 DEF LinkOK
  <2>2. CASE l \in Made
    <3> DEFINE kk == [links[l] EXCEPT !.orphaned_handler = FALSE]
    <3>1. LinkShape(links[l]) /\ Current(links[l])
      BY <2>2, LinkIsMade DEF Made
    <3>2. LinkShape(kk) /\ Current(kk)
      BY <3>1 DEF LinkShape, Current
    <3>3. /\ DOMAIN Call("stop") = {"kind", "change", "src"}
          /\ Call("stop").kind # "watch"
      BY DEF Call, Op
    <3>4. f(l) = Push(kk, Call("stop"))
      BY <2>2
    <3> HIDE DEF f, kk
    <3> QED BY <3>2, <3>3, <3>4, LinkPushed DEF LinkOK
  <2> QED BY <2>1, <2>2
<1>3. links' \in [Link -> {f(l) : l \in Link}] /\ \A l \in Link : links'[l] = f(l)
  BY <1>1
<1>4. IsFiniteSet(page')
  BY DEF LinksOK, StopLinks
<1> HIDE DEF f
<1> QED BY <1>2, <1>3, <1>4 DEF LinksOK

\* What the page reports.
LEMMA LinkReports ==
    ASSUME LinksOK, NEW l \in Link, OnChange(l)
    PROVE  LinksOK'
<1> DEFINE k == links[l]
           new == Entries(page \ k.watched, l)
           more == [i \in DOMAIN new |-> Op("change", new[i], 1)]
           q == k.queue \o more
<1>0. LinkShape(k) /\ Current(k)
  BY LinkIsMade DEF OnChange
<1>1. PICK S : k.queue \in Seq(S)
  BY <1>0 DEF LinkShape, LinkQueueOK
<1>2. Update(l, [k EXCEPT !.watched = page, !.queue = q])
  BY DEF OnChange, kOnChangeConnectionId
<1>3. PICK n \in Nat : DOMAIN new = 1..n
  <2> DEFINE T == {c \in page \ k.watched : c.link \in Covers[l]}
  <2>1. Cardinality(T) \in Nat
    BY FS_Subset, FS_CardinalityType DEF LinksOK
  <2>2. new = InKeyOrder(T)
    BY DEF Entries
  <2>3. DOMAIN InKeyOrder(T) = 1..Cardinality(T)
    <3> HIDE DEF T
    <3> QED BY DEF InKeyOrder
  <2> QED BY <2>1, <2>2, <2>3
<1>4. more \in Seq({more[i] : i \in 1..n}) /\ DOMAIN more = 1..n /\ Len(more) = n
  <2> DEFINE V == {more[i] : i \in 1..n}
  <2> HIDE DEF new
  <2>1. more \in [1..n -> V]
    BY <1>3
  <2>2. [1..n -> V] \subseteq Seq(V)
    BY SMTT(40)
  <2> HIDE DEF V, more
  <2>3. more \in Seq(V) /\ DOMAIN more = 1..n
    BY <2>1, <2>2
  <2>4. Len(more) = n
    BY <2>3
  <2> QED BY <2>3, <2>4 DEF V
<1>5. ASSUME NEW i \in 1..n
      PROVE  DOMAIN more[i] = {"kind", "change", "src"} /\ more[i].kind = "change"
  BY <1>3 DEF Op
<1> HIDE DEF more, new
<1>6. q \in Seq(S \cup {more[i] : i \in 1..n})
  BY <1>1, <1>4
<1>7. LinkQueueOK(q)
  <2>1. ASSUME NEW i \in DOMAIN q
        PROVE  DOMAIN q[i] = {"kind", "change", "src"} /\ (q[i].kind = "watch" => q[i].src # 1)
    <3>1. CASE i \in DOMAIN k.queue
      <4>1. q[i] = k.queue[i]
        BY <1>1, <1>4, <3>1
      <4> QED BY <4>1, <3>1, <1>0 DEF LinkShape, LinkQueueOK
    <3>2. CASE i \notin DOMAIN k.queue
      <4>1. i - Len(k.queue) \in 1..n /\ q[i] = more[i - Len(k.queue)]
        BY <1>1, <1>4, <3>2
      <4> QED BY <4>1, <1>5
    <3> QED BY <3>1, <3>2
  <2> QED BY <1>6, <2>1 DEF LinkQueueOK
<1>8. k.queue # <<>> => q # <<>>
  BY <1>1, <1>4
<1> DEFINE kk == [k EXCEPT !.watched = page, !.queue = q]
<1> HIDE DEF q
<1>9. LinkShape(kk) /\ Current(kk)
  BY <1>0, <1>7, <1>8 DEF LinkShape, Current
<1>10. IsFiniteSet(page')
  BY DEF LinksOK, OnChange
<1> HIDE DEF kk
<1> QED BY <1>2, <1>9, <1>10, LinkUpdate DEF LinkOK, kk, q

\* The operations that end at once.
LEMMA LinkSimple ==
    ASSUME LinksOK, NEW l \in Link,
           \/ RunEcho(l) \/ RunConnected(l) \/ RunOrphaned(l)
           \/ RunWatch(l) \/ RunReported(l)
    PROVE  LinksOK'
<1> DEFINE k == links[l]
<1>0. LinkShape(k) /\ Current(k) /\ k.queue # <<>>
  BY LinkIsMade DEF RunEcho, RunConnected, RunOrphaned, RunWatch,
                    RunReported, Runs
<1>a. PICK S : k.queue \in Seq(S)
  BY <1>0 DEF LinkShape, LinkQueueOK
<1> IsFiniteSet(page')
  BY DEF LinksOK, RunEcho, RunConnected, RunOrphaned, RunWatch,
         RunReported
<1>1. CASE RunEcho(l)
  <2> DEFINE kk == [k EXCEPT !.pending_ops = Tail(@)]
  <2>1. LinkShape(kk) /\ Current(kk) /\ kk.queue # <<>>
    BY <1>0 DEF LinkShape, Current
  <2>2. Update(l, Pop(kk))
    BY <1>1 DEF RunEcho
  <2> HIDE DEF kk
  <2> QED BY <2>1, <2>2, LinkPopped, LinkUpdate DEF LinkOK
<1>2. CASE RunConnected(l)
  BY <1>0, <1>2, LinkPopped, LinkUpdate DEF LinkOK, RunConnected
<1>3. CASE RunOrphaned(l)
  <2>1. Update(l, NoLink) \/ Update(l, Pop(k))
    BY <1>3 DEF RunOrphaned
  <2> QED BY <1>0, <2>1, LinkPopped, LinkUpdate DEF LinkOK
<1>4. CASE RunWatch(l)
  <2> DEFINE src == First(k).src
             ws == [w \in DOMAIN k.watchers \cup {src} |-> IF w = src THEN Told(k, w)
                                                           ELSE k.watchers[w]]
             kk == [k EXCEPT !.watchers = ws]
  <2>1. src # 1
    <3>1. 1 \in DOMAIN k.queue /\ First(k) = k.queue[1]
      BY <1>0, <1>a DEF First
    <3>2. k.queue[1].kind = "watch"
      BY <1>4, <3>1 DEF RunWatch, Runs
    <3> QED BY <1>0, <3>1, <3>2 DEF LinkShape, LinkQueueOK
  <2>2. Update(l, Pop(kk))
    BY <1>4 DEF RunWatch
  <2>3. 1 \notin DOMAIN ws /\ Know(ws, k.doc)
    BY <1>0, <2>1 DEF LinkShape, Current, Know, Told
  <2>4. LinkShape(kk) /\ Current(kk) /\ kk.queue # <<>>
    <3> HIDE DEF ws
    <3> QED BY <1>0, <2>3 DEF LinkShape, Current
  <2> HIDE DEF kk
  <2> QED BY <2>2, <2>4, LinkPopped, LinkUpdate DEF LinkOK
<1>5. CASE RunReported(l)
  <2> DEFINE kk == [k EXCEPT !.step = "read"]
             n == ApplyNewest(k, Change(k), First(k).src)
  <2>1. LinkShape(kk) /\ Current(kk)
    BY <1>0 DEF LinkShape, Current
  <2>2. LinkShape(n) /\ Current(n) /\ n.queue = k.queue
    BY <1>0, LinkApplied
  <2>3. Update(l, kk) \/ Update(l, Pop(n))
    BY <1>5 DEF RunReported
  <2> HIDE DEF kk, n
  <2> QED BY <1>0, <2>1, <2>2, <2>3, LinkPopped, LinkUpdate DEF LinkOK
<1> QED BY <1>1, <1>2, <1>3, <1>4, <1>5

\* A change of a client, and the answer of the page.
LEMMA LinkWrites ==
    ASSUME LinksOK, NEW l \in Link,
           (\E t \in Time : RunNew(l, t)) \/ (\E ok \in BOOLEAN : WriteDone(l, ok))
    PROVE  LinksOK'
<1> DEFINE k == links[l]
<1>0. LinkShape(k) /\ Current(k) /\ k.queue # <<>>
  BY LinkIsMade DEF RunNew, WriteDone, Runs, LinkShape
<1>1. ASSUME NEW t \in Time, RunNew(l, t) PROVE LinksOK'
  <2>1. PICK c, src : Update(l, NewChange(k, c, src, t))
    BY <1>1 DEF RunNew
  <2>2. IsFiniteSet(page')
    BY <1>1 DEF RunNew, LinksOK
  <2> QED BY <1>0, <2>1, <2>2, LinkChanged, LinkUpdate DEF LinkOK
<1>2. ASSUME NEW ok \in BOOLEAN, WriteDone(l, ok) PROVE LinksOK'
  <2> DEFINE kk == [k EXCEPT !.step = "read"]
  <2>1. LinkShape(kk) /\ Current(kk)
    BY <1>0 DEF LinkShape, Current
  <2>2. Update(l, kk) \/ Update(l, Finish(k))
    BY <1>2 DEF WriteDone
  <2>3. IsFiniteSet(page')
    <3>1. page' = page \cup {Change(k)} \/ page' = page
      BY <1>2 DEF WriteDone
    <3> QED BY <3>1, FS_AddElement DEF LinksOK
  <2> HIDE DEF kk
  <2> QED BY <1>0, <2>1, <2>2, <2>3, LinkFinished, LinkUpdate DEF LinkOK
<1> QED BY <1>1, <1>2

\* The page is read.
LEMMA LinkReloads ==
    ASSUME LinksOK, NEW l \in Link, NEW t, NEW ok, ReloadCall(l, t, ok)
    PROVE  LinksOK'
<1> DEFINE k == links[l]
           changes == IF ok THEN Entries(page, l) ELSE <<>>
           r == Replay(k, changes)
           n == NotifyIfChanged(k.doc, r, NoChange, 1)
           i == [k EXCEPT !.initial = FALSE]
           c == NewChange(i, Create(InitialData, t), 0, t)
<1>0. LinkShape(k) /\ Current(k) /\ k.queue # <<>>
  BY LinkIsMade DEF ReloadCall, LinkShape
<1>1. LinkShape(r) /\ r.queue = k.queue /\ r.watchers = k.watchers
  BY <1>0 DEF Replay, LinkShape
<1>2. LinkShape(n) /\ Current(n) /\ n.queue = k.queue
  <2> HIDE DEF r
  <2> QED BY <1>0, <1>1, LinkNotified DEF Current
<1>3. LinkShape(i) /\ Current(i) /\ i.queue # <<>>
  BY <1>0 DEF LinkShape, Current
<1>4. LinkShape(c) /\ Current(c)
  <2> HIDE DEF i
  <2> QED BY <1>3, LinkChanged
<1>5. Update(l, Finish(n)) \/ Update(l, c) \/ Update(l, Finish(k))
  BY DEF ReloadCall, kOnChangeConnectionId, kWatchAllConnectionId
<1>6. IsFiniteSet(page')
  BY DEF ReloadCall, LinksOK
<1> HIDE DEF n, c
<1> QED BY <1>0, <1>2, <1>4, <1>5, <1>6, LinkFinished, LinkUpdate DEF LinkOK

\* The links of a stopped story are dropped together.
LEMMA LinksDropped ==
    ASSUME IsFiniteSet(Link), LinksOK, NEW l \in Link, RunStop(l)
    PROVE  LinksOK'
<1> DEFINE k == links[l]
           sent == {Change(links[m]) : m \in {n \in Made \ {l} : links[n].step = "write"}}
<1>0. LinkShape(k) /\ Current(k) /\ k.queue # <<>>
  BY LinkIsMade DEF RunStop, Runs
<1>1. CASE links' = [m \in Link |-> NoLink] /\ page' = page \cup sent
  <2> DEFINE M == {n \in Made \ {l} : links[n].step = "write"}
  <2>1. IsFiniteSet(M)
    BY FS_Subset DEF Made
  <2>2. IsFiniteSet(sent)
    <3> DEFINE g == [m \in M |-> Change(links[m])]
    <3>1. sent = {g[m] : m \in M}
      OBVIOUS
    <3> HIDE DEF sent, M, g
    <3>2. DOMAIN g = M /\ g \in Surjection(M, sent)
      BY <3>1 DEF g, Surjection
    <3> QED BY <2>1, <3>2, FS_Surjection
  <2> QED BY <1>1, <2>2, FS_Union DEF LinksOK, LinkOK
<1>2. CASE Update(l, Pop(k)) /\ page' = page
  BY <1>0, <1>2, LinkPopped, LinkUpdate DEF LinkOK, LinksOK
<1> QED BY <1>1, <1>2 DEF RunStop

\* Every step keeps the watchers of every link current.
LEMMA LinksStep ==
    ASSUME IsFiniteSet(Link)
    PROVE  LinksOK /\ [Next]_vars => LinksOK'
<1> SUFFICES ASSUME LinksOK, [Next]_vars PROVE LinksOK'
  OBVIOUS
<1>1. CASE Progress
  <2>1. PICK l \in Link :
           \/ OnChange(l) \/ RunEcho(l) \/ RunReported(l) \/ RunWatch(l)
           \/ RunConnected(l) \/ RunOrphaned(l) \/ RunStop(l)
           \/ \E t \in Time : RunNew(l, t)
           \/ \E ok \in BOOLEAN : WriteDone(l, ok)
           \/ \E t \in Time, ok \in BOOLEAN : ReloadCall(l, t, ok)
    BY <1>1 DEF Progress
  <2> QED BY <2>1, LinkReports, LinkSimple, LinksDropped, LinkWrites, LinkReloads
<1>2. CASE Environment
  <2>1. CASE StopLinks
    BY <2>1, LinksStop
  <2>2. CASE \E l \in Link : ConnectLinkCall(l)
    BY <2>2, LinkConnects
  <2>3. CASE \E l \in Link, t \in Time : RemoteChange(l, t)
    BY <2>3, FS_AddElement DEF RemoteChange, LinksOK
  <2>4. ASSUME NEW l \in Made, NEW id \in links[l].connections,
               \/ RemoveConnection(l, id)
               \/ Watch(l, id) \/ Watch(l, kWatchAllConnectionId)
               \/ MakeIncrementalChangeCall(l, id)
        PROVE  LinksOK'
    <3>1. l \in Link /\ links[l].made
      BY DEF Made
    <3>2. id # 1 /\ kWatchAllConnectionId # 1
      BY <3>1, LinkIsMade DEF LinkShape, kWatchAllConnectionId
    <3> QED BY <2>4, <3>1, <3>2, LinkClients
  <2> QED BY <1>2, <2>1, <2>2, <2>3, <2>4 DEF Environment
<1>3. CASE UNCHANGED vars
  BY <1>3 DEF vars, LinksOK
<1> QED BY <1>1, <1>2, <1>3 DEF Next

\* Whoever watches a link knows its value.
THEOREM LinkWatchersAreCurrent ==
    Spec => []WatchersAreCurrent
<1>0. IsFiniteSet(Link)
  BY LinkAssumption
<1>1. LinksOK => WatchersAreCurrent
  <2> SUFFICES ASSUME LinksOK, NEW l \in Made, NEW w \in DOMAIN links[l].watchers
               PROVE  ~links[l].watchers[w].behind => links[l].watchers[w].knows = links[l].doc
    BY DEF WatchersAreCurrent
  <2>1. l \in Link /\ links[l].made
    BY DEF Made
  <2> QED BY <2>1, LinkIsMade DEF Current, Know
<1> QED BY <1>0, <1>1, LinksStart, LinksStep, PTL DEF Spec

-----------------------------------------------------------------------------
(* A quiet link holds the replay of its history *)

\* The changes of a link.
ChangeOf(l) ==
    [link : {l}, key : Nat, op : {"set", "update", "erase"}, field : Field, val : Nat]

\* The events after which nothing is said.
Regular == raced \cap {"failed", "unread", "clock"} = {}

\* What the page holds of a link.
Own(P, l) == {c \in P : c.link = l}

\* A change says something of a member, and what.
Touches(c, f) == c.op = "set" \/ c.field = f
Says(c, f) == IF c.op # "erase" /\ c.field = f THEN c.val ELSE None

\* The value of a set of changes, whatever their order: each member is what the
\* newest of the changes that touch it says.
IsValue(d, S) ==
    /\ d \in [Field -> Nat]
    /\ \A f \in Field :
          /\ \A c \in S : Touches(c, f) /\ (\A e \in S : Touches(e, f) => e.key <= c.key)
                          => d[f] = Says(c, f)
          /\ (\A c \in S : ~Touches(c, f)) => d[f] = None

\* The operations that have not begun, and the change that is being written.
Body(k) == IF k.step = "start" THEN k.queue ELSE Tail(k.queue)
Writing(k) == IF k.step = "write" THEN {Change(k)} ELSE {}

\* A change the page has reported, and one a client has asked for.
Report(op) == op.kind = "change" /\ op.change.key # None
Asking(op) == op.kind = "change" /\ op.change.key = None
Reported(q) == {q[i].change : i \in {j \in DOMAIN q : Report(q[j])}}

\* A key made from a clock that has not reached time t.
KeyUntil(c, t) == \E s \in 1..t : c.key = s * (Len(Asked) + 2) + c.val

\* What the replay rests on, for a link l with
\*   P  the page                  w  what of it was reported to the link
\*   s  the step of the operation that runs
\*   q  the operations after it   W  the change it is writing
\*   p  pending_ops_              g  last_gen_time
\*   m  latest_key_               d  the document
Types(l, s, q, W, p, g, m) ==
    /\ s \in {"start", "read", "write"} /\ (s # "write" => W = {})
    /\ m \in Nat /\ g \in Nat /\ p \in Seq(ChangeOf(l)) /\ W \subseteq ChangeOf(l)
    /\ \A i \in DOMAIN q : q[i].kind = "change" => q[i].change \in ChangeOf(l)

\* Pending changes are ordered; each is being written, or will be reported, in
\* the same order.
EchoesCome(l, P, q, W, p, w) ==
    /\ w \subseteq P
    /\ Reported(q) \subseteq Own(w, l)
    /\ \A i, j \in DOMAIN q : Report(q[i]) /\ Report(q[j]) /\ i # j => q[i].change # q[j].change
    /\ \A x, y \in DOMAIN p : x < y => p[x].key < p[y].key
    /\ \A x \in DOMAIN p : p[x] \in W \cup Own(P \ w, l) \cup Reported(q)
    /\ \A x, y \in DOMAIN p : \A j \in DOMAIN q :
          x < y /\ Report(q[j]) /\ q[j].change = p[y] =>
              \E i \in DOMAIN q : i < j /\ Report(q[i]) /\ q[i].change = p[x]
    /\ \A c \in W : p # <<>> /\ c = p[Len(p)] /\ c \notin P

\* The clock of the device and the order of the calls order its keys.
KeysGrow(q, p, g) ==
    /\ \A x \in DOMAIN p : KeyUntil(p[x], g)
    /\ \A x \in DOMAIN p, i \in DOMAIN q : Asking(q[i]) => p[x].val < q[i].change.val
    /\ \A i, j \in DOMAIN q : i < j /\ Asking(q[i]) /\ Asking(q[j]) =>
                                q[i].change.val < q[j].change.val

\* The document is the value of a set D of changes of the link; what D lacks is
\* going to be reported or read.
Holds(l, P, s, q, W, p, w, m, d, D) ==
    /\ D \subseteq Own(P, l) \cup ToSet(p)
    /\ IsValue(d, D)
    /\ \A c \in D : c.key <= m
    /\ s # "read" => /\ ToSet(p) \subseteq D \cup {c \in W : c.key < m}
                     /\ Own(P, l) \subseteq D \cup (P \ w) \cup Reported(q)

Good(l, P, s, q, W, p, w, g, m, d) ==
    /\ Types(l, s, q, W, p, g, m)
    /\ EchoesCome(l, P, q, W, p, w)
    /\ KeysGrow(q, p, g)
    /\ \E D : Holds(l, P, s, q, W, p, w, m, d, D)

LinkGood(l, k, P) ==
    Good(l, P, k.step, Body(k), Writing(k), k.pending_ops, k.watched, k.last_gen_time,
         k.latest_key, k.doc)

\* The changes that have a key, the numbers of those that wait for one, and the
\* links that still have initial data.
AskedVals(q) == {q[i].change.val : i \in {j \in DOMAIN q : Asking(q[j])}}
Keyed == page \cup UNION {Writing(links[l]) : l \in Made}
Waiting == [l \in Link |-> IF links[l].made THEN AskedVals(Body(links[l])) ELSE {}]
Initials == {l \in Made : links[l].initial}

\* The number of the call that made a change identifies it, and so does its key.
NumbersDiffer(K, A, I, n) ==
    /\ n \in 0..Len(Asked)
    /\ \A c \in K : /\ c.link \in Link /\ c \in ChangeOf(c.link)
                    /\ \E t \in Nat : KeyUntil(c, t)
                    /\ c.val \in 1..n + 1
    /\ \A c, e \in K : c.val = e.val => c = e
    /\ \A l \in Link : \A v \in A[l] : v \in 2..n + 1 /\ \A c \in K : c.val # v
    /\ \A l, m \in Link : l # m => A[l] \cap A[m] = {}
    /\ \A l \in I : l = 1 /\ \A c \in K : c.val # 1

Core ==
    /\ NumbersDiffer(Keyed, Waiting, Initials, calls)
    /\ \A l \in Made : LinkGood(l, links[l], page)

ReplayInv == Regular => Core

\* s holds the changes of S in the order of their keys.
Lists(s, S) ==
    /\ s \in Seq(S)
    /\ \A c \in S : \E i \in DOMAIN s : s[i] = c
    /\ \A i, j \in DOMAIN s : i < j => s[i].key < s[j].key

\* A key is that of one change only.
KeysApart(S) ==
    /\ \A c \in S : c.key \in Nat
    /\ \A c, e \in S : c.key = e.key => c = e

-----------------------------------------------------------------------------
(* Induction *)

\* Induction over the naturals, as a fact about sets.
LEMMA SetInduction ==
    ASSUME NEW S, 0 \in S, \A n \in Nat : n \in S => n + 1 \in S
    PROVE  Nat \subseteq S
<1> DEFINE T == Nat \ S
<1> SUFFICES ASSUME T # {} PROVE FALSE
  OBVIOUS
<1>1. PICK x \in T : \A y \in T : ~(<<y, x>> \in OpToRel(<, Nat))
  <2>1. T \subseteq Nat
    OBVIOUS
  <2> HIDE DEF T
  <2> QED BY <2>1, WFMin, NatLessThanWellFounded
<1>2. x # 0 /\ x - 1 \in Nat /\ x - 1 \notin T
  <2>1. x \in Nat /\ x # 0
    OBVIOUS
  <2>2. x - 1 \in Nat /\ x - 1 < x
    BY <2>1
  <2>3. <<x - 1, x>> \in OpToRel(<, Nat)
    BY <2>1, <2>2 DEF OpToRel
  <2> QED BY <1>1, <2>1, <2>2, <2>3
<1>3. x - 1 \in S /\ x = (x - 1) + 1
  BY <1>2
<1> QED BY <1>2, <1>3

\* A finite set of changes has a newest one.
LEMMA NewestExists ==
    ASSUME NEW S, IsFiniteSet(S), S # {}, \A c \in S : c.key \in Nat
    PROVE  \E c \in S : \A e \in S : e.key <= c.key
<1>1. PICK n \in Nat : ExistsBijection(1..n, S)
  BY FS_NatBijection
<1>2. PICK f \in Bijection(1..n, S) : TRUE
  BY <1>1 DEF ExistsBijection
<1>3. f \in [1..n -> S] /\ \A c \in S : \E i \in 1..n : f[i] = c
  BY <1>2 DEF Bijection, Surjection
<1> DEFINE T == {m \in Nat : m \in 1..n => \E i \in 1..m : \A j \in 1..m : f[j].key <= f[i].key}
<1>4. 0 \in T
  OBVIOUS
<1>5. ASSUME NEW m \in Nat, m \in T PROVE m + 1 \in T
  <2> SUFFICES ASSUME m + 1 \in 1..n
               PROVE  \E i \in 1..m + 1 : \A j \in 1..m + 1 : f[j].key <= f[i].key
    OBVIOUS
  <2>0. \A j \in 1..m + 1 : f[j].key \in Nat
    BY <1>3
  <2>a. m + 1 \in 1..m + 1 /\ \A j \in 1..m + 1 : j \in 1..m \/ j = m + 1
    OBVIOUS
  <2>1. CASE m = 0
    <3>1. \A j \in 1..m + 1 : j = m + 1
      BY <2>1
    <3>2. \A j \in 1..m + 1 : f[j].key <= f[m + 1].key
      BY <2>0, <2>a, <3>1
    <3> QED BY <2>a, <3>2
  <2>2. CASE m # 0
    <3>1. PICK i \in 1..m : \A j \in 1..m : f[j].key <= f[i].key
      BY <1>5, <2>2
    <3>0. i \in 1..m + 1 /\ f[i].key \in Nat /\ f[m + 1].key \in Nat
          /\ \A j \in 1..m : f[j].key \in Nat
      BY <2>0, <2>a
    <3>2. CASE f[m + 1].key <= f[i].key
      <4>1. \A j \in 1..m + 1 : f[j].key <= f[i].key
        BY <2>a, <3>1, <3>2
      <4> QED BY <3>0, <4>1
    <3>3. CASE f[i].key < f[m + 1].key
      <4>1. \A j \in 1..m : f[j].key <= f[m + 1].key
        BY <3>0, <3>1, <3>3
      <4>2. \A j \in 1..m + 1 : f[j].key <= f[m + 1].key
        BY <2>a, <3>0, <4>1
      <4> QED BY <2>a, <4>2
    <3>4. \A a, b \in Nat : a <= b \/ b < a
      OBVIOUS
    <3>5. f[m + 1].key <= f[i].key \/ f[i].key < f[m + 1].key
      BY <3>0, <3>4
    <3> QED BY <3>5, <3>2, <3>3
  <2> QED BY <2>1, <2>2
<1> HIDE DEF T
<1>6. n \in T
  BY <1>4, <1>5, SetInduction
<1>7. n # 0
  BY <1>3
<1>8. PICK i \in 1..n : \A j \in 1..n : f[j].key <= f[i].key
  BY <1>6, <1>7 DEF T
<1>9. f[i] \in S /\ \A e \in S : e.key <= f[i].key
  BY <1>3, <1>8
<1> QED BY <1>9

-----------------------------------------------------------------------------
(* The value of a set of changes *)

\* A set of changes has one value.
LEMMA ValueUnique ==
    ASSUME NEW S, IsFiniteSet(S), \A c \in S : c.key \in Nat, NEW d, NEW e,
           IsValue(d, S), IsValue(e, S)
    PROVE  d = e
<1>1. d \in [Field -> Nat] /\ e \in [Field -> Nat]
  BY DEF IsValue
<1>2. ASSUME NEW f \in Field PROVE d[f] = e[f]
  <2> DEFINE T == {c \in S : Touches(c, f)}
  <2>1. CASE T = {}
    BY <2>1 DEF IsValue
  <2>2. CASE T # {}
    <3>1. IsFiniteSet(T)
      BY FS_Subset
    <3>2. PICK c \in T : \A x \in T : x.key <= c.key
      <4> HIDE DEF T
      <4>1. \A x \in T : x.key \in Nat
        BY DEF T
      <4> QED BY <2>2, <3>1, <4>1, NewestExists
    <3>3. c \in S /\ Touches(c, f) /\ \A x \in S : Touches(x, f) => x.key <= c.key
      BY <3>2
    <3> QED BY <3>3 DEF IsValue
  <2> QED BY <2>1, <2>2
<1> QED BY <1>1, <1>2

\* A link that has no change is empty.
LEMMA EmptyValue == IsValue(Empty, {})
  BY DEF IsValue, Empty, None

\* A change that is not older than any of S is applied as the newest.
LEMMA ValueNewest ==
    ASSUME NEW l, NEW S, NEW c \in ChangeOf(l), KeysApart(S \cup {c}), NEW d, IsValue(d, S),
           \A e \in S : e.key <= c.key
    PROVE  IsValue(ApplyChange(d, c), S \cup {c})
<1> DEFINE n == ApplyChange(d, c)
<1>0. /\ c.op \in {"set", "update", "erase"} /\ c.field \in Field /\ c.val \in Nat
      /\ c.key \in Nat /\ d \in [Field -> Nat]
  BY DEF ChangeOf, IsValue
<1>1. n = IF c.op = "set" THEN [Empty EXCEPT ![c.field] = c.val]
          ELSE IF c.op = "update" THEN [d EXCEPT ![c.field] = c.val]
          ELSE [d EXCEPT ![c.field] = None]
  BY <1>0 DEF ApplyChange, ApplySetOp, ApplyUpdateOp, ApplyEraseOp
<1>2. n \in [Field -> Nat] /\ \A f \in Field : n[f] = IF Touches(c, f) THEN Says(c, f) ELSE d[f]
  BY <1>0, <1>1 DEF Touches, Says, Empty, None
<1> HIDE DEF n
<1>3. ASSUME NEW f \in Field, NEW x \in S \cup {c}, Touches(x, f),
             \A e \in S \cup {c} : Touches(e, f) => e.key <= x.key
      PROVE  n[f] = Says(x, f)
  <2>1. CASE Touches(c, f)
    <3>1. c.key <= x.key /\ x.key \in Nat
      BY <1>3, <2>1 DEF KeysApart
    <3>2. x = c
      BY <1>0, <3>1 DEF KeysApart
    <3> QED BY <1>2, <2>1, <3>2
  <2>2. CASE ~Touches(c, f)
    <3>1. x \in S /\ \A e \in S : Touches(e, f) => e.key <= x.key
      BY <1>3, <2>2
    <3>2. d[f] = Says(x, f)
      BY <1>3, <3>1 DEF IsValue
    <3> QED BY <1>2, <2>2, <3>2
  <2> QED BY <2>1, <2>2
<1>4. ASSUME NEW f \in Field, \A x \in S \cup {c} : ~Touches(x, f) PROVE n[f] = None
  BY <1>2, <1>4 DEF IsValue
<1> QED BY <1>2, <1>3, <1>4 DEF IsValue, n

\* The loop of Replay computes the value of the changes it is given.
LEMMA ApplyAllDef ==
    ASSUME NEW s, NEW n \in Nat, Len(s) = n
    PROVE  \E f : /\ f = [i \in 0..n |-> IF i = 0 THEN Empty ELSE ApplyChange(f[i - 1], s[i])]
                  /\ ApplyAll(s) = f[n]
<1> DEFINE G(g, m) == g = [i \in 0..m |-> IF i = 0 THEN Empty ELSE ApplyChange(g[i - 1], s[i])]
           S == {m \in Nat : \E g : G(g, m)}
<1>1. 0 \in S
  <2>1. G([i \in 0..0 |-> Empty], 0)
    OBVIOUS
  <2> QED BY <2>1
<1>2. ASSUME NEW m \in Nat, m \in S PROVE m + 1 \in S
  <2>1. PICK g : G(g, m)
    BY <1>2
  <2> DEFINE h == [i \in 0..m + 1 |-> IF i <= m THEN g[i] ELSE ApplyChange(g[i - 1], s[i])]
  <2>2. ASSUME NEW i \in 0..m + 1
        PROVE  h[i] = IF i = 0 THEN Empty ELSE ApplyChange(h[i - 1], s[i])
    <3>1. CASE i <= m
      <4>1. g[i] = IF i = 0 THEN Empty ELSE ApplyChange(g[i - 1], s[i])
        BY <2>1, <3>1
      <4>2. i # 0 => h[i - 1] = g[i - 1]
        BY <3>1
      <4> QED BY <3>1, <4>1, <4>2
    <3>2. CASE i = m + 1
      <4>1. h[i] = ApplyChange(g[i - 1], s[i]) /\ h[i - 1] = g[i - 1] /\ i # 0
        BY <3>2
      <4> QED BY <4>1
    <3> QED BY <3>1, <3>2
  <2>3. h = [i \in 0..m + 1 |-> h[i]]
    OBVIOUS
  <2> HIDE DEF h
  <2>4. G(h, m + 1)
    BY <2>2, <2>3
  <2> QED BY <2>4
<1> HIDE DEF S
<1>3. n \in S
  BY <1>1, <1>2, SetInduction
<1>4. \E g : G(g, n)
  BY <1>3 DEF S
<1> DEFINE F == CHOOSE g : G(g, n)
<1>5. G(F, n)
  BY <1>4
<1>6. ApplyAll(s) = F[n]
  BY DEF ApplyAll
<1> HIDE DEF F
<1> QED BY <1>5, <1>6

\* The loop of Replay: changes applied in the order of their keys give the
\* value of their set.
LEMMA ApplyAllValue ==
    ASSUME NEW l, NEW S, S \subseteq ChangeOf(l), KeysApart(S), NEW s, Lists(s, S)
    PROVE  IsValue(ApplyAll(s), S)
<1>0. s \in Seq(S) /\ Len(s) \in Nat /\ DOMAIN s = 1..Len(s)
  BY DEF Lists
<1>1. PICK f : /\ f = [i \in 0..Len(s) |-> IF i = 0 THEN Empty ELSE ApplyChange(f[i - 1], s[i])]
               /\ ApplyAll(s) = f[Len(s)]
  BY <1>0, ApplyAllDef
<1> DEFINE Upto(m) == {s[i] : i \in 1..m}
           T == {m \in Nat : m <= Len(s) => IsValue(f[m], Upto(m))}
<1>2. 0 \in T
  <2>0. 0 \in 0..Len(s) /\ 1..0 = {}
    BY <1>0
  <2>1. f[0] = Empty /\ Upto(0) = {}
    BY <1>1, <2>0
  <2> HIDE DEF Upto
  <2> QED BY <2>1, EmptyValue
<1>3. ASSUME NEW m \in Nat, m \in T PROVE m + 1 \in T
  <2> SUFFICES ASSUME m + 1 <= Len(s) PROVE IsValue(f[m + 1], Upto(m + 1))
    OBVIOUS
  <2>1. m + 1 \in 1..Len(s) /\ 1..m \subseteq 1..Len(s) /\ m <= Len(s)
    BY <1>0
  <2>2. f[m + 1] = ApplyChange(f[m], s[m + 1])
    BY <1>1, <2>1
  <2>3. Upto(m + 1) = Upto(m) \cup {s[m + 1]} /\ Upto(m + 1) \subseteq S
    BY <1>0, <2>1
  <2>4. IsValue(f[m], Upto(m))
    BY <1>3, <2>1
  <2>5. ASSUME NEW e \in Upto(m) PROVE e.key <= s[m + 1].key
    <3>1. PICK i \in 1..m : e = s[i]
      OBVIOUS
    <3>2. i < m + 1 /\ i \in DOMAIN s /\ m + 1 \in DOMAIN s
      BY <1>0, <2>1
    <3>3. s[i].key < s[m + 1].key /\ s[i].key \in Nat /\ s[m + 1].key \in Nat
      BY <1>0, <3>2 DEF Lists, KeysApart
    <3> QED BY <3>1, <3>3
  <2>6. s[m + 1] \in ChangeOf(l) /\ KeysApart(Upto(m) \cup {s[m + 1]})
    BY <1>0, <2>1, <2>3 DEF KeysApart
  <2> HIDE DEF Upto
  <2> QED BY <2>2, <2>3, <2>4, <2>5, <2>6, ValueNewest
<1> HIDE DEF T
<1>4. Len(s) \in T
  BY <1>0, <1>2, <1>3, SetInduction
<1>5. Upto(Len(s)) = S
  BY <1>0 DEF Lists
<1> HIDE DEF Upto
<1> QED BY <1>0, <1>1, <1>4, <1>5 DEF T

\* The changes of one link in the order of their keys.
LEMMA OrderLists ==
    ASSUME NEW l \in Nat, NEW S, S \subseteq ChangeOf(l), IsFiniteSet(S), KeysApart(S)
    PROVE  Lists(InKeyOrder(S), S)
<1> DEFINE n == Cardinality(S)
           Below(c) == {e \in S : Before(e, c)}
           Rank(c) == Cardinality(Below(c))
           s == InKeyOrder(S)
<1>0. n \in Nat
  BY FS_CardinalityType
<1>1. \A c, e \in S : Before(c, e) <=> c.key < e.key
  BY DEF Before, ChangeOf
<1>2. ASSUME NEW c \in S PROVE Rank(c) \in Nat /\ Rank(c) < n
  <2>1. Below(c) \subseteq S /\ c \notin Below(c)
    BY <1>1 DEF ChangeOf
  <2>2. Below(c) # S
    BY <2>1
  <2> HIDE DEF Below
  <2>3. IsFiniteSet(Below(c)) /\ Cardinality(Below(c)) <= n /\ Cardinality(Below(c)) # n
    BY <2>1, <2>2, FS_Subset
  <2>4. Cardinality(Below(c)) \in Nat
    BY <2>3, FS_CardinalityType
  <2> HIDE DEF n
  <2> QED BY <1>0, <2>3, <2>4
<1>3. ASSUME NEW c \in S, NEW e \in S, c.key < e.key PROVE Rank(c) < Rank(e)
  <2>1. Below(c) \subseteq Below(e) /\ c \in Below(e) /\ c \notin Below(c)
    BY <1>1, <1>3 DEF ChangeOf
  <2>2. Below(e) \subseteq S
    OBVIOUS
  <2> HIDE DEF Below
  <2>3. IsFiniteSet(Below(e))
    BY <2>2, FS_Subset
  <2>4. /\ Cardinality(Below(c)) <= Cardinality(Below(e))
        /\ Cardinality(Below(c)) # Cardinality(Below(e))
    BY <2>1, <2>3, FS_Subset
  <2>5. Rank(c) \in Nat /\ Rank(e) \in Nat
    BY <1>2
  <2> QED BY <2>4, <2>5
<1>4. ASSUME NEW c \in S, NEW e \in S, Rank(c) = Rank(e) PROVE c = e
  <2>1. c.key \in Nat /\ e.key \in Nat
    BY DEF KeysApart
  <2>2. Rank(c) \in Nat /\ Rank(e) \in Nat
    BY <1>2
  <2> HIDE DEF Rank
  <2>3. ~(c.key < e.key) /\ ~(e.key < c.key)
    BY <1>3, <1>4, <2>2
  <2>4. c.key = e.key
    BY <2>1, <2>3
  <2> QED BY <2>4 DEF KeysApart
<1> HIDE DEF n
<1>5. \A i \in 1..n : \E c \in S : Rank(c) = i - 1
  <2> DEFINE f == [c \in S |-> Rank(c) + 1]
  <2>1. f \in [S -> 1..n] /\ \A c \in S : f[c] = Rank(c) + 1
    <3> HIDE DEF Rank
    <3> QED BY <1>0, <1>2
  <2>2. \A c, e \in S : f[c] = f[e] => c = e
    <3> SUFFICES ASSUME NEW c \in S, NEW e \in S, f[c] = f[e] PROVE c = e
      OBVIOUS
    <3>1. Rank(c) + 1 = Rank(e) + 1 /\ Rank(c) \in Nat /\ Rank(e) \in Nat
      BY <1>2, <2>1
    <3>2. Rank(c) = Rank(e)
      <4> HIDE DEF Rank
      <4> QED BY <3>1
    <3> QED BY <1>4, <3>2
  <2> HIDE DEF f
  <2>3. f \in Injection(S, 1..n)
    BY <2>1, <2>2 DEF Injection, IsInjective
  <2>4. IsFiniteSet(1..n) /\ Cardinality(1..n) = n
    BY <1>0, FS_Interval
  <2>5. f \in Surjection(S, 1..n)
    BY <2>3, <2>4, FS_Injection DEF n
  <2>6. \A i \in 1..n : \E c \in S : f[c] = i
    BY <2>5 DEF Surjection
  <2> SUFFICES ASSUME NEW i \in 1..n PROVE \E c \in S : Rank(c) = i - 1
    OBVIOUS
  <2>7. PICK c \in S : f[c] = i
    BY <2>6
  <2>8. Rank(c) + 1 = i /\ Rank(c) \in Nat
    BY <1>2, <2>1, <2>7
  <2>9. Rank(c) = i - 1
    <3> HIDE DEF Rank
    <3> QED BY <2>8
  <2> QED BY <2>9
<1>6. s = [i \in 1..n |-> CHOOSE c \in S : Rank(c) = i - 1]
  BY DEF InKeyOrder, n
<1> HIDE DEF Rank, s
<1>7. \A i \in 1..n : s[i] \in S /\ Rank(s[i]) = i - 1
  BY <1>5, <1>6
<1>8. s \in Seq(S) /\ DOMAIN s = 1..n
  BY <1>0, <1>6, <1>7
<1>9. ASSUME NEW c \in S PROVE \E i \in DOMAIN s : s[i] = c
  <2>1. Rank(c) + 1 \in 1..n /\ (Rank(c) + 1) - 1 = Rank(c)
    BY <1>0, <1>2
  <2>2. s[Rank(c) + 1] = c
    BY <1>4, <1>7, <2>1
  <2> QED BY <1>8, <2>1, <2>2
<1>10. ASSUME NEW i \in DOMAIN s, NEW j \in DOMAIN s, i < j PROVE s[i].key < s[j].key
  <2>1. /\ s[i] \in S /\ s[j] \in S /\ Rank(s[i]) = i - 1 /\ Rank(s[j]) = j - 1 /\ i \in Nat
        /\ j \in Nat
    BY <1>7, <1>8
  <2>2. s[i].key \in Nat /\ s[j].key \in Nat
    BY <2>1 DEF KeysApart
  <2>3. ~(s[j].key < s[i].key)
    <3>1. s[j].key < s[i].key => j - 1 < i - 1
      BY <1>3, <2>1
    <3> QED BY <3>1, <2>1, <1>10
  <2>4. s[j].key # s[i].key
    <3>1. s[j].key = s[i].key => j - 1 = i - 1
      BY <2>1 DEF KeysApart
    <3> QED BY <3>1, <2>1, <1>10
  <2> QED BY <2>2, <2>3, <2>4
<1> QED BY <1>8, <1>9, <1>10 DEF Lists, s

\* One step of the two loops of Replay, which meet every change once.
MergeStep(a, b, m, i, j) ==
    IF i > Len(a) THEN SubSeq(b, j, Len(b))
    ELSE IF j > Len(b) THEN SubSeq(a, i, Len(a))
    ELSE IF a[i].key = b[j].key THEN <<a[i]>> \o m[<<i + 1, j + 1>>]
    ELSE IF a[i].key < b[j].key THEN <<a[i]>> \o m[<<i + 1, j>>]
    ELSE <<b[j]>> \o m[<<i, j + 1>>]

\* What each step of the two loops leaves to merge.
LEMMA MergedDef ==
    ASSUME NEW a, NEW b, NEW p \in Nat, NEW r \in Nat, Len(a) = p, Len(b) = r
    PROVE  \E m : /\ \A i \in 1..p + 1, j \in 1..r + 1 : m[<<i, j>>] = MergeStep(a, b, m, i, j)
                  /\ Merged(a, b) = m[<<1, 1>>]
<1> DEFINE D == (1..p + 1) \X (1..r + 1)
           E(m, i, j) == IF i > p THEN SubSeq(b, j, r)
                         ELSE IF j > r THEN SubSeq(a, i, p)
                         ELSE IF a[i].key = b[j].key THEN <<a[i]>> \o m[<<i + 1, j + 1>>]
                         ELSE IF a[i].key < b[j].key THEN <<a[i]>> \o m[<<i + 1, j>>]
                         ELSE <<b[j]>> \o m[<<i, j + 1>>]
           Left(i, j) == (p + 1 - i) + (r + 1 - j)
           G(g, n) == \A i \in 1..p + 1, j \in 1..r + 1 : Left(i, j) <= n => g[<<i, j>>] = E(g, i, j)
           S == {n \in Nat : \E g : G(g, n)}
<1>a. ASSUME NEW g, NEW h, NEW i \in 1..p + 1, NEW j \in 1..r + 1,
             \A x \in 1..p + 1, y \in 1..r + 1 : Left(x, y) < Left(i, j) => g[<<x, y>>] = h[<<x, y>>]
      PROVE  E(g, i, j) = E(h, i, j)
  <2>1. CASE i > p \/ j > r
    BY <2>1
  <2>2. CASE i <= p /\ j <= r
    <3>1. /\ i + 1 \in 1..p + 1 /\ j + 1 \in 1..r + 1
          /\ Left(i + 1, j + 1) < Left(i, j) /\ Left(i + 1, j) < Left(i, j)
          /\ Left(i, j + 1) < Left(i, j)
      BY <2>2
    <3>2. /\ g[<<i + 1, j + 1>>] = h[<<i + 1, j + 1>>] /\ g[<<i + 1, j>>] = h[<<i + 1, j>>]
          /\ g[<<i, j + 1>>] = h[<<i, j + 1>>]
      BY <1>a, <3>1
    <3> QED BY <3>2
  <2> QED BY <2>1, <2>2
<1>1. 0 \in S
  <2> DEFINE g == [x \in D |-> SubSeq(b, x[2], r)]
  <2>1. ASSUME NEW i \in 1..p + 1, NEW j \in 1..r + 1, Left(i, j) <= 0
        PROVE  g[<<i, j>>] = E(g, i, j)
    <3>1. i = p + 1
      BY <2>1
    <3>2. E(g, i, j) = SubSeq(b, j, r)
      <4> HIDE DEF g
      <4> QED BY <3>1
    <3>3. <<i, j>> \in D /\ <<i, j>>[2] = j
      OBVIOUS
    <3>4. g[<<i, j>>] = SubSeq(b, j, r)
      <4> HIDE DEF D
      <4> QED BY <3>3
    <3> HIDE DEF g, E
    <3> QED BY <3>2, <3>4
  <2>2. G(g, 0)
    <3> HIDE DEF g, E, Left
    <3> QED BY <2>1
  <2> HIDE DEF G
  <2> QED BY <2>2
<1>2. ASSUME NEW n \in Nat, n \in S PROVE n + 1 \in S
  <2>1. PICK g : G(g, n)
    BY <1>2
  <2> DEFINE h == [x \in D |-> IF Left(x[1], x[2]) <= n THEN g[<<x[1], x[2]>>] ELSE E(g, x[1], x[2])]
  <2>0. \A i \in 1..p + 1, j \in 1..r + 1 :
           h[<<i, j>>] = IF Left(i, j) <= n THEN g[<<i, j>>] ELSE E(g, i, j)
    <3> HIDE DEF E, Left
    <3> QED OBVIOUS
  <2> HIDE DEF h
  <2>2. ASSUME NEW i \in 1..p + 1, NEW j \in 1..r + 1, Left(i, j) <= n + 1
        PROVE  h[<<i, j>>] = E(h, i, j)
    <3>1. ASSUME NEW x \in 1..p + 1, NEW y \in 1..r + 1, Left(x, y) < Left(i, j)
          PROVE  h[<<x, y>>] = g[<<x, y>>]
      <4>1. Left(x, y) <= n
        BY <2>2, <3>1
      <4> HIDE DEF Left, E
      <4> QED BY <2>0, <4>1
    <3>2. E(h, i, j) = E(g, i, j)
      <4> HIDE DEF Left, E
      <4> QED BY <1>a, <3>1, ZenonT(60)
    <3>3. h[<<i, j>>] = E(g, i, j)
      <4> HIDE DEF Left, E
      <4> QED BY <2>0, <2>1
    <3> QED BY <3>2, <3>3
  <2>3. G(h, n + 1)
    <3> HIDE DEF Left, E
    <3> QED BY <2>2
  <2> HIDE DEF G
  <2> QED BY <2>3
<1>3. PICK g : G(g, p + r)
  <2> HIDE DEF S
  <2>1. p + r \in S
    BY <1>1, <1>2, SetInduction
  <2> HIDE DEF G
  <2> QED BY <2>1 DEF S
<1>4. \A i \in 1..p + 1, j \in 1..r + 1 : g[<<i, j>>] = E(g, i, j)
  <2>1. \A i \in 1..p + 1, j \in 1..r + 1 : Left(i, j) <= p + r
    OBVIOUS
  <2> HIDE DEF Left, E
  <2> QED BY <1>3, <2>1
<1> DEFINE H(f) == f = [at \in D |-> E(f, at[1], at[2])]
           F == CHOOSE f : H(f)
<1>5. \E f : H(f)
  <2> DEFINE f == [at \in D |-> g[at]]
  <2>0. \A i \in 1..p + 1, j \in 1..r + 1 : <<i, j>> \in D
    OBVIOUS
  <2>1. \A i \in 1..p + 1, j \in 1..r + 1 : f[<<i, j>>] = g[<<i, j>>]
    <3> HIDE DEF D
    <3> QED BY <2>0
  <2>2. ASSUME NEW i \in 1..p + 1, NEW j \in 1..r + 1 PROVE E(f, i, j) = E(g, i, j)
    <3> HIDE DEF f, E, Left
    <3> QED BY <1>a, <2>1, ZenonT(60)
  <2>3. ASSUME NEW at \in D PROVE g[at] = E(f, at[1], at[2])
    <3>1. at[1] \in 1..p + 1 /\ at[2] \in 1..r + 1 /\ at = <<at[1], at[2]>>
      OBVIOUS
    <3> HIDE DEF E, f, D
    <3>2. g[<<at[1], at[2]>>] = E(g, at[1], at[2]) /\ E(f, at[1], at[2]) = E(g, at[1], at[2])
      BY <1>4, <2>2, <3>1
    <3> QED BY <3>1, <3>2
  <2>4. f = [at \in D |-> E(f, at[1], at[2])]
    <3> HIDE DEF E, D
    <3> QED BY <2>3
  <2> HIDE DEF f, E
  <2> QED BY <2>4
<1>6. H(F)
  <2> HIDE DEF H
  <2> QED BY <1>5
<1>7. Merged(a, b) = F[<<1, 1>>]
  BY DEF Merged
<1>8. \A i \in 1..p + 1, j \in 1..r + 1 : F[<<i, j>>] = E(F, i, j)
  <2> HIDE DEF E, F
  <2> QED BY <1>6
<1>9. \A i \in 1..p + 1, j \in 1..r + 1 : F[<<i, j>>] = MergeStep(a, b, F, i, j)
  <2> HIDE DEF F
  <2> QED BY <1>8 DEF MergeStep
<1> HIDE DEF F
<1> QED BY <1>7, <1>9

\* The pending changes that the page has already are taken once.
LEMMA MergedSame ==
    ASSUME NEW A, KeysApart(A), NEW a, Lists(a, A), NEW b \in Seq(A),
           \A x, y \in DOMAIN b : x < y => b[x].key < b[y].key
    PROVE  Merged(a, b) = a
<1>0. /\ a \in Seq(A) /\ Len(a) \in Nat /\ DOMAIN a = 1..Len(a) /\ Len(b) \in Nat
      /\ DOMAIN b = 1..Len(b)
  BY DEF Lists
<1>1. PICK p \in Nat, r \in Nat : p = Len(a) /\ r = Len(b)
  BY <1>0
<1>a. PICK m : /\ \A i \in 1..p + 1, j \in 1..r + 1 : m[<<i, j>>] = MergeStep(a, b, m, i, j)
               /\ Merged(a, b) = m[<<1, 1>>]
  BY <1>1, MergedDef
<1> DEFINE M(i, j) == m[<<i, j>>]
           Loop(i, j) == IF i > p THEN SubSeq(b, j, r)
                       ELSE IF j > r THEN SubSeq(a, i, p)
                       ELSE IF a[i].key = b[j].key THEN <<a[i]>> \o M(i + 1, j + 1)
                       ELSE IF a[i].key < b[j].key THEN <<a[i]>> \o M(i + 1, j)
                       ELSE <<b[j]>> \o M(i, j + 1)
<1>2. ASSUME NEW i \in 1..p + 1, NEW j \in 1..r + 1
      PROVE  M(i, j) = Loop(i, j)
  <2>1. m[<<i, j>>] = MergeStep(a, b, m, i, j)
    BY <1>a
  <2> QED BY <1>1, <2>1 DEF MergeStep
<1> HIDE DEF Loop
<1> HIDE DEF M
<1> DEFINE Later(i, j) == \A y \in j..r : \E x \in i..p : b[y] = a[x]
           T == {n \in Nat : \A i \in 1..p + 1, j \in 1..r + 1 :
                     i + n = p + 1 /\ Later(i, j) => M(i, j) = SubSeq(a, i, p)}
<1>3. 0 \in T
  <2> SUFFICES ASSUME NEW i \in 1..p + 1, NEW j \in 1..r + 1, i = p + 1, Later(i, j)
               PROVE  M(i, j) = SubSeq(a, i, p)
    OBVIOUS
  <2>1. j = r + 1
    <3>1. i..p = {}
      BY <1>1
    <3>2. j \in j..r => FALSE
      BY <3>1
    <3> QED BY <3>2
  <2>2. M(i, j) = SubSeq(b, j, r)
    <3>1. M(i, j) = Loop(i, j)
      BY <1>2
    <3>2. i > p
      OBVIOUS
    <3> QED BY <3>1, <3>2 DEF Loop
  <2>3. SubSeq(b, r + 1, r) = <<>> /\ SubSeq(a, p + 1, p) = <<>>
    BY <1>0, <1>1
  <2> QED BY <2>1, <2>2, <2>3
<1>4. ASSUME NEW n \in Nat, n \in T PROVE n + 1 \in T
  <2> SUFFICES ASSUME NEW i \in 1..p + 1, NEW j \in 1..r + 1, i + (n + 1) = p + 1, Later(i, j)
               PROVE  M(i, j) = SubSeq(a, i, p)
    OBVIOUS
  <2>0. i \in 1..p /\ i + 1 \in 1..p + 1 /\ (i + 1) + n = p + 1 /\ i <= p
    OBVIOUS
  <2>1. \A jj \in 1..r + 1 : Later(i + 1, jj) => M(i + 1, jj) = SubSeq(a, i + 1, p)
    <3> HIDE DEF Later
    <3> QED BY <1>4, <2>0
  <2>2. <<a[i]>> \o SubSeq(a, i + 1, p) = SubSeq(a, i, p)
    BY <1>0, <1>1, <2>0
  <2>a. M(i, j) = Loop(i, j) /\ ~(i > p)
    <3> HIDE DEF Later
    <3> QED BY <1>2, <2>0
  <2>3. CASE j > r
    BY <2>a, <2>3 DEF Loop
  <2>4. CASE j <= r
    <3>0. j \in 1..r /\ j \in j..r /\ j + 1 \in 1..r + 1
      BY <2>4
    <3>1. /\ a[i] \in A /\ b[j] \in A /\ a[i].key \in Nat /\ b[j].key \in Nat
      BY <1>0, <1>1, <2>0, <3>0 DEF KeysApart
    <3>2. ASSUME NEW x \in i..p, x # i PROVE a[i].key < a[x].key
      <4>1. i \in DOMAIN a /\ x \in DOMAIN a /\ i < x
        BY <1>0, <1>1, <2>0, <3>2
      <4> QED BY <4>1 DEF Lists
    <3>3. ASSUME NEW y \in j..r, y # j PROVE b[j].key < b[y].key
      <4>1. j \in DOMAIN b /\ y \in DOMAIN b /\ j < y
        BY <1>0, <1>1, <3>0, <3>3
      <4> QED BY <4>1
    <3>4. \A y \in j..r : b[y].key \in Nat
      BY <1>0, <1>1 DEF KeysApart
    <3>5. CASE a[i].key = b[j].key
      <4>1. Later(i + 1, j + 1)
        <5> SUFFICES ASSUME NEW y \in j + 1..r PROVE \E x \in i + 1..p : b[y] = a[x]
          OBVIOUS
        <5>1. y \in j..r /\ y # j
          OBVIOUS
        <5>2. PICK x \in i..p : b[y] = a[x]
          BY <5>1
        <5>3. x # i
          BY <3>1, <3>3, <3>5, <5>1, <5>2
        <5> QED BY <5>2, <5>3
      <4>2. M(i, j) = <<a[i]>> \o M(i + 1, j + 1)
        BY <2>a, <3>0, <3>5 DEF Loop
      <4> QED BY <2>1, <2>2, <3>0, <4>1, <4>2
    <3>6. CASE a[i].key < b[j].key
      <4>1. Later(i + 1, j)
        <5> SUFFICES ASSUME NEW y \in j..r PROVE \E x \in i + 1..p : b[y] = a[x]
          OBVIOUS
        <5>2. PICK x \in i..p : b[y] = a[x]
          OBVIOUS
        <5>3. x # i
          BY <3>1, <3>3, <3>4, <3>6, <5>2
        <5> QED BY <5>2, <5>3
      <4>2. M(i, j) = <<a[i]>> \o M(i + 1, j)
        BY <2>a, <3>0, <3>1, <3>6 DEF Loop
      <4> QED BY <2>1, <2>2, <4>1, <4>2
    <3>7. CASE b[j].key < a[i].key
      <4>1. PICK x \in i..p : b[j] = a[x]
        BY <3>0
      <4>2. x = i \/ a[i].key < a[x].key
        BY <3>2
      <4> QED BY <3>1, <3>7, <4>1, <4>2
    <3>8. a[i].key = b[j].key \/ a[i].key < b[j].key \/ b[j].key < a[i].key
      BY <3>1
    <3> QED BY <3>5, <3>6, <3>7, <3>8
  <2> QED BY <2>3, <2>4
<1> HIDE DEF T
<1>5. p \in T
  BY <1>3, <1>4, SetInduction
<1>6. Later(1, 1)
  <2> SUFFICES ASSUME NEW y \in 1..r PROVE \E x \in 1..p : b[y] = a[x]
    OBVIOUS
  <2>1. b[y] \in A
    BY <1>0, <1>1
  <2> QED BY <2>1, <1>0, <1>1 DEF Lists
<1>7. M(1, 1) = SubSeq(a, 1, p)
  <2>1. 1 \in 1..p + 1 /\ 1 \in 1..r + 1 /\ 1 + p = p + 1
    OBVIOUS
  <2> HIDE DEF Later
  <2> QED BY <1>5, <1>6, <2>1 DEF T
<1> QED BY <1>0, <1>1, <1>a, <1>7 DEF M

-----------------------------------------------------------------------------
(* Keys *)

\* The times a key can be made at lie further apart than the tie breakers.
LEMMA TimesGrow ==
    ASSUME NEW N \in Nat, NEW a \in Nat, NEW b \in Nat, a <= b
    PROVE  a * N <= b * N /\ (a < b => a * N + N <= b * N)
<1>1. PICK d \in Nat : b = a + d
  <2>1. b - a \in Nat /\ b = a + (b - a)
    OBVIOUS
  <2> QED BY <2>1
<1>2. (a + d) * N = a * N + d * N /\ d * N \in Nat /\ a * N \in Nat
  OBVIOUS
<1>3. d # 0 => d * N >= N
  <2> SUFFICES ASSUME d # 0 PROVE d * N >= N
    OBVIOUS
  <2>1. PICK e \in Nat : d = e + 1
    <3>1. d - 1 \in Nat /\ d = (d - 1) + 1
      OBVIOUS
    <3> QED BY <3>1
  <2>2. (e + 1) * N = e * N + N /\ e * N \in Nat
    OBVIOUS
  <2> QED BY <2>1, <2>2
<1> QED BY <1>1, <1>2, <1>3

\* The tie breaker of a key can be read off the key.
LEMMA KeyHasVal ==
    ASSUME NEW N \in Nat, NEW a \in Nat, NEW b \in Nat, NEW v \in Nat, NEW w \in Nat,
           v < N, w < N, a * N + v = b * N + w
    PROVE  v = w
<1>0. a * N \in Nat /\ b * N \in Nat
  OBVIOUS
<1>1. a < b => a * N + N <= b * N
  BY TimesGrow
<1>2. b < a => b * N + N <= a * N
  BY TimesGrow
<1>3. a = b => a * N = b * N
  OBVIOUS
<1>4. a < b \/ b < a \/ a = b
  OBVIOUS
<1> QED BY <1>0, <1>1, <1>2, <1>3, <1>4

\* A later call on a clock that was not set back has a greater key.
LEMMA KeyIsLater ==
    ASSUME NEW N \in Nat, NEW a \in Nat, NEW b \in Nat, NEW v \in Nat, NEW w \in Nat,
           a <= b, v < w
    PROVE  a * N + v < b * N + w
<1>0. a * N \in Nat /\ b * N \in Nat
  OBVIOUS
<1>1. a * N <= b * N
  BY TimesGrow
<1> QED BY <1>0, <1>1

\* Changes of different calls have different keys.
LEMMA NumbersKeys ==
    ASSUME NEW K, NEW A, NEW I, NEW n, NumbersDiffer(K, A, I, n), Len(Asked) \in Nat
    PROVE  KeysApart(K) /\ \A c \in K : c.key # None
<1> DEFINE N == Len(Asked) + 2
<1>1. ASSUME NEW c \in K
      PROVE  /\ c.key \in Nat /\ c.key # None /\ c.val \in Nat /\ c.val < N
             /\ \E s \in Nat : c.key = s * N + c.val
  <2>1. c.val \in 1..n + 1 /\ n \in 0..Len(Asked) /\ c.key \in Nat
    BY DEF NumbersDiffer, ChangeOf
  <2>2. PICK t \in Nat : KeyUntil(c, t)
    BY DEF NumbersDiffer
  <2>3. PICK s \in 1..t : c.key = s * N + c.val
    BY <2>2 DEF KeyUntil
  <2>4. s \in Nat /\ N \in Nat
    BY <2>3
  <2>5. s * N \in Nat
    BY <2>4
  <2>6. c.val \in Nat /\ c.val < N
    BY <2>1
  <2> HIDE DEF N
  <2>7. c.key # 0
    BY <2>1, <2>3, <2>5
  <2>8. \E x \in Nat : c.key = x * N + c.val
    BY <2>3, <2>4
  <2> QED BY <2>1, <2>6, <2>7, <2>8 DEF None
<1>2. N \in Nat
  OBVIOUS
<1>3. ASSUME NEW c \in K, NEW e \in K, c.key = e.key PROVE c = e
  <2>1. PICK s \in Nat : c.key = s * N + c.val
    BY <1>1
  <2>2. PICK t \in Nat : e.key = t * N + e.val
    BY <1>1
  <2>3. c.val \in Nat /\ c.val < N /\ e.val \in Nat /\ e.val < N
    BY <1>1
  <2> HIDE DEF N
  <2>4. s * N + c.val = t * N + e.val
    BY <1>3, <2>1, <2>2
  <2>5. c.val = e.val
    BY <1>2, <2>3, <2>4, KeyHasVal
  <2> QED BY <2>5 DEF NumbersDiffer
<1> QED BY <1>1, <1>3 DEF KeysApart

-----------------------------------------------------------------------------
(* Numbers *)

\* Nothing new.
LEMMA NumbersShrink ==
    ASSUME NEW K, NEW A, NEW I, NEW n, NumbersDiffer(K, A, I, n),
           NEW K2, K2 \subseteq K, NEW A2, \A l \in Link : A2[l] \subseteq A[l],
           NEW I2, I2 \subseteq I
    PROVE  NumbersDiffer(K2, A2, I2, n)
  BY DEF NumbersDiffer

\* A client asks for a change.
LEMMA NumbersAsk ==
    ASSUME NEW K, NEW A, NEW I, NEW n, NumbersDiffer(K, A, I, n), n < Len(Asked), Len(Asked) \in Nat,
           NEW l \in Link,
           NEW A2, \A m \in Link : A2[m] \subseteq A[m] \cup (IF m = l THEN {n + 2} ELSE {})
    PROVE  NumbersDiffer(K, A2, I, n + 1)
<1>1. n \in Nat /\ n + 1 \in 0..Len(Asked) /\ 1..n + 1 \subseteq 1..(n + 1) + 1
      /\ 2..n + 1 \subseteq 2..(n + 1) + 1 /\ n + 2 \in 2..(n + 1) + 1
      /\ n + 2 \notin 1..n + 1 /\ n + 2 \notin 2..n + 1
  BY DEF NumbersDiffer
<1>2. ASSUME NEW m \in Link, NEW v \in A2[m]
      PROVE  v \in 2..(n + 1) + 1 /\ \A c \in K : c.val # v
  <2>1. CASE v \in A[m]
    BY <1>1, <2>1 DEF NumbersDiffer
  <2>2. CASE v = n + 2
    BY <1>1, <2>2 DEF NumbersDiffer
  <2> QED BY <2>1, <2>2
<1>3. ASSUME NEW x \in Link, NEW y \in Link, x # y PROVE A2[x] \cap A2[y] = {}
  <2>1. n + 2 \notin A[x] /\ n + 2 \notin A[y] /\ A[x] \cap A[y] = {}
    BY <1>1, <1>3 DEF NumbersDiffer
  <2> QED BY <1>3, <2>1
<1> QED BY <1>1, <1>2, <1>3 DEF NumbersDiffer

\* A change gets its key, with a number that only it has had.
LEMMA NumbersKeyed ==
    ASSUME NEW K, NEW A, NEW I, NEW n, NumbersDiffer(K, A, I, n), NEW n2,
           n2 \in n..Len(Asked), Len(Asked) \in Nat,
           NEW c, c.link \in Link, c \in ChangeOf(c.link), \E t \in Nat : KeyUntil(c, t),
           c.val \in 1..n2 + 1, \A e \in K : e.val # c.val,
           NEW K2, K2 \subseteq K \cup {c},
           NEW A2, \A l \in Link : A2[l] \subseteq A[l] /\ c.val \notin A2[l],
           NEW I2, I2 \subseteq I, c.val = 1 => I2 = {}
    PROVE  NumbersDiffer(K2, A2, I2, n2)
<1>1. n \in Nat /\ n2 \in Nat /\ n2 \in 0..Len(Asked) /\ 1..n + 1 \subseteq 1..n2 + 1
      /\ 2..n + 1 \subseteq 2..n2 + 1
  BY DEF NumbersDiffer
<1>2. \A e \in K2 : e \in K \/ e = c
  OBVIOUS
<1>3. ASSUME NEW e \in K2
      PROVE  e.link \in Link /\ e \in ChangeOf(e.link) /\ (\E t \in Nat : KeyUntil(e, t))
             /\ e.val \in 1..n2 + 1
  <2>1. CASE e \in K
    BY <1>1, <2>1 DEF NumbersDiffer
  <2>2. CASE e = c
    BY <2>2
  <2> QED BY <1>2, <2>1, <2>2
<1>4. \A e, f \in K2 : e.val = f.val => e = f
  BY <1>2 DEF NumbersDiffer
<1>5. \A l \in Link : \A v \in A2[l] : v \in 2..n2 + 1 /\ \A e \in K2 : e.val # v
  BY <1>1, <1>2 DEF NumbersDiffer
<1>6. \A l \in I2 : l = 1 /\ \A e \in K2 : e.val # 1
  BY <1>2 DEF NumbersDiffer
<1>7. \A l, m \in Link : l # m => A2[l] \cap A2[m] = {}
  BY DEF NumbersDiffer
<1> QED BY <1>1, <1>3, <1>4, <1>5, <1>6, <1>7 DEF NumbersDiffer

-----------------------------------------------------------------------------
(* What keeps a link good *)

\* The operations that are not changes come and go.
Shifted(q, r, n) ==
    /\ \A i \in DOMAIN r : r[i].kind = "change" => i + n \in DOMAIN q /\ q[i + n] = r[i]
    /\ \A j \in DOMAIN q : q[j].kind = "change" => j - n \in DOMAIN r /\ r[j - n] = q[j]

\* Operations that are no changes may come or go.
LEMMA GoodShifted ==
    ASSUME NEW l, NEW P, NEW s, NEW q, NEW W, NEW p, NEW w, NEW g, NEW m, NEW d,
           Good(l, P, s, q, W, p, w, g, m, d),
           NEW r, NEW n \in Nat, Shifted(q, r, n), DOMAIN q \subseteq Nat, DOMAIN r \subseteq Nat
    PROVE  Good(l, P, s, r, W, p, w, g, m, d) /\ AskedVals(r) = AskedVals(q)
<1>0. Types(l, s, q, W, p, g, m) /\ EchoesCome(l, P, q, W, p, w) /\ KeysGrow(q, p, g)
  BY DEF Good
<1>a. /\ \A i \in DOMAIN r : r[i].kind = "change" => i + n \in DOMAIN q /\ q[i + n] = r[i]
      /\ \A j \in DOMAIN q : q[j].kind = "change" => j - n \in DOMAIN r /\ r[j - n] = q[j]
      /\ \A i \in DOMAIN r : i \in Nat
      /\ \A i \in DOMAIN q : i \in Nat
  BY DEF Shifted
<1>1. Reported(r) = Reported(q)
  <2>1. ASSUME NEW i \in DOMAIN r, Report(r[i]) PROVE r[i].change \in Reported(q)
    <3>1. i + n \in DOMAIN q /\ q[i + n] = r[i]
      BY <1>a, <2>1 DEF Report
    <3> QED BY <2>1, <3>1 DEF Reported
  <2>2. ASSUME NEW i \in DOMAIN q, Report(q[i]) PROVE q[i].change \in Reported(r)
    <3>1. i - n \in DOMAIN r /\ r[i - n] = q[i]
      BY <1>a, <2>2 DEF Report
    <3> QED BY <2>2, <3>1 DEF Reported
  <2> QED BY <2>1, <2>2 DEF Reported
<1>2. AskedVals(r) = AskedVals(q)
  <2>1. ASSUME NEW i \in DOMAIN r, Asking(r[i]) PROVE r[i].change.val \in AskedVals(q)
    <3>1. i + n \in DOMAIN q /\ q[i + n] = r[i]
      BY <1>a, <2>1 DEF Asking
    <3> QED BY <2>1, <3>1 DEF AskedVals
  <2>2. ASSUME NEW i \in DOMAIN q, Asking(q[i]) PROVE q[i].change.val \in AskedVals(r)
    <3>1. i - n \in DOMAIN r /\ r[i - n] = q[i]
      BY <1>a, <2>2 DEF Asking
    <3> QED BY <2>2, <3>1 DEF AskedVals
  <2> QED BY <2>1, <2>2 DEF AskedVals
<1>3. Types(l, s, r, W, p, g, m)
  <2>1. ASSUME NEW i \in DOMAIN r, r[i].kind = "change" PROVE r[i].change \in ChangeOf(l)
    <3>1. i + n \in DOMAIN q /\ q[i + n] = r[i]
      BY <1>a, <2>1
    <3> QED BY <1>0, <2>1, <3>1 DEF Types
  <2> QED BY <1>0, <2>1 DEF Types
<1>4. EchoesCome(l, P, r, W, p, w)
  <2>2. ASSUME NEW i \in DOMAIN r, NEW j \in DOMAIN r, Report(r[i]), Report(r[j]), i # j
        PROVE  r[i].change # r[j].change
    <3>1. i + n \in DOMAIN q /\ q[i + n] = r[i] /\ j + n \in DOMAIN q /\ q[j + n] = r[j]
      BY <1>a, <2>2 DEF Report
    <3>2. i + n # j + n
      BY <1>a, <2>2
    <3> QED BY <1>0, <2>2, <3>1, <3>2 DEF EchoesCome
  <2>3. ASSUME NEW x \in DOMAIN p, NEW y \in DOMAIN p, NEW j \in DOMAIN r, x < y, Report(r[j]),
               r[j].change = p[y]
        PROVE  \E i \in DOMAIN r : i < j /\ Report(r[i]) /\ r[i].change = p[x]
    <3>1. j + n \in DOMAIN q /\ q[j + n] = r[j] /\ j \in Nat
      BY <1>a, <2>3 DEF Report
    <3>2. PICK i \in DOMAIN q : i < j + n /\ Report(q[i]) /\ q[i].change = p[x]
      BY <1>0, <2>3, <3>1 DEF EchoesCome
    <3>3. i - n \in DOMAIN r /\ r[i - n] = q[i] /\ i - n < j
      BY <1>a, <3>1, <3>2 DEF Report
    <3> QED BY <3>2, <3>3
  <2> QED BY <1>0, <1>1, <2>2, <2>3 DEF EchoesCome
<1>5. KeysGrow(r, p, g)
  <2>2. ASSUME NEW x \in DOMAIN p, NEW i \in DOMAIN r, Asking(r[i]) PROVE p[x].val < r[i].change.val
    <3>1. i + n \in DOMAIN q /\ q[i + n] = r[i]
      BY <1>a, <2>2 DEF Asking
    <3> QED BY <1>0, <2>2, <3>1 DEF KeysGrow
  <2>3. ASSUME NEW i \in DOMAIN r, NEW j \in DOMAIN r, i < j, Asking(r[i]), Asking(r[j])
        PROVE  r[i].change.val < r[j].change.val
    <3>1. i + n \in DOMAIN q /\ q[i + n] = r[i] /\ j + n \in DOMAIN q /\ q[j + n] = r[j]
      BY <1>a, <2>3 DEF Asking
    <3>2. i + n < j + n
      BY <1>a, <2>3
    <3> QED BY <1>0, <2>3, <3>1, <3>2 DEF KeysGrow
  <2> QED BY <1>0, <2>2, <2>3 DEF KeysGrow
<1>6. \E D : Holds(l, P, s, r, W, p, w, m, d, D)
  BY <1>1 DEF Good, Holds
<1> QED BY <1>2, <1>3, <1>4, <1>5, <1>6 DEF Good

\* The page grows without the change that the link is writing.
LEMMA GoodGrown ==
    ASSUME NEW l, NEW P, NEW s, NEW q, NEW W, NEW p, NEW w, NEW g, NEW m, NEW d,
           Good(l, P, s, q, W, p, w, g, m, d),
           NEW Q, P \subseteq Q, W \cap Q \subseteq P
    PROVE  Good(l, Q, s, q, W, p, w, g, m, d)
<1>0. EchoesCome(l, P, q, W, p, w)
  BY DEF Good
<1>1. EchoesCome(l, Q, q, W, p, w)
  <2>1. w \subseteq Q /\ Own(P \ w, l) \subseteq Own(Q \ w, l) /\ \A c \in W : c \notin Q
    BY <1>0 DEF EchoesCome, Own
  <2> QED BY <1>0, <2>1 DEF EchoesCome
<1>2. PICK D : Holds(l, P, s, q, W, p, w, m, d, D)
  BY DEF Good
<1>3. Holds(l, Q, s, q, W, p, w, m, d, D)
  <2>1. w \subseteq P
    BY <1>0 DEF EchoesCome
  <2>2. Own(P, l) \subseteq Own(Q, l) /\ Own(Q, l) \subseteq Own(P, l) \cup (Q \ w)
        /\ P \ w \subseteq Q \ w
    BY <2>1 DEF Own
  <2> QED BY <1>2, <2>2 DEF Holds
<1> QED BY <1>1, <1>3 DEF Good

\* The first operation of a queue, and the others.
LEMMA TailAt ==
    ASSUME NEW S, NEW q \in Seq(S), q # <<>>
    PROVE  /\ Tail(q) \in Seq(S) /\ 1 \in DOMAIN q /\ Head(q) = q[1]
           /\ \A i \in DOMAIN q : i \in Nat /\ i >= 1
           /\ \A i \in DOMAIN Tail(q) : i \in Nat /\ i >= 1 /\ i + 1 \in DOMAIN q /\ Tail(q)[i] = q[i + 1]
           /\ \A j \in DOMAIN q : j # 1 => j - 1 \in DOMAIN Tail(q) /\ Tail(q)[j - 1] = q[j]
  OBVIOUS

\* ... at the front of the queue
LEMMA TailShifted ==
    ASSUME NEW S, NEW q \in Seq(S), q # <<>>, q[1].kind # "change"
    PROVE  Shifted(q, Tail(q), 1) /\ DOMAIN q \subseteq Nat /\ DOMAIN Tail(q) \subseteq Nat
<1> DEFINE r == Tail(q)
<1>1. /\ \A i \in DOMAIN q : i \in Nat /\ i >= 1
      /\ \A i \in DOMAIN r : i \in Nat /\ i >= 1 /\ i + 1 \in DOMAIN q /\ r[i] = q[i + 1]
      /\ \A j \in DOMAIN q : j # 1 => j - 1 \in DOMAIN r /\ r[j - 1] = q[j]
  BY TailAt
<1> HIDE DEF r
<1>2. Shifted(q, r, 1)
  BY <1>1 DEF Shifted
<1> QED BY <1>1, <1>2 DEF r

\* ... or at its end
LEMMA AppendShifted ==
    ASSUME NEW S, NEW q \in Seq(S), NEW op, op.kind # "change"
    PROVE  /\ Shifted(q, Append(q, op), 0) /\ DOMAIN q \subseteq Nat
           /\ DOMAIN Append(q, op) \subseteq Nat
<1> DEFINE r == Append(q, op)
<1>1. /\ \A i \in DOMAIN q : i \in Nat /\ i \in DOMAIN r /\ r[i] = q[i]
      /\ \A i \in DOMAIN r : i \in Nat /\ (i \in DOMAIN q \/ r[i] = op)
      /\ \A i \in Nat : i + 0 = i /\ i - 0 = i
  OBVIOUS
<1> HIDE DEF r
<1>2. Shifted(q, r, 0)
  BY <1>1 DEF Shifted
<1> QED BY <1>1, <1>2 DEF r

\* What the operations after the first report and ask for.
LEMMA TailChanges ==
    ASSUME NEW S, NEW q \in Seq(S), q # <<>>
    PROVE  /\ Reported(Tail(q)) \subseteq Reported(q)
           /\ Reported(q) \subseteq Reported(Tail(q)) \cup (IF Report(q[1]) THEN {q[1].change} ELSE {})
           /\ AskedVals(Tail(q)) \subseteq AskedVals(q)
<1> DEFINE r == Tail(q)
<1>1. /\ \A i \in DOMAIN r : i + 1 \in DOMAIN q /\ r[i] = q[i + 1]
      /\ \A j \in DOMAIN q : j # 1 => j - 1 \in DOMAIN r /\ r[j - 1] = q[j]
  BY TailAt
<1> HIDE DEF r
<1>2. ASSUME NEW i \in DOMAIN r, Report(r[i]) PROVE r[i].change \in Reported(q)
  BY <1>1, <1>2 DEF Reported
<1>3. ASSUME NEW j \in DOMAIN q, Report(q[j]), j # 1 PROVE q[j].change \in Reported(r)
  <2>1. j - 1 \in DOMAIN r /\ r[j - 1] = q[j]
    BY <1>1, <1>3
  <2> QED BY <1>3, <2>1 DEF Reported
<1>4. ASSUME NEW i \in DOMAIN r, Asking(r[i]) PROVE r[i].change.val \in AskedVals(q)
  BY <1>1, <1>4 DEF AskedVals
<1>5. Reported(r) \subseteq Reported(q)
  BY <1>2 DEF Reported
<1>6. Reported(q) \subseteq Reported(r) \cup (IF Report(q[1]) THEN {q[1].change} ELSE {})
  <2> SUFFICES ASSUME NEW j \in DOMAIN q, Report(q[j])
               PROVE  q[j].change \in Reported(r) \cup (IF Report(q[1]) THEN {q[1].change} ELSE {})
    BY DEF Reported
  <2> QED BY <1>3
<1>7. AskedVals(r) \subseteq AskedVals(q)
  BY <1>4 DEF AskedVals
<1> QED BY <1>5, <1>6, <1>7 DEF r

\* The first operation begins or ends: what it reports is not pending any more.
LEMMA TailEchoes ==
    ASSUME NEW l, NEW P, NEW q, NEW W, NEW p, NEW w, EchoesCome(l, P, q, W, p, w),
           NEW S, q \in Seq(S), q # <<>>, \A x \in DOMAIN p : Report(q[1]) => p[x] # q[1].change
    PROVE  EchoesCome(l, P, Tail(q), W, p, w)
<1> DEFINE r == Tail(q)
<1>1. /\ \A i \in DOMAIN q : i \in Nat /\ i >= 1
      /\ \A i \in DOMAIN r : i \in Nat /\ i >= 1 /\ i + 1 \in DOMAIN q /\ r[i] = q[i + 1]
      /\ \A j \in DOMAIN q : j # 1 => j - 1 \in DOMAIN r /\ r[j - 1] = q[j]
  BY TailAt
<1>2. /\ Reported(r) \subseteq Reported(q)
      /\ Reported(q) \subseteq Reported(r) \cup (IF Report(q[1]) THEN {q[1].change} ELSE {})
  BY TailChanges
<1> HIDE DEF r
<1>3. \A x \in DOMAIN p : p[x] \in W \cup Own(P \ w, l) \cup Reported(r)
  BY <1>2 DEF EchoesCome
<1>4. ASSUME NEW i \in DOMAIN r, NEW j \in DOMAIN r, Report(r[i]), Report(r[j]), i # j
      PROVE  r[i].change # r[j].change
  <2>1. /\ i + 1 \in DOMAIN q /\ j + 1 \in DOMAIN q /\ i + 1 # j + 1 /\ r[i] = q[i + 1]
        /\ r[j] = q[j + 1]
    BY <1>1, <1>4
  <2> QED BY <1>4, <2>1 DEF EchoesCome
<1>5. ASSUME NEW x \in DOMAIN p, NEW y \in DOMAIN p, NEW j \in DOMAIN r, x < y, Report(r[j]),
             r[j].change = p[y]
      PROVE  \E i \in DOMAIN r : i < j /\ Report(r[i]) /\ r[i].change = p[x]
  <2>1. j + 1 \in DOMAIN q /\ q[j + 1] = r[j] /\ j \in Nat
    BY <1>1
  <2>2. PICK i \in DOMAIN q : i < j + 1 /\ Report(q[i]) /\ q[i].change = p[x]
    BY <1>5, <2>1 DEF EchoesCome
  <2>3. i # 1
    BY <2>2
  <2>4. i - 1 \in DOMAIN r /\ r[i - 1] = q[i] /\ i - 1 < j
    BY <1>1, <2>1, <2>2, <2>3
  <2> QED BY <2>2, <2>4
<1>6. EchoesCome(l, P, r, W, p, w)
  BY <1>2, <1>3, <1>4, <1>5, ZenonT(60) DEF EchoesCome
<1> QED BY <1>6 DEF r

\* The calls that wait stay in order when the first operation goes.
LEMMA TailGrow ==
    ASSUME NEW q, NEW p, NEW g, KeysGrow(q, p, g), NEW S, q \in Seq(S), q # <<>>
    PROVE  KeysGrow(Tail(q), p, g)
<1> DEFINE r == Tail(q)
<1>1. \A i \in DOMAIN r : i \in Nat /\ i + 1 \in DOMAIN q /\ r[i] = q[i + 1]
  BY TailAt
<1> HIDE DEF r
<1>2. ASSUME NEW i \in DOMAIN r, NEW j \in DOMAIN r, i < j, Asking(r[i]), Asking(r[j])
      PROVE  r[i].change.val < r[j].change.val
  <2>1. /\ i + 1 \in DOMAIN q /\ j + 1 \in DOMAIN q /\ i + 1 < j + 1 /\ r[i] = q[i + 1]
        /\ r[j] = q[j + 1]
    BY <1>1, <1>2
  <2> QED BY <1>2, <2>1 DEF KeysGrow
<1>3. ASSUME NEW x \in DOMAIN p, NEW i \in DOMAIN r, Asking(r[i]) PROVE p[x].val < r[i].change.val
  BY <1>1, <1>3 DEF KeysGrow
<1>4. KeysGrow(r, p, g)
  BY <1>2, <1>3 DEF KeysGrow
<1> QED BY <1>4 DEF r

\* The operations that are left are what they were.
LEMMA TailTypes ==
    ASSUME NEW l, NEW s, NEW q, NEW W, NEW p, NEW g, NEW m, Types(l, s, q, W, p, g, m),
           NEW S, q \in Seq(S), q # <<>>
    PROVE  Types(l, s, Tail(q), W, p, g, m)
<1> DEFINE r == Tail(q)
<1>1. \A i \in DOMAIN r : i + 1 \in DOMAIN q /\ r[i] = q[i + 1]
  BY TailAt
<1> HIDE DEF r
<1>2. Types(l, s, r, W, p, g, m)
  BY <1>1 DEF Types
<1> QED BY <1>2 DEF r

\* The page reports the oldest pending change.
LEMMA GoodEcho ==
    ASSUME NEW l, NEW P, NEW q, NEW W, NEW p, NEW w, NEW g, NEW m, NEW d,
           Good(l, P, "start", q, W, p, w, g, m, d), NEW S, q \in Seq(S), q # <<>>,
           p # <<>>, Report(q[1]), q[1].change = p[1]
    PROVE  Good(l, P, "start", Tail(q), W, Tail(p), w, g, m, d)
<1> DEFINE o == Tail(p)
<1>0. /\ Types(l, "start", q, W, p, g, m) /\ EchoesCome(l, P, q, W, p, w) /\ KeysGrow(q, p, g)
      /\ W = {}
  BY DEF Good, Types
<1>1. p \in Seq(ChangeOf(l))
  BY <1>0 DEF Types
<1>2. /\ o \in Seq(ChangeOf(l)) /\ 1 \in DOMAIN p
      /\ \A x \in DOMAIN o : x \in Nat /\ x >= 1 /\ x + 1 \in DOMAIN p /\ o[x] = p[x + 1]
      /\ \A x \in DOMAIN p : x # 1 => x - 1 \in DOMAIN o /\ o[x - 1] = p[x]
      /\ \A x \in DOMAIN p : x \in Nat /\ x >= 1
  BY <1>1, TailAt
<1> HIDE DEF o
<1>3. Types(l, "start", q, W, o, g, m)
  BY <1>0, <1>2 DEF Types
<1>4. ASSUME NEW x \in DOMAIN o PROVE o[x] # p[1] /\ p[1].key < o[x].key
  <2>1. x + 1 \in DOMAIN p /\ 1 < x + 1 /\ o[x] = p[x + 1]
    BY <1>2
  <2>2. p[1].key < p[x + 1].key
    BY <1>0, <1>2, <2>1 DEF EchoesCome
  <2>3. p[1] \in ChangeOf(l)
    BY <1>1, <1>2
  <2>4. p[1].key \in Nat
    BY <2>3 DEF ChangeOf
  <2> QED BY <2>1, <2>2, <2>4
<1>5. EchoesCome(l, P, q, W, o, w)
  <2>1. ASSUME NEW x \in DOMAIN o, NEW y \in DOMAIN o, x < y PROVE o[x].key < o[y].key
    <3>1. /\ x + 1 \in DOMAIN p /\ y + 1 \in DOMAIN p /\ x + 1 < y + 1 /\ o[x] = p[x + 1]
          /\ o[y] = p[y + 1]
      BY <1>2, <2>1
    <3> QED BY <1>0, <3>1 DEF EchoesCome
  <2>2. ASSUME NEW x \in DOMAIN o, NEW y \in DOMAIN o, NEW j \in DOMAIN q, x < y, Report(q[j]),
               q[j].change = o[y]
        PROVE  \E i \in DOMAIN q : i < j /\ Report(q[i]) /\ q[i].change = o[x]
    <3>1. /\ x + 1 \in DOMAIN p /\ y + 1 \in DOMAIN p /\ x + 1 < y + 1 /\ o[x] = p[x + 1]
          /\ o[y] = p[y + 1]
      BY <1>2, <2>2
    <3> QED BY <1>0, <2>2, <3>1 DEF EchoesCome
  <2>3. \A x \in DOMAIN o : o[x] \in W \cup Own(P \ w, l) \cup Reported(q)
    BY <1>0, <1>2, ZenonT(60) DEF EchoesCome
  <2> QED BY <1>0, <2>1, <2>2, <2>3 DEF EchoesCome
<1>6. EchoesCome(l, P, Tail(q), W, o, w)
  <2>1. \A x \in DOMAIN o : Report(q[1]) => o[x] # q[1].change
    BY <1>4
  <2> QED BY <1>5, <2>1, TailEchoes
<1>7. KeysGrow(q, o, g)
  BY <1>0, <1>2 DEF KeysGrow
<1>8. PICK D : Holds(l, P, "start", q, W, p, w, m, d, D)
  BY DEF Good
<1>9. Holds(l, P, "start", Tail(q), W, o, w, m, d, D)
  <2>1. ToSet(o) \subseteq ToSet(p) /\ p[1] \in ToSet(p) /\ ToSet(p) \subseteq ToSet(o) \cup {p[1]}
    BY <1>2 DEF ToSet
  <2>2. p[1] \in D
    BY <1>0, <1>8, <2>1 DEF Holds
  <2>3. p[1] \in Own(P, l)
    <3>1. q[1].change \in Reported(q) /\ 1 \in DOMAIN q
      BY TailAt DEF Reported
    <3> QED BY <1>0, <3>1 DEF EchoesCome, Own
  <2>4. Reported(q) \subseteq Reported(Tail(q)) \cup {p[1]}
    BY TailChanges
  <2> QED BY <1>0, <1>8, <2>1, <2>2, <2>3, <2>4 DEF Holds
<1> QED BY <1>3, <1>6, <1>7, <1>9, TailTypes, TailGrow DEF Good, o

\* What the link knows has a key of its own.
LEMMA HeldApart ==
    ASSUME NEW l, NEW P, NEW s, NEW q, NEW W, NEW p, NEW w, NEW m, NEW d, NEW D,
           EchoesCome(l, P, q, W, p, w), Holds(l, P, s, q, W, p, w, m, d, D), NEW K, P \cup W \subseteq K
    PROVE  ToSet(p) \subseteq Own(P, l) \cup W /\ D \subseteq K /\ ToSet(p) \subseteq K
<1>1. Reported(q) \subseteq Own(P, l) /\ Own(P \ w, l) \subseteq Own(P, l)
  BY DEF EchoesCome, Own
<1>2. ToSet(p) \subseteq Own(P, l) \cup W
  BY <1>1 DEF EchoesCome, ToSet
<1> QED BY <1>2 DEF Holds, Own

\* A change the page reports, to be put before others: the history is read.
LEMMA GoodReportedOld ==
    ASSUME NEW l, NEW P, NEW q, NEW W, NEW p, NEW w, NEW g, NEW m, NEW d,
           Good(l, P, "start", q, W, p, w, g, m, d), NEW S, q \in Seq(S), q # <<>>,
           Report(q[1]), \A x \in DOMAIN p : p[x] # q[1].change
    PROVE  Good(l, P, "read", Tail(q), {}, p, w, g, m, d)
<1>0. /\ Types(l, "start", q, W, p, g, m) /\ EchoesCome(l, P, q, W, p, w) /\ KeysGrow(q, p, g)
      /\ W = {}
  BY DEF Good, Types
<1>1. Types(l, "read", Tail(q), {}, p, g, m)
  BY <1>0, TailTypes DEF Types
<1>2. EchoesCome(l, P, Tail(q), {}, p, w)
  BY <1>0, TailEchoes
<1>3. KeysGrow(Tail(q), p, g)
  BY <1>0, TailGrow
<1>4. \E D : Holds(l, P, "read", Tail(q), {}, p, w, m, d, D)
  BY DEF Good, Holds
<1> QED BY <1>1, <1>2, <1>3, <1>4 DEF Good

\* ... and the newest
LEMMA GoodReportedNew ==
    ASSUME NEW l, NEW P, NEW q, NEW W, NEW p, NEW w, NEW g, NEW m, NEW d,
           Good(l, P, "start", q, W, p, w, g, m, d), NEW S, q \in Seq(S), q # <<>>,
           Report(q[1]), \A x \in DOMAIN p : p[x] # q[1].change, ~(q[1].change.key < m), KeysApart(P)
    PROVE  Good(l, P, "start", Tail(q), {}, p, w, g, q[1].change.key, ApplyChange(d, q[1].change))
<1> DEFINE c == q[1].change
<1>0. /\ Types(l, "start", q, W, p, g, m) /\ EchoesCome(l, P, q, W, p, w) /\ KeysGrow(q, p, g)
      /\ W = {}
  BY DEF Good, Types
<1>1. 1 \in DOMAIN q /\ q[1].kind = "change"
  BY TailAt DEF Report
<1>2. c \in ChangeOf(l) /\ c \in Own(P, l) /\ c \in Reported(q)
  <2>1. c \in Reported(q)
    BY <1>1 DEF Reported
  <2> QED BY <1>0, <1>1, <2>1 DEF Types, EchoesCome, Own
<1>3. c.key \in Nat /\ m \in Nat /\ m <= c.key
  <2>1. c.key \in Nat /\ m \in Nat
    BY <1>0, <1>2 DEF ChangeOf, Types
  <2> QED BY <2>1
<1>4. Types(l, "start", Tail(q), {}, p, g, c.key)
  <2>1. Types(l, "start", Tail(q), W, p, g, m)
    BY <1>0, TailTypes
  <2> HIDE DEF c
  <2> QED BY <1>3, <1>0, <2>1 DEF Types
<1>5. EchoesCome(l, P, Tail(q), {}, p, w)
  BY <1>0, TailEchoes
<1>6. KeysGrow(Tail(q), p, g)
  BY <1>0, TailGrow
<1>7. PICK D : Holds(l, P, "start", q, W, p, w, m, d, D)
  BY DEF Good
<1>8. Holds(l, P, "start", Tail(q), {}, p, w, c.key, ApplyChange(d, c), D \cup {c})
  <2>1. D \subseteq P
    BY <1>0, <1>7, HeldApart
  <2>2. \A e \in D : e.key <= c.key /\ e.key \in Nat
    <3> SUFFICES ASSUME NEW e \in D PROVE e.key <= c.key /\ e.key \in Nat
      OBVIOUS
    <3>1. e.key <= m /\ e.key \in Nat
      BY <1>7, <2>1 DEF Holds, KeysApart
    <3> HIDE DEF c
    <3> QED BY <1>3, <3>1
  <2>3. KeysApart(D \cup {c})
    BY <1>2, <2>1 DEF KeysApart, Own
  <2>4. IsValue(ApplyChange(d, c), D \cup {c})
    <3>1. IsValue(d, D)
      BY <1>7 DEF Holds
    <3> HIDE DEF c
    <3> QED BY <1>2, <2>2, <2>3, <3>1, ValueNewest
  <2>5. Reported(q) \subseteq Reported(Tail(q)) \cup {c}
    BY TailChanges
  <2> HIDE DEF c
  <2>6. c.key <= c.key
    BY <1>3
  <2> QED BY <1>0, <1>2, <1>7, <2>2, <2>4, <2>5, <2>6 DEF Holds
<1> QED BY <1>4, <1>5, <1>6, <1>8 DEF Good

\* The key of c was made at time t, after those of p and before those of q.
Newest(c, t, q, p) ==
    /\ KeyUntil(c, t)
    /\ \A x \in DOMAIN p : KeyUntil(p[x], t) /\ p[x].key < c.key
    /\ \A i \in DOMAIN q : Asking(q[i]) => c.val < q[i].change.val

\* A change gets its key, joins pending_ops_ and is being written.
LEMMA GoodKeyed ==
    ASSUME NEW l, NEW P, NEW s, NEW q, NEW p, NEW w, NEW g, NEW m, NEW d,
           Types(l, s, q, {}, p, g, m), EchoesCome(l, P, q, {}, p, w), KeysGrow(q, p, g),
           NEW D, Holds(l, P, s, q, {}, p, w, m, d, D),
           s = "read" => Own(P, l) = {},
           NEW c \in ChangeOf(l), c \notin P, KeysApart(P \cup {c}),
           NEW t \in Nat, Newest(c, t, q, p)
    PROVE  LET old == c.key < m IN
           Good(l, P, "write", q, {c}, Append(p, c), w, t,
                IF old THEN m ELSE c.key, IF old THEN d ELSE ApplyChange(d, c))
<1> DEFINE o == Append(p, c)
           n == Len(p) + 1
<1> /\ KeyUntil(c, t)
    /\ \A x \in DOMAIN p : KeyUntil(p[x], t) /\ p[x].key < c.key
    /\ \A i \in DOMAIN q : Asking(q[i]) => c.val < q[i].change.val
  BY DEF Newest
<1>1. p \in Seq(ChangeOf(l)) /\ m \in Nat /\ c.key \in Nat
  BY DEF Types, ChangeOf
<1>2. /\ o \in Seq(ChangeOf(l)) /\ o # <<>> /\ Len(o) = n /\ n \in DOMAIN o /\ o[n] = c
      /\ \A x \in DOMAIN p : x \in DOMAIN o /\ o[x] = p[x]
      /\ \A x \in DOMAIN o : x \in DOMAIN p \/ x = n
      /\ \A x \in DOMAIN p : x \in Nat /\ x < n
      /\ n \in Nat
  BY <1>1
<1> HIDE DEF o, n
<1>3. ToSet(o) = ToSet(p) \cup {c}
  BY <1>2 DEF ToSet
<1>4. \A k \in Nat : Types(l, "write", q, {c}, o, t, k)
  BY <1>2 DEF Types
<1>5. EchoesCome(l, P, q, {c}, o, w)
  <2>1. \A x, y \in DOMAIN o : x < y => x \in DOMAIN p /\ (y \in DOMAIN p \/ y = n)
    BY <1>2
  <2>2. \A x, y \in DOMAIN o : x < y => o[x].key < o[y].key
    BY <1>2, <2>1 DEF EchoesCome
  <2>3. \A x \in DOMAIN o : o[x] \in {c} \cup Own(P \ w, l) \cup Reported(q)
    BY <1>2 DEF EchoesCome
  <2>4. ASSUME NEW x \in DOMAIN o, NEW y \in DOMAIN o, NEW j \in DOMAIN q, x < y, Report(q[j]),
               q[j].change = o[y]
        PROVE  \E i \in DOMAIN q : i < j /\ Report(q[i]) /\ q[i].change = o[x]
    <3>1. q[j].change \in P
      BY <2>4 DEF EchoesCome, Reported, Own
    <3>2. y \in DOMAIN p /\ x \in DOMAIN p /\ o[x] = p[x] /\ o[y] = p[y]
      BY <1>2, <2>1, <2>4, <3>1
    <3> QED BY <2>4, <3>2 DEF EchoesCome
  <2>5. \A e \in {c} : o # <<>> /\ e = o[Len(o)] /\ e \notin P
    BY <1>2
  <2> QED BY <2>2, <2>3, <2>4, <2>5 DEF EchoesCome
<1>6. KeysGrow(q, o, t)
  BY <1>2 DEF KeysGrow
<1>7. D \subseteq P /\ ToSet(p) \subseteq Own(P, l)
  <2>1. P \cup {} \subseteq P
    OBVIOUS
  <2> QED BY <2>1, HeldApart
<1>8. ToSet(p) \subseteq D /\ Own(P, l) \subseteq D \cup (P \ w) \cup Reported(q)
  <2>1. CASE s # "read"
    BY <2>1 DEF Holds
  <2>2. CASE s = "read"
    BY <2>2, <1>7
  <2> QED BY <2>1, <2>2
<1>9. CASE c.key < m
  <2>1. Holds(l, P, "write", q, {c}, o, w, m, d, D)
    BY <1>3, <1>8, <1>9 DEF Holds
  <2>2. Good(l, P, "write", q, {c}, o, w, t, m, d)
    BY <1>1, <1>4, <1>5, <1>6, <2>1 DEF Good
  <2> QED BY <1>9, <2>2 DEF o
<1>10. CASE ~(c.key < m)
  <2>1. ASSUME NEW e \in D PROVE e.key <= c.key
    <3>1. e.key <= m /\ e.key \in Nat
      BY <1>7 DEF Holds, KeysApart
    <3> QED BY <1>1, <1>10, <3>1
  <2>2. KeysApart(D \cup {c})
    BY <1>7 DEF KeysApart
  <2>3. IsValue(ApplyChange(d, c), D \cup {c})
    <3>1. IsValue(d, D)
      BY DEF Holds
    <3> QED BY <2>1, <2>2, <3>1, ValueNewest
  <2>4. c.key <= c.key
    BY <1>1
  <2>5. Holds(l, P, "write", q, {c}, o, w, c.key, ApplyChange(d, c), D \cup {c})
    BY <1>3, <1>8, <2>1, <2>3, <2>4 DEF Holds
  <2>6. Good(l, P, "write", q, {c}, o, w, t, c.key, ApplyChange(d, c))
    BY <1>1, <1>4, <1>5, <1>6, <2>5 DEF Good
  <2> QED BY <1>10, <2>6 DEF o
<1> QED BY <1>9, <1>10

\* The page takes the change.
LEMMA GoodWritten ==
    ASSUME NEW l, NEW P, NEW q, NEW W, NEW p, NEW w, NEW g, NEW m, NEW d,
           Good(l, P, "write", q, W, p, w, g, m, d), NEW c, W = {c}, NEW s \in {"start", "read"},
           s = "start" => ~(c.key < m)
    PROVE  Good(l, P \cup {c}, s, q, {}, p, w, g, m, d)
<1>0. /\ Types(l, "write", q, W, p, g, m) /\ EchoesCome(l, P, q, W, p, w) /\ KeysGrow(q, p, g)
  BY DEF Good
<1>1. Types(l, s, q, {}, p, g, m)
  BY <1>0 DEF Types
<1>2. c.link = l /\ c \notin P /\ c \notin w
  BY <1>0 DEF Types, ChangeOf, EchoesCome
<1>3. /\ Own(P \cup {c}, l) = Own(P, l) \cup {c}
      /\ Own(P \ w, l) \cup {c} = Own((P \cup {c}) \ w, l)
      /\ (P \ w) \cup {c} = (P \cup {c}) \ w
  BY <1>2 DEF Own
<1>4. EchoesCome(l, P \cup {c}, q, {}, p, w)
  <2>1. \A x \in DOMAIN p : p[x] \in Own((P \cup {c}) \ w, l) \cup Reported(q)
    BY <1>0, <1>3 DEF EchoesCome
  <2>2. w \subseteq P \cup {c}
    BY <1>0 DEF EchoesCome
  <2> QED BY <1>0, <2>1, <2>2 DEF EchoesCome
<1>5. PICK D : Holds(l, P, "write", q, W, p, w, m, d, D)
  BY DEF Good
<1>6. Holds(l, P \cup {c}, s, q, {}, p, w, m, d, D)
  BY <1>3, <1>5 DEF Holds
<1> QED BY <1>0, <1>1, <1>4, <1>6 DEF Good

\* The history is read and replayed.
LEMMA GoodReplayed ==
    ASSUME NEW l \in Nat, NEW P, NEW q, NEW W, NEW p, NEW w, NEW g, NEW m, NEW d,
           Good(l, P, "read", q, W, p, w, g, m, d),
           IsFiniteSet(P), KeysApart(P), Own(P, l) \subseteq ChangeOf(l), InKeyOrder(Own(P, l)) # <<>>
    PROVE  LET r == Merged(InKeyOrder(Own(P, l)), p) IN
           Good(l, P, "start", q, {}, p, w, g, Last(r).key, ApplyAll(r))
<1> DEFINE A == Own(P, l)
           a == InKeyOrder(A)
<1>0. /\ Types(l, "read", q, W, p, g, m) /\ EchoesCome(l, P, q, W, p, w) /\ KeysGrow(q, p, g)
      /\ W = {} /\ p \in Seq(ChangeOf(l))
  BY DEF Good, Types
<1>1. A \subseteq P /\ IsFiniteSet(A) /\ KeysApart(A)
  <2>1. A \subseteq P
    BY DEF Own
  <2> HIDE DEF A
  <2> QED BY <2>1, FS_Subset DEF KeysApart
<1>2. Lists(a, A)
  <2> HIDE DEF A
  <2> QED BY <1>1, OrderLists DEF A
<1>3. ToSet(p) \subseteq A
  <2>1. PICK D : Holds(l, P, "read", q, W, p, w, m, d, D)
    BY DEF Good
  <2>2. P \cup W \subseteq P
    BY <1>0
  <2> QED BY <1>0, <2>1, <2>2, HeldApart
<1> HIDE DEF A, a
<1>4. p \in Seq(A)
  <2>1. \A x \in DOMAIN p : p[x] \in A
    BY <1>3 DEF ToSet
  <2> QED BY <1>0, <2>1
<1>5. Merged(a, p) = a
  BY <1>0, <1>1, <1>2, <1>4, MergedSame DEF EchoesCome
<1>6. IsValue(ApplyAll(a), A)
  BY <1>1, <1>2, ApplyAllValue DEF A
<1>7. a \in Seq(A) /\ a # <<>> /\ Last(a) = a[Len(a)] /\ Len(a) \in DOMAIN a
  <2>1. a \in Seq(A) /\ a # <<>>
    BY <1>2 DEF Lists, a, A
  <2> QED BY <2>1 DEF Last
<1>8. Last(a).key \in Nat /\ \A c \in A : c.key <= Last(a).key
  <2>1. Last(a) \in A
    BY <1>7
  <2>2. Last(a).key \in Nat
    BY <1>1, <2>1 DEF KeysApart
  <2> SUFFICES ASSUME NEW c \in A PROVE c.key <= Last(a).key
    BY <2>2
  <2>3. PICK i \in DOMAIN a : a[i] = c
    BY <1>2 DEF Lists
  <2>4. i = Len(a) \/ i < Len(a)
    BY <1>7, <2>3
  <2>5. i < Len(a) => a[i].key < a[Len(a)].key
    BY <1>2, <1>7, <2>3 DEF Lists
  <2>6. c.key \in Nat
    BY <1>1 DEF KeysApart
  <2> QED BY <1>7, <2>2, <2>3, <2>4, <2>5, <2>6
<1>9. Types(l, "start", q, {}, p, g, Last(a).key)
  BY <1>0, <1>8 DEF Types
<1>10. Holds(l, P, "start", q, {}, p, w, Last(a).key, ApplyAll(a), A)
  BY <1>3, <1>6, <1>8 DEF Holds, A
<1>11. Good(l, P, "start", q, {}, p, w, g, Last(a).key, ApplyAll(a))
  BY <1>0, <1>9, <1>10 DEF Good
<1>12. InKeyOrder(Own(P, l)) = a
  BY DEF a, A
<1> QED BY <1>5, <1>11, <1>12

\* There is no history to read.
LEMMA GoodNothing ==
    ASSUME NEW l, NEW P, NEW q, NEW W, NEW p, NEW w, NEW g, NEW m, NEW d,
           Good(l, P, "read", q, W, p, w, g, m, d), Own(P, l) = {}
    PROVE  /\ p = <<>> /\ W = {} /\ Types(l, "read", q, {}, p, g, m)
           /\ EchoesCome(l, P, q, {}, p, w)
           /\ KeysGrow(q, p, g)
           /\ Holds(l, P, "read", q, {}, p, w, m, d, {})
           /\ Good(l, P, "start", q, {}, p, w, g, m, d)
<1>0. /\ Types(l, "read", q, W, p, g, m) /\ EchoesCome(l, P, q, W, p, w) /\ KeysGrow(q, p, g)
      /\ W = {} /\ p \in Seq(ChangeOf(l))
  BY DEF Good, Types
<1>1. PICK D : Holds(l, P, "read", q, W, p, w, m, d, D)
  BY DEF Good
<1>2. ToSet(p) = {}
  <2>1. P \cup W \subseteq P
    BY <1>0
  <2> QED BY <1>0, <1>1, <2>1, HeldApart
<1>3. p = <<>>
  <2>1. \A x \in DOMAIN p : FALSE
    BY <1>2 DEF ToSet
  <2>2. Len(p) \in Nat /\ (Len(p) # 0 => 1 \in DOMAIN p)
    BY <1>0
  <2>3. Len(p) = 0
    BY <2>1, <2>2
  <2> QED BY <1>0, <2>3
<1>4. D = {}
  BY <1>1, <1>2 DEF Holds
<1>5. Types(l, "start", q, {}, p, g, m)
  BY <1>0 DEF Types
<1>6. Holds(l, P, "start", q, {}, p, w, m, d, {})
  BY <1>1, <1>2, <1>4 DEF Holds
<1> QED BY <1>0, <1>1, <1>3, <1>4, <1>5, <1>6 DEF Good

\* A link is made.
LEMMA GoodMade ==
    ASSUME NEW l, NEW P, NEW q, \A i \in DOMAIN q : q[i].kind # "change"
    PROVE  Good(l, P, "read", q, {}, <<>>, P, 0, None, Empty) /\ AskedVals(q) = {}
<1>1. Reported(q) = {} /\ AskedVals(q) = {} /\ \A i \in DOMAIN q : ~Report(q[i]) /\ ~Asking(q[i])
  BY DEF Reported, AskedVals, Report, Asking
<1>2. <<>> \in Seq(ChangeOf(l)) /\ DOMAIN <<>> = {} /\ ToSet(<<>>) = {}
  BY DEF ToSet
<1>3. Types(l, "read", q, {}, <<>>, 0, None)
  BY <1>2 DEF Types, None
<1>4. EchoesCome(l, P, q, {}, <<>>, P)
  BY <1>1, <1>2 DEF EchoesCome
<1>5. KeysGrow(q, <<>>, 0)
  BY <1>1, <1>2 DEF KeysGrow
<1>6. Holds(l, P, "read", q, {}, <<>>, P, None, Empty, {})
  BY <1>2, EmptyValue DEF Holds
<1> QED BY <1>1, <1>3, <1>4, <1>5, <1>6 DEF Good

\* A client asks for a change.
LEMMA GoodAsked ==
    ASSUME NEW l, NEW P, NEW s, NEW q, NEW W, NEW p, NEW w, NEW g, NEW m, NEW d,
           Good(l, P, s, q, W, p, w, g, m, d), NEW S, q \in Seq(S),
           NEW op, Asking(op), op.change \in ChangeOf(l),
           \A x \in DOMAIN p : p[x].val < op.change.val,
           \A v \in AskedVals(q) : v < op.change.val
    PROVE  /\ Good(l, P, s, Append(q, op), W, p, w, g, m, d)
           /\ AskedVals(Append(q, op)) \subseteq AskedVals(q) \cup {op.change.val}
<1> DEFINE r == Append(q, op)
           n == Len(q) + 1
<1>0. /\ Types(l, s, q, W, p, g, m) /\ EchoesCome(l, P, q, W, p, w) /\ KeysGrow(q, p, g)
  BY DEF Good
<1>1. /\ n \in DOMAIN r /\ r[n] = op /\ n \in Nat
      /\ \A i \in DOMAIN q : i \in DOMAIN r /\ r[i] = q[i] /\ i \in Nat /\ i < n
      /\ \A i \in DOMAIN r : i \in DOMAIN q \/ i = n
  OBVIOUS
<1> HIDE DEF r, n
<1>2. ~Report(op) /\ \A i \in DOMAIN r : Report(r[i]) => i \in DOMAIN q /\ r[i] = q[i]
  BY <1>1 DEF Report, Asking
<1>3. Reported(r) = Reported(q)
  BY <1>1, <1>2 DEF Reported
<1>4. Types(l, s, r, W, p, g, m)
  BY <1>0, <1>1 DEF Types
<1>5. EchoesCome(l, P, r, W, p, w)
  <2>1. \A i, j \in DOMAIN r : Report(r[i]) /\ Report(r[j]) /\ i # j => r[i].change # r[j].change
    BY <1>0, <1>2 DEF EchoesCome
  <2>2. ASSUME NEW x \in DOMAIN p, NEW y \in DOMAIN p, NEW j \in DOMAIN r, x < y, Report(r[j]),
               r[j].change = p[y]
        PROVE  \E i \in DOMAIN r : i < j /\ Report(r[i]) /\ r[i].change = p[x]
    <3>1. j \in DOMAIN q /\ r[j] = q[j]
      BY <1>2, <2>2
    <3>2. PICK i \in DOMAIN q : i < j /\ Report(q[i]) /\ q[i].change = p[x]
      BY <1>0, <2>2, <3>1 DEF EchoesCome
    <3> QED BY <1>1, <3>2
  <2> QED BY <1>0, <1>3, <2>1, <2>2 DEF EchoesCome
<1>6. KeysGrow(r, p, g)
  <2>1. \A x \in DOMAIN p, i \in DOMAIN r : Asking(r[i]) => p[x].val < r[i].change.val
    BY <1>0, <1>1 DEF KeysGrow
  <2>2. ASSUME NEW i \in DOMAIN r, NEW j \in DOMAIN r, i < j, Asking(r[i]), Asking(r[j])
        PROVE  r[i].change.val < r[j].change.val
    <3>1. i \in DOMAIN q /\ r[i] = q[i]
      BY <1>1, <2>2
    <3>2. q[i].change.val \in AskedVals(q)
      BY <2>2, <3>1 DEF AskedVals
    <3>3. CASE j = n
      BY <1>1, <3>1, <3>2, <3>3
    <3>4. CASE j \in DOMAIN q
      BY <1>0, <1>1, <2>2, <3>1, <3>4 DEF KeysGrow
    <3> QED BY <1>1, <3>3, <3>4
  <2> QED BY <1>0, <2>1, <2>2 DEF KeysGrow
<1>7. \E D : Holds(l, P, s, r, W, p, w, m, d, D)
  BY <1>3 DEF Good, Holds
<1>8. AskedVals(r) \subseteq AskedVals(q) \cup {op.change.val}
  BY <1>1 DEF AskedVals
<1> QED BY <1>4, <1>5, <1>6, <1>7, <1>8 DEF Good, r

\* r is q followed by the reports of the changes in new.
Continued(q, r, new, n) ==
    /\ n \in Nat /\ DOMAIN q = 1..n
    /\ \A i \in DOMAIN q : i \in DOMAIN r /\ r[i] = q[i]
    /\ \A i \in DOMAIN r : i \in DOMAIN q \/ (i \in Nat /\ i > n /\ i - n \in DOMAIN new)
    /\ \A j \in DOMAIN new : /\ j + n \in DOMAIN r
                             /\ r[j + n].kind = "change" /\ r[j + n].change = new[j]

\* The page reports what is new.
LEMMA GoodReports ==
    ASSUME NEW l, NEW P, NEW s, NEW q, NEW W, NEW p, NEW w, NEW g, NEW m, NEW d,
           Good(l, P, s, q, W, p, w, g, m, d),
           Own(P \ w, l) \subseteq ChangeOf(l), \A c \in Own(P \ w, l) : c.key # None,
           NEW new, Lists(new, Own(P \ w, l)), NEW n, NEW r, Continued(q, r, new, n)
    PROVE  Good(l, P, s, r, W, p, P, g, m, d) /\ AskedVals(r) = AskedVals(q)
<1>z. PICK N : N = Own(P \ w, l)
  OBVIOUS
<1> N = Own(P \ w, l) /\ N \subseteq ChangeOf(l) /\ (\A c \in N : c.key # None) /\ Lists(new, N)
  BY <1>z
<1>0. /\ Types(l, s, q, W, p, g, m) /\ EchoesCome(l, P, q, W, p, w) /\ KeysGrow(q, p, g)
  BY DEF Good
<1> /\ n \in Nat /\ DOMAIN q = 1..n
    /\ \A i \in DOMAIN q : i \in DOMAIN r /\ r[i] = q[i]
    /\ \A i \in DOMAIN r : i \in DOMAIN q \/ (i \in Nat /\ i > n /\ i - n \in DOMAIN new)
    /\ \A j \in DOMAIN new : /\ j + n \in DOMAIN r
                             /\ r[j + n].kind = "change" /\ r[j + n].change = new[j]
  BY DEF Continued
<1>a. new \in Seq(N) /\ (\A c \in N : \E i \in DOMAIN new : new[i] = c)
      /\ \A i, j \in DOMAIN new : i < j => new[i].key < new[j].key
  BY DEF Lists
<1>b. \A j \in DOMAIN new : j \in Nat /\ j >= 1 /\ new[j] \in N /\ new[j].key \in Nat
  <2>1. \A j \in DOMAIN new : j \in Nat /\ j >= 1 /\ new[j] \in N
    BY <1>a
  <2> QED BY <2>1 DEF ChangeOf
<1>1. ASSUME NEW i \in DOMAIN r, i \notin DOMAIN q
      PROVE  /\ i \in Nat /\ i > n /\ i - n \in DOMAIN new
             /\ r[i].kind = "change" /\ r[i].change = new[i - n] /\ r[i].change \in N
             /\ Report(r[i]) /\ ~Asking(r[i])
  <2>1. i \in Nat /\ i > n /\ i - n \in DOMAIN new /\ (i - n) + n = i
    BY <1>1
  <2>2. r[i].kind = "change" /\ r[i].change = new[i - n] /\ new[i - n] \in N
    BY <2>1, <1>b
  <2> QED BY <2>1, <2>2 DEF Report, Asking
<1>2. Reported(r) = Reported(q) \cup N
  <2>1. ASSUME NEW i \in DOMAIN r, Report(r[i]) PROVE r[i].change \in Reported(q) \cup N
    BY <1>1, <2>1 DEF Reported
  <2>2. ASSUME NEW i \in DOMAIN q, Report(q[i]) PROVE q[i].change \in Reported(r)
    BY <2>2 DEF Reported
  <2>3. ASSUME NEW c \in N PROVE c \in Reported(r)
    <3>1. PICK j \in DOMAIN new : new[j] = c
      BY <1>a
    <3>2. j + n \in DOMAIN r /\ r[j + n].kind = "change" /\ r[j + n].change = c
      BY <3>1
    <3>3. Report(r[j + n])
      BY <3>2 DEF Report
    <3> QED BY <3>2, <3>3 DEF Reported
  <2> QED BY <2>1, <2>2, <2>3, ZenonT(60) DEF Reported
<1>3. AskedVals(r) = AskedVals(q)
  <2>1. ASSUME NEW i \in DOMAIN r, Asking(r[i]) PROVE i \in DOMAIN q /\ r[i] = q[i]
    BY <1>1, <2>1
  <2> QED BY <2>1 DEF AskedVals
<1>4. Types(l, s, r, W, p, g, m)
  <2>1. ASSUME NEW i \in DOMAIN r, r[i].kind = "change" PROVE r[i].change \in ChangeOf(l)
    BY <1>0, <1>1, <2>1 DEF Types
  <2> QED BY <1>0, <2>1 DEF Types
<1>5. EchoesCome(l, P, r, W, p, P)
  <2>1. Reported(r) \subseteq Own(P, l)
    BY <1>0, <1>2 DEF EchoesCome, Own
  <2>2. ASSUME NEW i \in DOMAIN r, NEW j \in DOMAIN r, Report(r[i]), Report(r[j]), i < j
        PROVE  r[i].change # r[j].change
    <3>1. CASE j \in DOMAIN q
      <4>1. i \in DOMAIN q
        BY <1>1, <2>2, <3>1
      <4>2. i # j
        BY <2>2, <3>1, <4>1
      <4> QED BY <1>0, <2>2, <3>1, <4>1, <4>2 DEF EchoesCome
    <3>2. CASE j \notin DOMAIN q /\ i \in DOMAIN q
      <4>1. r[j].change \in N /\ r[i].change \in Reported(q)
        BY <1>1, <2>2, <3>2 DEF Reported
      <4> QED BY <1>0, <4>1 DEF EchoesCome, Own
    <3>3. CASE j \notin DOMAIN q /\ i \notin DOMAIN q
      <4>1. /\ i \in Nat /\ j \in Nat /\ i - n \in DOMAIN new /\ j - n \in DOMAIN new
            /\ r[i].change = new[i - n] /\ r[j].change = new[j - n]
        BY <1>1, <3>3
      <4>2. i - n < j - n
        BY <2>2, <4>1
      <4>3. new[i - n].key < new[j - n].key /\ new[i - n].key \in Nat
        BY <1>a, <1>b, <4>1, <4>2
      <4> QED BY <4>1, <4>3
    <3> QED BY <3>1, <3>2, <3>3
  <2>3. \A i, j \in DOMAIN r : Report(r[i]) /\ Report(r[j]) /\ i # j => r[i].change # r[j].change
    <3>1. \A i \in DOMAIN r : i \in Nat
      BY <1>1
    <3>2. \A i, j \in DOMAIN r : i # j => i < j \/ j < i
      BY <3>1
    <3> QED BY <2>2, <3>2
  <2>4. \A x \in DOMAIN p : p[x] \in W \cup Own(P \ P, l) \cup Reported(r)
    BY <1>0, <1>2 DEF EchoesCome
  <2>5. ASSUME NEW x \in DOMAIN p, NEW y \in DOMAIN p, NEW j \in DOMAIN r, x < y, Report(r[j]),
               r[j].change = p[y]
        PROVE  \E i \in DOMAIN r : i < j /\ Report(r[i]) /\ r[i].change = p[x]
    <3>0. p[x].key < p[y].key
      BY <1>0, <2>5 DEF EchoesCome
    <3>1. CASE j \in DOMAIN q
      <4>1. PICK i \in DOMAIN q : i < j /\ Report(q[i]) /\ q[i].change = p[x]
        BY <1>0, <2>5, <3>1 DEF EchoesCome
      <4> QED BY <4>1
    <3>2. CASE j \notin DOMAIN q
      <4>0. j \in Nat /\ j > n /\ j - n \in DOMAIN new /\ r[j].change = new[j - n]
        BY <1>1, <3>2
      <4>1. CASE p[x] \in W
        <5>1. p[x] = p[Len(p)] /\ Len(p) \in DOMAIN p /\ p \in Seq(ChangeOf(l)) /\ y \in 1..Len(p)
          BY <1>0, <4>1 DEF EchoesCome, Types
        <5>a. p[x] \in ChangeOf(l) /\ p[y] \in ChangeOf(l)
          BY <5>1
        <5>2. p[x].key \in Nat /\ p[y].key \in Nat
          BY <5>a DEF ChangeOf
        <5>3. y = Len(p) \/ y < Len(p)
          BY <5>1
        <5>4. y < Len(p) => p[y].key < p[Len(p)].key
          BY <1>0, <5>1 DEF EchoesCome
        <5> QED BY <3>0, <5>1, <5>2, <5>3, <5>4
      <4>2. CASE p[x] \in Reported(q)
        <5>1. PICK i \in DOMAIN q : Report(q[i]) /\ q[i].change = p[x]
          BY <4>2 DEF Reported
        <5>2. i < j
          BY <4>0, <5>1
        <5> QED BY <5>1, <5>2
      <4>3. CASE p[x] \in N
        <5>1. PICK i \in DOMAIN new : new[i] = p[x]
          BY <1>a, <4>3
        <5>2. /\ i \in Nat /\ (j - n) \in Nat /\ i + n \in DOMAIN r /\ r[i + n].kind = "change"
              /\ r[i + n].change = new[i]
          BY <1>b, <4>0
        <5>3. i < j - n
          <6>1. ~(j - n < i)
            <7>1. j - n < i => new[j - n].key < new[i].key
              BY <1>a, <4>0
            <7> QED BY <7>1, <1>b, <2>5, <3>0, <4>0, <5>1
          <6>2. j - n # i
            BY <1>b, <2>5, <3>0, <4>0, <5>1
          <6> QED BY <5>2, <6>1, <6>2
        <5>4. i + n < j
          BY <4>0, <5>2, <5>3
        <5>5. Report(r[i + n])
          BY <4>3, <5>1, <5>2 DEF Report
        <5> QED BY <5>1, <5>2, <5>4, <5>5
      <4> QED BY <1>0, <4>1, <4>2, <4>3 DEF EchoesCome
    <3> QED BY <3>1, <3>2
  <2> QED BY <1>0, <2>1, <2>3, <2>4, <2>5, ZenonT(60) DEF EchoesCome
<1>6. KeysGrow(r, p, g)
  <2>1. \A i \in DOMAIN r : Asking(r[i]) => i \in DOMAIN q /\ r[i] = q[i]
    BY <1>1
  <2> QED BY <1>0, <2>1 DEF KeysGrow
<1>7. PICK D : Holds(l, P, s, q, W, p, w, m, d, D)
  BY DEF Good
<1>8. Holds(l, P, s, r, W, p, P, m, d, D)
  <2>1. s # "read" => Own(P, l) \subseteq D \cup (P \ P) \cup Reported(r)
    <3>1. \A c \in Own(P, l) : c \in P \ w => c \in N
      BY DEF Own
    <3> QED BY <1>2, <1>7, <3>1 DEF Holds
  <2> QED BY <1>7, <2>1 DEF Holds
<1> QED BY <1>3, <1>4, <1>5, <1>6, <1>8 DEF Good

-----------------------------------------------------------------------------
(* Links *)

\* What of a link the replay depends on.
View(h, s, q, W, p, w, g, m, d, i) ==
    /\ h.made /\ h.step = s /\ Body(h) = q /\ Writing(h) = W /\ h.pending_ops = p /\ h.watched = w
    /\ h.last_gen_time = g /\ h.latest_key = m /\ h.doc = d /\ h.initial = i

\* A link is good when what the replay depends on is.
LEMMA ViewGood ==
    ASSUME NEW l, NEW P, NEW h, NEW s, NEW q, NEW W, NEW p, NEW w, NEW g, NEW m, NEW d, NEW i,
           View(h, s, q, W, p, w, g, m, d, i), Good(l, P, s, q, W, p, w, g, m, d)
    PROVE  LinkGood(l, h, P)
  BY DEF View, LinkGood

\* The operations that have not begun, for each step of the first one.
LEMMA LinkBody ==
    ASSUME NEW k, LinkShape(k)
    PROVE  /\ \E S : k.queue \in Seq(S)
           /\ \E S : Body(k) \in Seq(S)
           /\ k.step = "start" => Body(k) = k.queue /\ Writing(k) = {}
           /\ k.step # "start" => Body(k) = Tail(k.queue) /\ k.queue # <<>>
           /\ k.step = "write" => Writing(k) = {Change(k)}
           /\ k.step # "write" => Writing(k) = {}
<1>1. PICK S : k.queue \in Seq(S)
  BY DEF LinkShape, LinkQueueOK
<1>2. k.step # "start" => k.queue # <<>>
  BY DEF LinkShape
<1>3. k.queue # <<>> => Tail(k.queue) \in Seq(S)
  BY <1>1
<1>4. Body(k) \in Seq(S)
  BY <1>1, <1>2, <1>3 DEF Body
<1> QED BY <1>1, <1>2, <1>4 DEF Body, Writing

\* A link as it is.
LEMMA ViewSelf ==
    ASSUME NEW k, LinkShape(k)
    PROVE  View(k, k.step, Body(k), Writing(k), k.pending_ops, k.watched, k.last_gen_time,
                k.latest_key, k.doc, k.initial)
  BY DEF View, LinkShape

\* The first operation ends.
LEMMA ViewPop ==
    ASSUME NEW k, LinkShape(k)
    PROVE  View(Pop(k), "start", Tail(k.queue), {}, k.pending_ops, k.watched, k.last_gen_time,
                k.latest_key, k.doc, k.initial)
<1> DEFINE q == Tail(k.queue)
           h == [k EXCEPT !.queue = q, !.step = "start"]
<1>1. Pop(k) = h
  BY DEF Pop
<1>2. /\ h.made /\ h.step = "start" /\ h.queue = q /\ h.pending_ops = k.pending_ops
      /\ h.watched = k.watched /\ h.last_gen_time = k.last_gen_time /\ h.latest_key = k.latest_key
      /\ h.doc = k.doc /\ h.initial = k.initial
  <2> HIDE DEF q
  <2> QED BY DEF LinkShape
<1> HIDE DEF h
<1> QED BY <1>1, <1>2 DEF View, Body, Writing

\* An operation is queued.
LEMMA ViewPush ==
    ASSUME NEW k, LinkShape(k), NEW op
    PROVE  View(Push(k, op), k.step, Append(Body(k), op), Writing(k), k.pending_ops, k.watched,
                k.last_gen_time, k.latest_key, k.doc, k.initial)
<1> DEFINE q == Append(k.queue, op)
           h == [k EXCEPT !.queue = q]
<1>1. Push(k, op) = h
  BY DEF Push
<1>2. /\ h.made /\ h.step = k.step /\ h.queue = q /\ h.pending_ops = k.pending_ops
      /\ h.watched = k.watched /\ h.last_gen_time = k.last_gen_time /\ h.latest_key = k.latest_key
      /\ h.doc = k.doc /\ h.initial = k.initial
  <2> HIDE DEF q
  <2> QED BY DEF LinkShape
<1>3. PICK S : k.queue \in Seq(S)
  BY LinkBody
<1>4. k.queue # <<>> => Tail(q) = Append(Tail(k.queue), op) /\ Head(q) = Head(k.queue)
  BY <1>3
<1>5. k.step # "start" => k.queue # <<>>
  BY DEF LinkShape
<1> HIDE DEF h
<1>6. Body(h) = Append(Body(k), op)
  BY <1>2, <1>4, <1>5 DEF Body
<1>7. Writing(h) = Writing(k)
  <2>1. CASE k.step = "write"
    <3>1. Head(h.queue) = Head(k.queue)
      BY <1>2, <1>4, <1>5, <2>1
    <3> HIDE DEF q
    <3> QED BY <1>2, <2>1, <3>1 DEF Writing, Change, First
  <2>2. CASE k.step # "write"
    BY <1>2, <2>2 DEF Writing
  <2> QED BY <2>1, <2>2
<1> QED BY <1>1, <1>2, <1>6, <1>7 DEF View

\* Two links that differ only in what the replay does not depend on.
Alike(h, k) ==
    /\ h.made /\ h.step = k.step /\ h.queue = k.queue /\ h.pending_ops = k.pending_ops
    /\ h.watched = k.watched /\ h.last_gen_time = k.last_gen_time /\ h.latest_key = k.latest_key
    /\ h.doc = k.doc /\ h.initial = k.initial

\* Other fields may change.
LEMMA ViewAlike ==
    ASSUME NEW k, LinkShape(k), NEW h, Alike(h, k)
    PROVE  View(h, k.step, Body(k), Writing(k), k.pending_ops, k.watched, k.last_gen_time,
                k.latest_key, k.doc, k.initial)
  BY DEF Alike, View, Body, Writing, Change, First

\* A new connection is one of those.
LEMMA AlikeConnected ==
    ASSUME NEW k, LinkShape(k)
    PROVE  Alike(NewConnection(k), k)
  BY DEF LinkShape, Alike, NewConnection

\* What the watchers were told is another.
LEMMA AlikeNotified ==
    ASSUME NEW k, LinkShape(k), NEW old, NEW c, NEW src
    PROVE  Alike(NotifyIfChanged(old, k, c, src), k)
<1> DEFINE ws == [w \in DOMAIN k.watchers |->
                    IF w = src THEN Blocked(k.watchers[w], c, w) ELSE Told(k, w)]
<1>1. NotifyIfChanged(old, k, c, src) = IF old = k.doc THEN k ELSE [k EXCEPT !.watchers = ws]
  BY DEF NotifyIfChanged, NotifyWatchers
<1> HIDE DEF ws
<1>2. Alike(k, k) /\ Alike([k EXCEPT !.watchers = ws], k)
  BY DEF LinkShape, Alike
<1> QED BY <1>1, <1>2

\* A client is behind.
LEMMA AlikeCrosses ==
    ASSUME NEW k, LinkShape(k), NEW id
    PROVE  Alike(Crosses(k, id), k)
<1> DEFINE ws == [w \in DOMAIN k.watchers |->
                    IF w = id THEN [k.watchers[w] EXCEPT !.behind = TRUE] ELSE k.watchers[w]]
<1>1. Crosses(k, id) = [k EXCEPT !.watchers = ws]
  BY DEF Crosses
<1> HIDE DEF ws
<1> QED BY <1>1 DEF LinkShape, Alike

\* The end of an operation leaves the others.
LEMMA ViewFinish ==
    ASSUME NEW k, LinkShape(k), NEW h, LinkShape(h), Alike(h, k)
    PROVE  View(Finish(h), "start", Tail(k.queue), {}, k.pending_ops, k.watched, k.last_gen_time,
                k.latest_key, k.doc, k.initial)
<1>1. Finish(h) = Pop(h) \/ Finish(h) = Pop(NewConnection(h))
  BY DEF Finish
<1>2. CASE Finish(h) = Pop(h)
  BY <1>2, ViewPop DEF View, Alike
<1>3. CASE Finish(h) = Pop(NewConnection(h))
  <2>0. LinkShape(NewConnection(h))
    BY DEF LinkShape, NewConnection
  <2>1. LinkShape(NewConnection(h)) /\ Alike(NewConnection(h), h)
    BY <2>0, AlikeConnected
  <2> QED BY <1>3, <2>1, ViewPop DEF View, Alike
<1> QED BY <1>1, <1>2, <1>3

\* A change is applied as the newest.
LEMMA ViewNewest ==
    ASSUME NEW k, LinkShape(k), NEW c, NEW src
    PROVE  LET h == ApplyNewest(k, c, src) IN
           /\ h.made /\ h.step = k.step /\ h.queue = k.queue /\ h.pending_ops = k.pending_ops
           /\ h.watched = k.watched /\ h.last_gen_time = k.last_gen_time /\ h.latest_key = c.key
           /\ h.doc = ApplyChange(k.doc, c) /\ h.initial = k.initial
<1> DEFINE d == ApplyChange(k.doc, c)
           kk == [k EXCEPT !.doc = d, !.latest_key = c.key]
<1>1. LinkShape(kk) /\ kk.queue = k.queue /\ kk.step = k.step /\ kk.doc = d
      /\ kk.pending_ops = k.pending_ops /\ kk.watched = k.watched
      /\ kk.last_gen_time = k.last_gen_time /\ kk.latest_key = c.key /\ kk.initial = k.initial
  <2> HIDE DEF d
  <2> QED BY DEF LinkShape
<1>2. ApplyNewest(k, c, src) = NotifyIfChanged(k.doc, kk, c, src)
  BY DEF ApplyNewest
<1> HIDE DEF kk, d
<1>3. Alike(NotifyIfChanged(k.doc, kk, c, src), kk)
  BY <1>1, AlikeNotified
<1> QED BY <1>1, <1>2, <1>3 DEF Alike, d

\* A change gets its key.
LEMMA ViewChange ==
    ASSUME NEW k, LinkShape(k), k.queue # <<>>, NEW c, NEW src, NEW t
    PROVE  LET old == c.key < k.latest_key IN
           View(NewChange(k, c, src, t), "write", Tail(k.queue), {c}, Append(k.pending_ops, c),
                k.watched, t, IF old THEN k.latest_key ELSE c.key,
                IF old THEN k.doc ELSE ApplyChange(k.doc, c), k.initial)
<1>1. PICK S : k.queue \in Seq(S)
  BY LinkBody
<1> DEFINE e == [k.queue[1] EXCEPT !.change = c]
           q == [k.queue EXCEPT ![1].change = c]
           o == Append(k.pending_ops, c)
           kk == [k EXCEPT !.pending_ops = Append(@, c), !.last_gen_time = t,
                           !.step = "write", !.queue[1].change = c]
<1>2. 1 \in DOMAIN k.queue /\ DOMAIN k.queue[1] = {"kind", "change", "src"}
      /\ (k.queue[1].kind = "watch" => k.queue[1].src # 1)
  <2>1. 1 \in DOMAIN k.queue
    BY <1>1
  <2> QED BY <2>1 DEF LinkShape, LinkQueueOK
<1>3. q = [k.queue EXCEPT ![1] = e] /\ e.change = c /\ DOMAIN e = {"kind", "change", "src"}
      /\ e.kind = k.queue[1].kind /\ e.src = k.queue[1].src
  BY <1>2
<1> HIDE DEF e
<1>4. /\ q \in Seq(S \cup {e}) /\ q # <<>> /\ Head(q) = e /\ Tail(q) = Tail(k.queue)
      /\ DOMAIN q = DOMAIN k.queue /\ \A i \in DOMAIN q : q[i] = IF i = 1 THEN e ELSE k.queue[i]
  BY <1>1, <1>2, <1>3
<1>5. LinkQueueOK(q)
  <2>1. \A i \in DOMAIN q : DOMAIN q[i] = {"kind", "change", "src"} /\ (q[i].kind = "watch" => q[i].src # 1)
    <3> HIDE DEF q
    <3> QED BY <1>2, <1>3, <1>4 DEF LinkShape, LinkQueueOK
  <2> QED BY <1>4, <2>1 DEF LinkQueueOK
<1>6. kk = [k EXCEPT !.pending_ops = o, !.last_gen_time = t, !.step = "write", !.queue = q]
  OBVIOUS
<1>7. /\ kk.made /\ kk.step = "write" /\ kk.queue = q /\ kk.pending_ops = o
      /\ kk.watched = k.watched /\ kk.last_gen_time = t /\ kk.latest_key = k.latest_key
      /\ kk.doc = k.doc /\ kk.initial = k.initial /\ LinkShape(kk)
  <2> HIDE DEF q, o, kk
  <2> QED BY <1>4, <1>5, <1>6 DEF LinkShape
<1>8. NewChange(k, c, src, t) = IF c.key < k.latest_key THEN kk ELSE ApplyNewest(kk, c, src)
  BY DEF NewChange
<1> HIDE DEF kk, q, o
<1>9. ASSUME NEW h, h.queue = q, h.step = "write"
      PROVE  Body(h) = Tail(k.queue) /\ Writing(h) = {c}
  BY <1>3, <1>4, <1>9 DEF Body, Writing, Change, First
<1>10. CASE c.key < k.latest_key
  BY <1>7, <1>8, <1>9, <1>10 DEF View, o
<1>11. CASE ~(c.key < k.latest_key)
  <2> DEFINE h == ApplyNewest(kk, c, src)
  <2>1. /\ h.made /\ h.step = "write" /\ h.queue = q /\ h.pending_ops = o
        /\ h.watched = k.watched /\ h.last_gen_time = t /\ h.latest_key = c.key
        /\ h.doc = ApplyChange(k.doc, c) /\ h.initial = k.initial
    BY <1>7, ViewNewest
  <2> HIDE DEF h
  <2>2. Body(h) = Tail(k.queue) /\ Writing(h) = {c}
    BY <1>9, <2>1
  <2> QED BY <1>8, <1>11, <2>1, <2>2 DEF View, o, h
<1> QED BY <1>10, <1>11

-----------------------------------------------------------------------------
(* Steps *)

\* One link changes, and nothing is known that was not known to K, A and I.
LEMMA CoreOne ==
    ASSUME LinksOK, Core, NEW l \in Link, NEW h, Update(l, h),
           h.made => LinkGood(l, h, page'),
           page \subseteq page', \A x \in Made : x # l => Writing(links[x]) \cap page' \subseteq page,
           NEW K, page' \subseteq K, \A x \in Made : x # l => Writing(links[x]) \subseteq K,
           h.made => Writing(h) \subseteq K,
           NEW A, \A x \in Link : x # l => Waiting[x] \subseteq A[x],
           h.made => AskedVals(Body(h)) \subseteq A[l],
           NEW I, \A x \in Initials : x # l => x \in I, h.made /\ h.initial => l \in I,
           NumbersDiffer(K, A, I, calls')
    PROVE  Core'
<1>1. links'[l] = h /\ \A x \in Link : x # l => links'[x] = links[x]
  BY DEF LinksOK, Update
<1>2. \A x \in Made' : (x = l /\ h.made) \/ (x # l /\ x \in Made /\ links'[x] = links[x])
  BY <1>1 DEF Made
<1>3. Keyed' \subseteq K
  <2>1. ASSUME NEW x \in Made' PROVE Writing(links'[x]) \subseteq K
    BY <1>1, <1>2
  <2> QED BY <2>1 DEF Keyed
<1>4. ASSUME NEW x \in Link PROVE Waiting'[x] \subseteq A[x]
  <2>1. Waiting'[x] = IF links'[x].made THEN AskedVals(Body(links'[x])) ELSE {}
    BY DEF Waiting
  <2>2. CASE x = l
    BY <1>1, <2>1, <2>2
  <2>3. CASE x # l
    <3>1. Waiting[x] = IF links[x].made THEN AskedVals(Body(links[x])) ELSE {}
      BY DEF Waiting
    <3> QED BY <1>1, <2>1, <2>3, <3>1
  <2> QED BY <2>2, <2>3
<1>5. Initials' \subseteq I
  <2> SUFFICES ASSUME NEW x \in Made', links'[x].initial PROVE x \in I
    BY DEF Initials
  <2>1. CASE x = l
    BY <1>1, <1>2, <2>1
  <2>2. CASE x # l
    BY <1>2, <2>2 DEF Initials
  <2> QED BY <2>1, <2>2
<1>6. NumbersDiffer(Keyed', Waiting', Initials', calls')
  BY <1>3, <1>4, <1>5, NumbersShrink
<1>7. ASSUME NEW x \in Made' PROVE LinkGood(x, links'[x], page')
  <2>1. CASE x = l
    BY <1>1, <1>2, <2>1
  <2>2. CASE x # l
    <3>1. x \in Made /\ links'[x] = links[x] /\ LinkGood(x, links[x], page)
      BY <1>2, <2>2 DEF Core
    <3>2. Writing(links[x]) \cap page' \subseteq page
      BY <2>2, <3>1
    <3>3. LinkGood(x, links[x], page')
      BY <3>1, <3>2, GoodGrown DEF LinkGood
    <3> QED BY <3>1, <3>3
  <2> QED BY <2>1, <2>2
<1> QED BY <1>6, <1>7 DEF Core

\* A step of one link that brings no new change.
LEMMA CoreQuiet ==
    ASSUME LinksOK, Core, NEW l \in Link, NEW h, Update(l, h), page' = page, calls' = calls,
           h.made => /\ LinkGood(l, h, page)
                     /\ Writing(h) \subseteq Keyed
                     /\ AskedVals(Body(h)) \subseteq Waiting[l]
                     /\ h.initial => l \in Initials
    PROVE  Core'
<1>1. page' \subseteq Keyed /\ \A x \in Made : x # l => Writing(links[x]) \subseteq Keyed
  BY DEF Keyed
<1>2. NumbersDiffer(Keyed, Waiting, Initials, calls')
  BY DEF Core
<1>3. h.made => LinkGood(l, h, page')
  OBVIOUS
<1>4. page \subseteq page' /\ \A x \in Made : x # l => Writing(links[x]) \cap page' \subseteq page
  OBVIOUS
<1>5. \A x \in Link : x # l => Waiting[x] \subseteq Waiting[x]
  OBVIOUS
<1>6. \A x \in Initials : x # l => x \in Initials
  OBVIOUS
<1> QED BY <1>1, <1>2, <1>3, <1>4, <1>5, <1>6, CoreOne

\* What is known of a link that is made.
LEMMA CoreLink ==
    ASSUME LinksOK, Core, NEW l \in Link, links[l].made
    PROVE  LET k == links[l] IN
           /\ l \in Made /\ LinkShape(k) /\ Current(k) /\ LinkGood(l, k, page)
           /\ Writing(k) \subseteq Keyed /\ page \subseteq Keyed
           /\ Waiting[l] = AskedVals(Body(k))
           /\ k.initial => l \in Initials
<1>1. l \in Made
  BY DEF Made
<1>2. LinkShape(links[l]) /\ Current(links[l])
  BY LinkIsMade
<1>3. Writing(links[l]) \subseteq Keyed /\ page \subseteq Keyed
  BY <1>1 DEF Keyed
<1>4. Waiting[l] = AskedVals(Body(links[l]))
  BY DEF Waiting
<1>5. links[l].initial => l \in Initials
  BY <1>1 DEF Initials
<1> QED BY <1>1, <1>2, <1>3, <1>4, <1>5 DEF Core

\* The calls can be counted.
LEMMA AskedNat == Len(Asked) \in Nat
  BY LinkAssumption

\* An operation that is no change is queued.
LEMMA CorePush ==
    ASSUME LinksOK, Core, NEW l \in Link, links[l].made, page' = page, calls' = calls,
           NEW k, LinkShape(k), Alike(k, links[l]), NEW op, op.kind # "change", Update(l, Push(k, op))
    PROVE  Core'
<1> DEFINE j == links[l]
           h == Push(k, op)
<1>1. /\ LinkShape(j) /\ LinkGood(l, j, page) /\ Writing(j) \subseteq Keyed
      /\ Waiting[l] = AskedVals(Body(j)) /\ (j.initial => l \in Initials)
  BY CoreLink
<1>2. View(h, k.step, Append(Body(k), op), Writing(k), k.pending_ops, k.watched,
           k.last_gen_time, k.latest_key, k.doc, k.initial)
  BY ViewPush
<1>3. View(k, j.step, Body(j), Writing(j), j.pending_ops, j.watched, j.last_gen_time,
           j.latest_key, j.doc, j.initial)
  BY <1>1, ViewAlike
<1>4. PICK S : Body(j) \in Seq(S)
  BY <1>1, LinkBody
<1>5. /\ Shifted(Body(j), Append(Body(j), op), 0) /\ DOMAIN Body(j) \subseteq Nat
      /\ DOMAIN Append(Body(j), op) \subseteq Nat
  BY <1>4, AppendShifted
<1>6. /\ Good(l, page, j.step, Append(Body(j), op), Writing(j), j.pending_ops, j.watched,
              j.last_gen_time, j.latest_key, j.doc)
      /\ AskedVals(Append(Body(j), op)) = AskedVals(Body(j))
  <2>1. 0 \in Nat
    OBVIOUS
  <2>2. Good(l, page, j.step, Body(j), Writing(j), j.pending_ops, j.watched,
             j.last_gen_time, j.latest_key, j.doc)
    BY <1>1 DEF LinkGood
  <2> QED BY <1>5, <2>1, <2>2, GoodShifted
<1> HIDE DEF h, j
<1>7. View(h, j.step, Append(Body(j), op), Writing(j), j.pending_ops, j.watched,
           j.last_gen_time, j.latest_key, j.doc, j.initial)
  BY <1>2, <1>3 DEF View
<1>8. LinkGood(l, h, page)
  BY <1>6, <1>7, ViewGood
<1>9. Writing(h) = Writing(j) /\ AskedVals(Body(h)) = AskedVals(Body(j)) /\ h.initial = j.initial
  BY <1>6, <1>7 DEF View
<1> QED BY <1>1, <1>8, <1>9, CoreQuiet DEF h

\* An operation that is no change ends.
LEMMA CorePop ==
    ASSUME LinksOK, Core, NEW l \in Link, page' = page, calls' = calls,
           NEW kind, kind # "change", Runs(links[l], kind, "start"),
           NEW k, LinkShape(k), Alike(k, links[l]), Update(l, Pop(k))
    PROVE  Core'
<1> DEFINE j == links[l]
           h == Pop(k)
           q == j.queue
<1>0. j.made /\ q # <<>> /\ Head(q).kind # "change" /\ j.step = "start"
  BY DEF Runs, First
<1>1. /\ LinkShape(j) /\ LinkGood(l, j, page) /\ Writing(j) \subseteq Keyed
      /\ Waiting[l] = AskedVals(Body(j)) /\ (j.initial => l \in Initials)
  BY <1>0, CoreLink
<1>2. View(h, "start", Tail(k.queue), {}, k.pending_ops, k.watched, k.last_gen_time,
           k.latest_key, k.doc, k.initial)
  BY ViewPop
<1>3. View(h, "start", Tail(q), {}, j.pending_ops, j.watched, j.last_gen_time,
           j.latest_key, j.doc, j.initial)
  BY <1>2 DEF View, Alike
<1>4. Body(j) = q /\ Writing(j) = {} /\ \E S : q \in Seq(S)
  BY <1>0, <1>1, LinkBody
<1>5. PICK S : q \in Seq(S)
  BY <1>4
<1>6. Shifted(q, Tail(q), 1) /\ DOMAIN q \subseteq Nat /\ DOMAIN Tail(q) \subseteq Nat
  <2>1. q[1].kind # "change"
    BY <1>0, <1>5, TailAt
  <2> QED BY <1>0, <1>5, <2>1, TailShifted
<1>7. Good(l, page, "start", q, {}, j.pending_ops, j.watched, j.last_gen_time, j.latest_key, j.doc)
  BY <1>0, <1>1, <1>4 DEF LinkGood
<1>8. /\ Good(l, page, "start", Tail(q), {}, j.pending_ops, j.watched, j.last_gen_time,
              j.latest_key, j.doc)
      /\ AskedVals(Tail(q)) = AskedVals(q)
  <2>1. 1 \in Nat
    OBVIOUS
  <2> HIDE DEF q, j
  <2> QED BY <1>6, <1>7, <2>1, GoodShifted
<1> HIDE DEF h, j, q
<1>9. LinkGood(l, h, page)
  BY <1>3, <1>8, ViewGood
<1>10. /\ Writing(h) \subseteq Keyed /\ AskedVals(Body(h)) = AskedVals(Body(j))
       /\ h.initial = j.initial
  BY <1>3, <1>4, <1>8 DEF View
<1> QED BY <1>1, <1>9, <1>10, CoreQuiet DEF h

\* What clients do.
LEMMA CoreClients ==
    ASSUME LinksOK, Core, NEW l \in Link, links[l].made, NEW id,
           RemoveConnection(l, id) \/ Watch(l, id)
    PROVE  Core'
<1> DEFINE k == links[l]
<1>0. LinkShape(k)
  BY LinkIsMade
<1>1. CASE RemoveConnection(l, id)
  <2> DEFINE kk == [k EXCEPT !.connections = @ \ {id}]
  <2>1. LinkShape(kk) /\ Alike(kk, k)
    BY <1>0 DEF LinkShape, Alike
  <2>2. Call("orphaned").kind # "change"
    BY DEF Call, Op
  <2>3. page' = page /\ calls' = calls
    BY <1>1 DEF RemoveConnection
  <2>4. CASE Update(l, Push(kk, Call("orphaned")))
    <3> HIDE DEF kk
    <3> QED BY <2>1, <2>2, <2>3, <2>4, CorePush
  <2>5. CASE Update(l, kk)
    <3>1. /\ LinkShape(k) /\ LinkGood(l, k, page) /\ Writing(k) \subseteq Keyed
          /\ Waiting[l] = AskedVals(Body(k)) /\ (k.initial => l \in Initials)
      BY CoreLink
    <3> HIDE DEF kk, k
    <3>2. View(kk, k.step, Body(k), Writing(k), k.pending_ops, k.watched, k.last_gen_time,
               k.latest_key, k.doc, k.initial)
      BY <2>1, <3>1, ViewAlike
    <3>3. LinkGood(l, kk, page)
      BY <3>1, <3>2 DEF LinkGood, View
    <3>4. Writing(kk) = Writing(k) /\ Body(kk) = Body(k) /\ kk.initial = k.initial
      BY <3>2 DEF View
    <3> QED BY <2>3, <2>5, <3>1, <3>3, <3>4, CoreQuiet
  <2> QED BY <1>1, <2>4, <2>5 DEF RemoveConnection
<1>2. CASE Watch(l, id)
  <2>1. Update(l, Push(k, Op("watch", NoChange, id))) /\ page' = page /\ calls' = calls
    BY <1>2 DEF Watch
  <2>2. Op("watch", NoChange, id).kind # "change"
    BY DEF Op
  <2>3. Alike(k, k)
    BY DEF Alike
  <2> QED BY <1>0, <2>1, <2>2, <2>3, CorePush
<1> QED BY <1>1, <1>2

\* The pending changes have a key, and a lower number than the next call.
LEMMA PendingKeyed ==
    ASSUME NEW l, NEW k, NEW P, LinkGood(l, k, P)
    PROVE  \A x \in DOMAIN k.pending_ops : k.pending_ops[x] \in P \cup Writing(k)
  BY DEF LinkGood, Good, EchoesCome, Own

\* MakeIncrementalChangeCall: the change a client asks for waits for its key.
LEMMA CoreAsked ==
    ASSUME LinksOK, Core, NEW l \in Link, links[l].made, NEW id, MakeIncrementalChangeCall(l, id)
    PROVE  Core'
<1> DEFINE k == links[l]
           op == Op("change", NextChange(l), id)
           c == NextChange(l)
<1>0. /\ l \in Made /\ LinkShape(k) /\ LinkGood(l, k, page) /\ Writing(k) \subseteq Keyed
      /\ page \subseteq Keyed
      /\ Waiting[l] = AskedVals(Body(k)) /\ (k.initial => l \in Initials)
  BY CoreLink
<1>a. PICK kk \in {k, Crosses(k, id)} : Update(l, Push(kk, op))
  BY DEF MakeIncrementalChangeCall
<1>b. LinkShape(kk) /\ Alike(kk, k)
  <2>1. LinkShape(Crosses(k, id)) /\ Alike(Crosses(k, id), k)
    BY <1>0, LinkCrosses, LinkIsMade, AlikeCrosses
  <2>2. Alike(k, k)
    BY <1>0 DEF Alike, LinkShape
  <2> HIDE DEF k
  <2> QED BY <1>0, <2>1, <2>2
<1> DEFINE h == Push(kk, op)
<1>1. calls < Len(Asked) /\ calls' = calls + 1 /\ Update(l, h) /\ page' = page
  BY <1>a DEF MakeIncrementalChangeCall
<1>2. calls \in Nat /\ NumbersDiffer(Keyed, Waiting, Initials, calls)
  BY DEF Core, NumbersDiffer
<1>3. /\ c = [link |-> l, key |-> None, op |-> Asked[calls + 1][1], field |-> Asked[calls + 1][2],
              val |-> calls + 2]
      /\ op.kind = "change" /\ op.change = c
  BY DEF NextChange, LinkChange, Op
<1>4. Asked[calls + 1] \in {"set", "update", "erase"} \X Field
  <2>1. calls + 1 \in 1..Len(Asked) /\ Asked \in Seq({"set", "update", "erase"} \X Field)
    BY <1>1, <1>2, AskedNat, LinkAssumption
  <2> QED BY <2>1
<1>5. c \in ChangeOf(l) /\ c.key = None /\ c.val = calls + 2
  <2>1. Asked[calls + 1][1] \in {"set", "update", "erase"} /\ Asked[calls + 1][2] \in Field
    BY <1>4
  <2> HIDE DEF c
  <2> QED BY <1>2, <1>3, <2>1 DEF ChangeOf, None
<1> HIDE DEF op, c
<1>6. Asking(op)
  BY <1>3, <1>5 DEF Asking
<1>7. \A x \in DOMAIN k.pending_ops : k.pending_ops[x].val < c.val
  <2> SUFFICES ASSUME NEW x \in DOMAIN k.pending_ops PROVE k.pending_ops[x].val < c.val
    OBVIOUS
  <2>1. k.pending_ops[x] \in Keyed
    BY <1>0, PendingKeyed
  <2>2. k.pending_ops[x].val \in 1..calls + 1
    BY <1>2, <2>1 DEF NumbersDiffer
  <2> QED BY <1>2, <1>5, <2>2
<1>8. \A v \in AskedVals(Body(k)) : v < c.val
  <2>1. \A v \in Waiting[l] : v \in 2..calls + 1
    BY <1>2 DEF NumbersDiffer
  <2> QED BY <1>0, <1>2, <1>5, <2>1
<1>9. PICK S : Body(k) \in Seq(S)
  BY <1>0, LinkBody
<1>10. /\ Good(l, page, k.step, Append(Body(k), op), Writing(k), k.pending_ops, k.watched,
               k.last_gen_time, k.latest_key, k.doc)
       /\ AskedVals(Append(Body(k), op)) \subseteq AskedVals(Body(k)) \cup {c.val}
  <2>1. Good(l, page, k.step, Body(k), Writing(k), k.pending_ops, k.watched, k.last_gen_time,
             k.latest_key, k.doc)
    BY <1>0 DEF LinkGood
  <2> HIDE DEF k
  <2> QED BY <1>3, <1>5, <1>6, <1>7, <1>8, <1>9, <2>1, GoodAsked
<1>11. View(h, k.step, Append(Body(k), op), Writing(k), k.pending_ops, k.watched,
            k.last_gen_time, k.latest_key, k.doc, k.initial)
  <2>1. Body(kk) = Body(k) /\ Writing(kk) = Writing(k)
    BY <1>b DEF Alike, Body, Writing, Change, First
  <2> QED BY <1>b, <2>1, ViewPush DEF Alike
<1> HIDE DEF h
<1>12. LinkGood(l, h, page') /\ Writing(h) = Writing(k) /\ h.initial = k.initial
       /\ AskedVals(Body(h)) \subseteq AskedVals(Body(k)) \cup {c.val}
  BY <1>1, <1>10, <1>11, ViewGood, ZenonT(60) DEF View
<1> DEFINE A == [x \in Link |-> Waiting[x] \cup (IF x = l THEN {calls + 2} ELSE {})]
<1>13. NumbersDiffer(Keyed, A, Initials, calls')
  <2>1. \A x \in Link : A[x] \subseteq Waiting[x] \cup (IF x = l THEN {calls + 2} ELSE {})
    OBVIOUS
  <2> HIDE DEF A
  <2> QED BY <1>1, <1>2, <2>1, AskedNat, NumbersAsk
<1>14. /\ \A x \in Link : x # l => Waiting[x] \subseteq A[x]
       /\ AskedVals(Body(h)) \subseteq A[l]
  BY <1>0, <1>5, <1>12
<1>15. page' \subseteq Keyed /\ \A x \in Made : x # l => Writing(links[x]) \subseteq Keyed
  BY <1>1 DEF Keyed
<1>16. page \subseteq page' /\ \A x \in Made : x # l => Writing(links[x]) \cap page' \subseteq page
  BY <1>1
<1> HIDE DEF A
<1>17. \A x \in Initials : x # l => x \in Initials
  OBVIOUS
<1> QED BY <1>0, <1>1, <1>12, <1>13, <1>14, <1>15, <1>16, <1>17, CoreOne

\* A link is found or made.
LEMMA CoreConnects ==
    ASSUME LinksOK, Core, NEW l \in Link, ConnectLinkCall(l)
    PROVE  Core'
<1> DEFINE k == links[l]
<1>0. page' = page /\ calls' = calls
  BY DEF ConnectLinkCall
<1>1. CASE k.made
  <2> DEFINE h == NewConnection(k)
  <2>1. /\ LinkShape(k) /\ LinkGood(l, k, page) /\ Writing(k) \subseteq Keyed
        /\ Waiting[l] = AskedVals(Body(k)) /\ (k.initial => l \in Initials)
    BY <1>1, CoreLink
  <2>2. View(h, k.step, Body(k), Writing(k), k.pending_ops, k.watched, k.last_gen_time,
             k.latest_key, k.doc, k.initial)
    BY <2>1, AlikeConnected, ViewAlike
  <2>3. Update(l, h)
    BY <1>1 DEF ConnectLinkCall
  <2> HIDE DEF h, k
  <2>4. LinkGood(l, h, page)
    BY <2>1, <2>2 DEF LinkGood, View
  <2>5. Writing(h) = Writing(k) /\ Body(h) = Body(k) /\ h.initial = k.initial
    BY <2>2 DEF View
  <2> QED BY <1>0, <2>1, <2>3, <2>4, <2>5, CoreQuiet
<1>2. CASE ~k.made
  <2> DEFINE h == NewLink(FALSE, page)
             q == <<Call("connected")>>
  <2>1. /\ h.made /\ h.step = "read" /\ h.queue = <<Call("reload"), Call("connected")>>
        /\ h.pending_ops = <<>> /\ h.watched = page /\ h.last_gen_time = 0 /\ h.latest_key = None
        /\ h.doc = Empty /\ h.initial = FALSE
    BY DEF NewLink
  <2>2. Body(h) = q /\ Writing(h) = {}
    <3>1. \A a, b : Tail(<<a, b>>) = <<b>>
      OBVIOUS
    <3> HIDE DEF h
    <3> QED BY <2>1, <3>1 DEF Body, Writing
  <2>3. \A i \in DOMAIN q : q[i].kind # "change"
    BY DEF Call, Op
  <2>4. Update(l, h)
    BY <1>2 DEF ConnectLinkCall
  <2> HIDE DEF h, q
  <2>5. Good(l, page, "read", q, {}, <<>>, page, 0, None, Empty) /\ AskedVals(q) = {}
    BY <2>3, GoodMade
  <2>6. LinkGood(l, h, page)
    BY <2>1, <2>2, <2>5 DEF LinkGood
  <2> QED BY <1>0, <2>1, <2>2, <2>4, <2>5, <2>6, CoreQuiet
<1> QED BY <1>1, <1>2

\* The story is stopped.
LEMMA CoreStops ==
    ASSUME LinksOK, Core, StopLinks
    PROVE  Core'
<1> DEFINE kk(l) == [links[l] EXCEPT !.orphaned_handler = FALSE]
           h(l) == Push(kk(l), Call("stop"))
<1>1. page' = page /\ calls' = calls
      /\ links' = [l \in Link |-> IF l \notin Made THEN NoLink ELSE h(l)]
  BY DEF StopLinks
<1>2. ASSUME NEW l \in Link, l \notin Made PROVE links'[l] = NoLink /\ ~links'[l].made
  BY <1>1, <1>2 DEF NoLink
<1>3. ASSUME NEW l \in Made
      PROVE  /\ l \in Link /\ links'[l] = h(l) /\ LinkGood(l, h(l), page)
             /\ Writing(h(l)) = Writing(links[l])
             /\ AskedVals(Body(h(l))) = AskedVals(Body(links[l])) /\ h(l).initial = links[l].initial
  <2> DEFINE j == links[l]
             k == kk(l)
             op == Call("stop")
  <2>0. l \in Link /\ j.made /\ links'[l] = h(l)
    <3>1. l \in Link /\ j.made
      BY DEF Made
    <3> HIDE DEF h
    <3> QED BY <1>1, <3>1
  <2>1. LinkShape(j) /\ LinkGood(l, j, page)
    BY <2>0, CoreLink
  <2>2. LinkShape(k) /\ Alike(k, j)
    BY <2>1 DEF LinkShape, Alike
  <2>3. op.kind # "change"
    BY DEF Call, Op
  <2> HIDE DEF k, op
  <2>4. View(Push(k, op), k.step, Append(Body(k), op), Writing(k), k.pending_ops, k.watched,
             k.last_gen_time, k.latest_key, k.doc, k.initial)
    BY <2>2, ViewPush
  <2>5. View(k, j.step, Body(j), Writing(j), j.pending_ops, j.watched, j.last_gen_time,
             j.latest_key, j.doc, j.initial)
    BY <2>1, <2>2, ViewAlike
  <2>6. PICK S : Body(j) \in Seq(S)
    BY <2>1, LinkBody
  <2>7. /\ Shifted(Body(j), Append(Body(j), op), 0) /\ DOMAIN Body(j) \subseteq Nat
        /\ DOMAIN Append(Body(j), op) \subseteq Nat /\ 0 \in Nat
    BY <2>3, <2>6, AppendShifted
  <2>8. /\ Good(l, page, j.step, Append(Body(j), op), Writing(j), j.pending_ops, j.watched,
                j.last_gen_time, j.latest_key, j.doc)
        /\ AskedVals(Append(Body(j), op)) = AskedVals(Body(j))
    <3>1. Good(l, page, j.step, Body(j), Writing(j), j.pending_ops, j.watched,
               j.last_gen_time, j.latest_key, j.doc)
      BY <2>1 DEF LinkGood
    <3> HIDE DEF j
    <3> QED BY <2>7, <3>1, GoodShifted
  <2> HIDE DEF j
  <2>9. View(Push(k, op), j.step, Append(Body(j), op), Writing(j), j.pending_ops, j.watched,
             j.last_gen_time, j.latest_key, j.doc, j.initial)
    BY <2>4, <2>5 DEF View
  <2>10. LinkGood(l, Push(k, op), page) /\ Writing(Push(k, op)) = Writing(j)
         /\ AskedVals(Body(Push(k, op))) = AskedVals(Body(j)) /\ Push(k, op).initial = j.initial
    BY <2>8, <2>9, ViewGood DEF View
  <2> QED BY <2>0, <2>10 DEF j, k, op
<1> HIDE DEF h
<1>4. \A l \in Made' : l \in Made /\ links'[l] = h(l)
  BY <1>2, <1>3 DEF Made
<1>5. Keyed' \subseteq Keyed
  BY <1>1, <1>3, <1>4 DEF Keyed
<1>6. ASSUME NEW l \in Link PROVE Waiting'[l] \subseteq Waiting[l]
  <2>1. /\ Waiting'[l] = IF links'[l].made THEN AskedVals(Body(links'[l])) ELSE {}
        /\ Waiting[l] = IF links[l].made THEN AskedVals(Body(links[l])) ELSE {}
    BY DEF Waiting
  <2>2. CASE l \in Made
    BY <1>3, <2>1, <2>2 DEF Made
  <2>3. CASE l \notin Made
    BY <1>2, <2>1, <2>3
  <2> QED BY <2>2, <2>3
<1>7. Initials' \subseteq Initials
  BY <1>3, <1>4 DEF Initials
<1>8. NumbersDiffer(Keyed', Waiting', Initials', calls')
  BY <1>1, <1>5, <1>6, <1>7, NumbersShrink DEF Core
<1>9. \A l \in Made' : LinkGood(l, links'[l], page')
  BY <1>1, <1>3, <1>4
<1> QED BY <1>8, <1>9 DEF Core

\* The changes of a link in the page.
LEMMA CoreOwn ==
    ASSUME LinksOK, Core, NEW l \in Link, Covers[l] = {l}, NEW P, P \subseteq page
    PROVE  /\ Entries(P, l) = InKeyOrder(Own(P, l)) /\ l \in Nat
           /\ Own(P, l) \subseteq page /\ Own(P, l) \subseteq ChangeOf(l)
           /\ IsFiniteSet(Own(P, l)) /\ KeysApart(Own(P, l)) /\ KeysApart(Keyed)
           /\ \A c \in Keyed : c.key # None
           /\ Lists(InKeyOrder(Own(P, l)), Own(P, l))
<1>1. {c \in P : c.link \in Covers[l]} = Own(P, l)
  BY DEF Own
<1>2. Entries(P, l) = InKeyOrder(Own(P, l))
  BY <1>1 DEF Entries
<1>3. l \in Nat
  BY LinkAssumption
<1>4. page \subseteq Keyed
  BY DEF Keyed
<1>5. Own(P, l) \subseteq page
  BY DEF Own
<1>6. Own(P, l) \subseteq ChangeOf(l)
  <2> SUFFICES ASSUME NEW c \in Own(P, l) PROVE c \in ChangeOf(l)
    OBVIOUS
  <2>1. c \in Keyed /\ c.link = l
    BY <1>4, <1>5 DEF Own
  <2> QED BY <2>1 DEF Core, NumbersDiffer
<1>7. KeysApart(Keyed) /\ \A c \in Keyed : c.key # None
  BY AskedNat, NumbersKeys DEF Core
<1>8. IsFiniteSet(Own(P, l)) /\ KeysApart(Own(P, l))
  BY <1>4, <1>5, <1>7, FS_Subset DEF LinksOK, KeysApart
<1>9. Lists(InKeyOrder(Own(P, l)), Own(P, l))
  BY <1>3, <1>6, <1>8, OrderLists
<1> QED BY <1>2, <1>3, <1>5, <1>6, <1>7, <1>8, <1>9

\* Two queues, one after the other.
LEMMA ConcatAt ==
    ASSUME NEW S, NEW b \in Seq(S), NEW e \in Seq(S)
    PROVE  /\ b \o e \in Seq(S) /\ Len(b \o e) = Len(b) + Len(e) /\ Len(b) \in Nat /\ Len(e) \in Nat
           /\ DOMAIN (b \o e) = 1..(Len(b) + Len(e))
           /\ \A i \in 1..Len(b) : (b \o e)[i] = b[i]
           /\ \A j \in 1..Len(e) : (b \o e)[j + Len(b)] = e[j]
<1>1. /\ b \o e \in Seq(S) /\ Len(b \o e) = Len(b) + Len(e) /\ Len(b) \in Nat /\ Len(e) \in Nat
      /\ DOMAIN (b \o e) = 1..(Len(b) + Len(e))
  OBVIOUS
<1>2. \A i \in 1..Len(b) : (b \o e)[i] = b[i]
  OBVIOUS
<1>3. ASSUME NEW j \in 1..Len(e) PROVE (b \o e)[j + Len(b)] = e[j]
  <2>1. j + Len(b) \in 1..Len(b) + Len(e) /\ ~(j + Len(b) <= Len(b)) /\ (j + Len(b)) - Len(b) = j
    BY <1>1
  <2> QED BY <1>1, <2>1
<1> QED BY <1>1, <1>2, <1>3

\* The first of them begins.
LEMMA ConcatTail ==
    ASSUME NEW S, NEW b \in Seq(S), NEW e \in Seq(S), b # <<>>
    PROVE  Tail(b \o e) = Tail(b) \o e /\ Head(b \o e) = Head(b)
<1> DEFINE x == Tail(b \o e)
           y == Tail(b) \o e
<1>0. /\ b \o e \in Seq(S) /\ Len(b \o e) = Len(b) + Len(e) /\ Len(b) \in Nat /\ Len(e) \in Nat
      /\ Len(b) >= 1
      /\ b \o e # <<>> /\ Tail(b) \in Seq(S) /\ Len(Tail(b)) = Len(b) - 1
  OBVIOUS
<1>1. /\ x \in Seq(S) /\ y \in Seq(S) /\ Len(x) = (Len(b) + Len(e)) - 1
      /\ Len(y) = (Len(b) - 1) + Len(e)
  BY <1>0
<1>2. ASSUME NEW i \in 1..(Len(b) + Len(e)) - 1 PROVE x[i] = y[i]
  <2>1. x[i] = (b \o e)[i + 1]
    BY <1>0
  <2>2. CASE i <= Len(b) - 1
    <3>1. i \in 1..Len(Tail(b)) /\ i + 1 \in 1..Len(b)
      BY <1>0, <2>2
    <3>2. y[i] = Tail(b)[i] /\ Tail(b)[i] = b[i + 1] /\ (b \o e)[i + 1] = b[i + 1]
      BY <1>0, <3>1, ConcatAt
    <3> QED BY <2>1, <3>2
  <2>3. CASE ~(i <= Len(b) - 1)
    <3>1. PICK j \in 1..Len(e) : i = j + (Len(b) - 1)
      <4>1. i - (Len(b) - 1) \in 1..Len(e)
        BY <1>0, <2>3
      <4> QED BY <4>1, <1>0
    <3>2. i + 1 = j + Len(b) /\ i = j + Len(Tail(b))
      BY <1>0, <3>1
    <3>3. (b \o e)[j + Len(b)] = e[j] /\ y[j + Len(Tail(b))] = e[j]
      BY <1>0, <3>1, ConcatAt
    <3> QED BY <2>1, <3>2, <3>3
  <2> QED BY <2>2, <2>3
<1>3. Len(x) = Len(y) /\ \A i \in 1..Len(x) : x[i] = y[i]
  BY <1>0, <1>1, <1>2
<1>4. Head(b \o e) = Head(b)
  BY <1>0
<1> HIDE DEF x, y
<1>5. x = y
  BY <1>1, <1>3
<1> QED BY <1>4, <1>5 DEF x, y

\* The page reports what is new.
LEMMA CoreReports ==
    ASSUME LinksOK, Core, NEW l \in Link, Covers[l] = {l}, OnChange(l)
    PROVE  Core'
<1> DEFINE k == links[l]
           N == Own(page \ k.watched, l)
           new == InKeyOrder(N)
           more == [i \in DOMAIN new |-> Op("change", new[i], 1)]
           q == k.queue \o more
           h == [k EXCEPT !.watched = page, !.queue = q]
<1>0. /\ k.made /\ LinkShape(k) /\ LinkGood(l, k, page) /\ Writing(k) \subseteq Keyed
      /\ page \subseteq Keyed
      /\ Waiting[l] = AskedVals(Body(k)) /\ (k.initial => l \in Initials)
  BY CoreLink DEF OnChange
<1>1. /\ Entries(page \ k.watched, l) = new /\ N \subseteq ChangeOf(l) /\ Lists(new, N)
      /\ N \subseteq page
      /\ KeysApart(Keyed) /\ \A c \in Keyed : c.key # None
  <2>1. page \ k.watched \subseteq page
    OBVIOUS
  <2> QED BY <2>1, CoreOwn
<1>2. Update(l, h) /\ page' = page /\ calls' = calls
  BY <1>1 DEF OnChange, kOnChangeConnectionId
<1> HIDE DEF new
<1>3. PICK r \in Nat : DOMAIN new = 1..r
  <2>1. new \in Seq(N)
    BY <1>1 DEF Lists
  <2> HIDE DEF N
  <2> QED BY <2>1
<1>4. /\ \A i \in DOMAIN new : more[i].kind = "change" /\ more[i].change = new[i]
      /\ DOMAIN more = 1..r
  BY <1>3 DEF Op
<1>5. more \in Seq({more[i] : i \in 1..r}) /\ Len(more) = r
  <2> DEFINE V == {more[i] : i \in 1..r}
  <2>1. more \in [1..r -> V]
    BY <1>3
  <2>2. [1..r -> V] \subseteq Seq(V)
    BY SMTT(40)
  <2> HIDE DEF V, more
  <2>3. more \in Seq(V) /\ DOMAIN more = 1..r
    BY <2>1, <2>2
  <2>4. Len(more) = r
    BY <2>3
  <2> QED BY <2>3, <2>4 DEF V
<1> HIDE DEF more
<1>6. /\ h.made /\ h.step = k.step /\ h.queue = q /\ h.pending_ops = k.pending_ops
      /\ h.watched = page /\ h.last_gen_time = k.last_gen_time /\ h.latest_key = k.latest_key
      /\ h.doc = k.doc /\ h.initial = k.initial
  <2> HIDE DEF q, k
  <2> QED BY <1>0 DEF LinkShape
<1>7. PICK S : k.queue \in Seq(S)
  BY <1>0, LinkBody
<1>8. k.queue # <<>> => Tail(q) = Tail(k.queue) \o more /\ Head(q) = Head(k.queue)
  <2>1. /\ k.queue \in Seq(S \cup {more[i] : i \in 1..r})
        /\ more \in Seq(S \cup {more[i] : i \in 1..r})
    BY <1>5, <1>7
  <2> QED BY <2>1, ConcatTail
<1>9. k.step # "start" => k.queue # <<>>
  BY <1>0 DEF LinkShape
<1> HIDE DEF h
<1>10. Body(h) = Body(k) \o more
  BY <1>6, <1>8, <1>9 DEF Body
<1>11. Writing(h) = Writing(k)
  <2>1. CASE k.step = "write"
    <3>1. Head(h.queue) = Head(k.queue)
      BY <1>6, <1>8, <1>9, <2>1
    <3> HIDE DEF q
    <3> QED BY <1>6, <2>1, <3>1 DEF Writing, Change, First
  <2>2. CASE k.step # "write"
    BY <1>6, <2>2 DEF Writing
  <2> QED BY <2>1, <2>2
<1> DEFINE b == Body(k)
           a == Body(h)
<1>12. PICK T : b \in Seq(T)
  BY <1>0, LinkBody
<1>13. PICK n \in Nat : n = Len(b) /\ DOMAIN b = 1..n
  BY <1>12
<1>14. a = b \o more
  BY <1>10
<1> HIDE DEF a, b, k, N
<1>15. /\ DOMAIN a = 1..(n + r)
       /\ \A i \in 1..n : a[i] = b[i]
       /\ \A j \in 1..r : a[j + n] = more[j]
  <2>1. b \in Seq(T \cup {more[i] : i \in 1..r}) /\ more \in Seq(T \cup {more[i] : i \in 1..r})
    BY <1>5, <1>12
  <2>2. /\ DOMAIN (b \o more) = 1..(Len(b) + Len(more))
        /\ \A i \in 1..Len(b) : (b \o more)[i] = b[i]
        /\ \A j \in 1..Len(more) : (b \o more)[j + Len(b)] = more[j]
    BY <2>1, ConcatAt
  <2> QED BY <1>5, <1>13, <1>14, <2>2
<1>16. Continued(b, a, new, n)
  <2>1. \A i \in DOMAIN b : i \in DOMAIN a /\ a[i] = b[i]
    BY <1>13, <1>15
  <2>2. \A i \in DOMAIN a : i \in DOMAIN b \/ (i \in Nat /\ i > n /\ i - n \in DOMAIN new)
    BY <1>3, <1>13, <1>15
  <2>3. ASSUME NEW j \in DOMAIN new
        PROVE  j + n \in DOMAIN a /\ a[j + n].kind = "change" /\ a[j + n].change = new[j]
    <3>1. j \in 1..r /\ j + n \in 1..(n + r)
      BY <1>3
    <3>2. a[j + n] = more[j]
      BY <1>15, <3>1
    <3> QED BY <1>4, <1>15, <3>1, <3>2
  <2> QED BY <1>13, <2>1, <2>2, <2>3 DEF Continued
<1>17. \A c \in N : c.key # None
  BY <1>0, <1>1
<1>18. /\ Good(l, page, k.step, a, Writing(k), k.pending_ops, page, k.last_gen_time, k.latest_key, k.doc)
       /\ AskedVals(a) = AskedVals(b)
  <2>1. Good(l, page, k.step, b, Writing(k), k.pending_ops, k.watched, k.last_gen_time,
             k.latest_key, k.doc)
    BY <1>0 DEF LinkGood, b
  <2>2. /\ Own(page \ k.watched, l) \subseteq ChangeOf(l) /\ Lists(new, Own(page \ k.watched, l))
        /\ \A c \in Own(page \ k.watched, l) : c.key # None
    BY <1>1, <1>17 DEF N
  <2> QED BY <1>16, <2>1, <2>2, GoodReports
<1>19. LinkGood(l, h, page)
  BY <1>6, <1>11, <1>18 DEF LinkGood, a
<1> QED BY <1>0, <1>2, <1>6, <1>11, <1>18, <1>19, CoreQuiet DEF a, b

\* A change runs that the page has reported.
LEMMA CoreReported ==
    ASSUME LinksOK, Core, NEW l \in Link, RunEcho(l) \/ RunReported(l)
    PROVE  Core'
<1> DEFINE k == links[l]
           q == k.queue
           p == k.pending_ops
           c == Change(k)
<1>0. k.made /\ q # <<>> /\ Head(q).kind = "change" /\ k.step = "start" /\ c = Head(q).change
  BY DEF RunEcho, RunReported, Runs, First, Change
<1>a. page' = page /\ calls' = calls
  BY DEF RunEcho, RunReported
<1>1. /\ LinkShape(k) /\ LinkGood(l, k, page) /\ page \subseteq Keyed
      /\ Waiting[l] = AskedVals(Body(k)) /\ (k.initial => l \in Initials)
  BY <1>0, CoreLink
<1>2. Body(k) = q /\ Writing(k) = {} /\ \E S : q \in Seq(S)
  BY <1>0, <1>1, LinkBody
<1>3. PICK S : q \in Seq(S)
  BY <1>2
<1>4. /\ Good(l, page, "start", q, {}, p, k.watched, k.last_gen_time, k.latest_key, k.doc)
      /\ Waiting[l] = AskedVals(q)
  BY <1>0, <1>1, <1>2 DEF LinkGood
<1>5. Head(q) = q[1] /\ 1 \in DOMAIN q /\ \A i \in DOMAIN q : i \in Nat /\ i >= 1
  BY <1>0, <1>3, TailAt
<1>6. KeysApart(Keyed) /\ \A e \in Keyed : e.key # None
  BY AskedNat, NumbersKeys DEF Core
<1>7. EchoesCome(l, page, q, {}, p, k.watched) /\ p \in Seq(ChangeOf(l))
  BY <1>4 DEF Good, Types
<1>8. \A x \in DOMAIN p : p[x] \in page
  BY <1>7 DEF EchoesCome, Own
<1>9. Report(q[1]) => c \in page
  <2>1. Report(q[1]) => c \in Reported(q)
    BY <1>0, <1>5 DEF Reported
  <2> QED BY <1>7, <2>1 DEF EchoesCome, Own
<1>10. AskedVals(Tail(q)) \subseteq Waiting[l]
  BY <1>0, <1>3, <1>4, TailChanges
<1>11. CASE RunEcho(l)
  <2> DEFINE kk == [k EXCEPT !.pending_ops = Tail(p)]
             h == Pop(kk)
  <2>1. p # <<>> /\ c.key = Head(p).key /\ Update(l, h)
    BY <1>11 DEF RunEcho
  <2>2. 1 \in DOMAIN p /\ Head(p) = p[1]
    BY <1>7, <2>1, TailAt
  <2>3. p[1] \in page /\ p[1].key # None
    BY <1>1, <1>6, <1>8, <2>2
  <2>4. Report(q[1])
    BY <1>0, <1>5, <2>1, <2>2, <2>3 DEF Report
  <2>5. q[1].change = p[1]
    BY <1>0, <1>1, <1>5, <1>6, <1>9, <2>1, <2>2, <2>3, <2>4 DEF KeysApart
  <2>6. Good(l, page, "start", Tail(q), {}, Tail(p), k.watched, k.last_gen_time, k.latest_key, k.doc)
    <3> HIDE DEF q, p, k
    <3> QED BY <1>0, <1>3, <1>4, <2>1, <2>4, <2>5, GoodEcho
  <2>7. /\ LinkShape(kk) /\ kk.queue = q /\ kk.pending_ops = Tail(p) /\ kk.watched = k.watched
        /\ kk.last_gen_time = k.last_gen_time /\ kk.latest_key = k.latest_key /\ kk.doc = k.doc
        /\ kk.initial = k.initial
    <3>1. \A o : [k EXCEPT !.pending_ops = o].pending_ops = o /\ LinkShape([k EXCEPT !.pending_ops = o])
      BY <1>1 DEF LinkShape
    <3>2. LinkShape(kk) /\ kk.pending_ops = Tail(p)
      BY <3>1
    <3> QED BY <1>1, <3>2 DEF LinkShape
  <2> HIDE DEF kk
  <2>8. View(h, "start", Tail(kk.queue), {}, kk.pending_ops, kk.watched, kk.last_gen_time,
             kk.latest_key, kk.doc, kk.initial)
    BY <2>7, ViewPop
  <2> HIDE DEF h, k, q, p
  <2>9. LinkGood(l, h, page) /\ Writing(h) = {} /\ Body(h) = Tail(q) /\ h.initial = k.initial
    BY <2>6, <2>7, <2>8 DEF View, LinkGood
  <2> QED BY <1>1, <1>10, <1>a, <2>1, <2>9, CoreQuiet
<1>12. CASE RunReported(l)
  <2>1. Report(q[1])
    BY <1>0, <1>5, <1>12 DEF RunReported, Report
  <2>2. \A x \in DOMAIN p : p[x] # q[1].change
    <3> SUFFICES ASSUME NEW x \in DOMAIN p, p[x] = q[1].change PROVE FALSE
      OBVIOUS
    <3>1. p # <<>> /\ x \in Nat /\ x >= 1
      BY <1>7
    <3>2. 1 \in DOMAIN p /\ Head(p) = p[1]
      BY <1>7, <3>1, TailAt
    <3>3. CASE x = 1
      <4>1. c.key = Head(p).key
        BY <1>0, <1>5, <3>2, <3>3
      <4> QED BY <1>12, <3>1, <4>1 DEF RunReported
    <3>4. CASE x # 1
      <4>1. 1 < x
        BY <3>1, <3>4
      <4>2. PICK i \in DOMAIN q : i < 1
        BY <1>5, <1>7, <2>1, <3>2, <4>1 DEF EchoesCome
      <4> QED BY <1>5, <4>2
    <3> QED BY <3>3, <3>4
  <2>3. CASE c.key < k.latest_key
    <3> DEFINE h == [k EXCEPT !.step = "read"]
    <3>1. Update(l, h)
      BY <1>12, <2>3 DEF RunReported
    <3>2. Good(l, page, "read", Tail(q), {}, p, k.watched, k.last_gen_time, k.latest_key, k.doc)
      <4> HIDE DEF q, p, k
      <4> QED BY <1>0, <1>3, <1>4, <2>1, <2>2, GoodReportedOld
    <3>3. /\ h.step = "read" /\ h.queue = q /\ h.pending_ops = p /\ h.watched = k.watched
          /\ h.last_gen_time = k.last_gen_time /\ h.latest_key = k.latest_key /\ h.doc = k.doc
          /\ h.initial = k.initial
      BY <1>1 DEF LinkShape
    <3> HIDE DEF h, k, q, p
    <3>4. Body(h) = Tail(q) /\ Writing(h) = {}
      BY <3>3 DEF Body, Writing
    <3>5. LinkGood(l, h, page)
      BY <3>2, <3>3, <3>4 DEF LinkGood
    <3> QED BY <1>1, <1>10, <1>a, <3>1, <3>3, <3>4, <3>5, CoreQuiet
  <2>4. CASE ~(c.key < k.latest_key)
    <3> DEFINE n == ApplyNewest(k, c, First(k).src)
               h == Pop(n)
    <3>1. Update(l, h)
      BY <1>12, <2>4 DEF RunReported
    <3>2. KeysApart(page)
      BY <1>1, <1>6 DEF KeysApart
    <3>3. Good(l, page, "start", Tail(q), {}, p, k.watched, k.last_gen_time, c.key,
               ApplyChange(k.doc, c))
      <4>1. c = q[1].change
        BY <1>0, <1>5
      <4> HIDE DEF q, p, k, c
      <4> QED BY <1>0, <1>3, <1>4, <2>1, <2>2, <2>4, <3>2, <4>1, GoodReportedNew
    <3>4. LinkShape(n)
      BY <1>1, <1>0, LinkApplied, CoreLink
    <3>5. /\ n.queue = q /\ n.pending_ops = p /\ n.watched = k.watched
          /\ n.last_gen_time = k.last_gen_time /\ n.latest_key = c.key
          /\ n.doc = ApplyChange(k.doc, c) /\ n.initial = k.initial
      BY <1>1, ViewNewest
    <3> HIDE DEF n
    <3>6. View(h, "start", Tail(n.queue), {}, n.pending_ops, n.watched, n.last_gen_time,
               n.latest_key, n.doc, n.initial)
      BY <3>4, ViewPop
    <3> HIDE DEF h, k, q, p, c
    <3>7. LinkGood(l, h, page) /\ Writing(h) = {} /\ Body(h) = Tail(q) /\ h.initial = k.initial
      BY <3>3, <3>5, <3>6 DEF View, LinkGood
    <3> QED BY <1>1, <1>10, <1>a, <3>1, <3>7, CoreQuiet
  <2> QED BY <2>3, <2>4
<1> QED BY <1>11, <1>12

\* A change of link l with a new number gets its key and is being written.
LEMMA CoreKeyed ==
    ASSUME LinksOK, Core, NEW l \in Link, links[l].made, page' = page, calls' = calls,
           NEW h, Update(l, h), NEW c \in ChangeOf(l), c.val \in 1..calls + 1,
           \A e \in Keyed : e.val # c.val, \E t \in Nat : KeyUntil(c, t),
           h.made => LinkGood(l, h, page) /\ Writing(h) = {c},
           h.made => AskedVals(Body(h)) \subseteq Waiting[l] /\ c.val \notin AskedVals(Body(h)),
           \A x \in Link : x # l => c.val \notin Waiting[x],
           h.made /\ h.initial => l \in Initials, c.val = 1 => ~h.initial /\ Initials \subseteq {l}
    PROVE  Core'
<1> DEFINE K == Keyed \cup {c}
           A == [x \in Link |-> IF x = l THEN (IF h.made THEN AskedVals(Body(h)) ELSE {}) ELSE Waiting[x]]
           I == IF c.val = 1 THEN {} ELSE Initials
<1>1. calls \in 0..Len(Asked) /\ calls' \in calls..Len(Asked) /\ calls' = calls
  <2>1. calls \in 0..Len(Asked)
    BY DEF Core, NumbersDiffer
  <2> QED BY <2>1, AskedNat
<1>2. c.link = l
  BY DEF ChangeOf
<1>3. NumbersDiffer(K, A, I, calls')
  <2>1. \A x \in Link : A[x] \subseteq Waiting[x] /\ c.val \notin A[x]
    OBVIOUS
  <2>2. I \subseteq Initials /\ (c.val = 1 => I = {}) /\ K \subseteq Keyed \cup {c}
    OBVIOUS
  <2>3. NumbersDiffer(Keyed, Waiting, Initials, calls)
    BY DEF Core
  <2>4. c.link \in Link /\ c \in ChangeOf(c.link) /\ c.val \in 1..calls' + 1
    BY <1>2
  <2> HIDE DEF K, A, I
  <2> QED BY <1>1, <2>1, <2>2, <2>3, <2>4, AskedNat, NumbersKeyed
<1>4. page' \subseteq K /\ \A x \in Made : x # l => Writing(links[x]) \subseteq K
  BY DEF Keyed
<1>5. h.made => Writing(h) \subseteq K
  OBVIOUS
<1>6. (\A x \in Link : x # l => Waiting[x] \subseteq A[x]) /\ (h.made => AskedVals(Body(h)) \subseteq A[l])
  OBVIOUS
<1>7. (\A x \in Initials : x # l => x \in I) /\ (h.made /\ h.initial => l \in I)
  OBVIOUS
<1>8. page \subseteq page' /\ \A x \in Made : x # l => Writing(links[x]) \cap page' \subseteq page
  OBVIOUS
<1>9. h.made => LinkGood(l, h, page')
  OBVIOUS
<1> HIDE DEF K, A, I
<1> QED BY <1>3, <1>4, <1>5, <1>6, <1>7, <1>8, <1>9, CoreOne

\* A new key keeps the keys apart.
LEMMA NewKeyApart ==
    ASSUME Core, NEW l \in Link, NEW c \in ChangeOf(l), c.val \in 1..calls + 1,
           \A e \in Keyed : e.val # c.val, \E t \in Nat : KeyUntil(c, t)
    PROVE  KeysApart(page \cup {c}) /\ c \notin page
<1> DEFINE K == Keyed \cup {c}
           A == [x \in Link |-> {}]
<1>1. calls \in 0..Len(Asked) /\ calls \in calls..Len(Asked) /\ c.link = l
  <2>1. calls \in 0..Len(Asked)
    BY DEF Core, NumbersDiffer
  <2> QED BY <2>1, AskedNat DEF ChangeOf
<1>2. \A x \in Link : A[x] \subseteq Waiting[x] /\ c.val \notin A[x]
  OBVIOUS
<1>3. NumbersDiffer(Keyed, Waiting, Initials, calls) /\ page \subseteq Keyed
  BY DEF Core, Keyed
<1>4. K \subseteq Keyed \cup {c} /\ {} \subseteq Initials
  OBVIOUS
<1> HIDE DEF A
<1>5. NumbersDiffer(K, A, {}, calls)
  <2> HIDE DEF K
  <2> QED BY <1>1, <1>2, <1>3, <1>4, AskedNat, NumbersKeyed
<1>6. KeysApart(K)
  <2> HIDE DEF K
  <2> QED BY <1>5, AskedNat, NumbersKeys
<1> QED BY <1>3, <1>6 DEF KeysApart

\* A client's change runs, on a clock that was not set back.
LEMMA CoreNew ==
    ASSUME LinksOK, Core, NEW l \in Link, NEW t \in Time, RunNew(l, t), t >= links[l].last_gen_time
    PROVE  Core'
<1> DEFINE k == links[l]
           q == k.queue
           p == k.pending_ops
           c0 == Change(k)
           c == Create(c0, t)
           g == k.last_gen_time
           m == k.latest_key
           r == Tail(q)
           h == NewChange(k, c, First(k).src, t)
<1>0. /\ k.made /\ q # <<>> /\ Head(q).kind = "change" /\ k.step = "start" /\ c0 = Head(q).change
      /\ c0.key = None /\ Update(l, h) /\ page' = page /\ calls' = calls
  BY DEF RunNew, Runs, First, Change
<1>1. /\ LinkShape(k) /\ LinkGood(l, k, page) /\ page \subseteq Keyed
      /\ Waiting[l] = AskedVals(Body(k)) /\ (k.initial => l \in Initials)
  BY <1>0, CoreLink
<1>2. Body(k) = q /\ Writing(k) = {} /\ \E S : q \in Seq(S)
  BY <1>0, <1>1, LinkBody
<1>3. PICK S : q \in Seq(S)
  BY <1>2
<1>4. /\ Good(l, page, "start", q, {}, p, k.watched, g, m, k.doc)
      /\ Waiting[l] = AskedVals(q)
  BY <1>0, <1>1, <1>2 DEF LinkGood
<1>5. Head(q) = q[1] /\ 1 \in DOMAIN q /\ \A i \in DOMAIN q : i \in Nat /\ i >= 1
  BY <1>0, <1>3, TailAt
<1>6. /\ Types(l, "start", q, {}, p, g, m) /\ EchoesCome(l, page, q, {}, p, k.watched)
      /\ KeysGrow(q, p, g)
  BY <1>4 DEF Good
<1>7. Asking(q[1]) /\ ~Report(q[1]) /\ q[1].change = c0 /\ c0 \in ChangeOf(l)
  BY <1>0, <1>5, <1>6 DEF Asking, Report, Types
<1>8. c0.val \in Waiting[l]
  BY <1>4, <1>5, <1>7 DEF AskedVals
<1>9. /\ c0.val \in 2..calls + 1 /\ (\A e \in Keyed : e.val # c0.val)
      /\ \A x \in Link : x # l => c0.val \notin Waiting[x]
      /\ calls \in Nat
  <2>1. NumbersDiffer(Keyed, Waiting, Initials, calls)
    BY DEF Core
  <2> QED BY <1>8, <2>1 DEF NumbersDiffer
<1>10. t \in Nat /\ t >= 1 /\ g \in Nat /\ g <= t
  <2>1. t \in Nat /\ t # 0
    BY LinkAssumption
  <2>2. g \in Nat
    BY <1>6 DEF Types
  <2> QED BY <2>1, <2>2
<1> DEFINE B == Len(Asked) + 2
<1>11. B \in Nat
  BY AskedNat
<1>12. c = [c0 EXCEPT !.key = t * B + c0.val]
  BY DEF Create
<1> HIDE DEF B
<1>13. t * B + c0.val \in Nat /\ c0.val \in Nat
  <2>1. c0.val \in Nat
    BY <1>7 DEF ChangeOf
  <2>2. t * B \in Nat
    BY <1>10, <1>11
  <2> QED BY <2>1, <2>2
<1> HIDE DEF c, c0, k, q, p, g, m, h
<1>14. c \in ChangeOf(l) /\ c.val = c0.val /\ c.key = t * B + c0.val
  BY <1>7, <1>12, <1>13 DEF ChangeOf
<1>15. KeyUntil(c, t)
  <2>1. t \in 1..t
    BY <1>10
  <2> QED BY <1>14, <2>1 DEF KeyUntil, B
<1>16. ASSUME NEW x \in DOMAIN p PROVE KeyUntil(p[x], t) /\ p[x].key < c.key
  <2>1. PICK s \in 1..g : p[x].key = s * B + p[x].val
    BY <1>6 DEF KeysGrow, KeyUntil, B
  <2>2. s \in 1..t /\ s \in Nat /\ s <= t
    BY <1>10, <2>1
  <2>3. p[x].val < c0.val
    BY <1>5, <1>6, <1>7 DEF KeysGrow
  <2>4. p[x] \in ChangeOf(l)
    BY <1>6 DEF Types
  <2>5. p[x].val \in Nat
    BY <2>4 DEF ChangeOf
  <2>6. s * B + p[x].val < t * B + c0.val
    BY <1>10, <1>11, <1>13, <2>2, <2>3, <2>5, KeyIsLater
  <2>7. KeyUntil(p[x], t)
    BY <2>1, <2>2 DEF KeyUntil, B
  <2> QED BY <1>14, <2>1, <2>6, <2>7
<1>17. /\ \A i \in DOMAIN r : i \in Nat /\ i >= 1 /\ i + 1 \in DOMAIN q /\ r[i] = q[i + 1]
       /\ Reported(q) \subseteq Reported(r) /\ AskedVals(r) \subseteq AskedVals(q)
  BY <1>0, <1>3, <1>7, TailAt, TailChanges
<1>18. ASSUME NEW i \in DOMAIN r, Asking(r[i]) PROVE c.val < r[i].change.val
  <2>1. i + 1 \in DOMAIN q /\ r[i] = q[i + 1] /\ 1 < i + 1
    BY <1>17
  <2> QED BY <1>5, <1>6, <1>7, <1>14, <1>18, <2>1 DEF KeysGrow
<1>19. /\ Types(l, "start", r, {}, p, g, m) /\ EchoesCome(l, page, r, {}, p, k.watched)
       /\ KeysGrow(r, p, g)
  BY <1>0, <1>3, <1>6, <1>7, TailTypes, TailEchoes, TailGrow
<1>20. PICK D : Holds(l, page, "start", r, {}, p, k.watched, m, k.doc, D)
  BY <1>4, <1>17 DEF Good, Holds
<1>21. c.val \in 1..calls + 1 /\ (\A e \in Keyed : e.val # c.val)
  BY <1>9, <1>14
<1>22. KeysApart(page \cup {c}) /\ c \notin page
  BY <1>10, <1>14, <1>15, <1>21, NewKeyApart
<1> HIDE DEF r
<1>23. LET old == c.key < m IN
       Good(l, page, "write", r, {c}, Append(p, c), k.watched, t,
            IF old THEN m ELSE c.key, IF old THEN k.doc ELSE ApplyChange(k.doc, c))
  <2>1. "start" = "read" => Own(page, l) = {}
    OBVIOUS
  <2>2. Newest(c, t, r, p)
    BY <1>15, <1>16, <1>18 DEF Newest
  <2> QED BY <1>10, <1>14, <1>19, <1>20, <1>22, <2>1, <2>2, GoodKeyed
<1>24. LET old == c.key < m IN
       View(h, "write", r, {c}, Append(p, c), k.watched, t,
            IF old THEN m ELSE c.key, IF old THEN k.doc ELSE ApplyChange(k.doc, c), k.initial)
  BY <1>0, <1>1, ViewChange DEF h, r, q, p, m
<1>25. LinkGood(l, h, page) /\ Writing(h) = {c} /\ Body(h) = r /\ h.initial = k.initial
  BY <1>23, <1>24 DEF View, LinkGood
<1>26. c.val \notin AskedVals(r)
  <2> SUFFICES ASSUME NEW i \in DOMAIN r, Asking(r[i]), c.val = r[i].change.val PROVE FALSE
    BY DEF AskedVals
  <2>1. c.val < c.val
    BY <1>18
  <2> QED BY <1>13, <1>14, <2>1
<1>27. c.val # 1
  BY <1>9, <1>14
<1>28. AskedVals(Body(h)) \subseteq Waiting[l] /\ c.val \notin AskedVals(Body(h))
  BY <1>4, <1>17, <1>25, <1>26
<1>29. \A x \in Link : x # l => c.val \notin Waiting[x]
  BY <1>9, <1>14
<1>30. links[l].made /\ \E s \in Nat : KeyUntil(c, s)
  BY <1>0, <1>10, <1>15 DEF k
<1>31. h.initial => l \in Initials
  BY <1>1, <1>25
<1> QED BY <1>0, <1>14, <1>21, <1>25, <1>27, <1>28, <1>29, <1>30, <1>31, CoreKeyed

\* The page takes a change.
LEMMA CoreWritten ==
    ASSUME LinksOK, Core, NEW l \in Link, WriteDone(l, TRUE)
    PROVE  Core'
<1> DEFINE k == links[l]
           c == Change(k)
           s == IF c.key < k.latest_key THEN "read" ELSE "start"
           h == IF c.key < k.latest_key THEN [k EXCEPT !.step = "read"] ELSE Finish(k)
<1>0. k.made /\ k.step = "write" /\ page' = page \cup {c} /\ calls' = calls /\ Update(l, h)
  BY DEF WriteDone
<1>1. /\ LinkShape(k) /\ LinkGood(l, k, page) /\ page \subseteq Keyed /\ Writing(k) \subseteq Keyed
      /\ Waiting[l] = AskedVals(Body(k)) /\ (k.initial => l \in Initials)
  BY <1>0, CoreLink
<1>2. Body(k) = Tail(k.queue) /\ Writing(k) = {c}
  BY <1>0, <1>1, LinkBody
<1>3. Good(l, page, "write", Body(k), {c}, k.pending_ops, k.watched, k.last_gen_time, k.latest_key, k.doc)
  BY <1>0, <1>1, <1>2 DEF LinkGood
<1>4. Good(l, page \cup {c}, s, Body(k), {}, k.pending_ops, k.watched, k.last_gen_time,
           k.latest_key, k.doc)
  <2>1. s \in {"start", "read"} /\ (s = "start" => ~(c.key < k.latest_key))
    OBVIOUS
  <2> HIDE DEF s, c, k
  <2> QED BY <1>3, <2>1, GoodWritten
<1>5. View(h, s, Body(k), {}, k.pending_ops, k.watched, k.last_gen_time, k.latest_key, k.doc, k.initial)
  <2>1. CASE c.key < k.latest_key
    <3> DEFINE n == [k EXCEPT !.step = "read"]
    <3>1. /\ n.made /\ n.step = "read" /\ n.queue = k.queue /\ n.pending_ops = k.pending_ops
          /\ n.watched = k.watched /\ n.last_gen_time = k.last_gen_time
          /\ n.latest_key = k.latest_key /\ n.doc = k.doc /\ n.initial = k.initial
      BY <1>1 DEF LinkShape
    <3>2. h = n /\ s = "read"
      BY <2>1
    <3> HIDE DEF n, h, s, k
    <3> QED BY <1>2, <3>1, <3>2 DEF View, Body, Writing
  <2>2. CASE ~(c.key < k.latest_key)
    <3>1. Alike(k, k)
      BY <1>0 DEF Alike
    <3>2. h = Finish(k) /\ s = "start"
      BY <2>2
    <3> HIDE DEF h, s, k
    <3> QED BY <1>1, <1>2, <3>1, <3>2, ViewFinish
  <2> QED BY <2>1, <2>2
<1> HIDE DEF h, s, c, k
<1>6. LinkGood(l, h, page') /\ Writing(h) = {} /\ Body(h) = Body(k) /\ h.initial = k.initial
  BY <1>0, <1>4, <1>5 DEF View, LinkGood
<1>7. c \in Keyed
  BY <1>1, <1>2
<1>8. page \subseteq page' /\ \A x \in Made : x # l => Writing(links[x]) \cap page' \subseteq page
  <2> SUFFICES ASSUME NEW x \in Made, x # l, c \in Writing(links[x]) PROVE FALSE
    BY <1>0
  <2>1. c \in ChangeOf(l)
    BY <1>3 DEF Good, Types
  <2>2. c \in ChangeOf(x)
    BY DEF Core, LinkGood, Good, Types
  <2> QED BY <2>1, <2>2 DEF ChangeOf
<1>9. page' \subseteq Keyed /\ \A x \in Made : x # l => Writing(links[x]) \subseteq Keyed
  BY <1>0, <1>7 DEF Keyed
<1>10. NumbersDiffer(Keyed, Waiting, Initials, calls')
  BY <1>0 DEF Core
<1>11. \A x \in Link : x # l => Waiting[x] \subseteq Waiting[x]
  OBVIOUS
<1>12. \A x \in Initials : x # l => x \in Initials
  OBVIOUS
<1>13. AskedVals(Body(h)) \subseteq Waiting[l] /\ (h.initial => l \in Initials) /\ Writing(h) \subseteq Keyed
  BY <1>1, <1>6
<1> QED BY <1>0, <1>6, <1>8, <1>9, <1>10, <1>11, <1>12, <1>13, CoreOne, SMTT(40)

\* The page is read.
LEMMA CoreReload ==
    ASSUME LinksOK, Core, NEW l \in Link, Covers[l] = {l}, NEW t \in Time, ReloadCall(l, t, TRUE)
    PROVE  Core'
<1> DEFINE k == links[l]
           a == InKeyOrder(Own(page, l))
           p == k.pending_ops
<1>0. k.made /\ k.step = "read" /\ page' = page /\ calls' = calls
  BY DEF ReloadCall
<1>1. /\ LinkShape(k) /\ Current(k) /\ LinkGood(l, k, page) /\ page \subseteq Keyed
      /\ Waiting[l] = AskedVals(Body(k)) /\ (k.initial => l \in Initials)
  BY <1>0, CoreLink
<1>2. Body(k) = Tail(k.queue) /\ Writing(k) = {} /\ k.queue # <<>>
  BY <1>0, <1>1, LinkBody
<1>3. Good(l, page, "read", Body(k), {}, p, k.watched, k.last_gen_time, k.latest_key, k.doc)
  BY <1>0, <1>1, <1>2 DEF LinkGood
<1>4. /\ Entries(page, l) = a /\ l \in Nat /\ Own(page, l) \subseteq ChangeOf(l)
      /\ KeysApart(Keyed) /\ Lists(a, Own(page, l))
  BY CoreOwn
<1>5. CASE a # <<>>
  <2> DEFINE m == Merged(a, p)
             r == Replay(k, a)
             n == NotifyIfChanged(k.doc, r, NoChange, kOnChangeConnectionId)
             h == Finish(n)
  <2>1. Update(l, h)
    BY <1>4, <1>5 DEF ReloadCall
  <2>2. Good(l, page, "start", Body(k), {}, p, k.watched, k.last_gen_time, Last(m).key, ApplyAll(m))
    <3>1. KeysApart(page) /\ IsFiniteSet(page)
      BY <1>1, <1>4 DEF KeysApart, LinksOK
    <3> HIDE DEF p, k
    <3> QED BY <1>3, <1>4, <1>5, <3>1, GoodReplayed
  <2>3. r = [k EXCEPT !.doc = ApplyAll(m), !.latest_key = Last(m).key]
    BY DEF Replay
  <2> HIDE DEF m, r
  <2>4. /\ LinkShape(r) /\ r.queue = k.queue /\ r.pending_ops = p /\ r.watched = k.watched
        /\ r.last_gen_time = k.last_gen_time /\ r.latest_key = Last(m).key /\ r.doc = ApplyAll(m)
        /\ r.initial = k.initial /\ r.watchers = k.watchers
    <3> DEFINE x0 == ApplyAll(m)
               y0 == Last(m).key
               z == [k EXCEPT !.doc = x0, !.latest_key = y0]
    <3>1. r = z
      BY <2>3
    <3> HIDE DEF x0, y0
    <3>2. /\ LinkShape(z) /\ z.queue = k.queue /\ z.pending_ops = p /\ z.watched = k.watched
          /\ z.last_gen_time = k.last_gen_time /\ z.latest_key = y0 /\ z.doc = x0
          /\ z.initial = k.initial /\ z.watchers = k.watchers
      BY <1>1 DEF LinkShape
    <3> HIDE DEF z, p
    <3>3. /\ LinkShape(r) /\ r.queue = k.queue /\ r.pending_ops = p /\ r.watched = k.watched
          /\ r.last_gen_time = k.last_gen_time /\ r.latest_key = y0 /\ r.doc = x0
          /\ r.initial = k.initial /\ r.watchers = k.watchers
      BY <3>1, <3>2
    <3> QED BY <3>3 DEF x0, y0
  <2>5. LinkShape(n)
    BY <1>1, <2>4, LinkNotified DEF Current, kOnChangeConnectionId
  <2>6. Alike(n, r)
    BY <2>4, AlikeNotified
  <2> HIDE DEF n
  <2>7. View(h, "start", Tail(r.queue), {}, r.pending_ops, r.watched, r.last_gen_time,
             r.latest_key, r.doc, r.initial)
    BY <2>4, <2>5, <2>6, ViewFinish
  <2> HIDE DEF h, k, p
  <2>8. LinkGood(l, h, page) /\ Writing(h) = {} /\ Body(h) = Body(k) /\ h.initial = k.initial
    BY <1>2, <2>2, <2>4, <2>7 DEF View, LinkGood
  <2> QED BY <1>0, <1>1, <2>1, <2>8, CoreQuiet
<1>6. CASE a = <<>>
  <2>0. Own(page, l) = {}
    <3>1. DOMAIN <<>> = {}
      OBVIOUS
    <3> QED BY <1>4, <1>6, <3>1 DEF Lists
  <2>1. /\ p = <<>> /\ Types(l, "read", Body(k), {}, p, k.last_gen_time, k.latest_key)
        /\ EchoesCome(l, page, Body(k), {}, p, k.watched) /\ KeysGrow(Body(k), p, k.last_gen_time)
        /\ Holds(l, page, "read", Body(k), {}, p, k.watched, k.latest_key, k.doc, {})
        /\ Good(l, page, "start", Body(k), {}, p, k.watched, k.last_gen_time, k.latest_key, k.doc)
    <3> HIDE DEF p, k
    <3> QED BY <1>3, <2>0, GoodNothing
  <2>2. CASE ~k.initial
    <3> DEFINE h == Finish(k)
    <3>1. Update(l, h)
      BY <1>4, <1>6, <2>2 DEF ReloadCall
    <3>2. Alike(k, k)
      BY <1>0 DEF Alike
    <3>3. View(h, "start", Tail(k.queue), {}, p, k.watched, k.last_gen_time,
               k.latest_key, k.doc, k.initial)
      BY <1>1, <3>2, ViewFinish
    <3> HIDE DEF h, k, p
    <3>4. LinkGood(l, h, page) /\ Writing(h) = {} /\ Body(h) = Body(k) /\ h.initial = k.initial
      BY <1>2, <2>1, <3>3 DEF View, LinkGood
    <3> QED BY <1>0, <1>1, <3>1, <3>4, CoreQuiet
  <2>3. CASE k.initial
    <3> DEFINE i == [k EXCEPT !.initial = FALSE]
               c0 == InitialData
               c == Create(c0, t)
               h == NewChange(i, c, kWatchAllConnectionId, t)
               B == Len(Asked) + 2
               f == CHOOSE x \in Field : TRUE
               old == c.key < k.latest_key
    <3>1. Update(l, h)
      BY <1>4, <1>6, <2>3 DEF ReloadCall
    <3>2. l = 1 /\ (\A e \in Keyed : e.val # 1) /\ Initials \subseteq {l} /\ calls \in Nat
          /\ \A x \in Link : 1 \notin Waiting[x]
      <4>1. NumbersDiffer(Keyed, Waiting, Initials, calls) /\ l \in Initials
        BY <1>1, <2>3 DEF Core
      <4>2. \A x \in Link : \A v \in Waiting[x] : v \in 2..calls + 1
        BY <4>1 DEF NumbersDiffer
      <4>3. calls \in Nat /\ 1 \notin 2..calls + 1
        BY <4>1 DEF NumbersDiffer
      <4> QED BY <4>1, <4>2, <4>3 DEF NumbersDiffer
    <3>3. t \in Nat /\ t >= 1 /\ B \in Nat
      BY LinkAssumption, AskedNat
    <3>4. c0 = [link |-> 1, key |-> None, op |-> "set", field |-> f, val |-> 1]
      BY DEF InitialData, LinkChange
    <3>5. f \in Field
      BY LinkAssumption
    <3>6. c = [c0 EXCEPT !.key = t * B + c0.val]
      BY DEF Create
    <3>7. t * B + 1 \in Nat
      BY <3>3
    <3> HIDE DEF B, f, c0
    <3>8. c = [link |-> 1, key |-> t * B + 1, op |-> "set", field |-> f, val |-> 1]
      <4> HIDE DEF c
      <4> QED BY <3>4, <3>6
    <3> HIDE DEF c
    <3>9. c \in ChangeOf(l) /\ c.val = 1 /\ c.key = t * B + 1
      BY <3>2, <3>5, <3>7, <3>8 DEF ChangeOf
    <3>10. KeyUntil(c, t)
      <4>1. t \in 1..t
        BY <3>3
      <4> QED BY <3>9, <4>1 DEF KeyUntil, B
    <3>11. c.val \in 1..calls + 1 /\ \A e \in Keyed : e.val # c.val
      BY <3>2, <3>9
    <3>12. KeysApart(page \cup {c}) /\ c \notin page
      BY <3>3, <3>9, <3>10, <3>11, NewKeyApart
    <3>13. ASSUME NEW x \in DOMAIN Body(k), Asking(Body(k)[x]) PROVE c.val < Body(k)[x].change.val
      <4>1. Body(k)[x].change.val \in Waiting[l]
        BY <1>1, <3>13 DEF AskedVals
      <4>2. Body(k)[x].change.val \in 2..calls + 1
        BY <4>1 DEF Core, NumbersDiffer
      <4> QED BY <3>2, <3>9, <4>2
    <3>14. Newest(c, t, Body(k), p)
      <4>1. DOMAIN p = {}
        BY <2>1
      <4> QED BY <3>10, <3>13, <4>1 DEF Newest
    <3>15. LinkShape(i) /\ i.queue = k.queue /\ i.pending_ops = p /\ i.watched = k.watched
           /\ i.latest_key = k.latest_key /\ i.doc = k.doc /\ ~i.initial
      BY <1>1 DEF LinkShape
    <3> HIDE DEF i
    <3>16. View(h, "write", Tail(i.queue), {c}, Append(i.pending_ops, c), i.watched, t,
                IF c.key < i.latest_key THEN i.latest_key ELSE c.key,
                IF c.key < i.latest_key THEN i.doc ELSE ApplyChange(i.doc, c), i.initial)
      BY <1>2, <3>15, ViewChange
    <3> HIDE DEF h, k, p
    <3>17. Good(l, page, "write", Body(k), {c}, Append(p, c), k.watched, t,
                IF old THEN k.latest_key ELSE c.key, IF old THEN k.doc ELSE ApplyChange(k.doc, c))
      <4>1. "read" = "read" => Own(page, l) = {}
        BY <2>0
      <4> QED BY <2>1, <3>3, <3>9, <3>12, <3>14, <4>1, GoodKeyed
    <3>18. h.made /\ LinkGood(l, h, page) /\ Writing(h) = {c} /\ Body(h) = Body(k) /\ ~h.initial
      BY <1>2, <3>15, <3>16, <3>17 DEF View, LinkGood
    <3>19. AskedVals(Body(h)) \subseteq Waiting[l] /\ c.val \notin AskedVals(Body(h))
      BY <1>1, <3>2, <3>9, <3>18
    <3>20. \A x \in Link : x # l => c.val \notin Waiting[x]
      BY <3>2, <3>9
    <3>21. links[l].made /\ \E s \in Nat : KeyUntil(c, s)
      BY <1>0, <3>3, <3>10 DEF k
    <3>22. c.val = 1 => ~h.initial /\ Initials \subseteq {l}
      BY <3>2, <3>18
    <3> QED BY <1>0, <3>1, <3>9, <3>11, <3>18, <3>19, <3>20, <3>21, <3>22, CoreKeyed
  <2> QED BY <2>2, <2>3
<1> QED BY <1>5, <1>6

\* The operations that change nothing.
LEMMA CoreSimple ==
    ASSUME LinksOK, Core, NEW l \in Link, RunWatch(l) \/ RunConnected(l) \/ RunOrphaned(l)
    PROVE  Core'
<1> DEFINE k == links[l]
<1>0. k.made /\ page' = page /\ calls' = calls
  BY DEF RunWatch, RunConnected, RunOrphaned, Runs
<1>1. LinkShape(k) /\ Alike(k, k)
  BY <1>0, LinkIsMade DEF Alike
<1>2. CASE RunWatch(l)
  <2> DEFINE ws == [w \in DOMAIN k.watchers \cup {First(k).src} |->
                      IF w = First(k).src THEN Told(k, w) ELSE k.watchers[w]]
             kk == [k EXCEPT !.watchers = ws]
  <2>1. Runs(k, "watch", "start") /\ Update(l, Pop(kk))
    BY <1>2 DEF RunWatch
  <2>2. First(k).src # 1
    <3>1. PICK S : k.queue \in Seq(S)
      BY <1>1, LinkBody
    <3>2. k.queue # <<>> /\ First(k) = Head(k.queue) /\ First(k).kind = "watch"
      BY <2>1 DEF Runs, First
    <3>3. 1 \in DOMAIN k.queue /\ First(k) = k.queue[1]
      BY <3>1, <3>2
    <3> QED BY <1>1, <3>2, <3>3 DEF LinkShape, LinkQueueOK
  <2>3. 1 \notin DOMAIN ws
    BY <1>1, <2>2 DEF LinkShape
  <2>4. LinkShape(kk) /\ Alike(kk, k)
    <3> HIDE DEF ws
    <3> QED BY <1>1, <2>3 DEF LinkShape, Alike
  <2> HIDE DEF kk
  <2>5. "watch" # "change"
    OBVIOUS
  <2> QED BY <1>0, <2>1, <2>4, <2>5, CorePop
<1>3. CASE RunConnected(l)
  <2>1. Runs(k, "connected", "start") /\ Update(l, Pop(k)) /\ "connected" # "change"
    BY <1>3 DEF RunConnected
  <2> QED BY <1>0, <1>1, <2>1, CorePop
<1>4. CASE RunOrphaned(l)
  <2>1. Runs(k, "orphaned", "start") /\ "orphaned" # "change"
    BY <1>4 DEF RunOrphaned
  <2>2. CASE Update(l, Pop(k))
    BY <1>0, <1>1, <2>1, <2>2, CorePop
  <2>3. CASE Update(l, NoLink)
    <3>1. ~NoLink.made
      BY DEF NoLink
    <3> QED BY <1>0, <2>3, <3>1, CoreQuiet
  <2> QED BY <1>4, <2>2, <2>3 DEF RunOrphaned
<1> QED BY <1>2, <1>3, <1>4

\* The links of a stopped story are dropped together.
LEMMA CoreDropped ==
    ASSUME LinksOK, Core, NEW l \in Link, RunStop(l)
    PROVE  Core'
<1> DEFINE k == links[l]
           sent == {Change(links[m]) : m \in {n \in Made \ {l} : links[n].step = "write"}}
<1>0. k.made /\ calls' = calls /\ Runs(k, "stop", "start")
  BY DEF RunStop, Runs
<1>1. CASE links' = [m \in Link |-> NoLink] /\ page' = page \cup sent
  <2>1. Made' = {}
    BY <1>1 DEF Made, NoLink
  <2>2. sent \subseteq Keyed
    BY DEF Keyed, Writing
  <2>3. Keyed' \subseteq Keyed
    <3>1. Keyed' = page'
      BY <2>1 DEF Keyed
    <3>2. page \subseteq Keyed
      BY DEF Keyed
    <3> HIDE DEF sent
    <3> QED BY <1>1, <2>2, <3>1, <3>2
  <2>4. ASSUME NEW x \in Link PROVE Waiting'[x] \subseteq Waiting[x]
    <3>1. Waiting'[x] = IF links'[x].made THEN AskedVals(Body(links'[x])) ELSE {}
      BY DEF Waiting
    <3>2. ~links'[x].made
      BY <1>1 DEF NoLink
    <3> QED BY <3>1, <3>2
  <2>5. Initials' \subseteq Initials
    BY <2>1 DEF Initials
  <2>6. NumbersDiffer(Keyed', Waiting', Initials', calls')
    BY <1>0, <2>3, <2>4, <2>5, NumbersShrink DEF Core
  <2> QED BY <2>1, <2>6 DEF Core
<1>2. CASE Update(l, Pop(k)) /\ page' = page
  <2>1. LinkShape(k) /\ Alike(k, k) /\ "stop" # "change"
    BY <1>0, LinkIsMade DEF Alike
  <2> QED BY <1>0, <1>2, <2>1, CorePop
<1> QED BY <1>1, <1>2 DEF RunStop

\* Another device changes a link.
LEMMA CoreRemote ==
    ASSUME LinksOK, Core, NEW l \in Link, NEW t \in Time, RemoteChange(l, t)
    PROVE  Core'
<1> DEFINE c0 == NextChange(l)
           c == Create(c0, t)
           B == Len(Asked) + 2
<1>1. calls < Len(Asked) /\ calls' = calls + 1 /\ page' = page \cup {c} /\ links' = links
  BY DEF RemoteChange
<1>2. calls \in Nat /\ NumbersDiffer(Keyed, Waiting, Initials, calls)
  BY DEF Core, NumbersDiffer
<1>3. c0 = [link |-> l, key |-> None, op |-> Asked[calls + 1][1], field |-> Asked[calls + 1][2],
            val |-> calls + 2]
  BY DEF NextChange, LinkChange
<1>4. Asked[calls + 1] \in {"set", "update", "erase"} \X Field
  <2>1. calls + 1 \in 1..Len(Asked) /\ Asked \in Seq({"set", "update", "erase"} \X Field)
    BY <1>1, <1>2, AskedNat, LinkAssumption
  <2> QED BY <2>1
<1>5. t \in Nat /\ t >= 1 /\ B \in Nat
  BY LinkAssumption, AskedNat
<1>6. c = [c0 EXCEPT !.key = t * B + c0.val]
  BY DEF Create
<1>7. t * B + (calls + 2) \in Nat
  <2>1. t * B \in Nat
    BY <1>5
  <2> QED BY <1>2, <2>1
<1> HIDE DEF B, c0, c
<1>8. c = [link |-> l, key |-> t * B + (calls + 2), op |-> Asked[calls + 1][1],
           field |-> Asked[calls + 1][2], val |-> calls + 2]
  BY <1>3, <1>6
<1>9. c \in ChangeOf(l) /\ c.val = calls + 2 /\ c.key = t * B + (calls + 2) /\ c.link = l
  <2>1. Asked[calls + 1][1] \in {"set", "update", "erase"} /\ Asked[calls + 1][2] \in Field
    BY <1>4
  <2> QED BY <1>2, <1>7, <1>8, <2>1 DEF ChangeOf
<1>10. \E s \in Nat : KeyUntil(c, s)
  <2>1. t \in 1..t
    BY <1>5
  <2>2. KeyUntil(c, t)
    BY <1>9, <2>1 DEF KeyUntil, B
  <2> QED BY <1>5, <2>2
<1>11. \A e \in Keyed : e.val # c.val
  <2>1. calls + 2 \notin 1..calls + 1
    BY <1>2
  <2> QED BY <1>2, <1>9, <2>1 DEF NumbersDiffer
<1>12. \A x \in Link : c.val \notin Waiting[x]
  <2>1. calls + 2 \notin 2..calls + 1
    BY <1>2
  <2> QED BY <1>2, <1>9, <2>1 DEF NumbersDiffer
<1>13. calls' \in calls..Len(Asked) /\ c.val \in 1..calls' + 1 /\ c.val # 1
  BY <1>1, <1>2, <1>9, AskedNat
<1>14. Keyed' = Keyed \cup {c} /\ Waiting' = Waiting /\ Initials' = Initials /\ Made' = Made
  BY <1>1 DEF Keyed, Waiting, Initials, Made
<1>15. NumbersDiffer(Keyed', Waiting', Initials', calls')
  <2>1. /\ Keyed \cup {c} \subseteq Keyed \cup {c} /\ Initials \subseteq Initials /\ (c.val = 1 => Initials = {})
        /\ \A x \in Link : Waiting[x] \subseteq Waiting[x] /\ c.val \notin Waiting[x]
        /\ c.link \in Link /\ c \in ChangeOf(c.link)
    BY <1>9, <1>12, <1>13
  <2>2. NumbersDiffer(Keyed \cup {c}, Waiting, Initials, calls')
    BY <1>2, <1>10, <1>11, <1>13, <2>1, AskedNat, NumbersKeyed
  <2> QED BY <1>14, <2>2
<1>16. ASSUME NEW x \in Made PROVE LinkGood(x, links[x], page \cup {c})
  <2>1. Writing(links[x]) \cap (page \cup {c}) \subseteq page
    BY <1>11 DEF Keyed
  <2>2. LinkGood(x, links[x], page)
    BY DEF Core
  <2> QED BY <2>1, <2>2, GoodGrown DEF LinkGood
<1> QED BY <1>1, <1>14, <1>15, <1>16 DEF Core

\* The first link has read nothing.
LEMMA CoreStart == Init => Core
<1> SUFFICES ASSUME Init PROVE Core
  OBVIOUS
<1> DEFINE h == NewLink(TRUE, {})
           q == <<Call("connected")>>
<1>1. /\ page = {} /\ calls = 0 /\ links = [l \in Link |-> IF l = 1 THEN h ELSE NoLink] /\ 1 \in Link
  BY LinkAssumption DEF Init
<1>2. /\ h.made /\ h.step = "read" /\ h.queue = <<Call("reload"), Call("connected")>>
      /\ h.pending_ops = <<>> /\ h.watched = {} /\ h.last_gen_time = 0 /\ h.latest_key = None
      /\ h.doc = Empty /\ h.initial
  BY DEF NewLink
<1>3. Body(h) = q /\ Writing(h) = {}
  <2>1. \A a, b : Tail(<<a, b>>) = <<b>>
    OBVIOUS
  <2> HIDE DEF h
  <2> QED BY <1>2, <2>1 DEF Body, Writing
<1>4. \A i \in DOMAIN q : q[i].kind # "change"
  BY DEF Call, Op
<1> HIDE DEF h, q
<1>5. Good(1, {}, "read", q, {}, <<>>, {}, 0, None, Empty) /\ AskedVals(q) = {}
  BY <1>4, GoodMade
<1>6. LinkGood(1, h, {})
  BY <1>2, <1>3, <1>5 DEF LinkGood
<1>7. Made = {1} /\ links[1] = h
  BY <1>1, <1>2 DEF Made, NoLink
<1>8. Keyed = {} /\ Initials \subseteq {1}
  BY <1>1, <1>3, <1>7 DEF Keyed, Initials
<1>9. ASSUME NEW x \in Link PROVE Waiting[x] = {}
  <2>1. Waiting[x] = IF links[x].made THEN AskedVals(Body(links[x])) ELSE {}
    BY DEF Waiting
  <2>2. x # 1 => ~links[x].made
    BY <1>1 DEF NoLink
  <2> QED BY <1>3, <1>5, <1>7, <2>1, <2>2
<1>10. calls \in 0..Len(Asked)
  BY <1>1, AskedNat
<1>11. NumbersDiffer(Keyed, Waiting, Initials, calls)
  BY <1>8, <1>9, <1>10 DEF NumbersDiffer
<1> QED BY <1>1, <1>6, <1>7, <1>11 DEF Core

\* Every step keeps the invariant, until a call failed, a change came in the
\* way of a read or a clock was set back.
LEMMA ReplayStep ==
    ASSUME \A l \in Link : Covers[l] = {l}
    PROVE  LinksOK /\ ReplayInv /\ [Next]_vars => ReplayInv'
<1> SUFFICES ASSUME LinksOK, ReplayInv, [Next]_vars, Regular' PROVE Core'
  BY DEF ReplayInv
<1>0. raced \subseteq raced' => Core
  BY DEF Regular, ReplayInv
<1>1. ASSUME NEW l \in Link, OnChange(l) \/ RunEcho(l) \/ RunReported(l) \/ RunWatch(l) \/ RunConnected(l)
      PROVE  Core'
  <2>1. raced' = raced
    BY <1>1 DEF OnChange, RunEcho, RunReported, RunWatch, RunConnected
  <2> QED BY <1>0, <1>1, <2>1, CoreReports, CoreReported, CoreSimple
<1>2. ASSUME NEW l \in Link, RunOrphaned(l) PROVE Core'
  BY <1>0, <1>2, CoreSimple DEF RunOrphaned
<1>3. ASSUME NEW l \in Link, RunStop(l) PROVE Core'
  <2>1. raced \subseteq raced'
    BY <1>3 DEF RunStop
  <2> QED BY <1>0, <1>3, <2>1, CoreDropped
<1>4. ASSUME NEW l \in Link, NEW t \in Time, RunNew(l, t) PROVE Core'
  <2>1. raced' = raced /\ t >= links[l].last_gen_time
    BY <1>4 DEF RunNew, Regular
  <2> QED BY <1>0, <1>4, <2>1, CoreNew
<1>5. ASSUME NEW l \in Link, NEW ok \in BOOLEAN, WriteDone(l, ok) PROVE Core'
  <2>1. raced' = raced /\ ok
    BY <1>5 DEF WriteDone, Regular
  <2>2. ok = TRUE
    BY <2>1
  <2> QED BY <1>0, <1>5, <2>1, <2>2, CoreWritten
<1>6. ASSUME NEW l \in Link, NEW t \in Time, NEW ok \in BOOLEAN, ReloadCall(l, t, ok) PROVE Core'
  <2>1. raced \subseteq raced' /\ ok
    BY <1>6 DEF ReloadCall, Regular
  <2>2. ok = TRUE
    BY <2>1
  <2> QED BY <1>0, <1>6, <2>1, <2>2, CoreReload
<1>7. ASSUME NEW l \in Made, NEW id \in links[l].connections,
             \/ RemoveConnection(l, id) \/ Watch(l, id) \/ Watch(l, kWatchAllConnectionId)
             \/ MakeIncrementalChangeCall(l, id)
      PROVE  Core'
  <2>1. l \in Link /\ links[l].made
    BY DEF Made
  <2>2. raced' = raced
    BY <1>7 DEF RemoveConnection, Watch, MakeIncrementalChangeCall
  <2> QED BY <1>0, <1>7, <2>1, <2>2, CoreClients, CoreAsked
<1>8. CASE StopLinks
  BY <1>0, <1>8, CoreStops DEF StopLinks
<1>9. ASSUME NEW l \in Link, ConnectLinkCall(l) PROVE Core'
  BY <1>0, <1>9, CoreConnects DEF ConnectLinkCall
<1>10. ASSUME NEW l \in Link, NEW t \in Time, RemoteChange(l, t) PROVE Core'
  BY <1>0, <1>10, CoreRemote DEF RemoteChange
<1>11. CASE UNCHANGED vars
  <2>1. Core
    BY <1>0, <1>11 DEF vars
  <2>2. Keyed' = Keyed /\ Waiting' = Waiting /\ Initials' = Initials /\ Made' = Made
        /\ links' = links /\ page' = page /\ calls' = calls
    BY <1>11 DEF vars, Keyed, Waiting, Initials, Made
  <2> QED BY <2>1, <2>2 DEF Core
<1>12. CASE Progress
  BY <1>12, <1>1, <1>2, <1>3, <1>4, <1>5, <1>6 DEF Progress
<1>13. CASE Environment
  BY <1>13, <1>7, <1>8, <1>9, <1>10 DEF Environment
<1> QED BY <1>11, <1>12, <1>13 DEF Next

\* A quiet link has been told all.
LEMMA QuietReplay ==
    ASSUME \A l \in Link : Covers[l] = {l}, LinksOK, ReplayInv
    PROVE  QuietLinkIsReplay
<1> SUFFICES ASSUME Regular, NEW l \in Link, Quiet(l)
             PROVE  /\ links[l].pending_ops = <<>>
                    /\ links[l].doc = ApplyAll(InKeyOrder({c \in page : c.link = l}))
  BY DEF QuietLinkIsReplay, Regular
<1> DEFINE k == links[l]
           O == Own(page, l)
<1>0. Core
  BY DEF ReplayInv
<1>1. k.made /\ k.queue = <<>> /\ Entries(page \ k.watched, l) = <<>>
  BY DEF Quiet
<1>2. LinkShape(k) /\ LinkGood(l, k, page)
  BY <1>0, <1>1, CoreLink
<1>3. k.step = "start" /\ Body(k) = <<>> /\ Writing(k) = {}
  BY <1>1, <1>2, LinkBody DEF LinkShape
<1>4. Own(page \ k.watched, l) = {}
  <2>1. page \ k.watched \subseteq page
    OBVIOUS
  <2>2. Lists(<<>>, Own(page \ k.watched, l))
    BY <1>0, <1>1, <2>1, CoreOwn
  <2>3. DOMAIN <<>> = {}
    OBVIOUS
  <2> QED BY <2>2, <2>3 DEF Lists
<1>5. Reported(<<>>) = {}
  BY DEF Reported
<1>6. /\ EchoesCome(l, page, <<>>, {}, k.pending_ops, k.watched)
      /\ k.pending_ops \in Seq(ChangeOf(l))
      /\ \E D : Holds(l, page, "start", <<>>, {}, k.pending_ops, k.watched, k.latest_key, k.doc, D)
  BY <1>2, <1>3 DEF LinkGood, Good, Types
<1>7. \A x \in DOMAIN k.pending_ops : FALSE
  BY <1>4, <1>5, <1>6 DEF EchoesCome
<1>8. k.pending_ops = <<>> /\ ToSet(k.pending_ops) = {}
  <2>1. Len(k.pending_ops) \in Nat /\ (Len(k.pending_ops) # 0 => 1 \in DOMAIN k.pending_ops)
    BY <1>6
  <2>2. Len(k.pending_ops) = 0
    BY <1>7, <2>1
  <2> QED BY <1>6, <1>7, <2>2 DEF ToSet
<1>9. PICK D : Holds(l, page, "start", <<>>, {}, k.pending_ops, k.watched, k.latest_key, k.doc, D)
  BY <1>6
<1>10. D = O
  <2>1. D \subseteq O
    BY <1>8, <1>9 DEF Holds
  <2>2. O \subseteq D \cup (page \ k.watched)
    BY <1>5, <1>9 DEF Holds
  <2> QED BY <1>4, <2>1, <2>2 DEF Own
<1>11. IsValue(k.doc, O)
  BY <1>9, <1>10 DEF Holds
<1>12. /\ O \subseteq ChangeOf(l) /\ IsFiniteSet(O) /\ KeysApart(O) /\ Lists(InKeyOrder(O), O)
  BY <1>0, CoreOwn
<1> HIDE DEF O
<1>13. IsValue(ApplyAll(InKeyOrder(O)), O)
  BY <1>12, ApplyAllValue
<1>14. k.doc = ApplyAll(InKeyOrder(O))
  BY <1>11, <1>12, <1>13, ValueUnique DEF KeysApart
<1> QED BY <1>8, <1>14 DEF O, Own

\* Whatever order the changes come in, a quiet link holds the value of its
\* history in the page, if no key of a link is the prefix of another's.
THEOREM LinkQuietIsReplay ==
    ASSUME \A l \in Link : Covers[l] = {l}
    PROVE  Spec => []QuietLinkIsReplay
<1>0. IsFiniteSet(Link)
  BY LinkAssumption
<1>1. Init => LinksOK /\ ReplayInv
  BY LinksStart, CoreStart DEF ReplayInv
<1>2. LinksOK /\ ReplayInv /\ [Next]_vars => (LinksOK /\ ReplayInv)'
  BY <1>0, LinksStep, ReplayStep
<1>3. LinksOK /\ ReplayInv => QuietLinkIsReplay
  BY QuietReplay
<1> QED BY <1>1, <1>2, <1>3, PTL DEF Spec

=============================================================================
