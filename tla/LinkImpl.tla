------------------------------- MODULE LinkImpl ------------------------------
(***************************************************************************)
(* The links of a story on one device: LinkImpl and its LinkConnections,   *)
(* the part of StoryControllerImpl that makes and drops them, and the page *)
(* of the ledger that stores their history and is shared with other        *)
(* devices.                                                                *)
(*                                                                         *)
(* Every change of a link is written under a key of its own, ordered by    *)
(* KeyGenerator, so that the histories of two devices merge by union.  A   *)
(* LinkImpl applies a change at once and keeps it in pending_ops_ until    *)
(* the page reports it; a change that comes with a key older than the last *)
(* one it applied makes it read the whole history again and replay it.     *)
(***************************************************************************)
EXTENDS Naturals, FiniteSets, Sequences, SequencesExt

CONSTANTS
    Link,         \* the links of the story, numbered in the order of their keys
    Covers,       \* the links whose keys have the key of a link as a prefix
    Field,        \* the members of the JSON object in a link
    Asked,        \* the operation and the member of the first change, the second, ...
    Time,         \* the readings of the clocks
    MaxEvents     \* connections, watchers, stops and faults together

ASSUME LinkAssumption ==
    /\ 1 \in Link /\ Link \subseteq Nat \ {0} /\ IsFiniteSet(Link)
    /\ Field # {} /\ Asked \in Seq({"set", "update", "erase"} \X Field)
    /\ Time \subseteq Nat \ {0}
    /\ Covers \in [Link -> SUBSET Link] /\ \A l \in Link : l \in Covers[l]

None == 0                    \* no value in a field, no key
kWatchAllConnectionId == 0
kOnChangeConnectionId == 1
Empty == [f \in Field |-> None]

VARIABLES
    page,       \* the changes in the page, as this device sees it
    links,      \* StoryControllerImpl::links_
    calls,      \* how many changes clients have made, here or elsewhere
    events,
    raced       \* the events named below that have happened

vars == <<page, links, calls, events, raced>>

(* What the code does not guard against:                                   *)
(*   failed    the page refused a change                                   *)
(*   unread    the history could not be read                               *)
(*   clock     the clock of a device went back                             *)
(*   preempted another device changed the link before its initial data     *)
(*   disposed  a link was dropped with a change still in its queue         *)

-----------------------------------------------------------------------------
(* The document *)

ApplySetOp(f, val) == [Empty EXCEPT ![f] = val]           \* at the root
ApplyUpdateOp(doc, f, val) == [doc EXCEPT ![f] = val]     \* with one member
ApplyEraseOp(doc, f) == [doc EXCEPT ![f] = None]
ApplyChange(doc, c) ==
    CASE c.op = "set" -> ApplySetOp(c.field, c.val)
      [] c.op = "update" -> ApplyUpdateOp(doc, c.field, c.val)
      [] c.op = "erase" -> ApplyEraseOp(doc, c.field)

\* The loop of Replay: the value after each change.
ApplyAll(changes) ==
    LET doc[i \in 0..Len(changes)] ==
          IF i = 0 THEN Empty ELSE ApplyChange(doc[i - 1], changes[i])
    IN doc[Len(changes)]

\* The order in which LinkImpl::Replay takes the changes of the page and of
\* pending_ops_: the smaller key first, equal keys once.
Merged(changes, pending) ==
    LET m[at \in (1..Len(changes) + 1) \X (1..Len(pending) + 1)] ==
          LET i == at[1]  j == at[2] IN
          IF i > Len(changes) THEN SubSeq(pending, j, Len(pending))
          ELSE IF j > Len(pending) THEN SubSeq(changes, i, Len(changes))
          ELSE IF changes[i].key = pending[j].key
               THEN <<changes[i]>> \o m[<<i + 1, j + 1>>]
          ELSE IF changes[i].key < pending[j].key
               THEN <<changes[i]>> \o m[<<i + 1, j>>]
          ELSE <<pending[j]>> \o m[<<i, j + 1>>]
    IN m[<<1, 1>>]

\* Changes in the order of their keys in the page.
Before(c, e) == c.link < e.link \/ (c.link = e.link /\ c.key < e.key)
InKeyOrder(changes) ==
    [i \in 1..Cardinality(changes) |->
        CHOOSE c \in changes : Cardinality({e \in changes : Before(e, c)}) = i - 1]

\* What the page holds under the prefix of a link.
Entries(changes, l) == InKeyOrder({c \in changes : c.link \in Covers[l]})

-----------------------------------------------------------------------------
(* A link and its queue of operations, which run one at a time *)

\* A LinkChange without its key; the value it writes is the number of the call
\* that made it, counted from 2, or 1 for the initial data.
LinkChange(l, op, f, val) ==
    [link |-> l, key |-> None, op |-> op, field |-> f, val |-> val]
NoChange == LinkChange(None, "none", None, None)
InitialData == LinkChange(1, "set", CHOOSE f \in Field : TRUE, 1)

Op(kind, c, src) == [kind |-> kind, change |-> c, src |-> src]
Call(kind) == Op(kind, NoChange, None)

NoLink == [made |-> FALSE]
\* The constructor: the page is watched from here on, the history is read
\* first, and ConnectLinkCall waits behind it.
NewLink(initial, stored) ==
    [made |-> TRUE, initial |-> initial, connections |-> {},
     next_connection_id |-> 2, orphaned_handler |-> TRUE,
     doc |-> Empty, latest_key |-> None, pending_ops |-> <<>>,
     last_gen_time |-> 0, watchers |-> <<>>, watched |-> stored,
     queue |-> <<Call("reload"), Call("connected")>>, step |-> "read"]

\* LinkConnection::New
NewConnection(k) == [k EXCEPT !.connections = @ \cup {k.next_connection_id},
                              !.next_connection_id = @ + 1]

Made == {l \in Link : links[l].made}
Push(k, op) == [k EXCEPT !.queue = Append(@, op)]
Pop(k) == [k EXCEPT !.queue = Tail(@), !.step = "start"]
First(k) == Head(k.queue)
Change(k) == First(k).change
Runs(k, kind, step) ==
    k.made /\ k.queue # <<>> /\ First(k).kind = kind /\ k.step = step

\* Changes the client of a connection has made that have not run.
Unrun(k, w) == {i \in DOMAIN k.queue : /\ k.queue[i].kind = "change" /\ k.queue[i].src = w
                                         /\ k.queue[i].change.key = None}

\* LinkWatcher::Notify.  A value that comes when the client has made a change
\* which has not run takes the place of that change in what the client knows.
Told(k, w) == [knows |-> k.doc, behind |-> Unrun(k, w) # {}]

\* LinkWatcherConnection::Notify for the connection that made the change: the
\* client is not told.  It has applied the change itself, unless it is behind.
\* Initial data count as made by the watchers of WatchAll, who know nothing of
\* them.
Blocked(v, c, w) ==
    IF w = kWatchAllConnectionId THEN [v EXCEPT !.behind = TRUE]
    ELSE IF v.behind THEN v
    ELSE [v EXCEPT !.knows = ApplyChange(@, c)]

\* What the client behind each watcher knows of the link, apart from its own
\* changes that have not run yet.
NotifyWatchers(k, c, src) ==
    [k EXCEPT !.watchers =
        [w \in DOMAIN @ |-> IF w = src THEN Blocked(@[w], c, w) ELSE Told(k, w)]]

\* The end of IncrementalChangeCall (Cont1).
NotifyIfChanged(old, k, c, src) ==
    IF old = k.doc THEN k ELSE NotifyWatchers(k, c, src)

\* The change is applied as the newest of the history.
ApplyNewest(k, c, src) ==
    NotifyIfChanged(k.doc, [k EXCEPT !.doc = ApplyChange(@, c), !.latest_key = c.key],
                    c, src)

\* KeyGenerator::Create: the time first, then a tie breaker that grows as long
\* as the time stays.
Create(c, t) == [c EXCEPT !.key = t * (Len(Asked) + 2) + c.val]

\* A change without a key gets one, joins pending_ops_ and is sent to the page.
\* It is applied at once unless a newer one was applied before.
NewChange(k, c, src, t) ==
    LET kk == [k EXCEPT !.pending_ops = Append(@, c), !.last_gen_time = t,
                        !.step = "write", !.queue[1].change = c]
    IN IF c.key < k.latest_key THEN kk ELSE ApplyNewest(kk, c, src)

\* The end of the operation; that of the first ReloadCall admits connections.
Finish(k) ==
    Pop(IF First(k).kind = "reload" THEN NewConnection(k) ELSE k)

Replay(k, changes) ==
    LET m == Merged(changes, k.pending_ops)
    IN [k EXCEPT !.doc = ApplyAll(m), !.latest_key = Last(m).key]

\* A change that was queued and has not been sent to the page.
HasUnsent(k) == \E i \in DOMAIN k.queue : /\ k.queue[i].kind = "change"
                                          /\ k.queue[i].change.key = None

-----------------------------------------------------------------------------
(* Clients *)

Init ==
    /\ page = {}
    /\ links = [l \in Link |-> IF l = 1 THEN NewLink(TRUE, {}) ELSE NoLink]
    /\ calls = 0
    /\ events = 0
    /\ raced = {}

Update(l, k) == links' = [links EXCEPT ![l] = k]
Event == events < MaxEvents /\ events' = events + 1

\* The queue of the story is held by a ConnectLinkCall or a StopCall.
StoryIsBusy ==
    \E l \in Made : \/ ~links[l].orphaned_handler
                    \/ Call("connected") \in ToSet(links[l].queue)

\* ConnectLinkCall finds the link or makes it.
ConnectLinkCall(l) ==
    LET k == links[l] IN
    /\ ~StoryIsBusy
    /\ Update(l, IF k.made THEN NewConnection(k) ELSE NewLink(FALSE, page))
    /\ Event
    /\ UNCHANGED <<page, calls, raced>>

\* LinkImpl::RemoveConnection
RemoveConnection(l, id) ==
    LET k == [links[l] EXCEPT !.connections = @ \ {id}] IN
    /\ Update(l, IF k.connections = {} /\ k.orphaned_handler
                 THEN Push(k, Call("orphaned")) ELSE k)
    /\ UNCHANGED <<page, calls, events, raced>>

NextChange(l) == LinkChange(l, Asked[calls + 1][1], Asked[calls + 1][2], calls + 2)

\* A client makes a change while a value is on its way to it, which will take
\* the place of the change in what it knows.
Crosses(k, id) ==
    [k EXCEPT !.watchers = [w \in DOMAIN @ |-> IF w = id THEN [@[w] EXCEPT !.behind = TRUE] ELSE @[w]]]

\* Set, UpdateObject and Erase.  JSON that does not parse makes an operation
\* without effect, which is left out.
MakeIncrementalChangeCall(l, id) ==
    /\ calls < Len(Asked)
    /\ calls' = calls + 1
    /\ \E k \in {links[l], Crosses(links[l], id)} :
          Update(l, Push(k, Op("change", NextChange(l), id)))
    /\ UNCHANGED <<page, events, raced>>

\* Watch and WatchAll
Watch(l, conn) ==
    /\ Update(l, Push(links[l], Op("watch", NoChange, conn)))
    /\ Event
    /\ UNCHANGED <<page, calls, raced>>

\* Mutant: StopCall does not wait for the operations before it.
StopLinksMutant ==
    /\ Made # {} /\ ~StoryIsBusy
    /\ links' = [l \in Link |->
                    IF l \notin Made THEN NoLink
                    ELSE [links[l] EXCEPT !.orphaned_handler = FALSE,
                            !.queue = <<Call("stop")>>, !.step = "start"]]
    /\ Event
    /\ UNCHANGED <<page, calls, raced>>

\* StopCall reaches its links: they are synced, and then all dropped.
StopLinks ==
    /\ Made # {} /\ ~StoryIsBusy
    /\ links' = [l \in Link |->
                    IF l \notin Made THEN NoLink
                    ELSE Push([links[l] EXCEPT !.orphaned_handler = FALSE], Call("stop"))]
    /\ Event
    /\ UNCHANGED <<page, calls, raced>>

-----------------------------------------------------------------------------
(* The page *)

\* PageClient::OnChange: one notification holds all that is new under the
\* prefix of the link, in the order of the keys.
OnChange(l) ==
    LET k == links[l]
        new == Entries(page \ k.watched, l) IN
    /\ k.made /\ new # <<>>
    /\ Update(l, [k EXCEPT !.watched = page,
                       !.queue = @ \o [i \in DOMAIN new |->
                                    Op("change", new[i], kOnChangeConnectionId)]])
    /\ UNCHANGED <<page, calls, events, raced>>

\* The ledger brings a change of another device, of any age.
RemoteChange(l, t) ==
    /\ calls < Len(Asked)
    /\ calls' = calls + 1
    /\ page' = page \cup {Create(NextChange(l), t)}
    /\ UNCHANGED <<links, events, raced>>

-----------------------------------------------------------------------------
(* The operations *)

\* IncrementalChangeCall: the page reports the oldest pending change.
RunEcho(l) ==
    LET k == links[l] IN
    /\ Runs(k, "change", "start")
    /\ k.pending_ops # <<>> /\ Change(k).key = Head(k.pending_ops).key
    /\ Update(l, Pop([k EXCEPT !.pending_ops = Tail(@)]))
    /\ UNCHANGED <<page, calls, events, raced>>

\* ... a change of a client; its clock may have been set back
RunNew(l, t) ==
    LET k == links[l] IN
    /\ Runs(k, "change", "start")
    /\ Change(k).key = None
    /\ Update(l, NewChange(k, Create(Change(k), t), First(k).src, t))
    /\ \/ t >= k.last_gen_time /\ UNCHANGED <<events, raced>>
       \/ /\ t < k.last_gen_time /\ Event /\ raced' = raced \cup {"clock"}
    /\ UNCHANGED <<page, calls>>

\* Mutant: every change is applied as the newest.
RunReportedMutant(l) ==
    LET k == links[l] IN
    /\ Runs(k, "change", "start")
    /\ Change(k).key # None
    /\ ~(k.pending_ops # <<>> /\ Change(k).key = Head(k.pending_ops).key)
    /\ Update(l, Pop(ApplyNewest(k, Change(k), First(k).src)))
    /\ UNCHANGED <<page, calls, events, raced>>

\* ... a change the page reports, the newest or one to be put before others
RunReported(l) ==
    LET k == links[l] IN
    /\ Runs(k, "change", "start")
    /\ Change(k).key # None
    /\ ~(k.pending_ops # <<>> /\ Change(k).key = Head(k.pending_ops).key)
    /\ Update(l, IF Change(k).key < k.latest_key
                 THEN [k EXCEPT !.step = "read"]
                 ELSE Pop(ApplyNewest(k, Change(k), First(k).src)))
    /\ UNCHANGED <<page, calls, events, raced>>

\* IncrementalWriteCall is answered; a change that was not applied yet is
\* applied by reading the history again.
WriteDone(l, ok) ==
    LET k == links[l] IN
    /\ k.made /\ k.step = "write"
    /\ page' = IF ok THEN page \cup {Change(k)} ELSE page
    /\ Update(l, IF Change(k).key < k.latest_key
                 THEN [k EXCEPT !.step = "read"] ELSE Finish(k))
    /\ \/ ok /\ UNCHANGED <<events, raced>>
       \/ /\ ~ok /\ Event /\ raced' = raced \cup {"failed"}
    /\ UNCHANGED calls

\* Mutant: a replay is reported as the change that caused it.
ReloadCallMutant(l, t, ok) ==
    LET k == links[l] IN
    /\ k.made /\ k.step = "read" /\ ok
    /\ Update(l,
         IF Entries(page, l) # <<>>
         THEN Finish(NotifyIfChanged(k.doc, Replay(k, Entries(page, l)), Change(k),
                                     First(k).src))
         ELSE IF k.initial
         THEN NewChange([k EXCEPT !.initial = FALSE], Create(InitialData, t),
                        kWatchAllConnectionId, t)
         ELSE Finish(k))
    /\ raced' = raced \cup (IF k.initial /\ page # {} THEN {"preempted"} ELSE {})
    /\ UNCHANGED <<page, calls, events>>

\* ReloadCall: the history is replayed; a new link with none may have initial
\* data.  A read that fails looks like an empty history.
ReloadCall(l, t, ok) ==
    LET k == links[l]
        changes == IF ok THEN Entries(page, l) ELSE <<>> IN
    /\ k.made /\ k.step = "read"
    /\ Update(l,
         IF changes # <<>>
         THEN Finish(NotifyIfChanged(k.doc, Replay(k, changes), NoChange,
                                     kOnChangeConnectionId))
         ELSE IF k.initial
         THEN NewChange([k EXCEPT !.initial = FALSE], Create(InitialData, t),
                        kWatchAllConnectionId, t)
         ELSE Finish(k))
    /\ \/ /\ ok /\ UNCHANGED events
          /\ raced' = raced \cup
                (IF k.initial /\ changes # <<>> THEN {"preempted"} ELSE {})
       \/ ~ok /\ Event /\ raced' = raced \cup {"unread"}
    /\ UNCHANGED <<page, calls>>

\* WatchCall: the watcher is told the value there is.
RunWatch(l) ==
    LET k == links[l] IN
    /\ Runs(k, "watch", "start")
    /\ Update(l, Pop([k EXCEPT !.watchers =
            [w \in DOMAIN @ \cup {First(k).src} |->
                IF w = First(k).src THEN Told(k, w) ELSE @[w]]]))
    /\ UNCHANGED <<page, calls, events, raced>>

\* SyncCall of ConnectLinkCall
RunConnected(l) ==
    /\ Runs(links[l], "connected", "start")
    /\ Update(l, Pop(links[l]))
    /\ UNCHANGED <<page, calls, events, raced>>

\* SyncCall of RemoveConnection: a link still without connections is dropped.
RunOrphaned(l) ==
    LET k == links[l] IN
    /\ Runs(k, "orphaned", "start")
    /\ IF k.connections = {} /\ k.orphaned_handler
       THEN /\ Update(l, NoLink)
            /\ raced' = raced \cup (IF HasUnsent(k) THEN {"disposed"} ELSE {})
       ELSE Update(l, Pop(k)) /\ UNCHANGED raced
    /\ UNCHANGED <<page, calls, events>>

\* SyncCall of StopCall: after the last one all links are dropped, with what
\* their clients have asked for since; what was sent to the page stays sent.
RunStop(l) ==
    LET rest == Made \ {l}
        sent == {Change(links[m]) : m \in {n \in rest : links[n].step = "write"}} IN
    /\ Runs(links[l], "stop", "start")
    /\ IF \A m \in rest : Call("stop") \notin ToSet(links[m].queue)
       THEN /\ links' = [m \in Link |-> NoLink]
            /\ page' = page \cup sent
            /\ raced' = raced \cup (IF \E m \in Made : HasUnsent(links[m])
                                    THEN {"disposed"} ELSE {})
       ELSE Update(l, Pop(links[l])) /\ UNCHANGED <<page, raced>>
    /\ UNCHANGED <<calls, events>>

-----------------------------------------------------------------------------
Progress ==
    \E l \in Link :
      \/ OnChange(l) \/ RunEcho(l) \/ RunReported(l) \/ RunWatch(l)
      \/ RunConnected(l) \/ RunOrphaned(l) \/ RunStop(l)
      \/ \E t \in Time : RunNew(l, t)
      \/ \E ok \in BOOLEAN : WriteDone(l, ok)
      \/ \E t \in Time, ok \in BOOLEAN : ReloadCall(l, t, ok)

Environment ==
    \/ StopLinks
    \/ \E l \in Link : ConnectLinkCall(l)
    \/ \E l \in Link, t \in Time : RemoteChange(l, t)
    \/ \E l \in Made : \E id \in links[l].connections :
         \/ RemoveConnection(l, id)
         \/ Watch(l, id) \/ Watch(l, kWatchAllConnectionId)
         \/ MakeIncrementalChangeCall(l, id)

Next == Progress \/ Environment

Spec == Init /\ [][Next]_vars

\* Operations run, and the page answers them and reports its changes.
FairSpec == Spec /\ WF_vars(Progress)

-----------------------------------------------------------------------------
(* Properties *)

\* A link has nothing to do and the page nothing new for it.
Quiet(l) ==
    LET k == links[l] IN
    k.made /\ k.queue = <<>> /\ Entries(page \ k.watched, l) = <<>>

\* Whatever order changes come in, a quiet link holds the value of its own
\* history in the page, applied in the order of the keys, and waits for no
\* pending change.  Devices with the same page so show the same value.
QuietLinkIsReplay ==
    raced \cap {"failed", "unread", "clock"} = {} =>
        \A l \in Link : Quiet(l) =>
            /\ links[l].pending_ops = <<>>
            /\ links[l].doc = ApplyAll(InKeyOrder({c \in page : c.link = l}))

\* A client that watches a link knows its value at any time, with its own
\* changes that have not run yet applied to it, although it is not told of them
\* when they run: of every other change, and of a replay that puts its own
\* before others, it is told.  Excepted is a client that is behind: a value
\* crossed a change of its own, or initial data were written after a read that
\* failed while it used WatchAll; it is so until it is told again.
WatchersAreCurrent ==
    \A l \in Made : \A w \in DOMAIN links[l].watchers :
        ~links[l].watchers[w].behind => links[l].watchers[w].knows = links[l].doc

\* Every change a client has made, and the initial data, reach the page, unless
\* the link was dropped before it wrote the change, or another device was first.
ChangesReachPage ==
    <>[](raced \cap {"failed", "unread", "preempted", "disposed"} = {} =>
            1..calls + 1 \subseteq {c.val : c \in page})
=============================================================================
