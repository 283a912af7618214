---------------------------- MODULE StoryController -------------------------
(***************************************************************************)
(* The controller of one story: StoryControllerImpl with its queue of      *)
(* operations, the ModuleControllerImpl of every running module, and the   *)
(* page of the ledger that stores the modules of the story and is shared   *)
(* with other devices.                                                     *)
(*                                                                         *)
(* Operations run one at a time.  An operation that writes the data of a   *)
(* module waits until the page has reported the very data it wrote         *)
(* (blocked); everything else the page reports is taken for a change of    *)
(* another device and queued as an operation of its own.                   *)
(***************************************************************************)
EXTENDS Naturals, FiniteSets, Sequences, SequencesExt

CONSTANTS
    Module,      \* the paths of the modules
    Root,        \* the path of the root module
    Path,        \* the paths in the order of their keys: parents first
    Parent,      \* the parent of a path, or None
    Url,         \* the applications a path may run
    Stored,      \* what the page may hold when the controller is made
    None,
    MaxCalls,    \* calls of clients and modules
    MaxRemote,   \* writes of other devices
    MaxEvents,   \* state changes reported by modules
    MaxFaults    \* deaths of the story shell and failing writes

ASSUME PathAssumption ==
    /\ Root \in Module /\ None \notin Module
    /\ Path \in Seq(Module) /\ ToSet(Path) = Module /\ Len(Path) = Cardinality(Module)
    /\ Parent \in [Module -> Module \cup {None}] /\ Parent[Root] = None
    /\ \A i, j \in DOMAIN Path : Parent[Path[j]] = Path[i] => i < j

\* ModuleData.  An external module is added by the story or by another device;
\* the others by a module, with a view in the shell or embedded in its parent.
Data == [url : Url, how : {"external", "shell", "embedded"}, stopped : BOOLEAN]

ModuleState == {"STARTING", "RUNNING", "UNLINKED", "DONE", "STOPPED", "ERROR"}

\* What is kept of a running module.
Connection == [data : Data, st : ModuleState, down : BOOLEAN]

ASSUME DataAssumption ==
    /\ Stored \subseteq [Module -> Data \cup {None}]
    /\ None \notin Data /\ None \notin Module \X Data /\ None \notin Connection

VARIABLES
    ledger,    \* the data of every module, as the page holds it now
    seen,      \* ... and as it was when the page watcher was last told
    change,    \* the entries of the OnChange call under way
    story,     \* StoryControllerImpl
    budget,
    raced      \* the events named below that have happened

vars == <<ledger, seen, change, story, budget, raced>>

(* What the code does not guard against:                                   *)
(*   same       a blocking write left what the watcher knows: no change    *)
(*   overtaken  another device replaced the data before it was reported    *)
(*   undone     another device took a change back before it was reported   *)
(*   failed     the page refused a blocking write                          *)
(*   shell      the story shell died                                       *)
(*   ignored    a module was added or changed while no story was running   *)
(*   stale      an operation acted on data the page no longer held         *)
(*   crashed    Start found a root module that is not STARTING              *)
(*   unsent     a module came between views that wait and their anchor, and *)
(*              none was sent with it                                      *)

-----------------------------------------------------------------------------
(* The page and its watcher *)

Differences(old, new) == {<<m, new[m]>> : m \in {x \in Module : old[x] # new[x]}}

\* A commit: the watcher is told at once, or when it has taken the last change.
Commit(m, d) ==
    LET new == [ledger EXCEPT ![m] = d]
    IN /\ ledger' = new
       /\ IF change = {}
          THEN change' = Differences(seen, new) /\ seen' = new
          ELSE UNCHANGED <<change, seen>>

-----------------------------------------------------------------------------
(* StoryControllerImpl *)

Idle == [pc |-> "ready", m |-> None, data |-> None, got |-> None, todo |-> <<>>]

IsRunning(s) == s.state \in {"STARTING", "RUNNING", "DONE"}

Queued(s, op) == [s EXCEPT !.queue = Append(@, op)]

\* The state is saved by an operation at the end of the queue.
NotifyStateChange(s) == Queued(s, [kind |-> "save", state |-> s.state])

StoryStateOf(st) == IF st = "UNLINKED" THEN "RUNNING" ELSE st

\* Mutant: a module that closes its connection is not taken for running.
OnRootStateChangeMutant(s, st) ==
    IF st = "UNLINKED" THEN s ELSE NotifyStateChange([s EXCEPT !.state = st])

OnRootStateChange(s, st) == NotifyStateChange([s EXCEPT !.state = StoryStateOf(st)])

OnModuleStateChange(s, m, st) ==
    IF ~s.track THEN s
    ELSE LET a == IF m = Root THEN OnRootStateChange(s, st) ELSE s
         IN IF st = "DONE" /\ s.conns[m] # None /\ s.conns[m].data.how = "external"
            THEN Queued(a, [kind |-> "stopModule", m |-> m])
            ELSE a

\* ModuleControllerImpl reports its first state before it is a connection.
Launch(s, m, d) ==
    [OnModuleStateChange(s, m, "STARTING") EXCEPT
        !.conns[m] = [data |-> d, st |-> "STARTING", down |-> FALSE]]

Teardown(s, ms) ==
    [s EXCEPT !.conns = [m \in Module |->
        IF m \in ms THEN [s.conns[m] EXCEPT !.down = TRUE] ELSE s.conns[m]]]

Running(s) == {m \in Module : s.conns[m] # None}

\* The nearest ancestor that is not embedded, if all those between are running.
FindAnchor(s, m) ==
    LET up[x \in Module] ==
            LET p == Parent[x]
            IN IF p = None \/ p \notin Running(s) THEN None
               ELSE IF s.conns[p].data.how = "embedded" THEN up[p] ELSE p
    IN up[m]

\* ConnectView
Connected(s, ms) ==
    [s EXCEPT !.views = @ \cup ms, !.pending = @ \ ms]

\* Mutant: the views that wait for the new one are not looked at.
ProcessPendingViewsMutant(s) == s

\* The views that can be sent: it is repeated until none is left whose anchor
\* has been sent by then.
Sendable(s) ==
    LET waiting == s.pending \cap Running(s)
        Closed(ms) == \A m \in waiting : FindAnchor(s, m) \in s.views \cup ms => m \in ms
    IN {m \in waiting : \A ms \in SUBSET waiting : Closed(ms) => m \in ms}

ProcessPendingViews(s) == Connected(s, Sendable(s))

\* A module is sent at once if it is a root module or its anchor is known.
Anchored(s, m) == Parent[m] = None \/ FindAnchor(s, m) \in s.views

\* StartModuleInShellCall::Cont, when the module is running.
ShowModule(s, m) ==
    IF s.shell = "none" THEN s
    ELSE IF Anchored(s, m)
    THEN ProcessPendingViews(Connected(s, {m}))
    ELSE [s EXCEPT !.pending = @ \cup {m}]

\* The operation at the head of the queue ends, the next one is scheduled.
Done(s) == [s EXCEPT !.queue = Tail(@), !.run = Idle]

\* The next module of StartCall, or the end of the operation.
StartNext(s) ==
    IF s.run.todo = <<>> THEN Done(s)
    ELSE [s EXCEPT !.run = [Idle EXCEPT !.pc = "read", !.m = Head(s.run.todo)[1],
                            !.data = Head(s.run.todo)[2], !.todo = Tail(s.run.todo)]]

\* The end of StartModuleCall.
Started(s) ==
    StartNext(IF s.run.data.how = "embedded" THEN s ELSE ShowModule(s, s.run.m))

\* StartModuleCall begins for the data of the operation at the head.
StartModule(s, m, d) ==
    [s EXCEPT !.run.pc = "read", !.run.m = m, !.run.data = [d EXCEPT !.stopped = FALSE]]

\* BlockingModuleDataWriteCall is created.
Write(s, m, d) ==
    [s EXCEPT !.run.pc = "write", !.run.m = m, !.run.data = d, !.blocked = <<m, d>>]

KillContinues(s) ==
    IF s.run.m \in Running(s)
    THEN [Teardown(s, {s.run.m}) EXCEPT !.run.pc = "killing"]
    ELSE Done(s)

\* StopCall::Cleanup.  After a DeleteCall the controller is destroyed.
Cleanup(s) ==
    LET a == [s EXCEPT !.shell = "none", !.conns = [m \in Module |-> None], !.state = "STOPPED"]
    IN IF Head(s.queue).kind = "delete"
       THEN [a EXCEPT !.queue = <<>>, !.run = [Idle EXCEPT !.pc = "gone"]]
       ELSE Done(NotifyStateChange(a))

\* The entries of some modules in the order of their keys.
InKeyOrder(entries) ==
    LET Before(m, n) == \E i, j \in DOMAIN Path : i < j /\ Path[i] = m /\ Path[j] = n
    IN {q \in SeqOf(entries, Len(Path)) :
          /\ ToSet(q) = entries
          /\ \A i, j \in DOMAIN q : i < j => Before(q[i][1], q[j][1])}

\* The operations for the changes of some modules.
Notifications(changes) ==
    {[i \in DOMAIN q |-> [kind |-> "notification", m |-> q[i][1], data |-> q[i][2]]] :
        q \in InKeyOrder(changes)}

\* Mutant: a change that an operation waits for is also taken for a remote one.
OnPageChangeMutant(s, changes) ==
    {[s EXCEPT !.queue = @ \o ops] : ops \in Notifications(changes)}

\* What the page reports is either what an operation waits for, or a change.
OnPageChange(s, changes) ==
    {[s EXCEPT !.queue = @ \o ops, !.blocked = IF @ \in changes THEN None ELSE @] :
        ops \in Notifications(changes \ {s.blocked})}

Init ==
    /\ ledger \in Stored /\ seen = ledger /\ change = {}
    /\ story = [state |-> "INITIAL", saved |-> "INITIAL", track |-> TRUE, shell |-> "none",
                conns |-> [m \in Module |-> None], views |-> {}, pending |-> {},
                queue |-> <<>>, run |-> Idle, blocked |-> None]
    /\ budget = [calls |-> MaxCalls, remote |-> MaxRemote, events |-> MaxEvents,
                 faults |-> MaxFaults]
    /\ raced = {}

-----------------------------------------------------------------------------
(* Calls of clients and modules, and what happens outside *)

Alive == story.run.pc # "gone"
At(pc) == story.queue # <<>> /\ story.run.pc = pc

Call(op) ==
    /\ Alive /\ budget.calls > 0
    /\ budget' = [budget EXCEPT !.calls = @ - 1]
    /\ story' = Queued(story, op)
    /\ UNCHANGED <<ledger, seen, change, raced>>

Start == Call([kind |-> "start"])
Stop == Call([kind |-> "stop"])
Delete == Call([kind |-> "delete"])
AddModule(m) ==
    \E url \in Url :
        Call([kind |-> "add", m |-> m,
              data |-> [url |-> url, how |-> "external", stopped |-> FALSE]])

\* ModuleController.Stop
StopModule(m) ==
    /\ m \in Running(story)
    /\ Call([kind |-> "stopModule", m |-> m])

\* ModuleContext: StartModuleInShell, or EmbedModule and StartModule with
\* services, which start the module anew when it runs.
ModuleStarts(m) ==
    /\ Parent[m] \in Running(story)
    /\ \E url \in Url, how \in {"shell", "embedded"} :
           Call([kind |-> "startModule", m |-> m,
                 data |-> [url |-> url, how |-> how, stopped |-> FALSE]])

\* Another device adds, starts or stops a module of the story.
RemoteWrites(m) ==
    /\ budget.remote > 0
    /\ \E d \in {x \in Data : x.how = "external"}
                \cup (IF ledger[m] = None THEN {} ELSE {[ledger[m] EXCEPT !.stopped = TRUE]}) :
        /\ d # ledger[m]
        /\ Commit(m, d)
        /\ raced' = raced
             \cup (IF /\ story.run.pc = "blocked" /\ story.blocked = <<m, ledger[m]>>
                      /\ story.blocked \notin change
                   THEN {"overtaken"} ELSE {})
             \cup (IF change # {} /\ d = seen[m] THEN {"undone"} ELSE {})
    /\ budget' = [budget EXCEPT !.remote = @ - 1]
    /\ UNCHANGED story

\* The page watcher is called, and then with what has happened since.
PageReports ==
    /\ Alive /\ change # {}
    /\ story' \in OnPageChange(story, change)
    /\ change' = Differences(seen, ledger)
    /\ seen' = ledger
    /\ UNCHANGED <<ledger, budget, raced>>

\* Ready, Done, the end of the connection to the module or of its application.
ModuleReports(m, st) ==
    /\ m \in Running(story) /\ budget.events > 0
    /\ st # story.conns[m].st
    /\ \/ st \in {"RUNNING", "DONE"}
       \/ /\ st = "UNLINKED" /\ story.conns[m].st = "STARTING" /\ ~story.conns[m].down
       \/ /\ st = "ERROR" /\ ~story.conns[m].down
    /\ story' = OnModuleStateChange([story EXCEPT !.conns[m].st = st], m, st)
    /\ budget' = [budget EXCEPT !.events = @ - 1]
    /\ UNCHANGED <<ledger, seen, change, raced>>

\* The story shell has died; the controller notices when it waits for an answer.
ShellDies ==
    /\ At("defocus") /\ story.shell = "up" /\ budget.faults > 0
    /\ story' = [story EXCEPT !.shell = "dead"]
    /\ budget' = [budget EXCEPT !.faults = @ - 1]
    /\ raced' = raced \cup {"shell"}
    /\ UNCHANGED <<ledger, seen, change>>

-----------------------------------------------------------------------------
(* The operation at the head of the queue *)

Begins(kind) == At("ready") /\ Head(story.queue).kind = kind
Becomes(s) == story' = s /\ UNCHANGED <<ledger, seen, change, budget>>
Only(s) == Becomes(s) /\ UNCHANGED raced
Race(s, e) == Becomes(s) /\ raced' = raced \cup {e}

\* The WriteDataCall of NotifyStateChange.
SaveState ==
    /\ Begins("save")
    /\ Only(Done([story EXCEPT !.saved = Head(story.queue).state]))

\* StartCall: a story that runs is left alone, else it gets a new shell.
StartRuns ==
    /\ Begins("start")
    /\ IF IsRunning(story) THEN Only(Done(story))
       ELSE /\ Becomes([story EXCEPT !.track = TRUE, !.shell = "up",
                                     !.run.pc = "readAll"])
            /\ raced' = raced \cup
                   IF story.conns[Root] # None /\ story.conns[Root].st # "STARTING"
                   THEN {"crashed"} ELSE {}

\* ... and all external modules that are not stopped are started in it.
StartReads ==
    /\ At("readAll")
    /\ LET ms == {m \in Module : ledger[m] # None /\ ledger[m].how = "external"
                                                 /\ ~ledger[m].stopped}
       IN \E todo \in InKeyOrder({<<m, ledger[m]>> : m \in ms}) :
             Only(StartNext(NotifyStateChange([story EXCEPT
                     !.run.todo = todo, !.state = "STARTING"])))

\* Mutant: a stopped module is not killed.
NotificationRunsMutant ==
    /\ Begins("notification")
    /\ LET op == Head(story.queue)
       IN Only(IF op.data.how # "external" \/ op.data.stopped \/ ~IsRunning(story)
               THEN Done(story) ELSE StartModule(story, op.m, op.data))

\* LedgerNotificationCall
NotificationRuns ==
    /\ Begins("notification")
    /\ LET op == Head(story.queue)
           s  == IF op.data.stopped
                 THEN IF op.m \in Running(story)
                      THEN [story EXCEPT !.run.pc = "kill", !.run.m = op.m, !.run.data = op.data]
                      ELSE Done(story)
                 ELSE StartModule(story, op.m, op.data)
       IN IF op.data.how # "external" THEN Only(Done(story))
          ELSE IF ~IsRunning(story) THEN Race(Done(story), "ignored")
          ELSE /\ Becomes(s)
               /\ raced' = IF op.data # ledger[op.m] THEN raced \cup {"stale"} ELSE raced

\* ModuleContext.StartModule and its kin do not ask whether the story runs.
StartModuleRuns ==
    /\ Begins("startModule")
    /\ Only(StartModule(story, Head(story.queue).m, Head(story.queue).data))

\* AddModuleCall writes without looking.
AddRuns ==
    /\ Begins("add")
    /\ Only(Write(story, Head(story.queue).m, Head(story.queue).data))

StopModuleRuns ==
    /\ Begins("stopModule")
    /\ Only([story EXCEPT !.run.pc = "read", !.run.m = Head(story.queue).m])

\* ReadDataCall takes the data from the page ...
DataRead ==
    /\ At("read")
    /\ Only([story EXCEPT !.run.pc = "answer", !.run.got = ledger[story.run.m]])

\* ... and answers later: StartModuleCall writes unless it is what it wants,
\* StopModuleCall unless the module is marked as stopped.
DataAnswered ==
    /\ At("answer")
    /\ LET r == story.run
       IN IF Head(story.queue).kind = "stopModule"
          THEN Only(IF r.got.stopped
                    THEN [story EXCEPT !.run.pc = "kill", !.run.data = r.got]
                    ELSE Write(story, r.m, [r.got EXCEPT !.stopped = TRUE]))
          ELSE Only(IF r.got = r.data THEN [story EXCEPT !.run.pc = "launch"]
                    ELSE Write(story, r.m, r.data))

\* The page takes the write of BlockingModuleDataWriteCall.
DataWritten ==
    /\ At("write")
    /\ Commit(story.run.m, story.run.data)
    /\ story' = [story EXCEPT !.run.pc = "blocked"]
    /\ raced' = IF story.blocked \notin change \cup {None} /\ seen[story.run.m] = story.run.data
                THEN raced \cup {"same"} ELSE raced
    /\ UNCHANGED budget

\* Put fails: the status is only logged.
WriteFails ==
    /\ At("write") /\ budget.faults > 0
    /\ story' = [story EXCEPT !.run.pc = "blocked"]
    /\ budget' = [budget EXCEPT !.faults = @ - 1]
    /\ raced' = raced \cup {"failed"}
    /\ UNCHANGED <<ledger, seen, change>>

\* BlockingModuleDataWriteCall was continued by OnPageChange.  The first write
\* of AddModuleCall is its own; a second one is that of its StartModuleCall.
DataReported ==
    /\ At("blocked") /\ story.blocked = None
    /\ LET k == Head(story.queue).kind
           adds == k = "add" /\ story.run.got = None
       IN /\ Becomes(CASE k = "stopModule" -> [story EXCEPT !.run.pc = "kill"]
                       [] adds /\ IsRunning(story) ->
                            StartModule(story, story.run.m, story.run.data)
                       [] adds /\ ~IsRunning(story) -> Done(story)
                       [] OTHER -> [story EXCEPT !.run.pc = "launch"])
          /\ raced' = IF adds /\ ~IsRunning(story) THEN raced \cup {"ignored"} ELSE raced

\* A module is launched while views wait, and none is sent with it: it is
\* embedded, or its own view must wait although one of it was sent before.
Unsent(s, m, d) ==
    IF s.pending # {} /\ (d.how = "embedded" \/ (m \in s.views /\ ~Anchored(s, m)))
    THEN {"unsent"} ELSE {}

\* LaunchModuleCall
LaunchRuns ==
    /\ At("launch")
    /\ LET m == story.run.m  d == story.run.data
           new == m \notin Running(story)
       IN /\ Becomes(IF new THEN Started(Launch(story, m, d))
                     ELSE IF \/ story.conns[m].data.url # d.url
                             \/ d.how = "embedded"
                     THEN [Teardown(story, {m}) EXCEPT !.run.pc = "relaunch"]
                     ELSE Started(story))
          /\ raced' = raced \cup IF new THEN Unsent(story, m, d) ELSE {}

\* KillModuleCall: the shell is asked first to take the view of an external module away.
KillRuns ==
    /\ At("kill")
    /\ Only(IF story.shell # "none" /\ story.run.data.how = "external"
            THEN [story EXCEPT !.run.pc = "defocus"]
            ELSE KillContinues(story))

ViewDefocused ==
    /\ At("defocus") /\ story.shell = "up"
    /\ Only(KillContinues(story))

\* The application of a module has stopped, or is killed after a timeout.
ModuleDown(m) ==
    /\ m \in Running(story) /\ story.conns[m].down
    /\ LET a == OnModuleStateChange([story EXCEPT !.conns[m].st = "STOPPED"], m, "STOPPED")
           s == [a EXCEPT !.conns[m] = None, !.pending = @ \ {m}]
           again == s.run.pc = "relaunch"
       IN /\ Becomes(CASE again -> Started(Launch(s, m, s.run.data))
                       [] s.run.pc = "killing"  -> Done(s)
                       [] s.run.pc = "stopping" ->
                            IF Running(s) = {} THEN [s EXCEPT !.run.pc = "stopShell"] ELSE s)
          /\ raced' = raced \cup IF again THEN Unsent(s, m, s.run.data) ELSE {}

\* StopCall, also as part of DeleteCall.
StopRuns ==
    /\ Begins("stop") \/ Begins("delete")
    /\ Only([Teardown(story, Running(story)) EXCEPT !.track = FALSE,
                !.run.pc = IF Running(story) = {} THEN "stopShell" ELSE "stopping"])

\* The shell is down, and the links have written what they had to write.
StopEnds ==
    /\ At("stopShell")
    /\ Only(Cleanup(story))

Runs ==
    \/ SaveState \/ StartRuns \/ StartReads \/ NotificationRuns \/ StartModuleRuns
    \/ AddRuns \/ StopModuleRuns \/ DataRead \/ DataAnswered \/ DataWritten \/ DataReported
    \/ LaunchRuns \/ KillRuns \/ ViewDefocused \/ StopRuns \/ StopEnds

Progress == Runs \/ PageReports \/ \E m \in Module : ModuleDown(m)

Next ==
    \/ Start \/ Stop \/ Delete \/ ShellDies \/ WriteFails \/ Progress
    \/ \E m \in Module :
          \/ AddModule(m) \/ StopModule(m) \/ ModuleStarts(m) \/ RemoteWrites(m)
          \/ \E st \in ModuleState : ModuleReports(m, st)

Spec == Init /\ [][Next]_vars

\* The message loop runs; the page, the shell and a module's Teardown answer.
FairSpec == Spec /\ WF_vars(Progress)

-----------------------------------------------------------------------------
(* Properties *)

Rest == Alive /\ story.queue = <<>> /\ change = {}

\* The operations of a story never wait for ever, so that Stop is answered: the
\* data an operation waits for is reported, modules and shell are torn down.
\* The exceptions are the races and the error in which the report never comes,
\* and a shell that dies with the answer to DefocusView.
QueueDrains == []<>(story.queue = <<>> \/ raced \cap {"same", "overtaken", "failed", "shell"} # {})

\* When a running story rests, the external modules that run are those the page
\* says should run, on all devices, whoever added or stopped them in which
\* order.  Changes that came while the root module had stopped or failed are
\* lost, an operation that acts on old data may undo a newer one, and one that
\* acts on a change is not told when that is taken back.
RunsWhatIsStored ==
    Rest /\ IsRunning(story) /\ raced \cap {"stale", "ignored", "undone"} = {} =>
        \A m \in Module :
            ledger[m] # None /\ ledger[m].how = "external" =>
                IF ledger[m].stopped THEN m \notin Running(story)
                ELSE m \in Running(story) /\ story.conns[m].data.url = ledger[m].url

\* The state of a story that was started mirrors that of its root module
\* (OnRootStateChange), through restarts, kills and crashes; but Start of a story
\* whose root module is there in another state than STARTING says STARTING.
StateFollowsRoot ==
    Alive /\ story.track /\ story.conns[Root] # None /\ "crashed" \notin raced =>
        story.state = StoryStateOf(story.conns[Root].st)

\* No view is kept back from the shell whose anchor has been sent
\* (ProcessPendingViews), in whatever order the modules were started; but a
\* module that comes between them without sending a view does not look.
NoViewForgotten ==
    story.shell # "none" /\ "unsent" \notin raced =>
        \A m \in story.pending : FindAnchor(story, m) \notin story.views

=============================================================================
