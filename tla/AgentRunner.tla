---------------------------- MODULE AgentRunner ----------------------------
(***************************************************************************)
(* Agents of the modular framework (bin/agent_runner): AgentRunner, which  *)
(* starts an agent for a connection or a task, waits for one that is       *)
(* terminating and starts it again, and tears all of them down;            *)
(* AgentRunnerStorageImpl, which keeps the persistent tasks in a page of   *)
(* the ledger; and AgentContextImpl, which runs the operations of one      *)
(* agent in an OperationQueue and stops the agent when nobody uses it any  *)
(* more.                                                                   *)
(*                                                                         *)
(* An operation is posted as a task when it becomes the first of its       *)
(* queue; InitializeCall and StopCall then wait for an answer.  When an    *)
(* agent is removed its context and the rest of its queue are destroyed.   *)
(* An agent has one task with an alarm, persistent or not, and one with a  *)
(* message queue, not persistent.                                          *)
(*                                                                         *)
(* A process that ends leaves only the page behind: it starts again in one *)
(* of the initial states.                                                  *)
(***************************************************************************)
EXTENDS Naturals, Sequences, FiniteSets, SequencesExt

CONSTANTS
    Agent,        \* agent urls
    Tasked,       \* the agents that schedule tasks
    MaxCalls,     \* connections, triggers, and calls of ScheduleTask and DeleteTask
    MaxFaults     \* agent processes that die and calls of the page that fail

ASSUME AgentAssumption == IsFiniteSet(Agent) /\ Tasked \subseteq Agent

ASSUME BoundAssumption == MaxCalls \in Nat /\ MaxFaults \in Nat

VARIABLES
    agents,       \* what AgentRunner and the AgentContextImpl keep per agent
    stored,       \* agents whose alarm task is in the page
    reported,     \* what the page has told AgentRunnerStorageImpl of them
    queue,        \* operation_queue_ of AgentRunnerStorageImpl
    told,         \* the agents an AgentProviderWatcher was last told
    terminating,  \* *terminating_
    torn,         \* the callback of Teardown was called
    calls, faults,
    raced         \* what has happened that the properties except

storage == <<stored, reported, queue>>
limits == <<calls, faults>>
vars == <<agents, storage, told, terminating, torn, limits, raced>>

Operation == {"init", "connect", "entity", "task", "stop", "teardown"}
Callback == {"connect", "entity", "task", "alarm"}
Event == {"behindStop", "entityTwice", "alarmDeleted", "unkeyed", "restarted", "unread"}

AgentState == [up : BOOLEAN,             \* in running_agents_
               state : {"INITIALIZING", "RUNNING", "TERMINATING"},
               ops : Seq(Operation),     \* operation_queue_
               busy : BOOLEAN,           \* the first operation waits for an answer
               conns : Nat,              \* agent_controller_bindings_
               tasks : Nat,              \* incomplete_task_count_
               waiting : Nat,            \* pending_agent_connections_
               entity : BOOLEAN,         \* pending_entity_provider_connections_
               callbacks : Seq(Callback),\* run_agent_callbacks_
               watched : BOOLEAN,        \* watched_queues_
               alarm : BOOLEAN,          \* running_alarms_
               due : Nat,                \* delayed tasks of ScheduleAlarmTask
               known : BOOLEAN,          \* the alarm is in task_by_ledger_key_
               unstored : BOOLEAN,       \* an alarm was scheduled that is not persistent,
                                         \* and no DeleteTask has run since
               owed : Nat]               \* requests accepted and not yet served

Init ==
    /\ agents = [a \in Agent |->
                    [up |-> FALSE, state |-> "INITIALIZING", ops |-> <<>>, busy |-> FALSE,
                     conns |-> 0, tasks |-> 0, waiting |-> 0, entity |-> FALSE,
                     callbacks |-> <<>>, watched |-> FALSE, alarm |-> FALSE, due |-> 0,
                     known |-> FALSE, unstored |-> FALSE, owed |-> 0]]
    /\ stored \in SUBSET Tasked       \* what an earlier process left
    /\ reported = stored
    /\ queue = <<[op |-> "initialize", tasks |-> stored]>>
    /\ told = {}                       \* Watch tells a new watcher at once
    /\ terminating = FALSE /\ torn = FALSE
    /\ calls = 0 /\ faults = 0
    /\ raced = {}

-----------------------------------------------------------------------------
(* AgentRunner: the list of agents *)

GetAllAgents(ag) == {a \in Agent : ag[a].up \/ ag[a].watched \/ ag[a].alarm}

\* UpdateWatchers, when the agents become ag.
UpdateWatchers(ag) ==
    told' = IF terminating THEN told ELSE GetAllAgents(ag)

-----------------------------------------------------------------------------
(* AgentRunner: starting an agent *)

\* A SyncCall or StopCall joins the queue of the agent's context.
Queue(r, op) == [r EXCEPT !.ops = Append(@, op)]

\* ScheduleAlarmTask for a new request: an alarm that is known is only updated.
ScheduleAlarmTask(r) == IF r.alarm THEN r ELSE [r EXCEPT !.alarm = TRUE, !.due = @ + 1]

\* ForwardConnectionsToAgent: all the connections that wait join the queue.
ForwardConnectionsToAgent(r) == [i \in 1..r.waiting |-> "connect"]

\* The operations that the i-th of some callbacks adds to the queue: connections
\* are forwarded, and the entity connection taken, by the first that asks.
Posts(r, callbacks, i) ==
    LET first == \A k \in 1..(i - 1) : callbacks[k] # callbacks[i] IN
    CASE callbacks[i] = "connect" -> IF first THEN ForwardConnectionsToAgent(r) ELSE <<>>
      [] callbacks[i] = "entity"  -> IF first /\ r.entity THEN <<"entity">> ELSE <<>>
      [] callbacks[i] \in {"task", "alarm"} -> <<"task">>

\* Callbacks that the callers of MaybeRunAgent handed over, one after the other;
\* one of an alarm ends in ScheduleAlarmTask, for a request that is not new.
Done(r, callbacks) ==
    [r EXCEPT !.ops = @ \o FlattenSeq([i \in DOMAIN callbacks |-> Posts(r, callbacks, i)]),
              !.waiting = IF "connect" \in ToSet(callbacks) THEN 0 ELSE @,
              !.entity = @ /\ "entity" \notin ToSet(callbacks),
              !.alarm = @ \/ "alarm" \in ToSet(callbacks),
              !.due = @ + Cardinality({i \in DOMAIN callbacks : callbacks[i] = "alarm"})]

\* RunAgent: a new context, then every callback that waited for it.
RunAgent(r) ==
    [Done([r EXCEPT !.up = TRUE, !.state = "INITIALIZING", !.ops = <<"init">>,
                    !.busy = FALSE, !.conns = 0, !.tasks = 0],
          r.callbacks)
     EXCEPT !.callbacks = <<>>]

\* Mutant: an agent that is terminating is taken for a running one.
MaybeRunAgentMutant(r, callback) ==
    IF r.up THEN Done(r, <<callback>>)
    ELSE RunAgent([r EXCEPT !.callbacks = Append(@, callback)])

\* MaybeRunAgent
MaybeRunAgent(r, callback) ==
    CASE r.up /\ r.state # "TERMINATING" -> Done(r, <<callback>>)
      [] r.up /\ r.state = "TERMINATING" -> [r EXCEPT !.callbacks = Append(@, callback)]
      [] ~r.up -> RunAgent([r EXCEPT !.callbacks = Append(@, callback)])

\* A request that reaches the context while a StopCall is in its queue shares
\* the fate of the agent; the second of two entity connections that wait for
\* one agent replaces the first, and its callback finds nothing.
Races(r, callback) ==
    (IF r.up /\ r.state # "TERMINATING" /\ \E i \in DOMAIN r.ops : r.ops[i] \in {"stop", "teardown"}
     THEN {"behindStop"} ELSE {})
    \cup (IF callback = "entity" /\ r.entity THEN {"entityTwice"} ELSE {})

Called == calls < MaxCalls /\ calls' = calls + 1

Asks(a, callback, r) ==
    /\ ~terminating
    /\ Called
    /\ agents' = [agents EXCEPT ![a] = MaybeRunAgent(r, callback)]
    /\ IF agents[a].up THEN UNCHANGED told ELSE UpdateWatchers(agents')
    /\ raced' = raced \cup Races(agents[a], callback)
    /\ UNCHANGED <<storage, terminating, torn, faults>>

ConnectToAgent(a) ==
    Asks(a, "connect", [agents[a] EXCEPT !.waiting = @ + 1, !.owed = @ + 1])

\* There is one place for an entity connection that waits.
ConnectToEntityProvider(a) ==
    Asks(a, "entity", [agents[a] EXCEPT !.entity = TRUE, !.owed = @ + 1])

\* The watcher of ScheduleMessageQueueTask: a message for the queue.
MessageArrives(a) ==
    /\ agents[a].watched
    /\ Asks(a, "task", agents[a])

\* The delayed task of ScheduleAlarmTask, for an alarm that is still wanted.
AlarmFires(a) ==
    /\ agents[a].due > 0 /\ agents[a].alarm
    /\ Asks(a, "alarm", [agents[a] EXCEPT !.due = @ - 1])

\* The same, after the task was deleted or Teardown has begun.
AlarmExpires(a) ==
    /\ agents[a].due > 0
    /\ terminating \/ ~agents[a].alarm
    /\ agents' = [agents EXCEPT ![a].due = @ - 1]
    /\ UNCHANGED <<storage, told, terminating, torn, limits, raced>>

-----------------------------------------------------------------------------
(* Tasks *)

AddedTask(r) == [ScheduleAlarmTask(r) EXCEPT !.known = TRUE]
DeleteAlarmTask(r) == [r EXCEPT !.alarm = FALSE]
DeletedTask(r) == IF r.known THEN [DeleteAlarmTask(r) EXCEPT !.known = FALSE] ELSE r

Schedules ==
    /\ Called
    /\ UNCHANGED <<stored, reported, terminating, torn, faults, raced>>

\* ScheduleTask for a queue, not persistent: AddedTask at once.
ScheduleQueueTask(a) ==
    /\ ~agents[a].watched
    /\ agents' = [agents EXCEPT ![a].watched = TRUE]
    /\ UpdateWatchers(agents')
    /\ Schedules /\ UNCHANGED queue

\* ScheduleTask for an alarm, not persistent.
ScheduleAlarm(a) ==
    /\ agents' = [agents EXCEPT ![a] = [AddedTask(@) EXCEPT !.unstored = TRUE]]
    /\ UpdateWatchers(agents')
    /\ Schedules /\ UNCHANGED queue

\* ScheduleTask for an alarm, persistent, and DeleteTask: the page first.
StoresTask(a, op) ==
    /\ queue' = Append(queue, [op |-> op, tasks |-> {a}])
    /\ Schedules /\ UNCHANGED <<agents, told>>

\* AgentRunnerStorageImpl runs the first of its operations.
Storage(op) == queue # <<>> /\ Head(queue).op = op /\ queue' = Tail(queue)
Fails == faults < MaxFaults /\ faults' = faults + 1

\* InitializeCall: the tasks of the page when the process started.
InitializeCall ==
    /\ Storage("initialize")
    /\ agents' = [a \in Agent |-> IF a \in Head(queue).tasks THEN AddedTask(agents[a])
                                  ELSE agents[a]]
    /\ IF Head(queue).tasks = {} THEN UNCHANGED told ELSE UpdateWatchers(agents')
    /\ UNCHANGED <<stored, reported, terminating, torn, limits, raced>>

WriteTaskCall ==
    /\ Storage("write")
    /\ stored' = stored \cup Head(queue).tasks
    /\ UNCHANGED <<agents, reported, told, terminating, torn, limits, raced>>

\* DeleteTaskCall: the alarm is deleted when the page reports that the key is
\* gone.  Of an alarm without a key there it reports nothing.
DeleteTaskCall ==
    LET tasks == Head(queue).tasks
        unkeyed == {a \in tasks \ reported : agents[a].unstored /\ agents[a].alarm} IN
    /\ Storage("delete")
    /\ stored' = stored \ tasks
    /\ agents' = [a \in Agent |-> IF a \in tasks THEN [agents[a] EXCEPT !.unstored = FALSE]
                                  ELSE agents[a]]
    /\ raced' = raced \cup (IF unkeyed # {} THEN {"unkeyed"} ELSE {})
    /\ UNCHANGED <<reported, told, terminating, torn, limits>>

\* The page refuses any of them.  Tasks that are not read stay unknown.
StorageFails ==
    /\ Storage("initialize") \/ Storage("write") \/ Storage("delete")
    /\ Fails
    /\ raced' = raced \cup (IF Head(queue).op = "initialize" THEN {"unread"} ELSE {})
    /\ UNCHANGED <<agents, stored, reported, told, terminating, torn, calls>>

\* The orders in which the page may list the keys S.
Listed(S) == {s \in [1..Cardinality(S) -> S] : ToSet(s) = S}

\* One operation for each key.
Each(op, s) == [i \in DOMAIN s |-> [op |-> op, tasks |-> {s[i]}]]

\* The page reports all that has changed since it last did; each change joins
\* the queue (OnPageChange, OnPageDelete).
PageReports ==
    /\ stored # reported
    /\ reported' = stored
    /\ \E added \in Listed(stored \ reported), deleted \in Listed(reported \ stored) :
          queue' = queue \o Each("added", added) \o Each("deleted", deleted)
    /\ UNCHANGED <<agents, stored, told, terminating, torn, limits, raced>>

TaskAdded ==
    /\ Storage("added")
    /\ agents' = [a \in Agent |-> IF a \in Head(queue).tasks THEN AddedTask(agents[a])
                                  ELSE agents[a]]
    /\ UpdateWatchers(agents')
    /\ UNCHANGED <<stored, reported, terminating, torn, limits, raced>>

\* Mutant: the alarm of a deleted task is kept.
TaskDeletedMutant ==
    /\ Storage("deleted")
    /\ UNCHANGED <<agents, stored, reported, told, terminating, torn, limits, raced>>

\* An alarm that waits for its agent uses its entry afterwards.
TaskDeleted ==
    LET tasks == {a \in Head(queue).tasks : agents[a].known} IN
    /\ Storage("deleted")
    /\ agents' = [a \in Agent |-> IF a \in tasks THEN DeletedTask(agents[a]) ELSE agents[a]]
    /\ IF tasks = {} THEN UNCHANGED told ELSE UpdateWatchers(agents')
    /\ raced' = raced \cup
          (IF \E a \in tasks : "alarm" \in ToSet(agents[a].callbacks)
           THEN {"alarmDeleted"} ELSE {})
    /\ UNCHANGED <<stored, reported, terminating, torn, limits>>

-----------------------------------------------------------------------------
(* AgentRunner: removing an agent *)

\* Connections in the queue of an agent's context.
Queued(r) == Cardinality({i \in DOMAIN r.ops : r.ops[i] \in {"connect", "entity"}})

\* Mutant: watchers are not told that an agent is gone.
RemoveAgentMutant(a, refused) ==
    LET gone == [agents[a] EXCEPT !.up = FALSE, !.state = "INITIALIZING", !.ops = <<>>,
                                  !.busy = FALSE, !.conns = 0, !.tasks = 0,
                                  !.owed = @ - refused]
        last == terminating /\ \A b \in Agent \ {a} : ~agents[b].up
    IN /\ agents' = [agents EXCEPT ![a] = IF ~last /\ gone.callbacks # <<>>
                                          THEN RunAgent(gone) ELSE gone]
       /\ torn' = (torn \/ last)
       /\ UNCHANGED <<told, raced>>

\* RemoveAgent: the context is destroyed with its queue.  The last agent ends
\* a Teardown; an agent that is asked for is started again.
RemoveAgent(a, refused) ==
    LET gone == [agents[a] EXCEPT !.up = FALSE, !.state = "INITIALIZING", !.ops = <<>>,
                                  !.busy = FALSE, !.conns = 0, !.tasks = 0,
                                  !.owed = @ - refused]
        last == terminating /\ \A b \in Agent \ {a} : ~agents[b].up
        again == ~last /\ gone.callbacks # <<>>
    IN /\ agents' = [agents EXCEPT ![a] = IF again THEN RunAgent(gone) ELSE gone]
       /\ UpdateWatchers(agents')
       /\ torn' = (torn \/ last)
       /\ raced' = raced \cup (IF again /\ terminating THEN {"restarted"} ELSE {})

\* Mutant: agents that are still starting are not told.
TeardownMutant ==
    /\ ~terminating
    /\ terminating' = TRUE
    /\ torn' = \A a \in Agent : ~agents[a].up
    /\ agents' = [a \in Agent |-> IF agents[a].up /\ agents[a].state # "INITIALIZING"
                                   THEN Queue(agents[a], "teardown") ELSE agents[a]]
    /\ UNCHANGED <<storage, told, limits, raced>>

\* Teardown asks every agent to stop and waits for the last.
Teardown ==
    /\ ~terminating
    /\ terminating' = TRUE
    /\ torn' = \A a \in Agent : ~agents[a].up
    /\ agents' = [a \in Agent |-> IF agents[a].up THEN Queue(agents[a], "teardown") ELSE agents[a]]
    /\ UNCHANGED <<storage, told, limits, raced>>

\* The delayed task of Teardown: the runner is destroyed, whatever still runs.
TeardownTimeout ==
    /\ terminating /\ ~torn
    /\ torn' = TRUE
    /\ UNCHANGED <<agents, storage, told, terminating, limits, raced>>

-----------------------------------------------------------------------------
(* AgentContextImpl *)

Runs(a, op) == agents[a].up /\ agents[a].ops # <<>> /\ ~agents[a].busy /\ Head(agents[a].ops) = op
Waits(a, ops) == agents[a].up /\ agents[a].ops # <<>> /\ agents[a].busy /\ Head(agents[a].ops) \in ops
Drop(r) == [r EXCEPT !.ops = Tail(@), !.busy = FALSE]
Becomes(a, r) ==
    /\ agents' = [agents EXCEPT ![a] = r]
    /\ UNCHANGED <<storage, told, terminating, torn, limits, raced>>

\* InitializeCall::Run asks for the services of the agent.
InitializeRuns(a) == Runs(a, "init") /\ Becomes(a, [agents[a] EXCEPT !.busy = TRUE])

\* InitializeCall::Continue launches the application.
InitializeContinues(a) ==
    Waits(a, {"init"}) /\ Becomes(a, [Drop(agents[a]) EXCEPT !.state = "RUNNING"])

\* The SyncCalls of NewAgentConnection and NewEntityProviderConnection
ConnectionRuns(a) ==
    /\ Runs(a, "connect") \/ Runs(a, "entity")
    /\ Becomes(a, [Drop(agents[a]) EXCEPT !.conns = @ + 1, !.owed = @ - 1])

\* The SyncCall of NewTask
TaskRuns(a) == Runs(a, "task") /\ Becomes(a, [Drop(agents[a]) EXCEPT !.tasks = @ + 1])

\* StopCall::Run: only an agent nobody uses is stopped, except by Teardown.
StopRuns(a) ==
    /\ Runs(a, "stop") \/ Runs(a, "teardown")
    /\ Becomes(a, IF agents[a].state # "TERMINATING"
                     /\ (Head(agents[a].ops) = "teardown" \/ (agents[a].conns = 0 /\ agents[a].tasks = 0))
                  THEN [agents[a] EXCEPT !.state = "TERMINATING", !.busy = TRUE]
                  ELSE Drop(agents[a]))

\* StopCall::Kill: the application is gone or has used up its time.
StopEnds(a) ==
    /\ Waits(a, {"stop", "teardown"})
    /\ RemoveAgent(a, 0)
    /\ UNCHANGED <<storage, terminating, limits>>

\* The application dies by itself: the error handler that InitializeCall set.
\* What its queue still holds is refused with it.
ApplicationDies(a) ==
    /\ agents[a].up /\ agents[a].state # "INITIALIZING"
    /\ Fails
    /\ RemoveAgent(a, Queued(agents[a]))
    /\ UNCHANGED <<storage, terminating, calls>>

\* Mutant: the empty set handler is missing.
ControllerClosesMutant(a) ==
    /\ agents[a].up /\ agents[a].conns > 0
    /\ Becomes(a, [agents[a] EXCEPT !.conns = @ - 1])

\* A client closes its AgentController; the last one calls MaybeStopAgent.
ControllerCloses(a) ==
    /\ agents[a].up /\ agents[a].conns > 0
    /\ LET r == [agents[a] EXCEPT !.conns = @ - 1]
       IN Becomes(a, IF r.conns = 0 THEN Queue(r, "stop") ELSE r)

\* The agent answers RunTask.
TaskEnds(a) ==
    /\ agents[a].up /\ agents[a].tasks > 0
    /\ Becomes(a, Queue([agents[a] EXCEPT !.tasks = @ - 1], "stop"))

Loop(a) ==
    \/ InitializeRuns(a) \/ InitializeContinues(a)
    \/ ConnectionRuns(a) \/ TaskRuns(a)
    \/ StopRuns(a) \/ StopEnds(a)
    \/ AlarmExpires(a)

Environment(a) ==
    \/ ConnectToAgent(a) \/ ConnectToEntityProvider(a)
    \/ MessageArrives(a) \/ AlarmFires(a)
    \/ /\ a \in Tasked
       /\ \/ ScheduleQueueTask(a) \/ ScheduleAlarm(a)
          \/ StoresTask(a, "write") \/ StoresTask(a, "delete")
    \/ ApplicationDies(a) \/ ControllerCloses(a) \/ TaskEnds(a)

Next ==
    /\ ~torn
    /\ \/ \E a \in Agent : Loop(a) \/ Environment(a)
       \/ InitializeCall \/ WriteTaskCall \/ DeleteTaskCall \/ StorageFails
       \/ PageReports \/ TaskAdded \/ TaskDeleted
       \/ Teardown
       \/ TeardownTimeout

Spec == Init /\ [][Next]_vars

\* The message loop runs what is posted, the services of an agent are handed
\* out, and AppClient::Teardown ends, at the latest after its timeout.  Clients
\* and agents may do nothing, and the timeout of Teardown is not relied on.
Fairness == \A a \in Agent : WF_vars(~torn /\ Loop(a))

FairSpec == Spec /\ Fairness

-----------------------------------------------------------------------------
(* Properties *)

TypeOK ==
    /\ agents \in [Agent -> AgentState]
    /\ stored \subseteq Agent /\ reported \subseteq Agent /\ told \subseteq Agent
    /\ \A i \in DOMAIN queue :
          queue[i] \in [op : {"initialize", "write", "delete", "added", "deleted"}, tasks : SUBSET Agent]
    /\ terminating \in BOOLEAN /\ torn \in BOOLEAN
    /\ calls \in 0..MaxCalls /\ faults \in 0..MaxFaults
    /\ raced \subseteq Event

\* A request that was accepted is served, is in the queue of a context, or waits
\* for an agent that is terminating and will be started again for it.  Excepted
\* are requests that joined the queue behind a StopCall, which dies with the
\* context, and the first of two entity connections that wait.
RequestsAreKept ==
    raced \cap {"behindStop", "entityTwice"} = {} /\ ~torn =>
        \A a \in Agent :
            LET r == agents[a]
            IN /\ r.owed = Queued(r) + r.waiting + (IF r.entity THEN 1 ELSE 0)
               /\ r.waiting > 0 \/ r.entity \/ r.callbacks # <<>> =>
                    r.up /\ r.state = "TERMINATING" /\ r.callbacks # <<>>

\* Once the page has reported every change and all of them are handled, the
\* alarms are those of the stored tasks and of tasks that are not persistent and
\* were not deleted since, and each is posted or waits for its agent: alarms
\* that fire, tasks that are deleted and scheduled again and a restart bring
\* none back and lose none.  Excepted are tasks that could not be read; an alarm
\* deleted while it waits for its agent, since found_it has lost its entry when
\* the callback uses it; and the deletion of an alarm without a key in the page.
\* That one goes on firing, although agent_context.fidl says of DeleteTask "No
\* new runs of this task will be scheduled." and a comment of
\* AgentRunner::DeleteTask that it works for non-persistent tasks too.
AlarmsFollowPage ==
    queue = <<>> /\ reported = stored /\ ~terminating
        /\ raced \cap {"alarmDeleted", "unkeyed", "unread"} = {} =>
        \A a \in Agent :
            /\ a \in stored => agents[a].alarm
            /\ agents[a].alarm => /\ a \in stored \/ agents[a].unstored
                                  /\ agents[a].due > 0 \/ "alarm" \in ToSet(agents[a].callbacks)

\* An AgentProviderWatcher knows which agents run or will be run for a task,
\* as long as the runner is not torn down: every change of that set ends in
\* UpdateWatchers, also of an alarm that is scheduled anew by the callback of a
\* task deleted meanwhile.
WatchersKnowAgents == ~terminating => told = GetAllAgents(agents)

\* An agent nobody is connected to and that has no task is stopped in the end,
\* or used again.  Excepted is the agent that is started for an entity
\* connection which another one has replaced.
UnusedAgentStops ==
    \A a \in Agent :
        (agents[a].up /\ agents[a].conns = 0 /\ agents[a].tasks = 0)
            ~> (torn \/ ~agents[a].up \/ agents[a].conns + agents[a].tasks > 0 \/ "entityTwice" \in raced)

\* Teardown ends by itself, without its timeout, unless an agent was started
\* again while it ran.
TeardownEnds == terminating ~> (torn \/ "restarted" \in raced)

=============================================================================
