# Peridot verification

TLA+ models, TLC runs and TLAPS proofs for Peridot (`src/`), the C++ framework
of Fuchsia that holds the *Ledger* (an offline-first, synchronised key-value
store) and the *modular* framework (stories, modules, links, agents, message
queues, suggestions). The models cover the Ledger from the storage of a page to
the connection of a client, and the parts of the modular framework that keep
state in the Ledger: that is where a mistake loses a user's data, and where
callbacks, coroutines, queues of operations, retries, crashes and several
devices meet.

    tlc -workers 2 -config PageStorage.cfg MCPageStorage    # a run
    tlapm PageStorageProofs.tla                             # the proofs

`PROJECT.json` lists the runs, what each definition models (`map`), the mutants
that show each property can fail, the findings, the hazards and the theorems.

## 1. Inventory

### Ledger: storage of a page (`bin/ledger/storage/impl`)

*State.* A LevelDB per page: commit rows, head rows, unsynced-commit rows,
object rows with a status (TRANSIENT, LOCAL, SYNCED), implicit-journal rows,
journal entries, the sync metadata. In memory: `JournalImpl` objects, the
`commit_serializer_`, the `CommitWatcher` list, the coroutines that wait for
LevelDB or the network.

*Operations.* `Init` (default head, removal of explicit journals, commit of
implicit ones), `StartCommit`, `StartMergeCommit`, `Journal::Put/Delete`,
`CommitJournal`, `RollbackJournal`, `AddCommitsFromSync`, `MarkCommitSynced`,
`MarkPieceSynced`, `GetHeadCommitIds`, `GetUnsyncedCommits`,
`GetUnsyncedPieces`, `AddObjectFromLocal`, `GetObject`, `AddCommitWatcher`.

*Hard.* Local and remote commits race for the lock; `AddCommitsFromSync` holds it
twice, with a download in between; a batch may name commits before their
parents; each database call may fail; a crash falls between any two writes.

*Correct when* the stored history is closed under parents, the heads are its
leaves, every head can be read, acknowledged changes survive, synced commits
stay synced, and the lock is always given back.

### Ledger: cloud sync (`bin/ledger/cloud_sync/impl`)

*State.* `PageSyncImpl` (started, upload enabled, the two states it shows),
`PageDownload` (state, running batch, commits put aside, count of `GetObject`
calls), `PageUpload` (state, `commits_to_upload_`, running batch), `BatchUpload`
and `BatchDownload`; on disk the position token. `LedgerSyncImpl` and
`UserSyncImpl` own the pages, aggregate their states and enable uploads once the
fingerprint of the device was found in the cloud, or written to it.

*Operations.* `Start`, `EnableUpload`, `StartDownload`, `SetRemoteWatcher`,
`OnNewCommits` (from the cloud), `OnError`, `GetObject`, `DownloadBatch`,
`StartUpload`, `OnNewCommits` (from the storage), `UploadUnsyncedCommits`,
`VerifyUnsyncedCommits`, `HandleUnsyncedCommits`, the upload of pieces, then of
commits, and the delayed retries.

*Hard.* Answers are applied after the state they were read from has changed;
answers are lost although the call took effect; retries fire late; uploads wait
for downloads and for merges with no timer of their own; errors are temporary or
final.

*Correct when* the token never runs ahead of the database, a commit is in the
cloud only after its pieces, what is marked synced is in the cloud, everything is
uploaded and downloaded in the end unless a permanent error stops the sync, and
nothing is uploaded before the cloud is known to be the one this device synced
with.

### Ledger: the application layer (`bin/ledger/app`)

| Part | State and operations | Hard | Correct when |
|---|---|---|---|
| `MergeResolver`, `merging/*` | strategy and next strategy, merge under way, pending checks and delays; `CheckConflicts`, `ResolveConflicts`, `SetMergeStrategy`, `FindCommonAncestor`, the strategies and the client's resolver | heads change between the reads of one check; a strategy is replaced under its merge; the same merge on several devices | a page with two heads is merged in the end, devices converge |
| `BranchTracker`, `PageDelegate` | current commit, transaction, queue of operations, watchers with changes in flight | commits notified during a transaction or in an odd order; operations answered before they have ended | a client reads its writes and follows a head, a watcher never goes back and catches up |
| `PageSnapshotImpl` | a commit and a prefix; paged reads | partial results | pages of a read join up |
| `PageManager`, `LedgerManager`, `LedgerRepository` | containers, pending requests, the backlog timeout, connections at three levels; `GetPage`, `DeletePage`, `OnVersionMismatch` | deletion during opening, emptiness callbacks in any order, a wiped cloud | each request is answered, what nobody uses is dropped, stale data is not uploaded |

### Ledger: support

`Lock`, `OperationSerializer`, `Waiter`, `LazyValue`, `LRUCache`, coroutines,
backoff, encryption (`lib/callback`, `bin/ledger/{lock,cache,coroutine,encryption}`);
the B-tree and the splitting of objects (`storage/impl/btree`, `split.cc`); the
cloud providers for Firebase and Firestore.

### Modular framework

| Part | State and operations | Hard | Correct when |
|---|---|---|---|
| `MessageQueueManager` (`bin/component`) | rows and files on disk, open storages, readers, tokens, watchers | operations for one name side by side; acknowledgement after a reader was replaced; a restart between row and file | messages are offered in order, at least once, and none is lost that was saved |
| `AgentRunner`, `AgentContextImpl`, `AgentRunnerStorageImpl` | agents INITIALIZING, RUNNING, TERMINATING, each with a queue; tasks in the page, alarms, teardown | a request meets a stop; a task deleted while its alarm waits; recovery next to new changes | requests are kept, alarms follow the page, unused agents stop, a teardown ends |
| `Operation*` (`public/lib/async/cpp`) | queue, collection, flow tokens | an operation that ends while its container is destroyed | operations of a queue run one after the other to their end |
| `StoryControllerImpl`, `ModuleControllerImpl` | story state, modules, shell, queue; the modules in a page shared with other devices | an operation waits for the report of its own write; notifications wait behind others | the queue drains, what runs is what is stored, the story mirrors its root |
| `LinkImpl`, `incremental_link.cc` | document, pending changes, connections, watchers; a history of changes in the page | changes of two devices interleave; links are dropped and made again | a quiet link is the replay of its history, changes are written, watchers know |
| `StoryProviderImpl`, chains | stories by id, creation and deletion | a story deleted while it is created | |
| suggestion and context engines, device and user runners, entities, module resolver, action log | thin services | little protocol state | |

### How the parts interact

A client's `Page` calls go through `PageDelegate` to journals of `PageStorage`. A
new commit is announced to the `CommitWatcher`s: `BranchTracker` (moves the
client's branch), `MergeResolver` (looks for two heads, commits a merge) and
`PageUpload` (uploads when the download is idle and there is one head).
`PageDownload` adds the cloud's commits with `AddCommitsFromSync`, which announces
them too; the storage in turn asks `PageDownload` for missing objects.
`PageSyncImpl` starts the upload when the download becomes idle and calls
`on_backlog_downloaded_`, for which `PageManager` holds back the requests of
clients.

The modular framework is a client of the Ledger. `PageClient` watches a page and
reads it; `StoryControllerImpl`, `LinkImpl`, `AgentRunnerStorageImpl` and
`MessageQueueManager` write rows of their pages and learn of all changes, their
own included, from its notifications. A story makes links for its modules;
modules ask `AgentRunner` for agents; agents are started by messages in
queues and by alarms.

Each process runs in one thread; atomicity ends at each callback, each operation
that waits and each coroutine suspension.

## 2. Modules

| Module | Models |
|---|---|
| `PageStorage`, `MCPageStorage` | `page_storage_impl.cc`, `journal_impl.cc`, `page_db_batch_impl.cc`, `lock.cc` |
| `PageStorageProofs` | inductive invariant and theorems about `PageStorage` |
| `PageSync`, `MCPageSync` | `page_sync_impl.cc`, `page_download.cc`, `page_upload.cc`, `batch_download.cc`, `batch_upload.cc` |
| `PageSyncProofs` | position, upload and backlog invariants of `PageSync`; ownership, stale directories and uploads of `LedgerRepository` |
| `MergeResolver`, `MCMergeResolver` | `merging/*.cc`: two devices that merge one page, and `common_ancestor.cc` |
| `MergeResolverProofs` | a strategy outlives its mergers, the search for the common ancestor |
| `PageDelegate`, `MCPageDelegate` | `page_delegate.cc`, `branch_tracker.cc`, `operation_serializer` |
| `PageDelegateProofs` | lemmas on growing histories; branch and watchers of `PageDelegate` |
| `LedgerRepository`, `MCLedgerRepository` | `ledger_repository_factory_impl.cc`, `ledger_repository_impl.cc`, `ledger_manager.cc`, `page_manager.cc`, `ledger_storage_impl.cc`, `user_sync_impl.cc`, `ledger_sync_impl.cc`, `auto_cleanable.h` |
| `MessageQueues` | abstract: what a message queue promises |
| `MessageQueueManager`, `MCMessageQueueManager` | `message_queue_manager.cc`, `persistent_queue.cc`; implements `MessageQueues` |
| `MessageQueueManagerProofs` | the refinement of `MessageQueues`, and the watchers and readers |
| `AgentRunner`, `MCAgentRunner` | `agent_runner.cc`, `agent_context_impl.cc`, `agent_runner_storage_impl.cc` |
| `AgentRunnerProofs` | agents told to watchers, alarms, and requests that wait |
| `StoryController`, `MCStoryController` | `story_controller_impl.cc`, `module_controller_impl.cc` |
| `StoryControllerProofs` | the story mirrors its root module, runs what is stored and forgets no view |
| `LinkImpl`, `MCLinkImpl` | `link_impl.cc`, `incremental_link.cc`, `key_generator.cc` and the links of `story_controller_impl.cc` |
| `LinkImplProofs` | the watchers of links, and a quiet link as the replay of its history |

### Races a model names

The code has races it does not guard against, often with a TODO. A model contains
them like everything else; a history variable `raced` collects the names of those
that have happened, and a property lists the ones under which it need not hold.
What a property says is thus exact: with none of the listed events in the history
it holds in every state, whatever other events there were. The lists in this section
say what each event is.

### PageStorage

A commit id is the hash of its content and parents, so the graph of all commits
that could ever exist is the constant `Parents`. The first page commit is
`Root`, present without a row.

| Variable | Code |
|---|---|
| `commits`, `heads`, `unsynced` | `CommitRow`, `HeadRow`, `UnsyncedCommitRow` |
| `trees` | commits whose tree and eager values are stored |
| `implicit`, `entries` | `ImplicitJournalMetadataRow`, `JournalEntryRow` |
| `phase` | the page is closed, in `Init`, or open |
| `journal` | `JournalImpl`: where its coroutine is, `failed_operation_`, parents, commit |
| `queue` | `commit_serializer_`; the first element holds the lock |
| `sync` | the locals of `SynchronousAddCommitsFromSync` |
| `add` | the locals of `SynchronousAddCommits`: commits still to look at, `remaining_commits`, `added_commits`, `heads_to_add`, and the batch (`put`, `del`, `synced`) |
| `notified`, `made`, `acked`, `released` | history, for the properties |

The atomic steps are those between two suspensions, refined at the loop
iterations of the two critical sections: `SyncCheckNext`, `AddNext` and
`AddIterationEnd` are one iteration each. `Execute` writes the whole batch (LevelDB's
`WriteBatch` is atomic), notifies the watchers and resumes the caller. Every
database call may fail (`...Error`); an early return runs the destructor of the
lock (`Unlock`). `Crash` is the death of the process or `~PageStorageImpl`, which
interrupts every coroutine.

`PostponeCommit` deserves a note: for a commit with a missing parent the code has
already erased the heads of the parents it looked at before the missing one
(`page_storage_impl.cc:1286-1299`). The order of the parents is that of their ids, so
the set of erased parents is a nondeterministic choice.

Bounds: `MaxBatch`, `MaxFaults`, `MaxCrashes`. `InOrder` says whether the cloud
delivers commits after their parents; `RecoveryFaults` whether a call can fail
during `Init`.

### PageSync

The storage is reduced to what sync sees: `stored`, `unsynced`, `pieces` (commits
whose pieces are LOCAL), `token`. Its heads are the leaves of the stored commits,
which `PageStorage` shows for batches in cloud order. The cloud is the append-only `log` of
`cloud_provider.fidl` (external), a position token an index into it.

| Variable | Code |
|---|---|
| `sync` | `PageSyncImpl`: `started_`, `enable_upload_`, `download_state_` |
| `down` | `PageDownload`: `commit_state_`, the callback it waits for, `commits_to_download_` and its token |
| `batch` | `batch_download_` and its `on_done` |
| `watcher` | the bound `PageCloudWatcher`, its position, whether the cloud waits for an acknowledgement |
| `gets` | `current_get_object_calls_` and delayed retries |
| `up` | `PageUpload`: `internal_state_`, `commits_to_upload_`, registrations as commit watcher, the runs of `UploadUnsyncedCommits` under way, delayed retries |
| `upload` | `batch_upload_`: pieces waiting, sent and being marked, its error flags, the commits |

Each callback of the storage, of the cloud or of the task runner is one action,
with all that it does before it returns: `SetCommitState` tells `PageSyncImpl`, which
may call `on_backlog_downloaded_` and start the upload in the same step. Reads of the
database take their value when they are called and deliver it in a later action
(`up.chains`, `upload.fresh`), which is how stale answers arise. `AddCommits` and
`AddObject` may fail before or after they took effect.

Bounds: `MaxConcurrentUploads` (a parameter of the code too), `MaxGets`, `MaxTemporary`, `MaxPermanent`,
`MaxCrashes`, and `MaxFaults` for these and the calls of `GetObject` together. `Racing` names the commits that
may be made while a run of `UploadUnsyncedCommits` waits for the storage:
`VerifyUnsyncedCommits` clears `commits_to_upload_` on an answer read before the
newest commit (`page_upload.cc:101`), and that commit then waits for the next one. A
behaviour where this may have happened is marked (`faults.raced`), and
`EventuallyUploaded` excepts it. It also excepts `WaitsForGetObject`: the download is not
idle while a call of `GetObject` runs (`page_download.cc:138-152`), its end only takes it off
a counter (`:355`, `:372`, `:377`), and an upload that was put off because of it waits until
the download has something else to do.

### MergeResolver

Each device has its commits, heads and a `MergeResolver`; the cloud between them is a
set of commits that come and go at any time. A commit is a record of parents,
generation, timestamp and contents, so that two devices that make the same merge make
the same commit. `resolver[d]` holds the strategy and the one to come, the checks
posted and the answers of `GetHeadCommitIds` under way (in the order of the loop, which
is what keeps a conflict from being overlooked), the merge with its step, and the delay
before two merges are merged. `FindCommonAncestor` is written as the code's walk by
generation and compared with a definition of the nearest common ancestor.

The last-one-wins and automatic strategies, the custom one with its client,
`LedgerMergeManager::SetFactory` and lost connections are actions; the run uses the
automatic policy and the default. Bounds: `Write` (the changes the n-th commit of a
client may make), `MaxMergeCommits` (how many commits a device may have for a client's
resolver to answer), `MaxCommits` (how many commits a device may have to merge two
merges), `Active`, `MaxFaults`, `MaxDisturbed` (how many client commits there may be for
clients, connections and faults to interfere).

Two devices that commit three times can merge each other's merges for ever; only the real-time
backoff breaks that, which the model does not have. The run has three client commits and reaches
this: it is cut where a device with `MaxCommits` commits would merge two merges, and `Converges`
excepts that state by name (`Unending`). A deleted value may come back, when the nearest common
ancestor is older than both deletions, as `common_ancestor_unittest.cc:165` asks for.

### PageDelegate

`parents` is the growing history of the page, with other writers' commits and merges
at any time. `branch` is `BranchTracker`, `watchers` its `PageWatcherContainer`s
(`current`, `last`, `sending` are commits), `queue`, `pc` and `job` the serializer and
the operation under way, `trailing` a `StopTransaction` that runs only after the next
operation has started. An action is one task of the loop.

`raced`: *init* (a commit between the read of the heads and the registration),
*gap* (the same for a watcher and its snapshot), *moved* (a transaction based on an
older commit than a watcher has seen), *noop* (a transaction that changed
nothing resets the branch, `branch_tracker.cc:364`), *overlap* and *stopped* (`Rollback`
and a failing implicit transaction answer before they stop the tracker's
transaction), *diff* (a change whose diff fails is given up), *deleted* (the delegate
was removed with an operation under way).

Bounds: `Watcher`, `MaxCommits`, `MaxCalls`, `MaxFaults`.

### LedgerRepository

`mem` is the tree of the process: the repository, its ledgers and their pages, each with
its connections; `disk` the content directory, with a directory per page and the
fingerprint file; `known` whether the cloud has this device's fingerprint. A page is a
`PageManagerContainer` that waits for `PageStorageImpl::Init` (`get`, `create`) and then
a `PageManager`, with the requests that wait, are in `PageDelegate::Init`, are bound or
failed. What is empty erases itself and makes its owner look (`PageCheckEmpty`,
`LedgerCheckEmpty`, `RepositoryCheckEmpty`), in the step that ended the last user.
Merges and the sync of a page only begin and end here. A call of `GetObject` does, too
(`fetch`), but its end makes nobody look: a page that it leaves empty is *unnoticed*, and an
upload put off because of it *waits*, until the download changes its state.

Whatever erases from above (`DeletePage`, `ProviderLost`, `OnVersionMismatch`) destroys
pages in any state: callers that wait are told, those in `PageDelegate::Init` are not
(`lost`), and a storage in `Init` keeps a pointer to its container (`orphans`).

`CloudErased` is somebody else wiping the cloud: directories become `stale`. A device
learns of it from `CheckFingerprint` or its watcher, and `OnVersionMismatch` moves the
whole content directory away before it deletes it. The cloud's answer (`CheckFingerprint`,
`SetFingerprint`) and the callback that enables uploads (`FingerprintFound`,
`FingerprintSet`) are separate steps, so the cloud can be wiped while the OK is on its way; the
pages then upload until the watcher tells. `UploadFollowsCheck` therefore says that
uploads are enabled everywhere or nowhere, that a device that uploads has its fingerprint on
disk and a watcher set or about to be set again, and that it holds nothing stale as long as
the cloud knows that fingerprint.

`raced`: *dangling* (a storage called back an erased container; nothing is known of the
process after that, and it takes no further step), *unmarked* (the cloud was wiped while
pages were on disk and no fingerprint file was: the device cannot find out).

Bounds: `MaxConnections`, `MaxWork` (merges, busy sync, calls of `GetObject`, snapshots and
debug connections), `MaxFaults`; `Request` bounds the calls of `GetPage`.

### MessageQueueManager and MessageQueues

`MessageQueues` is what `message_queue.fidl` promises of a set of queues: messages join at
the end, the oldest is offered to a reader, a message leaves only when it is
acknowledged, a restart brings back what was saved, and only a queue whose deletion was
asked for (`doomed`) loses that. `Close(queues, asked, lost)` closes queues, asks for the
deletion of some and lets some of the doomed lose their messages; what is lost never comes
back. `MessageQueueManager` has the two
kinds of rows in the page (`named`, `infos`), the files, the open storages with
reader, acknowledgement, senders and watcher, the operations under way and the requests
the page has not handled. `KeepsPromise` is the refinement: an open queue holds its
`messages`, a closed one what its file holds for as long as something leads to the file
(`Leads`: the row of its name or of its token, a storage, or an operation that has the
token), and nothing after that. The comment at `message_queue_manager.cc:725-727` promises
more, that a deletion will "delete all messages on the queue permanently". The code keeps the
file, and an operation that already has the token, or a deletion whose commit failed, brings
the messages back; the abstract `Close` allows this, and also what the comment
describes.

`raced`: *overlap* (two operations for one name), *readError* (a failing read is taken for a
missing row), *replaced* (a reader replaced before it answered: the new one
gets nothing until the old answer comes), *deleted*, *namespace* (`DeleteNamespace` leaves
storages open), *dropped* (`DropWatcher` with its condition inverted).

Bounds: `MaxCalls`, `MaxMessages`, `MaxFaults`, `MaxCrashes`; `Token` bounds the queues
made.

### AgentRunner

`agents[a]` is what `AgentRunner` and the `AgentContextImpl` keep for one agent: its
state, its `OperationQueue` and whether the first operation waits for an answer,
connections and tasks, the callbacks that wait for it to end, its watched queue and its
alarm. `stored`, `reported` and `queue` are the page of tasks, what it has reported and the
`OperationQueue` of `AgentRunnerStorageImpl`; `told` is what an `AgentProviderWatcher`
knows. A process that ends leaves `stored` only, so each set of tasks is an initial state
and a restart needs no action of its own.

`raced`: *behindStop* (a request joins a queue that holds a `StopCall`: it dies with the
context), *entityTwice* (the second of two entity connections that wait replaces the
first), *alarmDeleted* (a task is deleted while its alarm waits for the agent: the callback
uses an iterator that may be gone), *unkeyed* (`DeleteTask` of a task that is not persistent:
`agent_runner.cc:401-403` deletes the row of a key that is not there, and the alarm goes on
firing, against `agent_context.fidl:33-34`), *restarted* (an agent is started again
during a teardown), *unread* (the tasks could not be read).

Bounds: `MaxCalls`, `MaxFaults`, `Tasked`.

### StoryController

`ledger` is the page, `seen` and `change` what its watcher was told and has not yet
acknowledged. `story` holds the state, the queue and the step of the operation under way, the
modules with their state, the shell, the views sent and waiting and the saved state. The root
module is followed from the start (`track_root_module_state_`). `StartCall`, `StopCall`,
`AddModuleCall`, `StopModuleCall`, `StartModuleCall`, `LedgerNotificationCall`,
`KillModuleCall`, `LaunchModuleCall` and the blocking write are split at every point where the
code waits. Other devices write the page.

`raced`: *same*, *overtaken*, *failed* (a blocking write whose report never comes),
*undone* (another device takes a change back before its report comes: the watcher is told
differences only, and an operation that read the data in between is not corrected),
*shell* (the shell dies), *ignored* (a change arrives while the root has stopped or failed),
*stale* (an operation acts on data the page no longer holds), *crashed* (`Start` finds a
root module in another state than STARTING), *unsent* (a module comes between views that
wait and their anchor, and sends no view itself).

Bounds: `MaxCalls`, `MaxRemote`, `MaxEvents`, `MaxFaults`.

### LinkImpl

`page` is the set of changes under all links, `links[l]` a `LinkImpl`: document,
`latest_key_`, `pending_ops_`, connections, watchers with what their clients know, and
its queue with the step of the first operation. What a client knows is the last value it was told
with its own changes applied, which it is not told of; `behind` marks one whose knowledge is
not that: a value was sent while a change of its own was under way (sent before it and read
after it, or sent before it ran), or initial data were written with the id of the `WatchAll`
watchers, whom the code then skips (`incremental_link.cc:205-206`, `link_impl.cc:872`). The
next value it is told ends that. A key is a time and a tie breaker, so that
other devices (`RemoteChange`) can insert changes anywhere in the history; what the n-th
change is, is the constant `Asked`. `Covers` says which links share the prefix under
which a link reads. A JSON object is a function from its members to values.

`raced`: *failed* (the page refused a change, which stays pending for ever and blocks
the echoes behind it), *unread* (a failed read looks like an empty history), *clock*
(the clock was set back; `key_generator.h` excludes it), *preempted* (another device
changed the link before its initial data), *disposed* (a link is dropped with a change
in its queue, the TODO at `link_impl.cc:771`).

Bounds: `Asked` and `Time`; `MaxEvents` for connections, watchers, stops and faults
together.

## 3. Runs

Passing runs:

| Run | Instance | Shows |
|---|---|---|
| `storage` | commits a, b and their merge m; b and m also come from the cloud, in order; two journals; one fault, one crash | `TypeOK`; `HeadsAreLeaves`; `HeadsHaveTrees`, although objects are fetched only for the leaves of a batch; `ImplicitNotLost`; `SyncedStaysSynced`, when a local merge meets the same merge from the cloud |
| `storage_out_of_order` | a, b, b's child d and the merge m, batches of up to three in any order; one journal, one fault, one crash | `ParentsStored`, `LeavesAreHeads`, `LockIsReleased` |
| `sync_download` | three remote commits with a merge; one object request, one temporary and one permanent error, one restart | `TokenIsCovered`, `EventuallyDownloaded`, `BacklogIsStored` |
| `sync_upload` | a local commit, a remote one, their merge; two pieces at a time; one temporary error, permanent error, object request or restart | `SyncedIsInCloud`, `ObjectsBeforeCommits`, `EventuallyUploaded` |
| `merge` | two devices, two keys, values 0 to 2, three client commits, devices with up to seven commits; a client that sets a factory and waits on one device, and one fault, while there are at most two client commits | `AncestorIsNearest`, `StrategyOutlivesMerge`, `Converges` |
| `page` | two watchers, three commits, four calls, one fault | `ReadYourWrites`, `BranchIsHead`, `WatchersMoveForward`, `OperationsAnswered`, `WatchersCatchUp` |
| `repository` | one ledger, one page, two calls of `GetPage`, one connection at each level, one merge, busy sync, object request, snapshot or debug connection, two faults, a wipe of the cloud at any time among them | `RequestsAnswered`, `UnusedIsDropped`, `UploadFollowsCheck` |
| `queue` | one name, two tokens, three calls, two messages, one fault, one crash | `KeepsPromise` (the refinement), `WatcherIsTold`, `ReaderIsServed` |
| `agents` | two agents, one with tasks; three calls, two faults | `RequestsAreKept`, `AlarmsFollowPage`, `WatchersKnowAgents`, `UnusedAgentStops`, `TeardownEnds` |
| `stories` | a root and a child module, one stored; three calls, one write of another device, one event of a module, one fault | `QueueDrains`, `RunsWhatIsStored`, `StateFollowsRoot`, `NoViewForgotten` |
| `links` | one link with initial data, two more changes, two times, two events | `ChangesReachPage`, `QuietLinkIsReplay`, `WatchersAreCurrent` |

One run TLC refutes, a finding of `PROJECT.json`: in `link_prefix` the name of one link
is a prefix of the name of another, and the first takes the changes of the
second for its own, because the prefix under which it reads lacks the separator.

### Other divergences met while modelling

The models contain these; no run isolates them.

*Storage.* After a batch that came out of order, a head row put in the first
iteration is not deleted by the second, so a parent stays a head next to its child
(`page_storage_impl.cc:1287`; hence `HeadsAreLeaves` for batches in order only). When
the batch cannot be written, watchers are told of its commits (`:1364`). A read error
during `Init` makes `CommitJournal` delete an acknowledged implicit journal (`:1022`). A
journal whose `AddCommitFromLocal` failed keeps its rows and is committed by
the next `Init` (`journal_impl.cc:225`).

*Sync.* A temporary error during the backlog calls `on_backlog_downloaded_` early and again
later (`page_sync_impl.cc:137`; hence the condition in `BacklogIsStored`). After a watcher is
re-established the download is IDLE while a batch is still being added (`page_download.cc:192`);
a batch that fails then leaves commits put aside for ever. The last `GetObject` call ends
without telling `PageSyncImpl`, and an upload that waits for the download waits on
(`page_download.cc:355`; `WaitsForGetObject`). Overlapping runs of `UploadUnsyncedCommits` may
leave `UPLOAD_PERMANENT_ERROR`, or reach `FXL_DCHECK(commits_to_upload_)` with the flag false
(`page_upload.cc:141`).

*Pages.* A transaction that changes nothing moves the branch back to where it
started (`branch_tracker.cc:364`; `ledger.fidl:303-304` says the next snapshot sees the
changes of others). `Drained()` is true while a change is in flight, so that a
transaction may start before the watcher has taken it (`ledger.fidl:319-321`). A failing
`ComputePageChange` leaves `StartTransaction` waiting.

*Merging.* Three commits on two devices can lead to merges of merges without end
(`Unending`).

*Repository.* "It is safe to delete it at any point" (`ledger_manager.h:32`), and a page may
be deleted at any time, but the callback of a storage in `Init` uses the manager and the
container it was given (`ledger_manager.cc:157`, `:197`). A caller whose page is deleted
during `PageDelegate::Init` gets no answer. A page manager "is automatically deleted ... when
the last local client disconnects" (`ledger_manager.h:70`), except when a delegate failed in
`Init`, which never calls its `on_empty`, when an upload waits
for a download that a permanent error has stopped (`page_upload.cc:207`), or when a call of
`GetObject` was the last to end or has put off an upload (`page_download.cc:355`), until the
download stirs again. A wipe of the cloud while the OK of the check is on its way lets stale
pages upload until the watcher tells (`user_sync_impl.cc:134-140`). Pages are
downloaded before the fingerprint is set: if the cloud is wiped in between, the device
uploads what it has.

*Queues.* Deleting a queue keeps its file, although a comment says its messages are
deleted permanently (`message_queue_manager.cc:725-727`): an `ObtainMessageQueue` or
`GetMessageSender` that has the token opens it again with its messages, and so does any
operation when the commit of the deletion failed.

*Agents.* "No new agents will be scheduled to run" (`agent_runner.cc:50`), but an agent
asked for while it was terminating is started again during a teardown, which then
ends by its timeout. `DeleteTask` does nothing for a task that is not persistent, although
its comment says it does (`agent_runner.cc:401`) and "No new runs of this task will be
scheduled" (`agent_context.fidl:33-34`; *unkeyed*). A task deleted and scheduled again
before its alarm is due has two alarms posted.

*Stories.* Adding a module whose data the page already holds, or whose write fails or
is overwritten before it is reported, blocks the queue of the story for ever. A shell
that dies before it answers `DefocusView` does, too. A notification that waited may kill
a module the page says should run. `Start` of a story whose root is in ERROR shows
STARTING and does not launch it again. `connected_views_` is never cleared, so a new
shell may get a view whose anchor it does not know. "Holds the view of a non-embedded
running module ... until its parent is connected to story shell" (`story_controller_impl.h:266`),
but waiting views are looked at only when another view is sent (`story_controller_impl.cc:613`):
the view of a module added below a parent that does not run waits, and if the parent is then
*embedded* in a module the shell shows, it waits on, although its anchor is there. TLC finds
this with three modules and three calls when `NoViewForgotten` is stated without *unsent*.
A write that another device takes back at once leaves a module running, or stopped, that
the page says should not be (*undone*).

*Links.* Besides the events of `raced`: initial data is dropped when another device
changes the link between the write of the story data and `AddForCreate`
(`story_provider_impl.cc:176-193`). Initial data are written under the id of the `WatchAll`
watchers, who are not told of them, although such a watcher is to hear of all changes
(`link_impl.cc:818-822`). A client is not told of its own change when it
runs, so one that was sent another value in between takes that value for the newest.

### Why the bounds are enough to be interesting

Three or four commits give a chain, a fork and a merge, and a merge that is made here and
elsewhere. Batches of two or three commits contain every relative order of parent and child. Two
journals let a local commit wait for the lock behind another. One crash and one fault fall at
every step; a second one starts from a state that the first can already produce. With two pieces
under way one can fail while the other is being marked. Two devices and two commits are what a
conflict needs, a third makes merges of merges, two keys tell an automatic merge from
last-one-wins. Two tokens allow a second queue of the same name. Three calls reach each race of
`AgentRunner`; each event of each `raced` occurs in its run, except *unsent*, which takes three
modules.

Larger instances were checked for the invariants alone: `agents` with four calls
(911,727 states), `stories` with two writes of other devices (14.5 million), `links` with three
events (2.7 million) and with three changes (4.4 million); `repository` with its properties
also for two merges or busy periods, and for two pages. The invariants proved below
do not depend on any bound.

Deadlock is not checked: every one of these systems may be at rest with nothing to do,
and the bounds on calls stop the environment.

### Fairness

Weak fairness of what the program itself has to do, and none for clients, errors,
crashes or other devices:

- `PageStorage`: the steps of each coroutine that has started (the task runner runs
  every posted task, LevelDB and the network answer or fail).
- `PageSync`: callbacks, delayed retries and the cloud's delivery; `Start` and
  `EnableUpload`, which `LedgerSyncImpl` calls for every page it opens; `MergeHeads`,
  because `MergeResolver` merges whenever there are two heads (the run `merge`). Errors are
  bounded: a network that fails for ever delivers nothing.
- `MergeResolver`, `StoryController`, `LinkImpl`: one condition on `Progress`, the
  disjunction of all steps of the loop and the answers it waits for. The loop is a FIFO, so
  a stronger condition would be justified; this one suffices.
- `PageDelegate`: the start of the tracker, the operation under way, and for each watcher
  the diff and the client's acknowledgement of a change (a client that never answers may go away).
- `LedgerRepository`: the storage and `PageDelegate::Init` answer, the timeout of a new page
  expires, a merge and a call of `GetObject` end, and the sync of a page gets its backlog
  and comes to rest (the runs `merge` and `sync_download`). Nothing is assumed of the check
  of the cloud.
- `AgentRunner`: the loop of each agent; clients and tasks may go on for ever, and
  the timeout of `Teardown` is not relied on.

## 4. Proofs

Eight modules hold theorems; each EXTENDS the module it is about, and
`PageSyncProofs` also instantiates `LedgerRepository`, which lets the pages upload. Every theorem is
for all values of the constants: any number of commits, pages, watchers, queues, agents
or devices, any bound on calls, faults and crashes.

| Module | Theorem | Statement |
|---|---|---|
| `PageStorageProofs` | `TypeCorrect` | `Spec => []TypeOK` |
| | `HistoryClosed` | `Spec => []ParentsStored` |
| | `NoLeafForgotten` | `Spec => []LeavesAreHeads` |
| | `SyncedForever` | `Spec => SyncedStaysSynced` |
| | `HeadsAreExact` | `Spec => []HeadsAreLeaves`, if `InOrder` |
| | `HeadsCanBeRead` | `Spec => []HeadsHaveTrees`, if `InOrder` |
| | `ImplicitChangesSurvive` | `Spec => []ImplicitNotLost`, if `~RecoveryFaults` |
| `PageSyncProofs` | `TypeCorrect` | `Spec => []TypeOK` |
| | `NoCommitSkipped` | `Spec => []TokenIsCovered` |
| | `SyncedCommitsAreInCloud` | `Spec => []SyncedIsInCloud` |
| | `PiecesComeFirst` | `Spec => []ObjectsBeforeCommits` |
| | `BacklogReported` | `Spec => BacklogIsStored` |
| | `RepositoryTypeCorrect` | `Repo!Spec => []Repo!TypeOK`, where `Repo` is `LedgerRepository` |
| | `NoUploadBeforeCheck` | `Repo!Spec => []Repo!UploadFollowsCheck` |
| `MergeResolverProofs` | `MergersKeepTheirStrategy` | `Spec => []StrategyOutlivesMerge` |
| | `NearestAncestorIsFound` | `Spec => []AncestorIsNearest` |
| | `TypeCorrect` | `Spec => []TypeOK` |
| `PageDelegateProofs` | `TypeCorrect` | `Spec => []TypeOK` |
| | `WritesAreSeen` | `Spec => []ReadYourWrites` |
| | `BranchFollowsHeads` | `Spec => []BranchIsHead` |
| | `ChangesGoForward` | `Spec => []WatchersMoveForward` |
| `MessageQueueManagerProofs` | `TypeCorrect` | `Spec => []TypeOK` |
| | `QueuesKeepPromise` | `Spec => KeepsPromise`, the refinement of `MessageQueues` |
| | `WatchersAreTold` | `Spec => []WatcherIsTold` |
| | `ReadersAreServed` | `Spec => []ReaderIsServed` |
| `AgentRunnerProofs` | `WatchersAreTold` | `Spec => []WatchersKnowAgents` |
| | `AlarmsAreThoseOfThePage` | `Spec => []AlarmsFollowPage` |
| | `RequestsAreNotLost` | `Spec => []RequestsAreKept` |
| `StoryControllerProofs` | `StoryFollowsRoot` | `Spec => []StateFollowsRoot` |
| | `StoryTypes` | `Spec => []TypeInv` |
| | `StoryRunsWhatIsStored` | `Spec => []RunsWhatIsStored` |
| | `StoryForgetsNoView` | `Spec => []NoViewForgotten` |
| `LinkImplProofs` | `LinkWatchersAreCurrent` | `Spec => []WatchersAreCurrent` |
| | `LinkQuietIsReplay` | `Spec => []QuietLinkIsReplay`, if no link reads under the prefix of another |

A module proves `Invariance == Spec => []IInv` first: `Init => IInv`, one lemma per action
or group of actions that `IInv` is kept, and then the properties from `IInv`. The
assumptions are those in the modules themselves: bounds are natural numbers, `None` is not
a value, the set of agents is finite, a policy is one of the three, and what is said of
commits below.

### PageStorage

Assumed: `Root` is not a stored commit, every commit has a parent and is not its own,
`"sync"` is not a journal. Nothing is assumed of the graph beyond that, not even that it is
acyclic.

`LeavesAreHeads` is not inductive: while `SynchronousAddCommits` builds its batch
the rows do not change, and what `Execute` will do to them depends on the
locals. `IInv` therefore has these parts:

- `LockInv`: whoever is in `SynchronousAddCommits` is at the head of the lock's queue, so
  no one else changes `commits` and `heads` under it;
- `BatchInv`: the commits of the batch are new and have their parents in the
  batch or the database; a commit that the batch would leave without a child is among
  the heads that the batch would leave (`BatchHeads`), *or is a parent of a commit that is
  still to be looked at*. The last clause is what a postponed merge needs: it has
  erased one parent from the heads before it is added. At `Execute` nothing is left to
  look at, so the clause is void; and if something is left over, the whole batch is
  dropped;
- `CoverInv`: the leaves are heads in the database itself.

`SyncedForever` follows from the part of `BatchInv` that the commits of a batch are new:
only they are marked unsynced.

The other direction, that every head is a leaf, fails for batches out of order (section 3)
and needs a second invariant, `JInv`, with `InOrder` where the order matters:

- `SyncOrder`: what `AddCommitsFromSync` has read of its batch, and what is left of it, has
  no parent after its child; `SyncLeaves`: the leaves it has found are fetched before it
  asks for the lock again;
- `OwnerInv`: the call under the lock works on the commits of the holder and loses none;
- `HeadsInv`: the `while` loop of `SynchronousAddCommits` is in its first iteration, where
  the batch erases the heads of all parents it meets, *or is doomed*: every commit that is
  left lacks a parent that will not come, and the call will fail without writing. Out of
  order there is a third case, which is the divergence;
- `TreesInv`: a commit is added only with its tree. Together with `OwnerInv` a head that
  `Execute` writes is a leaf of the batch, which has been fetched;
- `JournalInv`: an acknowledged implicit change is in its rows until its commit is stored.
  `Init` rolls nothing back when it can read the database; with `RecoveryFaults` it may
  delete the journal.

### PageSync

`IInv` follows one position from the cloud to the database:

- `TokenInv`: the saved token, the position of `GetCommits`, of the batch under way, of the
  commits put aside behind it and of the watcher are each covered by what is stored *or is
  about to be stored before them*. A batch that failed is never replaced, which is why what is
  put aside behind it may be forgotten;
- `StartInv`: there is no batch or watcher while `StartDownload` runs, and nothing is put
  aside without a batch, so that no position is overtaken;
- `BacklogInv`: `PageSyncImpl` sees the backlog state only while `StartDownload` waits or its
  batch is added, and that batch reaches the end of the backlog;
- `SyncedInv`, `ObjectsInv`: what was downloaded and what an upload is about to mark is in
  the log; a stored commit has its pieces in the cloud or among those to be uploaded, and
  each stage of `BatchUpload` has sent the pieces the next one relies on.

Types are part of it: `up` has read stored commits only, also in answers that are stale.

### MergeResolver

A merge is under way only while a strategy is installed, and a merger was made by the
strategy that is. `SetMergeStrategy` puts a new one aside while a merge runs, and the end of
the merge installs it; `StrategyOutlivesMerge` alone does not say that a merge needs a
strategy, nor in which steps of it there is a merger.

`AncestorIsNearest` has two halves. The first is about one state: in any finite set of
commits that holds the parents of each (`History`), the walk of `FindCommonAncestor`
ends with the nearest commit that all paths of both commits go through. `Search` is what a round
preserves:

- no path from either commit to the first one gets past the current set (`Cuts`, stated
  with a set of commits that no path leaves, so that no paths are needed): a round gives
  way only to parents;
- a commit that all paths from both go through is on the way of every member of the set. This
  is where the order of the rounds matters: a replaced commit is not older than some other
  member, so it cannot be on the way of that one and is not such a commit itself.

The walk ends because twice the newest generation, plus one if no member is older, falls in every
round (`MeasureFalls`): a round that keeps one of several commits of the same generation does
not lower the generation, the next one does.

The second half is that the states are such: `StoresOK` says that the commits of every
device and of the cloud are histories, that a commit which is no head has a child (so that
there is always a head, and an answer of `GetHeadCommitIds` with other than one head has two),
and that the merge under way and the answers waiting in the loop refer to stored commits.
`TypeOK` follows, with the ancestor of a merge among the stored commits because of
the first half. Assumed: there is a device.

### PageDelegate

The history is any growing graph of commits, of any number of other writers. Its lemmas
say what a step does to the past of a commit (`Anc`) and to the heads (`Tips`): the past
of an old commit does not change, a new commit's past is that of its parents and itself,
and only parents of the new commit cease to be heads. `Past` is defined as the least set
closed under parents, so that no induction is needed. `IInv` has

- `JobInv`: the operation under way holds its base, and after the commit a head on top
  of it that nobody has built on: this is what `BranchTracker::StopTransaction` will show;
- `OwnInv`, `HeadInv`: the branch contains the client's commits, and is at a head *also
  during a transaction*, unless one of the races has happened;
- `WatcherInv`: the branch comes after everything a watcher knows, has been sent or will be
  sent; in a transaction, so does the base of the journal or of the operation. It is the
  base, not the branch, that the next commit is built on.

### LedgerRepository

`UploadFollowsCheck` relates the memory, the disk and the cloud. What is
up belongs to something that is up (`Owned`), uploads are enabled at the end of the check only
(`Checked`) and in all ledgers and pages at once (`UniformIn`), through the recursion of the checks for
emptiness. `MarkOK` says who has a
fingerprint file in each state of the check: a fingerprint is *set* only by a device without
the file, and checked, and uploads enabled, only with it. `StaleInv` adds that a directory is
stale only on a device whose file the cloud does not know. A wipe at any time makes both
halves of that true at once, the OK being under way included; and a callback that enables
uploads does not make the cloud know anything.

### MessageQueueManager

The refinement needs the types, `StorageInv` (an answer of a reader finds the message it is
about) and `DoomInv`. Each action that changes `messages` does so at the end, or takes the first
one with its acknowledgement, and a restart restores files. Rows, operations and crashes only
change what leads to a file, and two things are to be shown of each (`ClosedImplements`). What
nothing leads to stays so (`NoWayBack`): an operation opens a queue only under a token that it
read in a row, or that is new and has no file. And what loses its last lead was to be deleted:
`DoomInv` says that a queue with messages on the device, an open one, and one that a row of a
name or an operation refers to has its own row or is doomed (`Kept`), and that rows are taken
away from doomed queues only. That each step keeps it is `Respects`. `ReaderIsServed` needs that
an `OnReceive` that can be answered is about a message that is there (`StorageInv`) and that an
acknowledgement is awaited only while one can come, unless a reader was replaced (`ServedInv`).

`WatcherIsTold` is the deep one: it depends on the rows of the page being consistent
while several operations are under way. As long as no event of `Race` has happened
(`RaceInv`), the two kinds of rows name the same queues (`RowsAgree`), the open ones are
known under their names (`OpenAgree`), a watcher waits or is with its queue
(`WatchersPlaced`), what an operation has read is still so (`CallsCurrent`), and an operation that
makes a queue is alone with its name: whatever else is under way for that name has its
snapshot behind it in the page's queue (`CreatorsAlone`).

### AgentRunner

`ToldInv` is the property itself. `AlarmsFollowPage` speaks of an empty queue;
the invariant says what the queue will do (`PageInv`): for each agent the *last* operation
that adds or deletes its task agrees with what the page has reported, and if there is none
the alarm does. An alarm is posted or waits for its agent (`PostedInv`), and one that waits is
still wanted and can be deleted (`WantedInv`), unless *alarmDeleted*. An alarm without a task in the
page is one that was scheduled as not persistent, and its deletion is the event *unkeyed*.

`RequestsAreKept` counts the requests that were accepted and are not connected: each is in
the queue of a context or waits. `RequestInv` adds that a request that waits has a callback,
that callbacks wait only for an agent that is TERMINATING, that no request stands behind
a `StopCall` in a queue (unless *behindStop*), and that a removed agent has an empty queue. The callbacks
of an agent that has ended put what they post into the queue together (`FlattenSeq`), and what is
in a sequence joined like that takes an induction over its length (`FlattenDef`).

### StoryController

`StateFollowsRoot` relates the state of the story to that of its root, and several
operations write one before the other. Assumed: `Root` is a module on `Path`. `IInv` has

- `QueueOK`, `RunOK`: what is queued never asks for the root module by `StartModule`, and the
  operation under way is the head of the queue;
- `LaunchOK`: an operation whose next steps can launch the root module (`MayLaunch`) runs in
  a story that is followed;
- `TrackOK`: a story that is not followed, or has no shell yet, is being stopped or has no root;
- `DownOK`: only the operation under way tears modules down, and only the one it is about
  unless it stops the story;
- `ReadAllOK`: `StartCall` finds no root module when it reads the modules, unless *crashed*;
- `FollowsOK`: the property, also of a story that is gone.

`TypeInv` is needed by the two properties that follow: only modules the page knows run,
queued operations carry data of modules, and each step of an operation has what it acts on.

`RunsWhatIsStored` speaks of a story at rest; `SettledInv` says what is still to come. A
module that no operation is about does what the page wants of it (`Does`), *or* the watcher has
still to be told of it (`Dirty`), *or* a notification about it is in the queue. In each of its steps
the operation under way acts on the data the watcher knows, unless one of the last two holds for
its module. The events *stale*, *ignored* and *undone* are where this fails. `StartCall` is
the exception to one operation, one module: those it has not launched yet are in `run.todo`.

`NoViewForgotten` is proved for every tree of modules. `FindAnchor` walks up the parents and
`Sendable` is the least set of views that can follow those already sent; what they return is
found by induction over `Path`, where parents come first. `ViewInv` says that views that wait
are of running modules, and that their anchors are not sent. A new connection may change the
anchor of any module below it: only to itself (`NewAnchor`). `ProcessPendingViews` sends the
whole of `Sendable`, so none whose anchor is sent is left (`ProcessWaits`); a launch without a
view leaves such a view only with *unsent*.

### LinkImpl

`WatchersAreCurrent`: the watcher that made a change is not told of it; that it still knows the
value, if it is not behind, rests on three facts (`LinkOK`): every watcher that is not behind
knew the old value, the ids of connections begin at 2, so that none is the id under which the
page reports (`kOnChangeConnectionId`) or under which a replay is announced, and a change that
is not applied at once is followed by a replay that is announced to all.

`QuietLinkIsReplay` compares two ways to compute a document: the link applies changes one
by one, its own before they are written, those of other devices as they are
reported, in any order; and the page, read at once, is replayed in the order of the keys. The proof
has three layers.

- *What changes mean.* `IsValue(d, S)` says, without an order, that `d` is the value of the
  set `S`: each member is what the newest of the changes that touch it says. A set has one value
  (`ValueUnique`); the replay of a sorted list has it (`ApplyAllValue`); so has the
  old value with the newest change applied (`ValueNewest`); and the merge of the history with
  pending changes that the page already has is the history (`MergedSame`).
- *One link* (`Good`). The document is the value of a set `D` of changes, and what `D`
  lacks of the page is queued or will be reported, unless a read is under way (`Holds`). Pending
  changes are in the order of their keys; each is being written, or its echo is still to come, in
  the same order (`EchoesCome`), so that the first pending change is the one that an echo meets. The
  changes that wait for a key will get a greater one (`KeysGrow`).
- *All links* (`NumbersDiffer`). A key is a time and a tie breaker; the number of a
  call is found in no other call, so a key belongs to one change (`NumbersKeys`). This is what
  `key_generator.cc` is for, and what makes the newest change unique.

A link that is quiet has an empty queue, writes nothing and has been told of all its page, so `D` is
its history. `ReplayInv` speaks of the time until a call fails, a change comes in the way of a
read, or a clock is set back (*failed*, *unread*, *clock*). The hypothesis
`Covers[l] = {l}` says that the key of no link is the prefix of another's; the run `link_prefix`
shows that the property fails without it.

### What stays with TLC

- Liveness: `LockIsReleased`, `EventuallyUploaded`, `EventuallyDownloaded`, `Converges`,
  `OperationsAnswered`, `WatchersCatchUp`, `RequestsAnswered`, `UnusedIsDropped`,
  `UnusedAgentStops`, `TeardownEnds`, `QueueDrains`, `ChangesReachPage`. The prover handles
  neither fairness nor `ENABLED`.

Every safety property of the passing runs is stated by a theorem.

Induction over data is used where the data can be put into a set: `SetInduction` shows that a set of
natural numbers closed under successor is `Nat`, from the well-foundedness of `<`, and
each use of it defines its own set. That a recursive function has its defining equation is shown
the same way, one measure after the other (`ApplyAllDef`, `MergedDef`), or with a function that
is defined without recursion, from the sets closed under a step (`PastDef`, `DominatesDef`,
`WalkDef`).

## 5. Not modelled, and why

- Contents: keys, values, B-tree nodes, encryption, serialisation, beyond the few values
  `MergeResolver` and `LinkImpl` need. The properties do not tell contents apart.
- The status of single pieces: `PageSync` has one LOCAL mark per commit.
- Backoff times: a retry is a step that may come at any later time.
- Sync states shown to watchers beyond `download_state_`.
- Coroutine switching itself; a suspension is the end of an action.
- The cloud providers: clients of a remote service; `PageSync` models their contract.
- `PageSnapshotImpl`: reads of an immutable commit.
- `PageManager`: references to objects, the debug queries; `SyncWatcherSet` and the
  aggregation of sync states.
- `MergeResolver`: a failing `GetCommit` (`merge_resolver.cc:186` asserts before it looks at
  the status).
- Agents: persistent tasks for queues, whose deletion ends in the inverted branch of
  `DropWatcher`.
- Stories: chains, `StopForTeardown`, the watcher of an embedder, links named in module
  data, queries (`GetInfo`, `GetImportance`, `Log`), `StoryProviderImpl`.
- Links: schemas (only logged), JSON that does not parse (an operation without effect),
  the closing of watchers, `Get` and `GetEntity`, and the calls that
  `kEnableIncrementalLinks` turns off.
- Suggestions, context, the device and user runners, entities, the module resolver, the
  action log: services with little protocol state.

## 6. Plan

1. `StoryProviderImpl`: creation and deletion of stories, and chains.
2. Objects: status of pieces, split, B-tree as operators.
