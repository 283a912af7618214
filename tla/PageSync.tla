-------------------------------- MODULE PageSync --------------------------------
(***************************************************************************)
(* The synchronisation of one page with the cloud (bin/ledger/cloud_sync/  *)
(* impl): PageDownload and its BatchDownload, PageUpload and its           *)
(* BatchUpload, and PageSyncImpl, which couples the two.  Every callback   *)
(* of the storage, of the cloud provider or of the task runner is a step   *)
(* of its own; what a callback does before it returns is one action.       *)
(*                                                                         *)
(* The storage is reduced to what sync sees of it (PageStorage models it   *)
(* in detail): the heads are the leaves of the stored commits, and each    *)
(* commit stands for the pieces it brings along.  The cloud is the log of  *)
(* commits that fidl/cloud_provider.fidl describes; a position token is an *)
(* index into it.                                                          *)
(***************************************************************************)
EXTENDS Naturals, Sequences, FiniteSets, SequencesExt

CONSTANTS
    Commit,                \* ids of the commits other than the first one
    Root,                  \* kFirstPageCommitId
    Parents,               \* the one or two parents of each commit
    Generation,            \* the generation of each commit
    Local,                 \* commits this device may create
    Remote,                \* commits other devices may push
    Racing,                \* bound: commits that may be made while UploadUnsyncedCommits waits
    MaxConcurrentUploads,  \* max_concurrent_uploads of BatchUpload
    MaxGets,               \* bound: objects requested through the page
    MaxTemporary,          \* bound: temporary errors
    MaxPermanent,          \* bound: permanent errors
    MaxCrashes,            \* bound: crashes (or closings) of the page
    MaxFaults              \* bound: errors, crashes and requested objects together

ASSUME GraphAssumption ==
    /\ Root \notin Commit
    /\ Local \subseteq Commit /\ Remote \subseteq Commit /\ Racing \subseteq Local
    /\ Parents \in [Commit -> (SUBSET (Commit \cup {Root})) \ {{}}]
    /\ Generation \in [Commit \cup {Root} -> Nat]
    /\ \A c \in Commit : \A p \in Parents[c] : Generation[p] < Generation[c]

ASSUME LimitAssumption ==
    /\ MaxConcurrentUploads \in Nat \ {0}
    /\ {MaxGets, MaxTemporary, MaxPermanent, MaxCrashes, MaxFaults} \subseteq Nat

VARIABLES
    \* the page's database
    stored,       \* the commits of the page
    unsynced,     \* UnsyncedCommitRow
    pieces,       \* commits whose pieces have status LOCAL
    token,        \* sync metadata: the position of the last batch added
    \* the cloud
    log,          \* the commit log
    objects,      \* commits whose pieces are in the cloud
    \* the process
    sync,         \* PageSyncImpl
    down,         \* PageDownload
    batch,        \* batch_download_
    watcher,      \* the connection of the PageCloudWatcher
    gets,         \* GetObject calls: running, and waiting for a retry
    up,           \* PageUpload
    upload,       \* batch_upload_
    \* history
    backlog,      \* was on_backlog_downloaded_ called? if not, Len(log) when sync started
    faults        \* what happened so far of each bounded event, and whether a commit
                  \* was made while UploadUnsyncedCommits waited for the storage

rows == <<stored, unsynced, pieces, token>>
cloud == <<log, objects>>
downVars == <<down, batch, watcher, gets>>
upVars == <<up, upload>>
vars == <<rows, cloud, sync, downVars, upVars, backlog, faults>>

-----------------------------------------------------------------------------
(* Types and initial state *)

DownloadState ==
    {"STOPPED", "BACKLOG", "TEMPORARY_ERROR", "SETTING_REMOTE_WATCHER", "IDLE",
     "IN_PROGRESS", "PERMANENT_ERROR"}

UploadState ==
    {"STOPPED", "SETUP", "IDLE", "PENDING", "WAIT_TOO_MANY_LOCAL_HEADS",
     "WAIT_REMOTE_DOWNLOAD", "TEMPORARY_ERROR", "IN_PROGRESS", "PERMANENT_ERROR"}

SyncRecord == [started : BOOLEAN, enableUpload : BOOLEAN, download : DownloadState]

\* pc: the one callback that the commit download is waiting for (the sync
\* metadata or the commits in StartDownload, the metadata in SetRemoteWatcher,
\* or a delayed retry of either).
DownRecord ==
    [state : DownloadState,
     pc : {"none", "metadata", "commits", "watch", "retryStart", "retryWatch"},
     from : Nat, pending : Seq(Commit), pendingToken : Nat]

\* onDone: what the batch calls when it is done.  A batch that failed stays
\* in batch_download_, "dead".
BatchRecord ==
    [pc : {"none", "add", "token", "dead"}, commits : Seq(Commit), token : Nat,
     onDone : {"none", "backlog", "watcher"}]

WatcherRecord == [bound : BOOLEAN, waiting : BOOLEAN, pos : Nat]

GetsRecord == [calls : Nat, retries : Nat]

\* A run of UploadUnsyncedCommits waits for GetUnsyncedCommits, then for
\* GetHeadCommitIds; each read its answer from the database when it was called.
ChainRecord == [pc : {"commits", "heads"}, commits : SUBSET Commit,
                heads : SUBSET (Commit \cup {Root})]

UpRecord ==
    [state : UploadState, flag : BOOLEAN, watchers : Nat, chains : Seq(ChainRecord),
     retries : Nat]

UploadRecord ==
    [pc : {"none", "pieces", "objects", "filter", "send", "sent", "mark", "dead"},
     commits : SUBSET Commit, remaining : SUBSET Commit, uploading : SUBSET Commit,
     marking : SUBSET Commit, errored : BOOLEAN, permanent : BOOLEAN,
     fresh : SUBSET Commit]

BacklogRecord == [start : Nat, called : BOOLEAN]

FaultsRecord ==
    [gets : Nat, temporary : Nat, permanent : Nat, crashes : Nat, raced : BOOLEAN]

TypeOK ==
    /\ stored \subseteq Commit /\ unsynced \subseteq Commit /\ pieces \subseteq Commit
    /\ token \in Nat
    /\ log \in Seq(Commit) /\ objects \subseteq Commit
    /\ sync \in SyncRecord
    /\ down \in DownRecord
    /\ batch \in BatchRecord
    /\ watcher \in WatcherRecord
    /\ gets \in GetsRecord
    /\ up \in UpRecord
    /\ upload \in UploadRecord
    /\ backlog \in BacklogRecord
    /\ faults \in FaultsRecord

NoSync == [started |-> FALSE, enableUpload |-> FALSE, download |-> "STOPPED"]
NoDown == [state |-> "STOPPED", pc |-> "none", from |-> 0, pending |-> <<>>,
           pendingToken |-> 0]
NoBatch == [pc |-> "none", commits |-> <<>>, token |-> 0, onDone |-> "none"]
NoWatcher == [bound |-> FALSE, waiting |-> FALSE, pos |-> 0]
NoGets == [calls |-> 0, retries |-> 0]
NoUp == [state |-> "STOPPED", flag |-> FALSE, watchers |-> 0, chains |-> <<>>,
         retries |-> 0]
NoUpload == [pc |-> "none", commits |-> {}, remaining |-> {}, uploading |-> {},
             marking |-> {}, errored |-> FALSE, permanent |-> FALSE, fresh |-> {}]

\* The objects of PageSyncImpl's constructor.
Constructed ==
    /\ sync = NoSync /\ down = NoDown /\ batch = NoBatch /\ watcher = NoWatcher
    /\ gets = NoGets /\ up = NoUp /\ upload = NoUpload
    /\ backlog = [start |-> 0, called |-> FALSE]

Init ==
    /\ stored = {} /\ unsynced = {} /\ pieces = {} /\ token = 0
    /\ log = <<>> /\ objects = {}
    /\ Constructed
    /\ faults = [gets |-> 0, temporary |-> 0, permanent |-> 0, crashes |-> 0, raced |-> FALSE]

-----------------------------------------------------------------------------
(* Helpers *)

\* The leaves of the stored commits: what GetHeadCommitIds answers.
Heads == {x \in stored \cup {Root} : \A c \in stored : x \notin Parents[c]}

\* The orders in which GetUnsyncedCommits may list the commits S: by generation,
\* then by id, which is any order here.
InGenerationOrder(S) ==
    {s \in [1..Cardinality(S) -> S] :
        /\ ToSet(s) = S
        /\ \A i, k \in DOMAIN s : i < k => Generation[s[i]] <= Generation[s[k]]}

MayFail == faults.gets + faults.temporary + faults.permanent + faults.crashes < MaxFaults

TemporaryError ==
    /\ MayFail /\ faults.temporary < MaxTemporary
    /\ faults' = [faults EXCEPT !.temporary = @ + 1]

PermanentError ==
    /\ MayFail /\ faults.permanent < MaxPermanent
    /\ faults' = [faults EXCEPT !.permanent = @ + 1]

-----------------------------------------------------------------------------
(* PageUpload, PageDownload and PageSyncImpl: the functions they share *)

\* Is a batch_upload_ there?
Uploading == upload.pc # "none"

\* GetUnsyncedCommits reads the rows when it is called and answers later.
Chain(rowsRead) == [pc |-> "commits", commits |-> rowsRead, heads |-> {}]

UploadUnsyncedCommits(u, uploading, rowsRead) ==
    CASE ~u.flag -> [u EXCEPT !.state = "IDLE"]
      [] u.flag /\ uploading -> u
      [] OTHER -> [u EXCEPT !.chains = Append(@, Chain(rowsRead))]

StartUpload(u) ==
    UploadUnsyncedCommits(
        IF u.state = "STOPPED" THEN [u EXCEPT !.flag = TRUE, !.state = "SETUP"] ELSE u,
        Uploading, unsynced)

\* The state PageDownload shows: running GetObject calls count as a download.
GetMergedState(state) ==
    IF state = "IDLE" /\ gets.calls > 0 THEN "IN_PROGRESS" ELSE state

IsDownloadIdle == GetMergedState(down.state) \in {"STOPPED", "IDLE", "PERMANENT_ERROR"}

\* The call of on_backlog_downloaded_ when the download leaves the backlog state.
OnBacklogDownloaded(next) ==
    backlog' = IF sync.download = "BACKLOG" /\ next # "PERMANENT_ERROR"
                 THEN [start |-> 0, called |-> TRUE] ELSE backlog

\* Mutant: the upload is not started when the download becomes idle.
SetDownloadStateMutant(next) ==
    /\ sync' = [sync EXCEPT !.download = next]
    /\ OnBacklogDownloaded(next)
    /\ up' = up

\* PageSyncImpl starts the upload when the download becomes idle.
SetDownloadState(next) ==
    /\ sync' = [sync EXCEPT !.download = next]
    /\ OnBacklogDownloaded(next)
    /\ up' = IF sync.download # "IDLE" /\ next = "IDLE" /\ sync.enableUpload
               THEN StartUpload(up) ELSE up

\* SetCommitState tells PageSyncImpl only if the state it shows has changed.
\* (The caller assigns down'.)
SetCommitState(new) ==
    IF GetMergedState(down.state) # GetMergedState(new)
      THEN SetDownloadState(GetMergedState(new))
      ELSE UNCHANGED <<sync, backlog, up>>

\* HandleDownloadCommitError, called from the callback pc.
HandleDownloadCommitError(pc) ==
    /\ down' = [down EXCEPT !.state = "PERMANENT_ERROR", !.pc = pc]
    /\ watcher' = NoWatcher
    /\ SetCommitState("PERMANENT_ERROR")

-----------------------------------------------------------------------------
(* PageSyncImpl *)

EnableUpload ==
    /\ ~sync.enableUpload
    /\ sync' = [sync EXCEPT !.enableUpload = TRUE]
    /\ up' = IF sync.started /\ up.state = "STOPPED" THEN StartUpload(up) ELSE up
    /\ UNCHANGED <<rows, cloud, downVars, upload, backlog, faults>>

Start ==
    /\ ~sync.started
    /\ sync' = [sync EXCEPT !.started = TRUE, !.download = "BACKLOG"]
    /\ down' = [down EXCEPT !.state = "BACKLOG", !.pc = "metadata"]
    /\ up' = IF sync.enableUpload THEN StartUpload(up) ELSE up
    /\ backlog' = [backlog EXCEPT !.start = Len(log)]
    /\ UNCHANGED <<rows, cloud, batch, watcher, gets, upload, faults>>

\* The page is closed, or the process crashes: all that is left is the
\* database and the cloud.
Crash ==
    /\ sync.started
    /\ MayFail /\ faults.crashes < MaxCrashes
    /\ faults' = [faults EXCEPT !.crashes = @ + 1]
    /\ sync' = NoSync /\ down' = NoDown /\ batch' = NoBatch /\ watcher' = NoWatcher
    /\ gets' = NoGets /\ up' = NoUp /\ upload' = NoUpload
    /\ backlog' = [start |-> 0, called |-> FALSE]
    /\ UNCHANGED <<rows, cloud>>

-----------------------------------------------------------------------------
(* PageDownload: StartDownload *)

\* GetSyncMetadata answers: ask the cloud for all commits after the token.
StartDownloadMetadata ==
    /\ down.pc = "metadata"
    /\ down' = [down EXCEPT !.pc = "commits", !.from = token]
    /\ UNCHANGED <<rows, cloud, sync, batch, watcher, gets, upVars, backlog, faults>>

StartDownloadMetadataError ==
    /\ down.pc = "metadata"
    /\ PermanentError
    /\ HandleDownloadCommitError("none")
    /\ UNCHANGED <<rows, cloud, batch, gets, upload>>

\* The cloud may also return the commit at the token.
CommitsAfter(pos) ==
    {SubSeq(log, i, Len(log)) : i \in {pos + 1} \cup ({pos} \ {0})}

\* Mutant: the remote watcher is set while the commits are being added.
GetCommitsMutant ==
    /\ down.pc = "commits"
    /\ \E commits \in CommitsAfter(down.from) :
         /\ down' = [down EXCEPT !.state = "SETTING_REMOTE_WATCHER", !.pc = "watch", !.from = 0]
         /\ SetCommitState("SETTING_REMOTE_WATCHER")
         /\ batch' = IF commits = <<>> THEN batch
                     ELSE [pc |-> "add", commits |-> commits, token |-> Len(log),
                           onDone |-> "none"]
    /\ UNCHANGED <<rows, cloud, watcher, gets, upload, faults>>

\* GetCommits answers: without commits the remote watcher is set at once, else
\* when the batch is added.
GetCommits ==
    /\ down.pc = "commits"
    /\ \E commits \in CommitsAfter(down.from) :
         \/ /\ commits = <<>>
            /\ down' = [down EXCEPT !.state = "SETTING_REMOTE_WATCHER", !.pc = "watch",
                                     !.from = 0]
            /\ SetCommitState("SETTING_REMOTE_WATCHER")
            /\ UNCHANGED batch
         \/ /\ commits # <<>>
            /\ down' = [down EXCEPT !.pc = "none", !.from = 0]
            /\ batch' = [pc |-> "add", commits |-> commits, token |-> Len(log),
                         onDone |-> "backlog"]
            /\ UNCHANGED <<sync, backlog, up>>
    /\ UNCHANGED <<rows, cloud, watcher, gets, upload, faults>>

GetCommitsError ==
    /\ down.pc = "commits"
    /\ TemporaryError
    /\ down' = [down EXCEPT !.state = "TEMPORARY_ERROR", !.pc = "retryStart",
                            !.from = 0]
    /\ SetCommitState("TEMPORARY_ERROR")
    /\ UNCHANGED <<rows, cloud, batch, watcher, gets, upload>>

RetryStartDownload ==
    /\ down.pc = "retryStart"
    /\ IF down.state = "PERMANENT_ERROR"
         THEN /\ down' = [down EXCEPT !.pc = "none"]
              /\ UNCHANGED <<sync, backlog, up>>
         ELSE /\ down' = [down EXCEPT !.state = "BACKLOG", !.pc = "metadata"]
              /\ SetCommitState("BACKLOG")
    /\ UNCHANGED <<rows, cloud, batch, watcher, gets, upload, faults>>

-----------------------------------------------------------------------------
(* PageDownload: the remote watcher *)

\* Mutant: the watcher starts at the end of the log.
SetRemoteWatcherMutant ==
    /\ down.pc = "watch"
    /\ watcher' = [bound |-> TRUE, waiting |-> FALSE, pos |-> Len(log)]
    /\ down' = [down EXCEPT !.state = "IDLE", !.pc = "none"]
    /\ SetCommitState("IDLE")
    /\ UNCHANGED <<rows, cloud, batch, gets, upload, faults>>

\* GetSyncMetadata answers: the watcher is bound and the download is idle.
SetRemoteWatcher ==
    /\ down.pc = "watch"
    /\ watcher' = [bound |-> TRUE, waiting |-> FALSE, pos |-> token]
    /\ down' = [down EXCEPT !.state = "IDLE", !.pc = "none"]
    /\ SetCommitState("IDLE")
    /\ UNCHANGED <<rows, cloud, batch, gets, upload, faults>>

SetRemoteWatcherError ==
    /\ down.pc = "watch"
    /\ PermanentError
    /\ HandleDownloadCommitError("none")
    /\ UNCHANGED <<rows, cloud, batch, gets, upload>>

\* The watcher gets commits.  While a batch is downloaded they are put aside;
\* else the cloud waits for the end of the new batch.
OnNewCommits ==
    /\ watcher.bound /\ ~watcher.waiting
    /\ \E k \in (watcher.pos + 1)..Len(log) :
         LET commits == SubSeq(log, watcher.pos + 1, k) IN
         \/ /\ batch.pc # "none"
            /\ down' = [down EXCEPT !.pending = @ \o commits, !.pendingToken = k]
            /\ watcher' = [watcher EXCEPT !.pos = k]
            /\ UNCHANGED <<batch, sync, backlog, up>>
         \/ /\ batch.pc = "none"
            /\ down' = [down EXCEPT !.state = "IN_PROGRESS"]
            /\ SetCommitState("IN_PROGRESS")
            /\ batch' = [pc |-> "add", commits |-> commits, token |-> k,
                         onDone |-> "watcher"]
            /\ watcher' = [watcher EXCEPT !.pos = k, !.waiting = TRUE]
    /\ UNCHANGED <<rows, cloud, gets, upload, faults>>

\* The connection of the watcher is lost: bind a new one later.
OnError ==
    /\ watcher.bound
    /\ TemporaryError
    /\ watcher' = NoWatcher
    /\ down' = [down EXCEPT !.state = "TEMPORARY_ERROR", !.pc = "retryWatch"]
    /\ SetCommitState("TEMPORARY_ERROR")
    /\ UNCHANGED <<rows, cloud, batch, gets, upload>>

OnPermanentError ==
    /\ watcher.bound
    /\ PermanentError
    /\ HandleDownloadCommitError(down.pc)
    /\ UNCHANGED <<rows, cloud, batch, gets, upload>>

RetrySetRemoteWatcher ==
    /\ down.pc = "retryWatch"
    /\ IF down.state = "PERMANENT_ERROR"
         THEN /\ down' = [down EXCEPT !.pc = "none"]
              /\ UNCHANGED <<sync, backlog, up>>
         ELSE /\ down' = [down EXCEPT !.state = "SETTING_REMOTE_WATCHER", !.pc = "watch"]
              /\ SetCommitState("SETTING_REMOTE_WATCHER")
    /\ UNCHANGED <<rows, cloud, batch, watcher, gets, upload, faults>>

-----------------------------------------------------------------------------
(* BatchDownload *)

\* AddCommitsFromSync: commits that are known become synced.
BatchAdd ==
    /\ batch.pc = "add"
    /\ \A c \in ToSet(batch.commits) :
         Parents[c] \subseteq stored \cup ToSet(batch.commits) \cup {Root}
    /\ stored' = stored \cup ToSet(batch.commits)
    /\ unsynced' = unsynced \ ToSet(batch.commits)
    /\ batch' = [batch EXCEPT !.pc = "token"]
    /\ UNCHANGED <<pieces, token, cloud, sync, down, watcher, gets, upVars, backlog, faults>>

\* Decrypting or adding the commits failed, or a parent is missing.
BatchAddError ==
    /\ batch.pc = "add"
    /\ \/ PermanentError
       \/ /\ \E c \in ToSet(batch.commits) :
               ~(Parents[c] \subseteq stored \cup ToSet(batch.commits) \cup {Root})
          /\ UNCHANGED faults
    /\ batch' = [batch EXCEPT !.pc = "dead"]
    /\ HandleDownloadCommitError(down.pc)
    /\ UNCHANGED <<rows, cloud, gets, upload>>

\* on_done of the batch: the backlog is followed by SetRemoteWatcher, a batch
\* of the watcher by its callback; then the commits put aside, if any, are the
\* next batch.
BatchDone ==
    /\ watcher' = [watcher EXCEPT !.waiting = FALSE]
    /\ LET next == IF batch.onDone = "backlog" THEN "SETTING_REMOTE_WATCHER"
                   ELSE IF down.state = "IN_PROGRESS" /\ down.pending = <<>> THEN "IDLE"
                   ELSE down.state
       IN /\ down' = [down EXCEPT !.state = next,
                                  !.pc = IF batch.onDone = "backlog" THEN "watch" ELSE @,
                                  !.pending = <<>>, !.pendingToken = 0]
          /\ SetCommitState(next)
    /\ batch' = IF down.pending = <<>> THEN NoBatch
                ELSE [pc |-> "add", commits |-> down.pending, token |-> down.pendingToken,
                      onDone |-> "none"]

\* UpdateTimestampAndQuit.
BatchUpdateTimestamp ==
    /\ batch.pc = "token"
    /\ token' = batch.token
    /\ BatchDone
    /\ UNCHANGED <<stored, unsynced, pieces, cloud, gets, upload, faults>>

BatchUpdateTimestampError ==
    /\ batch.pc = "token"
    /\ PermanentError
    /\ batch' = [batch EXCEPT !.pc = "dead"]
    /\ HandleDownloadCommitError(down.pc)
    /\ UNCHANGED <<rows, cloud, gets, upload>>

-----------------------------------------------------------------------------
(* PageDownload: objects requested by the storage *)

\* The storage asks for an object as long as PageDownload is its sync delegate.
GetObject ==
    /\ down.state \notin {"STOPPED", "PERMANENT_ERROR"}
    /\ MayFail /\ faults.gets < MaxGets
    /\ faults' = [faults EXCEPT !.gets = @ + 1]
    /\ gets' = [gets EXCEPT !.calls = @ + 1]
    /\ UNCHANGED <<rows, cloud, sync, down, batch, watcher, upVars, backlog>>

\* The object arrives or the call fails for good.
GetObjectDone ==
    /\ gets.calls > 0
    /\ gets' = [gets EXCEPT !.calls = @ - 1]
    /\ UNCHANGED <<rows, cloud, sync, down, batch, watcher, upVars, backlog, faults>>

GetObjectError ==
    /\ gets.calls > 0
    /\ TemporaryError
    /\ gets' = [gets EXCEPT !.calls = @ - 1, !.retries = @ + 1]
    /\ UNCHANGED <<rows, cloud, sync, down, batch, watcher, upVars, backlog>>

RetryGetObject ==
    /\ gets.retries > 0
    /\ gets' = [calls |-> IF down.state = "PERMANENT_ERROR" THEN gets.calls
                                                            ELSE gets.calls + 1,
                retries |-> gets.retries - 1]
    /\ UNCHANGED <<rows, cloud, sync, down, batch, watcher, upVars, backlog, faults>>

-----------------------------------------------------------------------------
(* PageUpload *)

\* CommitWatcher::OnNewCommits for a local commit, called times > 0 times in a
\* row: the calls differ only in the runs of UploadUnsyncedCommits they start.
OnNewLocalCommits(times, rowsRead) ==
    LET u == [up EXCEPT !.flag = TRUE] IN
    CASE ~IsDownloadIdle -> [u EXCEPT !.state = "WAIT_REMOTE_DOWNLOAD"]
      [] IsDownloadIdle /\ up.state = "TEMPORARY_ERROR" -> u
      [] OTHER -> [u EXCEPT !.state = "PENDING",
                            !.chains = IF Uploading THEN @
                                       ELSE @ \o [i \in 1..times |-> Chain(rowsRead)]]

\* The storage calls each registration of the watcher.
NotifyWatchers(rowsRead) ==
    IF up.watchers = 0 THEN up ELSE OnNewLocalCommits(up.watchers, rowsRead)

\* A client or the merge resolver commits a journal; the answer an upload waits
\* for may be older than this commit.
AddLocalCommit(c) ==
    /\ c \in Local \ stored
    /\ c \in Racing \/ up.chains = <<>>
    /\ Parents[c] \subseteq stored \cup {Root}
    /\ stored' = stored \cup {c}
    /\ unsynced' = unsynced \cup {c}
    /\ pieces' = pieces \cup {c}
    /\ up' = NotifyWatchers(unsynced \cup {c})
    /\ faults' = [faults EXCEPT !.raced = @ \/ up.chains # <<>>]
    /\ UNCHANGED <<token, cloud, sync, downVars, upload, backlog>>

\* Run i of UploadUnsyncedCommits ends.
EndChain(u, i) == [u EXCEPT !.chains = RemoveAt(@, i)]

\* HandleError: the watcher is removed unless the upload is still in setup.
HandleError(u) ==
    [u EXCEPT !.state = "PERMANENT_ERROR",
              !.watchers = IF u.state \in {"STOPPED", "SETUP"} \/ @ = 0 THEN @ ELSE @ - 1]

\* Answers come in the order of the calls, except that an empty list of commits
\* is there before the commits of a longer one are read.
InTurn(i) ==
    \A k \in 1..(i - 1) :
        up.chains[k].pc = up.chains[i].pc => up.chains[i].commits = {} /\ up.chains[k].commits # {}

\* GetUnsyncedCommits answers.
VerifyUnsyncedCommits(i) ==
    /\ up.chains[i].pc = "commits"
    /\ InTurn(i)
    /\ LET u == IF up.state = "SETUP" THEN [up EXCEPT !.watchers = @ + 1] ELSE up IN
         up' = IF up.chains[i].commits = {}
                 THEN EndChain([u EXCEPT !.state = "IDLE", !.flag = FALSE], i)
                 ELSE [u EXCEPT !.chains[i].pc = "heads", !.chains[i].heads = Heads]
    /\ UNCHANGED <<rows, cloud, sync, downVars, upload, backlog, faults>>

VerifyUnsyncedCommitsError(i) ==
    /\ up.chains[i].pc = "commits"
    /\ PermanentError
    /\ up' = EndChain(HandleError([up EXCEPT !.state = "PERMANENT_ERROR"]), i)
    /\ UNCHANGED <<rows, cloud, sync, downVars, upload, backlog>>

\* GetHeadCommitIds answers and nothing stops the upload.
MayUpload(i) ==
    /\ up.chains[i].pc = "heads"
    /\ ~Uploading
    /\ IsDownloadIdle
    /\ Cardinality(up.chains[i].heads) = 1

\* BatchUpload::Start reads the unsynced pieces.
HandleUnsyncedCommits(i) ==
    /\ InTurn(i)
    /\ MayUpload(i)
    /\ up' = EndChain([up EXCEPT !.state = "IN_PROGRESS"], i)
    /\ upload' = [NoUpload EXCEPT !.pc = "pieces",
                                  !.commits = up.chains[i].commits,
                                  !.remaining = pieces]
    /\ UNCHANGED <<rows, cloud, sync, downVars, backlog, faults>>

\* GetHeadCommitIds answers, but the upload has to wait.
PostponeUpload(i) ==
    /\ InTurn(i)
    /\ up.chains[i].pc = "heads"
    /\ ~MayUpload(i)
    /\ up' = EndChain(CASE Uploading -> up
                        [] ~Uploading /\ ~IsDownloadIdle ->
                             [up EXCEPT !.state = "WAIT_REMOTE_DOWNLOAD"]
                        [] OTHER ->
                             [up EXCEPT !.state = "WAIT_TOO_MANY_LOCAL_HEADS", !.flag = FALSE],
                      i)
    /\ UNCHANGED <<rows, cloud, sync, downVars, upload, backlog, faults>>

GetHeadsError(i) ==
    /\ up.chains[i].pc = "heads"
    /\ PermanentError
    /\ up' = EndChain(HandleError(up), i)
    /\ UNCHANGED <<rows, cloud, sync, downVars, upload, backlog>>

RetryUpload ==
    /\ up.retries > 0
    /\ LET u == [up EXCEPT !.retries = @ - 1] IN
         up' = IF up.state = "PERMANENT_ERROR" THEN u
               ELSE UploadUnsyncedCommits(u, Uploading, unsynced)
    /\ UNCHANGED <<rows, cloud, sync, downVars, upload, backlog, faults>>

-----------------------------------------------------------------------------
(* BatchUpload *)

\* on_done: look for more commits.
UploadDone(rowsRead) ==
    /\ upload' = NoUpload
    /\ up' = UploadUnsyncedCommits(up, FALSE, rowsRead)

\* on_error.  After a permanent error the batch stays in batch_upload_.
UploadFailed(permanent) ==
    IF permanent
      THEN /\ up' = [up EXCEPT !.state = "PERMANENT_ERROR"]
           /\ upload' = [NoUpload EXCEPT !.pc = "dead"]
      ELSE /\ up' = [up EXCEPT !.state = "TEMPORARY_ERROR", !.retries = @ + 1]
           /\ upload' = NoUpload

\* FilterAndUploadCommits reads the unsynced rows again.
Filtering(u) == [u EXCEPT !.pc = "filter", !.fresh = unsynced]

\* The pieces that are handed to the cloud first.
FirstObjects ==
    {S \in SUBSET upload.remaining :
        Cardinality(S) = MaxConcurrentUploads
        \/ (Cardinality(S) < MaxConcurrentUploads /\ S = upload.remaining)}

\* GetUnsyncedPieces answers.
StartObjectUpload ==
    /\ upload.pc = "pieces"
    /\ \/ /\ upload.remaining = {}
          /\ upload' = Filtering(upload)
       \/ /\ upload.remaining # {}
          /\ \E S \in FirstObjects :
               upload' = [upload EXCEPT !.pc = "objects", !.uploading = S, !.remaining = @ \ S]
    /\ UNCHANGED <<rows, cloud, sync, downVars, up, backlog, faults>>

StartUploadError ==
    /\ upload.pc = "pieces"
    /\ PermanentError
    /\ UploadFailed(TRUE)
    /\ UNCHANGED <<rows, cloud, sync, downVars, backlog>>

\* AddObject succeeds; MarkPieceSynced is called.
AddObject(p) ==
    /\ p \in upload.uploading
    /\ objects' = objects \cup {p}
    /\ upload' = [upload EXCEPT !.uploading = @ \ {p}, !.marking = @ \cup {p}]
    /\ UNCHANGED <<rows, log, sync, downVars, up, backlog, faults>>

\* A piece cannot be encrypted or sent, or its answer is lost.  The batch
\* fails once no other piece is under way.
AddObjectError(p) ==
    /\ p \in upload.uploading
    /\ TemporaryError
    /\ objects' \in {objects, objects \cup {p}}
    /\ IF upload.uploading = {p} /\ upload.marking = {}
         THEN UploadFailed(upload.permanent)
         ELSE /\ upload' = [upload EXCEPT !.uploading = @ \ {p}, !.remaining = @ \cup {p},
                                          !.errored = TRUE]
              /\ UNCHANGED up
    /\ UNCHANGED <<rows, log, sync, downVars, backlog>>

\* Mutant: the commits follow as soon as the last piece is sent.
PieceHandledMutant(u) ==
    \/ /\ u.remaining = {}
       /\ upload' = Filtering(u)
       /\ UNCHANGED up
    \/ /\ u.remaining # {}
       /\ \E q \in u.remaining :
            upload' = [u EXCEPT !.uploading = @ \cup {q}, !.remaining = @ \ {q}]
       /\ UNCHANGED up

\* What MarkPieceSynced's callback does with the batch u that the piece has left.
PieceHandled(u) ==
    LET under == u.uploading \cup u.marking IN
    \/ /\ u.errored /\ under = {}
       /\ UploadFailed(u.permanent)
    \/ /\ ~u.errored /\ under = {} /\ u.remaining = {}
       /\ upload' = Filtering(u)
       /\ UNCHANGED up
    \/ /\ ~u.errored /\ u.remaining # {}
       /\ \E q \in u.remaining :
            upload' = [u EXCEPT !.uploading = @ \cup {q}, !.remaining = @ \ {q}]
       /\ UNCHANGED up
    \/ /\ under # {} /\ (u.errored \/ u.remaining = {})
       /\ upload' = u
       /\ UNCHANGED up

MarkPieceSynced(p) ==
    /\ p \in upload.marking
    /\ pieces' = pieces \ {p}
    /\ PieceHandled([upload EXCEPT !.marking = @ \ {p}])
    /\ UNCHANGED <<stored, unsynced, token, cloud, sync, downVars, backlog, faults>>

MarkPieceSyncedError(p) ==
    /\ p \in upload.marking
    /\ PermanentError
    /\ PieceHandled([upload EXCEPT !.marking = @ \ {p}, !.errored = TRUE,
                                      !.permanent = TRUE])
    /\ UNCHANGED <<rows, cloud, sync, downVars, backlog>>

\* GetUnsyncedCommits answers: commits that were synced meanwhile are left out.
FilterAndUploadCommits ==
    /\ upload.pc = "filter"
    /\ LET left == upload.commits \cap upload.fresh IN
         \/ /\ left = {}
            /\ UploadDone(unsynced)
         \/ /\ left # {}
            /\ upload' = [upload EXCEPT !.pc = "send", !.commits = left]
            /\ UNCHANGED up
    /\ UNCHANGED <<rows, cloud, sync, downVars, backlog, faults>>

\* An error there is taken for an empty answer.
FilterError ==
    /\ upload.pc = "filter"
    /\ PermanentError
    /\ UploadDone(unsynced)
    /\ UNCHANGED <<rows, cloud, sync, downVars, backlog>>

EncryptCommitsError ==
    /\ upload.pc = "send"
    /\ PermanentError
    /\ UploadFailed(TRUE)
    /\ UNCHANGED <<rows, cloud, sync, downVars, backlog>>

\* The cloud appends the commits, in one batch and in their order.
AddCommits ==
    /\ upload.pc = "send"
    /\ \E s \in InGenerationOrder(upload.commits) : log' = log \o s
    /\ upload' = [upload EXCEPT !.pc = "sent"]
    /\ UNCHANGED <<rows, objects, sync, downVars, up, backlog, faults>>

\* Mutant: a temporary error of AddCommits is taken for a success.
AddCommitsErrorMutant ==
    /\ upload.pc \in {"send", "sent"}
    /\ TemporaryError
    /\ upload' = [upload EXCEPT !.pc = "mark"]
    /\ UNCHANGED <<rows, cloud, sync, downVars, up, backlog>>

\* AddCommits fails, before or after it took effect.
AddCommitsError ==
    /\ upload.pc \in {"send", "sent"}
    /\ TemporaryError
    /\ UploadFailed(FALSE)
    /\ UNCHANGED <<rows, cloud, sync, downVars, backlog>>

AddCommitsDone ==
    /\ upload.pc = "sent"
    /\ upload' = [upload EXCEPT !.pc = "mark"]
    /\ UNCHANGED <<rows, cloud, sync, downVars, up, backlog, faults>>

\* MarkCommitSynced for one commit; after the last one the batch is done.
MarkCommitSynced(c) ==
    /\ upload.pc = "mark"
    /\ c \in upload.commits
    /\ unsynced' = unsynced \ {c}
    /\ LET left == upload.commits \ {c} IN
         \/ /\ left = {}
            /\ UploadDone(unsynced \ {c})
         \/ /\ left # {}
            /\ upload' = [upload EXCEPT !.commits = left]
            /\ UNCHANGED up
    /\ UNCHANGED <<stored, pieces, token, cloud, sync, downVars, backlog, faults>>

\* The first error ends the batch; the other calls take effect or not.
MarkCommitSyncedError ==
    /\ upload.pc = "mark"
    /\ PermanentError
    /\ \E marked \in SUBSET upload.commits : unsynced' = unsynced \ marked
    /\ UploadFailed(TRUE)
    /\ UNCHANGED <<stored, pieces, token, cloud, sync, downVars, backlog>>

-----------------------------------------------------------------------------
(* Other devices *)

\* Another device uploads a commit, after its pieces and after its parents.
PushRemote(c) ==
    /\ c \in Remote \ ToSet(log)
    /\ Parents[c] \subseteq ToSet(log) \cup {Root}
    /\ log' = Append(log, c)
    /\ objects' = objects \cup {c}
    /\ UNCHANGED <<rows, sync, downVars, upVars, backlog, faults>>

-----------------------------------------------------------------------------
DownloadStep ==
    \/ StartDownloadMetadata \/ GetCommits \/ RetryStartDownload
    \/ SetRemoteWatcher \/ RetrySetRemoteWatcher
    \/ BatchAdd \/ BatchUpdateTimestamp

DownloadError ==
    \/ StartDownloadMetadataError \/ GetCommitsError \/ SetRemoteWatcherError
    \/ OnError \/ OnPermanentError \/ BatchAddError \/ BatchUpdateTimestampError

ObjectStep == GetObjectDone \/ RetryGetObject

UploadStep ==
    \/ \E i \in DOMAIN up.chains :
         VerifyUnsyncedCommits(i) \/ HandleUnsyncedCommits(i) \/ PostponeUpload(i)
    \/ RetryUpload

UploadError ==
    \/ \E i \in DOMAIN up.chains : VerifyUnsyncedCommitsError(i) \/ GetHeadsError(i)
    \/ StartUploadError \/ FilterError \/ EncryptCommitsError \/ AddCommitsError
    \/ MarkCommitSyncedError
    \/ \E p \in Commit : AddObjectError(p) \/ MarkPieceSyncedError(p)

BatchUploadStep ==
    \/ StartObjectUpload \/ FilterAndUploadCommits \/ AddCommits \/ AddCommitsDone
    \/ \E c \in Commit : AddObject(c) \/ MarkPieceSynced(c) \/ MarkCommitSynced(c)

\* The merge resolver merges two heads.
MergeHeads == \E c \in Local : Cardinality(Parents[c]) = 2 /\ Parents[c] \subseteq Heads
                               /\ AddLocalCommit(c)

Next ==
    \/ EnableUpload \/ Start \/ Crash
    \/ DownloadStep \/ OnNewCommits \/ DownloadError
    \/ GetObject \/ ObjectStep \/ GetObjectError
    \/ UploadStep \/ UploadError \/ BatchUploadStep
    \/ \E c \in Commit : AddLocalCommit(c) \/ PushRemote(c)

Spec == Init /\ [][Next]_vars

\* Sync is started, and its upload enabled, whenever the page is open; every
\* callback is made and every delayed task runs; the cloud delivers; the merge
\* resolver merges.
Fairness ==
    /\ WF_vars(Start) /\ WF_vars(EnableUpload)
    /\ WF_vars(DownloadStep) /\ WF_vars(OnNewCommits)
    /\ WF_vars(ObjectStep)
    /\ WF_vars(UploadStep) /\ WF_vars(BatchUploadStep)
    /\ WF_vars(MergeHeads)

FairSpec == Spec /\ Fairness

-----------------------------------------------------------------------------
(* Properties *)

InLog(c) == c \in ToSet(log)

\* The position token never runs ahead of the database: every commit of the
\* log up to the token is stored, so that no crash, lost watcher or batch put
\* aside makes the next GetCommits or SetWatcher skip a remote commit.
TokenIsCovered == \A i \in 1..token : i \in DOMAIN log /\ log[i] \in stored

\* A commit this device takes for synced is in the cloud, whether the answer
\* of AddCommits, the watcher or a backlog said so.
SyncedIsInCloud == \A c \in stored \ unsynced : InLog(c)

\* The cloud never shows a commit whose pieces are missing: BatchUpload sends
\* the commits after all pieces that were unsynced when it started, through
\* retries and failed calls.
ObjectsBeforeCommits == ToSet(log) \subseteq objects

\* The upload waits for a download that is idle, and nothing of it is under way:
\* the download was kept busy by a GetObject call, whose end tells nobody
\* (page_download.cc:355, 372, 377).
WaitsForGetObject ==
    /\ faults.gets > 0
    /\ up.state = "WAIT_REMOTE_DOWNLOAD" /\ down.state = "IDLE"
    /\ up.chains = <<>> /\ up.retries = 0 /\ ~Uploading

\* Every local commit is uploaded in the end, or received back from the cloud:
\* an upload that fails or is put off (the download is busy, there are two
\* heads) is made up for without another commit, unless an error the code calls
\* permanent stops it, or the commit was made while an answer that does not
\* have it yet, and clears commits_to_upload_, was on its way, or the upload
\* waits for good for a GetObject call that has ended.
EventuallyUploaded ==
    \A c \in Commit :
        c \in unsynced ~> \/ c \notin unsynced
                         \/ faults.permanent > 0 \/ faults.raced
                         \/ []WaitsForGetObject

\* Every commit of the cloud is stored in the end, unless an error the code
\* calls permanent stops the sync: GetCommits, the watcher and their retries
\* leave no gap between the token and what they deliver.
EventuallyDownloaded ==
    \A c \in Commit : InLog(c) ~> c \in stored \/ faults.permanent > 0

\* on_backlog_downloaded_ is called "when all remote commits added to the cloud
\* between the last sync and starting the current sync are added to storage",
\* as long as no temporary error occurs (such an error calls it early).
BacklogIsStored ==
    [][backlog'.called /\ ~backlog.called /\ faults'.temporary = 0
         => \A i \in 1..backlog.start : log[i] \in stored]_vars

=============================================================================
