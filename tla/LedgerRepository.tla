-------------------------- MODULE LedgerRepository --------------------------
(***************************************************************************)
(* How ledgers and pages are opened, shared and dropped:                   *)
(* LedgerRepositoryFactoryImpl, LedgerRepositoryImpl, LedgerManager and    *)
(* PageManager, with the directories of LedgerStorageImpl and the check of *)
(* the cloud by UserSyncImpl and LedgerSyncImpl.                           *)
(*                                                                         *)
(* Each level lives in an AutoCleanableMap of the level above and is       *)
(* erased by its own on_empty callback; DeletePage, a lost cloud provider  *)
(* and a cloud that was wiped erase from above, whatever is under way.     *)
(*                                                                         *)
(* One repository, at one path.  Page delegates, merges and the sync of a  *)
(* page are modelled elsewhere (PageDelegate, MergeResolver, PageSync);    *)
(* here they only begin and end.                                           *)
(***************************************************************************)
EXTENDS Naturals

CONSTANTS
    Ledger,           \* names of ledgers
    Page,             \* ids of pages
    LedgerOf,         \* the ledger of each page
    Request,          \* calls of GetPage
    MaxConnections,   \* bound: connections to the repository, and to a ledger
    MaxWork,          \* bound: merges, times the sync of a page gets busy, calls of
                      \* GetObject, snapshots and debug connections, together
    MaxFaults         \* bound: crashes, errors and times the cloud is wiped

ASSUME PageAssumption == LedgerOf \in [Page -> Ledger]
ASSUME BoundAssumption == MaxConnections \in Nat /\ MaxWork \in Nat /\ MaxFaults \in Nat

VARIABLES
    mem,      \* the repository, its ledgers and their pages
    disk,     \* the content directory: pages, and the fingerprint file
    known,    \* does the cloud know the fingerprint of this device?
    orphans,  \* calls of PageStorageImpl::Init whose container was erased
    answer,   \* which calls of GetPage were answered, which are lost
    work, faults,
    raced     \* what has happened that the properties except

limits == <<work, faults>>
vars == <<mem, disk, known, orphans, answer, limits, raced>>

RepositoryState ==
    [up : BOOLEAN, clients : Nat,  \* bindings_
     debug : BOOLEAN,              \* ledger_repository_debug_bindings_
     sync : {"none",               \* no cloud provider
             "devices",            \* UserSyncImpl waits for GetDeviceSet,
             "check", "set",       \* for CheckFingerprint or SetFingerprint,
             "found", "created",   \* for the OK the cloud has given to it,
             "retry",              \* for a delayed CheckCloudNotErased,
             "watch", "rewatch",   \* has a watcher, or waits to set one again,
             "failed"},            \* or has given up
     enabled : BOOLEAN]            \* upload_enabled_

LedgerState ==
    [up : BOOLEAN, clients : Nat, debug : BOOLEAN,
     upload : BOOLEAN]             \* upload_enabled_ of LedgerSyncImpl

PageState ==                       \* PageManagerContainer and PageManager
    [pc : {"none", "get", "create", "ready"},
     waiting : SUBSET Request,     \* requests_, or page_requests_ of the manager
     opening : SUBSET Request,     \* pages_: in Init,
     open : SUBSET Request,        \* bound,
     failed : SUBSET Request,      \* or failed in Init
     snapshot : BOOLEAN,           \* snapshots_
     debug : BOOLEAN,              \* debug_requests_, or page_debug_bindings_
     backlog : BOOLEAN,            \* sync_backlog_downloaded_
     timer : BOOLEAN,              \* the task delayed by sync_timeout_
     merging : BOOLEAN,            \* ~merge_resolver_->IsEmpty()
     sync : {"off", "backlog", "busy", "idle",
             "waits",              \* the upload was put off by a GetObject call,
             "stuck"},             \* or until the end of a download that has stopped
     fetch : {"none", "running",   \* current_get_object_calls_
              "unnoticed"},        \* its last call was the last thing to end
     upload : BOOLEAN]             \* enable_upload_ of PageSyncImpl

Event == {"dangling", "unmarked"}

NoRepository == [up |-> FALSE, clients |-> 0, debug |-> FALSE, sync |-> "none", enabled |-> FALSE]
NoLedger == [up |-> FALSE, clients |-> 0, debug |-> FALSE, upload |-> FALSE]
NoPage == [pc |-> "none", waiting |-> {}, opening |-> {}, open |-> {}, failed |-> {},
           snapshot |-> FALSE, debug |-> FALSE, backlog |-> FALSE, timer |-> FALSE,
           merging |-> FALSE, sync |-> "off", fetch |-> "none", upload |-> FALSE]

Nothing == [repo |-> NoRepository, ledgers |-> [l \in Ledger |-> NoLedger],
            pages |-> [p \in Page |-> NoPage]]

Init ==
    /\ mem = Nothing
    /\ disk = [dir |-> [p \in Page |-> "none"], mark |-> FALSE]
    /\ known = FALSE
    /\ orphans = [p \in Page |-> 0]
    /\ answer = [r \in Request |-> "unused"]
    /\ work = 0 /\ faults = 0
    /\ raced = {}

Fault == faults < MaxFaults /\ faults' = faults + 1

-----------------------------------------------------------------------------
(* on_empty: what is empty erases itself, then the level above looks *)

RepositoryCheckEmpty(m) ==
    IF /\ m.repo.clients = 0 /\ ~m.repo.debug
       /\ \A l \in Ledger : ~m.ledgers[l].up
    THEN [m EXCEPT !.repo = NoRepository]
    ELSE m

LedgerCheckEmpty(m, l) ==
    IF /\ m.ledgers[l].clients = 0 /\ ~m.ledgers[l].debug
       /\ \A p \in Page : LedgerOf[p] = l => m.pages[p].pc = "none"
    THEN RepositoryCheckEmpty([m EXCEPT !.ledgers[l] = NoLedger])
    ELSE m

ErasePage(m, p) == LedgerCheckEmpty([m EXCEPT !.pages[p] = NoPage], LedgerOf[p])

IsEmpty(c) ==
    /\ c.opening \cup c.open \cup c.failed = {} /\ ~c.snapshot
    /\ c.waiting = {} /\ ~c.merging
    /\ c.sync \in {"off", "idle"} /\ c.fetch # "running" /\ ~c.debug

PageCheckEmpty(m, p) == IF IsEmpty(m.pages[p]) THEN ErasePage(m, p) ELSE m

\* Page p becomes c.
With(p, c) == [mem EXCEPT !.pages[p] = c]

\* The containers of the pages S are destroyed.  Callers that wait for a
\* container or for the backlog are told; those whose page is in Init are not,
\* since BranchTracker::Init is scoped.  A storage in Init belongs to its own
\* callback, which still has the container.
Destroy(S) ==
    /\ answer' = [r \in Request |->
                    CASE \E p \in S : r \in mem.pages[p].waiting -> "told"
                      [] \E p \in S : r \in mem.pages[p].opening -> "lost"
                      [] OTHER -> answer[r]]
    /\ orphans' = [p \in Page |->
                    IF p \in S /\ mem.pages[p].pc \in {"get", "create"} THEN orphans[p] + 1
                    ELSE orphans[p]]

-----------------------------------------------------------------------------
(* LedgerRepositoryFactoryImpl and LedgerRepositoryImpl *)

\* GetRepository: a repository that is there is shared, and keeps its provider.
GetRepository(provider) ==
    /\ mem.repo.clients < MaxConnections
    /\ mem' = IF mem.repo.up THEN [mem EXCEPT !.repo.clients = @ + 1]
              ELSE [mem EXCEPT !.repo = [NoRepository EXCEPT
                                           !.up = TRUE, !.clients = 1,
                                           !.sync = IF provider THEN "devices" ELSE "none"]]
    /\ UNCHANGED <<disk, known, orphans, answer, limits, raced>>

CloseRepository ==
    /\ mem.repo.clients > 0
    /\ mem' = RepositoryCheckEmpty([mem EXCEPT !.repo.clients = @ - 1])
    /\ UNCHANGED <<disk, known, orphans, answer, limits, raced>>

GetLedgerRepositoryDebug ==
    /\ mem.repo.clients > 0 /\ ~mem.repo.debug
    /\ work < MaxWork /\ work' = work + 1
    /\ mem' = [mem EXCEPT !.repo.debug = TRUE]
    /\ UNCHANGED <<disk, known, orphans, answer, faults, raced>>

CloseRepositoryDebug ==
    /\ mem.repo.debug
    /\ mem' = RepositoryCheckEmpty([mem EXCEPT !.repo.debug = FALSE])
    /\ UNCHANGED <<disk, known, orphans, answer, limits, raced>>

\* GetLedger: a new ledger has a LedgerSync from CreateLedgerSync.
GetLedger(l) ==
    /\ mem.repo.clients > 0
    /\ mem.ledgers[l].clients < MaxConnections
    /\ mem' = IF mem.ledgers[l].up THEN [mem EXCEPT !.ledgers[l].clients = @ + 1]
              ELSE [mem EXCEPT !.ledgers[l] = [NoLedger EXCEPT
                                                 !.up = TRUE, !.clients = 1,
                                                 !.upload = mem.repo.enabled]]
    /\ UNCHANGED <<disk, known, orphans, answer, limits, raced>>

CloseLedger(l) ==
    /\ mem.ledgers[l].clients > 0
    /\ mem' = LedgerCheckEmpty([mem EXCEPT !.ledgers[l].clients = @ - 1], l)
    /\ UNCHANGED <<disk, known, orphans, answer, limits, raced>>

GetLedgerDebug(l) ==
    /\ mem.repo.debug /\ mem.ledgers[l].up /\ ~mem.ledgers[l].debug
    /\ work < MaxWork /\ work' = work + 1
    /\ mem' = [mem EXCEPT !.ledgers[l].debug = TRUE]
    /\ UNCHANGED <<disk, known, orphans, answer, faults, raced>>

CloseLedgerDebug(l) ==
    /\ mem.ledgers[l].debug
    /\ mem' = LedgerCheckEmpty([mem EXCEPT !.ledgers[l].debug = FALSE], l)
    /\ UNCHANGED <<disk, known, orphans, answer, limits, raced>>

-----------------------------------------------------------------------------
(* LedgerManager *)

\* PageManager::BindPage: S waits for the backlog or gets page delegates.
BindPage(c, S) ==
    IF c.backlog THEN [c EXCEPT !.opening = @ \cup S] ELSE [c EXCEPT !.waiting = @ \cup S]

\* GetPage: a container takes the request, and the first one for a page opens
\* its storage.  GetPageStorage answers NOT_FOUND at once if there is no
\* directory, and CreatePageStorage makes one, or fails and erases the container.
GetPage(r, p) ==
    /\ mem.ledgers[LedgerOf[p]].clients > 0 /\ answer[r] = "unused"
    /\ \/ /\ mem.pages[p].pc # "none"
          /\ mem' = With(p, IF mem.pages[p].pc = "ready" THEN BindPage(mem.pages[p], {r})
                            ELSE [mem.pages[p] EXCEPT !.waiting = @ \cup {r}])
          /\ answer' = [answer EXCEPT ![r] = "pending"]
          /\ UNCHANGED <<disk, faults>>
       \/ /\ mem.pages[p].pc = "none" /\ disk.dir[p] # "none"
          /\ mem' = With(p, [NoPage EXCEPT !.pc = "get", !.waiting = {r}])
          /\ answer' = [answer EXCEPT ![r] = "pending"]
          /\ UNCHANGED <<disk, faults>>
       \/ /\ mem.pages[p].pc = "none" /\ disk.dir[p] = "none"
          /\ disk' = [disk EXCEPT !.dir[p] = "fresh"]
          /\ mem' = With(p, [NoPage EXCEPT !.pc = "create", !.waiting = {r}])
          /\ answer' = [answer EXCEPT ![r] = "pending"]
          /\ UNCHANGED faults
       \/ /\ mem.pages[p].pc = "none" /\ disk.dir[p] = "none"
          /\ Fault
          /\ answer' = [answer EXCEPT ![r] = "told"]
          /\ UNCHANGED <<mem, disk>>
    /\ UNCHANGED <<known, orphans, work, raced>>

\* Mutant: the timeout is not set.
NewPageManagerMutant(p) ==
    LET c == mem.pages[p]
        synced == mem.repo.sync # "none"
    IN [c EXCEPT !.pc = "ready", !.waiting = {},
                 !.sync = IF synced THEN "backlog" ELSE "off",
                 !.backlog = ~synced \/ c.pc = "get",
                 !.upload = synced /\ mem.ledgers[LedgerOf[p]].upload]

\* The PageManager constructor: a new page that is synced waits for the
\* backlog, or for the timeout.
NewPageManager(p) ==
    LET c == mem.pages[p]
        synced == mem.repo.sync # "none"
    IN [c EXCEPT !.pc = "ready", !.waiting = {},
                 !.sync = IF synced THEN "backlog" ELSE "off",
                 !.backlog = ~synced \/ c.pc = "get",
                 !.timer = synced /\ c.pc = "create",
                 !.upload = synced /\ mem.ledgers[LedgerOf[p]].upload]

\* PageStorageImpl::Init has ended: SetPageManager.
StorageReady(p) ==
    /\ mem.pages[p].pc \in {"get", "create"}
    /\ mem' = With(p, BindPage(NewPageManager(p), mem.pages[p].waiting))
    /\ UNCHANGED <<disk, known, orphans, answer, limits, raced>>

StorageFails(p) ==
    /\ mem.pages[p].pc \in {"get", "create"}
    /\ answer' = [r \in Request |-> IF r \in mem.pages[p].waiting THEN "told" ELSE answer[r]]
    /\ mem' = ErasePage(mem, p)
    /\ Fault
    /\ UNCHANGED <<disk, known, orphans, work, raced>>

\* The callback of a storage uses a container that was erased.
OrphanAnswers(p) ==
    /\ orphans[p] > 0
    /\ orphans' = [orphans EXCEPT ![p] = @ - 1]
    /\ raced' = raced \cup {"dangling"}
    /\ UNCHANGED <<mem, disk, known, answer, limits>>

\* DeletePage: the container first, then the directory, which may fail.
DeletePage(p) ==
    /\ mem.ledgers[LedgerOf[p]].clients > 0
    /\ disk.dir[p] # "none"
    /\ Destroy({p})
    /\ mem' = ErasePage(mem, p)
    /\ \/ disk' = [disk EXCEPT !.dir[p] = "none"] /\ UNCHANGED faults
       \/ Fault /\ UNCHANGED disk
    /\ UNCHANGED <<known, work, raced>>

GetPageDebug(p) ==
    /\ mem.ledgers[LedgerOf[p]].debug /\ mem.pages[p].pc # "none" /\ ~mem.pages[p].debug
    /\ work < MaxWork /\ work' = work + 1
    /\ mem' = With(p, [mem.pages[p] EXCEPT !.debug = TRUE])
    /\ UNCHANGED <<disk, known, orphans, answer, faults, raced>>

-----------------------------------------------------------------------------
(* PageManager *)

ClosePageDebug(p) ==
    /\ mem.pages[p].pc = "ready" /\ mem.pages[p].debug
    /\ mem' = PageCheckEmpty(With(p, [mem.pages[p] EXCEPT !.debug = FALSE]), p)
    /\ UNCHANGED <<disk, known, orphans, answer, limits, raced>>

\* PageDelegate::Init ends.  If it fails the request is never bound, and so
\* nothing makes the delegate call its on_empty callback.
PageInit(r, p) ==
    /\ r \in mem.pages[p].opening
    /\ answer' = [answer EXCEPT ![r] = "told"]
    /\ \/ /\ mem' = With(p, [mem.pages[p] EXCEPT !.opening = @ \ {r}, !.open = @ \cup {r}])
          /\ UNCHANGED faults
       \/ /\ mem' = With(p, [mem.pages[p] EXCEPT !.opening = @ \ {r}, !.failed = @ \cup {r}])
          /\ Fault
    /\ UNCHANGED <<disk, known, orphans, work, raced>>

\* The client and all its watchers are gone.
ClosePage(r, p) ==
    /\ r \in mem.pages[p].open
    /\ mem' = PageCheckEmpty(With(p, [mem.pages[p] EXCEPT !.open = @ \ {r}]), p)
    /\ UNCHANGED <<disk, known, orphans, answer, limits, raced>>

BindPageSnapshot(p) ==
    /\ mem.pages[p].open # {} /\ ~mem.pages[p].snapshot
    /\ work < MaxWork /\ work' = work + 1
    /\ mem' = With(p, [mem.pages[p] EXCEPT !.snapshot = TRUE])
    /\ UNCHANGED <<disk, known, orphans, answer, faults, raced>>

CloseSnapshot(p) ==
    /\ mem.pages[p].snapshot
    /\ mem' = PageCheckEmpty(With(p, [mem.pages[p] EXCEPT !.snapshot = FALSE]), p)
    /\ UNCHANGED <<disk, known, orphans, answer, limits, raced>>

\* OnSyncBacklogDownloaded: the requests that waited are bound.
OnSyncBacklogDownloaded(c) ==
    BindPage([c EXCEPT !.backlog = TRUE, !.waiting = {}], c.waiting)

BacklogDownloaded(p) ==
    /\ mem.pages[p].sync = "backlog"
    /\ mem' = With(p, [OnSyncBacklogDownloaded(mem.pages[p]) EXCEPT !.sync = "busy"])
    /\ UNCHANGED <<disk, known, orphans, answer, limits, raced>>

SyncTimeout(p) ==
    /\ mem.pages[p].timer
    /\ LET c == [mem.pages[p] EXCEPT !.timer = FALSE] IN
         mem' = With(p, IF c.backlog THEN c ELSE OnSyncBacklogDownloaded(c))
    /\ UNCHANGED <<disk, known, orphans, answer, limits, raced>>

\* The sync of the page has nothing to do.
SyncIdle(p) ==
    /\ mem.pages[p].sync = "busy"
    /\ mem' = PageCheckEmpty(With(p, [mem.pages[p] EXCEPT !.sync = "idle"]), p)
    /\ UNCHANGED <<disk, known, orphans, answer, limits, raced>>

\* A permanent error stops the download.  An upload that was put off until the
\* end of the download (UPLOAD_WAIT_REMOTE_DOWNLOAD) then waits forever.
SyncStops(p) ==
    /\ mem.pages[p].sync \in {"backlog", "busy"}
    /\ \/ mem' = PageCheckEmpty(With(p, [mem.pages[p] EXCEPT !.sync = "idle"]), p)
       \/ mem.pages[p].upload /\ mem' = With(p, [mem.pages[p] EXCEPT !.sync = "stuck"])
    /\ Fault
    /\ UNCHANGED <<disk, known, orphans, answer, work, raced>>

\* New commits here or in the cloud; a lost watcher makes it ask for the backlog.
SyncBusy(p) ==
    /\ mem.pages[p].sync \in {"idle", "waits"}
    /\ work < MaxWork /\ work' = work + 1
    /\ \E s \in {"busy", "backlog"} : mem' = With(p, [mem.pages[p] EXCEPT !.sync = s])
    /\ UNCHANGED <<disk, known, orphans, answer, faults, raced>>

\* PageDownload::GetObject, for a client or a merge that reads the page.
GetObject(p) ==
    /\ mem.pages[p].open # {} \/ mem.pages[p].snapshot \/ mem.pages[p].merging
    /\ mem.pages[p].sync # "off" /\ mem.pages[p].fetch # "running"
    /\ work < MaxWork /\ work' = work + 1
    /\ mem' = With(p, [mem.pages[p] EXCEPT !.fetch = "running"])
    /\ UNCHANGED <<disk, known, orphans, answer, faults, raced>>

\* IsDownloadIdle is false because of it, and the upload is put off; the upload
\* goes on when the download has had something to do.
UploadPutOff(p) ==
    /\ mem.pages[p].sync = "busy" /\ mem.pages[p].upload /\ mem.pages[p].fetch = "running"
    /\ mem' = With(p, [mem.pages[p] EXCEPT !.sync = "waits"])
    /\ UNCHANGED <<disk, known, orphans, answer, limits, raced>>

\* The call ends: a counter goes down and nobody is told.
GetObjectEnds(p) ==
    /\ mem.pages[p].fetch = "running"
    /\ LET c == [mem.pages[p] EXCEPT !.fetch = "none"] IN
         mem' = With(p, IF IsEmpty(c) THEN [c EXCEPT !.fetch = "unnoticed"] ELSE c)
    /\ UNCHANGED <<disk, known, orphans, answer, limits, raced>>

MergeStarts(p) ==
    /\ mem.pages[p].pc = "ready" /\ ~mem.pages[p].merging
    /\ work < MaxWork /\ work' = work + 1
    /\ mem' = With(p, [mem.pages[p] EXCEPT !.merging = TRUE])
    /\ UNCHANGED <<disk, known, orphans, answer, faults, raced>>

\* Mutant: the page manager is not told that the merge has ended.
MergeEndsMutant(p) ==
    /\ mem.pages[p].merging
    /\ mem' = With(p, [mem.pages[p] EXCEPT !.merging = FALSE])
    /\ UNCHANGED <<disk, known, orphans, answer, limits, raced>>

MergeEnds(p) ==
    /\ mem.pages[p].merging
    /\ mem' = PageCheckEmpty(With(p, [mem.pages[p] EXCEPT !.merging = FALSE]), p)
    /\ UNCHANGED <<disk, known, orphans, answer, limits, raced>>

-----------------------------------------------------------------------------
(* UserSyncImpl: is the cloud still the one this device has synced with? *)

\* CheckCloudNotErased: what is asked of the device set, if the fingerprint file
\* can be read.
CheckCloudNotErased == IF disk.mark THEN "check" ELSE "set"

Sync(pc) == [mem EXCEPT !.repo.sync = pc]

\* EnableUpload: through the ledgers to their pages.
EnableUpload(m) ==
    [m EXCEPT !.repo.enabled = TRUE,
              !.ledgers = [l \in Ledger |-> [@[l] EXCEPT !.upload = m.ledgers[l].up]],
              !.pages = [p \in Page |-> [@[p] EXCEPT !.upload = m.pages[p].pc = "ready"]]]

DeviceSetAnswers ==
    /\ mem.repo.sync = "devices"
    /\ \/ mem' = Sync(CheckCloudNotErased) /\ UNCHANGED faults
       \/ mem' = Sync("failed") /\ Fault
    /\ UNCHANGED <<disk, known, orphans, answer, work, raced>>

\* The cloud answers OK to CheckFingerprint, or to SetFingerprint.
CheckFingerprint ==
    /\ mem.repo.sync = "check" /\ known
    /\ mem' = Sync("found")
    /\ UNCHANGED <<disk, known, orphans, answer, limits, raced>>

SetFingerprint ==
    /\ mem.repo.sync = "set"
    /\ known' = TRUE
    /\ mem' = Sync("created")
    /\ UNCHANGED <<disk, orphans, answer, limits, raced>>

\* The answer comes in (HandleDeviceSetResult), whatever the cloud is by then.
FingerprintFound ==
    /\ mem.repo.sync = "found"
    /\ mem' = EnableUpload(Sync("watch"))
    /\ UNCHANGED <<disk, known, orphans, answer, limits, raced>>

\* For SetFingerprint the file is written first, or upload stays off.
FingerprintSet ==
    /\ mem.repo.sync = "created"
    /\ \/ /\ disk' = [disk EXCEPT !.mark = TRUE]
          /\ mem' = EnableUpload(Sync("watch"))
          /\ UNCHANGED faults
       \/ mem' = Sync("failed") /\ Fault /\ UNCHANGED disk
    /\ UNCHANGED <<known, orphans, answer, work, raced>>

\* A network error is retried; any other error but NOT_FOUND is the end.
FingerprintError ==
    /\ mem.repo.sync \in {"check", "set"}
    /\ mem' \in {Sync("retry"), Sync("failed")}
    /\ Fault
    /\ UNCHANGED <<disk, known, orphans, answer, work, raced>>

RetryCheck ==
    /\ mem.repo.sync = "retry"
    /\ \/ mem' = Sync(CheckCloudNotErased) /\ UNCHANGED faults
       \/ disk.mark /\ mem' = Sync("failed") /\ Fault
    /\ UNCHANGED <<disk, known, orphans, answer, work, raced>>

\* OnNetworkError, and the delayed SetCloudErasedWatcher.
OnNetworkError ==
    /\ mem.repo.sync = "watch"
    /\ mem' = Sync("rewatch")
    /\ Fault
    /\ UNCHANGED <<disk, known, orphans, answer, work, raced>>

SetCloudErasedWatcher ==
    /\ mem.repo.sync = "rewatch"
    /\ mem' = Sync("watch")
    /\ UNCHANGED <<disk, known, orphans, answer, limits, raced>>

\* Mutant: the content is deleted in place, and a failure leaves a part of it.
DeleteRepositoryDirectoryMutant ==
    \/ disk' = [dir |-> [p \in Page |-> "none"], mark |-> FALSE] /\ UNCHANGED faults
    \/ Fault /\ disk' = [disk EXCEPT !.mark = FALSE]

\* DeleteRepositoryDirectory: the content is moved away as a whole, or stays.
DeleteRepositoryDirectory ==
    \/ disk' = [dir |-> [p \in Page |-> "none"], mark |-> FALSE] /\ UNCHANGED faults
    \/ Fault /\ UNCHANGED disk

\* NOT_FOUND to CheckFingerprint, or OnCloudErased: OnVersionMismatch shuts the
\* repository down, then deletes its directory.
OnVersionMismatch ==
    /\ mem.repo.sync \in {"check", "watch"} /\ ~known
    /\ Destroy(Page)
    /\ mem' = Nothing
    /\ DeleteRepositoryDirectory
    /\ UNCHANGED <<known, work, raced>>

-----------------------------------------------------------------------------
(* Failures *)

\* The error handler of the cloud provider erases the repository.
ProviderLost ==
    /\ mem.repo.sync # "none"
    /\ Fault
    /\ Destroy(Page)
    /\ mem' = Nothing
    /\ UNCHANGED <<disk, known, work, raced>>

\* Somebody wipes the cloud.  What is on disk is stale; a device without a
\* fingerprint file will not find out.
CloudErased ==
    /\ Fault
    /\ known' = FALSE
    /\ disk' = [disk EXCEPT !.dir = [p \in Page |-> IF @[p] = "none" THEN "none" ELSE "stale"]]
    /\ raced' = IF ~disk.mark /\ \E p \in Page : disk.dir[p] # "none"
                THEN raced \cup {"unmarked"} ELSE raced
    /\ UNCHANGED <<mem, orphans, answer, work>>

Crash ==
    /\ mem.repo.up
    /\ Fault
    /\ mem' = Nothing
    /\ orphans' = [p \in Page |-> 0]
    /\ answer' = [r \in Request |-> IF answer[r] = "pending" THEN "lost" ELSE answer[r]]
    /\ UNCHANGED <<disk, known, work, raced>>

-----------------------------------------------------------------------------

Client ==
    \/ \E provider \in BOOLEAN : GetRepository(provider)
    \/ CloseRepository \/ GetLedgerRepositoryDebug \/ CloseRepositoryDebug
    \/ \E l \in Ledger : GetLedger(l) \/ CloseLedger(l) \/ GetLedgerDebug(l) \/ CloseLedgerDebug(l)
    \/ \E p \in Page :
          \/ DeletePage(p) \/ GetPageDebug(p) \/ ClosePageDebug(p)
          \/ BindPageSnapshot(p) \/ CloseSnapshot(p)
          \/ \E r \in Request : GetPage(r, p) \/ ClosePage(r, p)

UserSync ==
    \/ DeviceSetAnswers \/ CheckFingerprint \/ SetFingerprint
    \/ FingerprintFound \/ FingerprintSet \/ FingerprintError \/ RetryCheck
    \/ OnNetworkError \/ SetCloudErasedWatcher \/ OnVersionMismatch

StorageAnswers(p) == StorageReady(p) \/ StorageFails(p)

Running(p) ==
    \/ StorageAnswers(p) \/ OrphanAnswers(p) \/ (\E r \in Request : PageInit(r, p))
    \/ BacklogDownloaded(p) \/ SyncTimeout(p) \/ SyncIdle(p) \/ SyncStops(p) \/ SyncBusy(p)
    \/ GetObject(p) \/ UploadPutOff(p) \/ GetObjectEnds(p)
    \/ MergeStarts(p) \/ MergeEnds(p)

\* Nothing is known of a process that has used an erased container.
Sound == "dangling" \notin raced

Next ==
    /\ Sound
    /\ \/ Client \/ UserSync \/ \E p \in Page : Running(p)
       \/ ProviderLost \/ CloudErased \/ Crash

Spec == Init /\ [][Next]_vars

\* The storage answers and the timer expires; a merge and a call of GetObject
\* end, and the sync of a page, which retries for as long as it takes, gets its
\* backlog and comes to rest.  Clients may do nothing, and the check of the cloud may fail forever.
Fairness ==
    \A p \in Page :
        /\ WF_vars(Sound /\ StorageAnswers(p))
        /\ \A r \in Request : WF_vars(Sound /\ PageInit(r, p))
        /\ WF_vars(Sound /\ SyncTimeout(p))
        /\ WF_vars(Sound /\ BacklogDownloaded(p)) /\ WF_vars(Sound /\ SyncIdle(p))
        /\ WF_vars(Sound /\ MergeEnds(p)) /\ WF_vars(Sound /\ GetObjectEnds(p))

FairSpec == Spec /\ Fairness

-----------------------------------------------------------------------------
(* Properties *)

TypeOK ==
    /\ mem.repo \in RepositoryState
    /\ mem.ledgers \in [Ledger -> LedgerState]
    /\ mem.pages \in [Page -> PageState]
    /\ disk \in [dir : [Page -> {"none", "fresh", "stale"}], mark : BOOLEAN]
    /\ known \in BOOLEAN
    /\ orphans \in [Page -> Nat]
    /\ answer \in [Request -> {"unused", "pending", "told", "lost"}]
    /\ work \in 0..MaxWork /\ faults \in 0..MaxFaults
    /\ raced \subseteq Event

\* Every call of GetPage is answered, whether the page is there, is created,
\* waits for its backlog, cannot be opened or is deleted meanwhile.  Excepted
\* are calls that are lost with their page delegate, which was destroyed in its
\* Init, or with the process, and what a storage does that calls back an erased
\* container.
RequestsAnswered ==
    \A r \in Request :
        answer[r] = "pending" ~> answer[r] \in {"told", "lost"} \/ "dangling" \in raced

InUse ==
    \/ mem.repo.clients > 0 \/ mem.repo.debug
    \/ \E l \in Ledger : mem.ledgers[l].clients > 0 \/ mem.ledgers[l].debug
    \/ \E p \in Page : mem.pages[p].open # {} \/ mem.pages[p].snapshot \/ mem.pages[p].debug

\* A repository that no client is connected to, at any level, is dropped in the
\* end, it makes its owner look.  Excepted are a page with a delegate that failed
\* in Init and one whose upload waits for a download that has stopped, which stay
\* forever; and, until the download has something to do, one where a call of
\* GetObject was the last thing to end or has put off the upload.
UnusedIsDropped ==
    []<>(\/ InUse \/ ~mem.repo.up
         \/ \E p \in Page : \/ mem.pages[p].failed # {}
                            \/ mem.pages[p].sync \in {"stuck", "waits"}
                            \/ mem.pages[p].fetch = "unnoticed"
         \/ "dangling" \in raced)

Uniform ==
    /\ \A l \in Ledger : mem.ledgers[l].up => mem.ledgers[l].upload = mem.repo.enabled
    /\ \A p \in Page : mem.pages[p].pc = "ready" => mem.pages[p].upload = mem.repo.enabled

\* Uploads are enabled in every ledger and page or in none, in whatever order
\* the cloud is checked and ledgers and pages are opened; and "false until the
\* cloud version has been checked": a device that uploads has its fingerprint on
\* disk and a watcher, or is about to set one again.  What is on disk from before
\* the cloud was wiped is uploaded only until that watcher tells: a wipe may come
\* later than the check, or while the OK is on its way, but then the cloud does
\* not know the fingerprint; through crashes, retries and deletions that fail.
\* Excepted is a wipe before this device had a fingerprint: pages are downloaded
\* without one.
UploadFollowsCheck ==
    /\ Uniform
    /\ mem.repo.enabled =>
          /\ disk.mark /\ mem.repo.sync \in {"watch", "rewatch"}
          /\ ~known \/ "unmarked" \in raced \/ \A p \in Page : disk.dir[p] # "stale"

=============================================================================
