--------------------------- MODULE PageSyncProofs ---------------------------
(***************************************************************************)
(* Proofs about PageSync: type correctness, and the three safety           *)
(* invariants of the synchronisation of a page: the position token is      *)
(* covered by the stored commits, what is marked synced is in the cloud,   *)
(* and the cloud shows no commit without its pieces.  They hold for every  *)
(* graph of commits, every number of local and remote commits, of          *)
(* concurrent uploads, of errors and of crashes.                           *)
(*                                                                         *)
(* At the end, the same for LedgerRepository, which lets pages upload: for *)
(* every set of ledgers, pages and requests, its types, and that uploads   *)
(* are enabled everywhere or nowhere, and only after the cloud was found   *)
(* to be the one this device has synced with.                              *)
(***************************************************************************)
EXTENDS PageSync, TLAPS, FiniteSetTheorems, SequenceTheorems

\* The first n commits of the log l are in S.
Covered(l, n, S) == n \in 0..Len(l) /\ \A i \in 1..n : l[i] \in S

\* What will be stored once the batch under way, and the commits put aside,
\* have been added.
Adding == IF batch.pc = "add" THEN ToSet(batch.commits) ELSE {}
Coming == stored \cup Adding \cup ToSet(down.pending)

\* StartDownload runs before there is a batch or a watcher, and commits are put
\* aside only behind a batch.
StartInv ==
    /\ ~sync.started => down.pc = "none" /\ batch.pc = "none" /\ ~watcher.bound
    /\ down.pc \in {"metadata", "commits", "retryStart"} => batch.pc = "none" /\ ~watcher.bound
    /\ batch.pc = "none" => down.pending = <<>>

\* Every position the download works with is covered: by the database, or by
\* the database and what is about to be added to it.  (A batch that failed is
\* never replaced, and what is put aside behind it never reaches the token.)
TokenInv ==
    /\ Covered(log, token, stored)
    /\ down.pc = "commits" => Covered(log, down.from, stored)
    /\ batch.pc \in {"add", "token"} => Covered(log, batch.token, stored \cup Adding)
    /\ batch.pc \in {"add", "token"} /\ down.pending # <<>> =>
         Covered(log, down.pendingToken, Coming)
    /\ watcher.bound /\ batch.pc # "dead" => Covered(log, watcher.pos, Coming)

\* PageSyncImpl sees the backlog state while StartDownload waits for an answer or
\* its batch is added, and that batch reaches beyond the backlog.
BacklogInv ==
    /\ sync.download = "BACKLOG" => down.state = "BACKLOG"
    /\ down.state = "BACKLOG" =>
         \/ down.pc \in {"metadata", "commits"}
         \/ /\ down.pc = "none" /\ ~watcher.bound
            /\ batch.pc \in {"add", "token"} /\ batch.onDone = "backlog"
    /\ backlog.start <= Len(log)
    /\ batch.pc \in {"add", "token"} /\ batch.onDone = "backlog" => backlog.start <= batch.token

\* What came from the cloud is in its log, and a batch of local commits is
\* marked synced only when it is there, too.
SyncedInv ==
    /\ SyncedIsInCloud
    /\ ToSet(batch.commits) \subseteq ToSet(log)
    /\ ToSet(down.pending) \subseteq ToSet(log)
    /\ upload.pc \in {"sent", "mark"} => upload.commits \subseteq ToSet(log)

\* The states of PageUpload in which only commits of S have been read.
ChainOver(S) == [pc : {"commits", "heads"}, commits : SUBSET S,
                 heads : SUBSET (Commit \cup {Root})]
UpOver(S) == [state : UploadState, flag : BOOLEAN, watchers : Nat,
              chains : Seq(ChainOver(S)), retries : Nat]

\* The types of the database and the cloud, and of the process: more precise
\* than TypeOK in that only stored commits are read for an upload.
RowsTyped ==
    /\ stored \subseteq Commit /\ IsFiniteSet(stored)
    /\ unsynced \subseteq stored
    /\ pieces \subseteq Commit
    /\ token \in Nat
    /\ log \in Seq(Commit)
    /\ objects \subseteq Commit

ProcessTyped ==
    /\ sync \in SyncRecord
    /\ down \in DownRecord
    /\ batch \in BatchRecord
    /\ watcher \in WatcherRecord
    /\ gets \in GetsRecord
    /\ up \in UpOver(stored)
    /\ upload \in UploadRecord /\ upload.commits \subseteq stored
    /\ backlog \in BacklogRecord
    /\ faults \in FaultsRecord

TypeInv == RowsTyped /\ ProcessTyped

\* A stored commit has its pieces in the cloud, or on the list of the pieces to
\* be uploaded; a batch that is to send commits has sent all their pieces.
ObjectsInv ==
    /\ ObjectsBeforeCommits
    /\ stored \ pieces \subseteq objects
    /\ upload.marking \subseteq objects
    /\ upload.pc # "objects" => upload.uploading = {} /\ upload.marking = {}
    /\ upload.pc \in {"pieces", "objects"} =>
         upload.commits \subseteq objects \cup upload.remaining \cup upload.uploading
    /\ upload.pc \in {"filter", "send", "sent", "mark"} => upload.commits \subseteq objects

IInv == TypeInv /\ StartInv /\ TokenInv /\ BacklogInv /\ SyncedInv /\ ObjectsInv

-----------------------------------------------------------------------------
(* Lemmas on sequences *)

\* What the elements of a sequence are.
LEMMA ToSetElements ==
    ASSUME NEW S, NEW s \in Seq(S)
    PROVE  /\ ToSet(s) = {s[i] : i \in 1..Len(s)}
           /\ ToSet(s) \subseteq S
BY DEF ToSet

\* The elements of a concatenation are those of its parts.
LEMMA ToSetConcat ==
    ASSUME NEW S, NEW s \in Seq(S), NEW t \in Seq(S)
    PROVE  /\ s \o t \in Seq(S)
           /\ ToSet(s \o t) = ToSet(s) \cup ToSet(t)
<1>1. s \o t \in Seq(S) /\ Len(s \o t) = Len(s) + Len(t) /\ Len(s) \in Nat /\ Len(t) \in Nat
  OBVIOUS
<1>2. \A i \in 1..Len(s) : (s \o t)[i] = s[i]
  OBVIOUS
<1>3. \A i \in 1..Len(t) : (s \o t)[Len(s) + i] = t[i]
  OBVIOUS
<1>4. /\ ToSet(s) = {s[i] : i \in 1..Len(s)}
      /\ ToSet(t) = {t[i] : i \in 1..Len(t)}
      /\ ToSet(s \o t) = {(s \o t)[i] : i \in 1..Len(s \o t)}
  BY <1>1, ToSetElements
<1>5. ASSUME NEW i \in 1..Len(s \o t)
      PROVE  (s \o t)[i] \in ToSet(s) \cup ToSet(t)
  <2>1. CASE i <= Len(s)
    BY <2>1, <1>1, <1>2, <1>4
  <2>2. CASE i > Len(s)
    <3>1. i - Len(s) \in 1..Len(t) /\ Len(s) + (i - Len(s)) = i
      BY <2>2, <1>1
    <3>2. (s \o t)[i] = t[i - Len(s)]
      BY <3>1, <1>3
    <3> QED BY <3>1, <3>2, <1>4
  <2> QED BY <2>1, <2>2, <1>1
<1>6. ASSUME NEW i \in 1..Len(s)
      PROVE  s[i] \in ToSet(s \o t)
  <2>1. i \in 1..Len(s \o t)
    BY <1>1
  <2> QED BY <2>1, <1>2, <1>4
<1>7. ASSUME NEW i \in 1..Len(t)
      PROVE  t[i] \in ToSet(s \o t)
  <2>1. Len(s) + i \in 1..Len(s \o t)
    BY <1>1
  <2> QED BY <2>1, <1>3, <1>4
<1> QED BY <1>1, <1>4, <1>5, <1>6, <1>7, ZenonT(40)

\* Append adds one element.
LEMMA ToSetAppend ==
    ASSUME NEW S, NEW s \in Seq(S), NEW x \in S
    PROVE  ToSet(Append(s, x)) = ToSet(s) \cup {x}
<1> DEFINE t == <<x>>
<1>1. Append(s, x) = s \o t
  BY AppendIsConcat
<1>2. t \in Seq(S) /\ Len(t) = 1 /\ t[1] = x
  OBVIOUS
<1> HIDE DEF t
<1>3. ToSet(t) = {x}
  BY <1>2, ToSetElements
<1>4. ToSet(s \o t) = ToSet(s) \cup ToSet(t)
  BY <1>2, ToSetConcat
<1> QED BY <1>1, <1>3, <1>4

\* A segment of a sequence, and where its elements come from.
LEMMA Segment ==
    ASSUME NEW S, NEW s \in Seq(S), NEW i \in Nat \ {0}, NEW k \in Nat, i <= k + 1, k <= Len(s)
    PROVE  /\ SubSeq(s, i, k) \in Seq(S)
           /\ ToSet(SubSeq(s, i, k)) = {s[j] : j \in i..k}
<1> DEFINE u == SubSeq(s, i, k)
<1>1. u \in Seq(S) /\ Len(u) = k - i + 1
      /\ \A j \in 1..(k - i + 1) : u[j] = s[i + j - 1]
  OBVIOUS
<1>2. ToSet(u) = {u[j] : j \in 1..Len(u)}
  BY <1>1, ToSetElements
<1> HIDE DEF u
<1>3. ASSUME NEW j \in 1..Len(u)
      PROVE  u[j] \in {s[n] : n \in i..k}
  <2>1. u[j] = s[i + j - 1] /\ i + j - 1 \in i..k
    BY <1>1
  <2> QED BY <2>1
<1>4. ASSUME NEW j \in i..k
      PROVE  s[j] \in ToSet(u)
  <2>1. j - i + 1 \in 1..Len(u) /\ i + (j - i + 1) - 1 = j
    BY <1>1
  <2>2. u[j - i + 1] = s[j]
    BY <2>1, <1>1
  <2> QED BY <2>1, <2>2, <1>2
<1>5. ToSet(u) = {s[j] : j \in i..k}
  BY <1>2, <1>3, <1>4
<1> QED BY <1>1, <1>5 DEF u

\* RemoveAt leaves a sequence over the same set.
LEMMA RemoveAtType ==
    ASSUME NEW S, NEW s \in Seq(S), NEW i \in DOMAIN s
    PROVE  RemoveAt(s, i) \in Seq(S)
<1>1. SubSeq(s, 1, i - 1) \in Seq(S) /\ SubSeq(s, i + 1, Len(s)) \in Seq(S)
  OBVIOUS
<1> QED BY <1>1 DEF RemoveAt

\* The elements of a sequence are finitely many.
LEMMA ToSetFinite ==
    ASSUME NEW S, NEW s \in Seq(S)
    PROVE  IsFiniteSet(ToSet(s))
<1>1. IsFiniteSet(1..Len(s))
  BY FS_Interval
<1>2. s \in Surjection(1..Len(s), ToSet(s))
  BY ToSetElements DEF Surjection
<1> QED BY <1>1, <1>2, FS_Surjection

-----------------------------------------------------------------------------
(* What the functions of PageUpload return *)

\* More commits may be stored behind the back of an upload.
LEMMA UpOverMonotone ==
    ASSUME NEW S, NEW T, S \subseteq T, NEW u \in UpOver(S)
    PROVE  u \in UpOver(T)
<1>1. ChainOver(S) \subseteq ChainOver(T)
  BY DEF ChainOver
<1>2. u.chains \in Seq(ChainOver(T))
  BY <1>1 DEF UpOver
<1> QED BY <1>2 DEF UpOver

\* A run of UploadUnsyncedCommits reads the unsynced commits.
LEMMA UploadUnsyncedCommitsType ==
    ASSUME NEW S, NEW R \in SUBSET S, NEW u \in UpOver(S), NEW b \in BOOLEAN
    PROVE  UploadUnsyncedCommits(u, b, R) \in UpOver(S)
<1>1. Chain(R) \in ChainOver(S)
  BY DEF Chain, ChainOver
<1>2. u.chains \in Seq(ChainOver(S)) /\ Append(u.chains, Chain(R)) \in Seq(ChainOver(S))
  BY <1>1 DEF UpOver
<1> QED BY <1>2 DEF UploadUnsyncedCommits, UpOver, UploadState

\* StartUpload primes the upload and runs it.
LEMMA StartUploadType ==
    ASSUME NEW S, unsynced \in SUBSET S, NEW u \in UpOver(S)
    PROVE  StartUpload(u) \in UpOver(S)
<1> DEFINE v == IF u.state = "STOPPED" THEN [u EXCEPT !.flag = TRUE, !.state = "SETUP"] ELSE u
<1>1. v \in UpOver(S)
  BY DEF UpOver, UploadState
<1>2. Uploading \in BOOLEAN
  BY DEF Uploading
<1> QED BY <1>1, <1>2, UploadUnsyncedCommitsType DEF StartUpload

\* Each registration of the watcher may start a run.
LEMMA NotifyWatchersType ==
    ASSUME NEW S, NEW R \in SUBSET S, up \in UpOver(S)
    PROVE  NotifyWatchers(R) \in UpOver(S)
<1> DEFINE new == [i \in 1..up.watchers |-> Chain(R)]
<1>1. Chain(R) \in ChainOver(S)
  BY DEF Chain, ChainOver
<1>2. up.chains \in Seq(ChainOver(S)) /\ up.watchers \in Nat
  BY DEF UpOver
<1>3. new \in Seq(ChainOver(S))
  BY <1>1, <1>2
<1>4. up.chains \o new \in Seq(ChainOver(S))
  BY <1>2, <1>3
<1> HIDE DEF new
<1>5. ASSUME NEW c \in Seq(ChainOver(S)), NEW st \in UploadState
      PROVE  [[up EXCEPT !.flag = TRUE] EXCEPT !.state = st, !.chains = c] \in UpOver(S)
  BY DEF UpOver
<1>6. ASSUME NEW st \in UploadState
      PROVE  [[up EXCEPT !.flag = TRUE] EXCEPT !.state = st] \in UpOver(S)
  BY DEF UpOver
<1>7. [up EXCEPT !.flag = TRUE] \in UpOver(S) /\ [up EXCEPT !.flag = TRUE].chains = up.chains
  BY DEF UpOver
<1>8. "PENDING" \in UploadState /\ "WAIT_REMOTE_DOWNLOAD" \in UploadState
  BY DEF UploadState
<1> QED BY <1>2, <1>4, <1>5, <1>6, <1>7, <1>8 DEF NotifyWatchers, OnNewLocalCommits, new

\* A run that ends leaves the others.
LEMMA EndChainType ==
    ASSUME NEW S, NEW u \in UpOver(S), NEW i \in DOMAIN u.chains
    PROVE  EndChain(u, i) \in UpOver(S)
<1>1. u.chains \in Seq(ChainOver(S))
  BY DEF UpOver
<1>2. RemoveAt(u.chains, i) \in Seq(ChainOver(S))
  BY <1>1, RemoveAtType
<1> QED BY <1>2 DEF EndChain, UpOver

\* HandleError stops the upload and touches no run.
LEMMA HandleErrorType ==
    ASSUME NEW S, NEW u \in UpOver(S)
    PROVE  HandleError(u) \in UpOver(S) /\ HandleError(u).chains = u.chains
<1> DEFINE w == IF u.state \in {"STOPPED", "SETUP"} \/ u.watchers = 0
                  THEN u.watchers ELSE u.watchers - 1
<1>1. w \in Nat
  BY DEF UpOver
<1>2. HandleError(u) = [u EXCEPT !.state = "PERMANENT_ERROR", !.watchers = w]
  BY DEF HandleError
<1> HIDE DEF w
<1> QED BY <1>1, <1>2 DEF UpOver, UploadState

\* SetCommitState, called with whatever state, keeps the types of the variables
\* it assigns.
LEMMA SetCommitStateType ==
    ASSUME TypeInv, NEW new \in DownloadState, SetCommitState(new)
    PROVE  /\ sync' \in SyncRecord
           /\ backlog' \in BacklogRecord
           /\ up' \in UpOver(stored)
<1>1. GetMergedState(new) \in DownloadState
  BY DEF GetMergedState, DownloadState
<1>2. unsynced \in SUBSET stored /\ up \in UpOver(stored)
  BY DEF TypeInv, RowsTyped, ProcessTyped
<1>3. StartUpload(up) \in UpOver(stored)
  BY <1>2, StartUploadType
<1>4. CASE GetMergedState(down.state) # GetMergedState(new)
  <2>1. SetDownloadState(GetMergedState(new))
    BY <1>4 DEF SetCommitState
  <2>2. sync' \in SyncRecord
    BY <2>1, <1>1 DEF SetDownloadState, TypeInv, ProcessTyped, SyncRecord
  <2>3. backlog' \in BacklogRecord
    BY <2>1 DEF SetDownloadState, OnBacklogDownloaded, TypeInv, ProcessTyped, BacklogRecord
  <2>4. up' \in UpOver(stored)
    BY <2>1, <1>2, <1>3 DEF SetDownloadState
  <2> QED BY <2>2, <2>3, <2>4
<1>5. CASE GetMergedState(down.state) = GetMergedState(new)
  BY <1>5, <1>2 DEF SetCommitState, TypeInv, ProcessTyped
<1> QED BY <1>4, <1>5

\* HandleDownloadCommitError stops the download and drops the watcher.
LEMMA HandleDownloadCommitErrorType ==
    ASSUME TypeInv, NEW pc \in {"none", down.pc},
           HandleDownloadCommitError(pc)
    PROVE  /\ sync' \in SyncRecord
           /\ backlog' \in BacklogRecord
           /\ up' \in UpOver(stored)
           /\ down' \in DownRecord
           /\ watcher' \in WatcherRecord
<1>1. "PERMANENT_ERROR" \in DownloadState
  BY DEF DownloadState
<1>2. SetCommitState("PERMANENT_ERROR")
  BY DEF HandleDownloadCommitError
<1>3. down' \in DownRecord
  BY <1>1 DEF HandleDownloadCommitError, TypeInv, ProcessTyped, DownRecord
<1>4. watcher' \in WatcherRecord
  BY DEF HandleDownloadCommitError, NoWatcher, WatcherRecord
<1> QED BY <1>1, <1>2, <1>3, <1>4, SetCommitStateType

-----------------------------------------------------------------------------
(* Type correctness *)

\* The types that the proofs work with are those of the model.
LEMMA TypeInvImpliesTypeOK == TypeInv => TypeOK
<1> SUFFICES ASSUME TypeInv PROVE TypeOK
  OBVIOUS
<1>1. UpOver(Commit) = UpRecord
  BY DEF UpOver, UpRecord, ChainOver, ChainRecord
<1>2. up \in UpRecord
  BY <1>1, UpOverMonotone DEF TypeInv, RowsTyped, ProcessTyped
<1> QED BY <1>2 DEF TypeInv, RowsTyped, ProcessTyped, TypeOK

\* Errors and crashes are counted.
LEMMA FaultsType ==
    ASSUME TypeInv, TemporaryError \/ PermanentError
    PROVE  faults' \in FaultsRecord
BY DEF TypeInv, ProcessTyped, FaultsRecord, TemporaryError, PermanentError

\* Nothing changes in the database or in the cloud, and what changes in the
\* process is typed.
LEMMA FrameTypes ==
    ASSUME TypeInv, UNCHANGED <<rows, cloud>>,
           sync' \in SyncRecord, down' \in DownRecord, batch' \in BatchRecord,
           watcher' \in WatcherRecord, gets' \in GetsRecord, up' \in UpOver(stored),
           upload' \in UploadRecord, upload'.commits \subseteq stored,
           backlog' \in BacklogRecord, faults' \in FaultsRecord
    PROVE  TypeInv'
BY DEF TypeInv, RowsTyped, ProcessTyped, rows, cloud

\* The steps of StartDownload and of the remote watcher.
LEMMA DownloadTypes ==
    ASSUME TypeInv,
           \/ StartDownloadMetadata \/ StartDownloadMetadataError \/ GetCommits
           \/ GetCommitsError \/ RetryStartDownload \/ SetRemoteWatcher
           \/ SetRemoteWatcherError \/ OnNewCommits \/ OnError \/ OnPermanentError
           \/ RetrySetRemoteWatcher
    PROVE  TypeInv'
<1> USE DEF downVars, upVars
<1>0. /\ sync \in SyncRecord /\ down \in DownRecord /\ batch \in BatchRecord
      /\ watcher \in WatcherRecord /\ gets \in GetsRecord /\ up \in UpOver(stored)
      /\ upload \in UploadRecord /\ upload.commits \subseteq stored
      /\ backlog \in BacklogRecord /\ faults \in FaultsRecord
      /\ token \in Nat /\ log \in Seq(Commit)
  BY DEF TypeInv, RowsTyped, ProcessTyped
<1>s. {"BACKLOG", "TEMPORARY_ERROR", "SETTING_REMOTE_WATCHER", "IDLE", "IN_PROGRESS",
       "PERMANENT_ERROR"} \subseteq DownloadState
  BY DEF DownloadState
<1>1. CASE StartDownloadMetadata
  <2>1. down' \in DownRecord
    BY <1>1, <1>0 DEF StartDownloadMetadata, DownRecord
  <2> QED BY <1>1, <1>0, <2>1, FrameTypes DEF StartDownloadMetadata
<1>2. CASE StartDownloadMetadataError
  BY <1>2, <1>0, FaultsType, HandleDownloadCommitErrorType, FrameTypes
     DEF StartDownloadMetadataError
<1>3. CASE GetCommits
  <2>1. PICK s \in CommitsAfter(down.from) :
          \/ /\ s = <<>>
             /\ down' = [down EXCEPT !.state = "SETTING_REMOTE_WATCHER", !.pc = "watch", !.from = 0]
             /\ SetCommitState("SETTING_REMOTE_WATCHER")
             /\ UNCHANGED batch
          \/ /\ s # <<>>
             /\ down' = [down EXCEPT !.pc = "none", !.from = 0]
             /\ batch' = [pc |-> "add", commits |-> s, token |-> Len(log), onDone |-> "backlog"]
             /\ UNCHANGED <<sync, backlog, up>>
    BY <1>3 DEF GetCommits
  <2>2. s \in Seq(Commit)
    <3>1. PICK i \in {down.from + 1} \cup ({down.from} \ {0}) : s = SubSeq(log, i, Len(log))
      BY DEF CommitsAfter
    <3>2. i \in Nat \ {0}
      BY <1>0 DEF DownRecord
    <3> QED BY <1>0, <3>1, <3>2
  <2>3. UNCHANGED <<rows, cloud, watcher, gets, upload, faults>>
    BY <1>3 DEF GetCommits
  <2>4. down' \in DownRecord
    <3>1. \/ down' = [down EXCEPT !.state = "SETTING_REMOTE_WATCHER", !.pc = "watch", !.from = 0]
          \/ down' = [down EXCEPT !.pc = "none", !.from = 0]
      BY <2>1
    <3>2. [down EXCEPT !.state = "SETTING_REMOTE_WATCHER", !.pc = "watch", !.from = 0] \in DownRecord
      BY <1>0, <1>s DEF DownRecord
    <3>3. [down EXCEPT !.pc = "none", !.from = 0] \in DownRecord
      BY <1>0 DEF DownRecord
    <3> QED BY <3>1, <3>2, <3>3
  <2>5. batch' \in BatchRecord
    BY <2>1, <2>2, <1>0 DEF BatchRecord
  <2>6. sync' \in SyncRecord /\ backlog' \in BacklogRecord /\ up' \in UpOver(stored)
    BY <2>1, <1>0, <1>s, SetCommitStateType
  <2> QED BY <1>0, <2>3, <2>4, <2>5, <2>6, FrameTypes
<1>4. CASE GetCommitsError
  <2>1. down' \in DownRecord
    BY <1>4, <1>0, <1>s DEF GetCommitsError, DownRecord
  <2> QED BY <1>4, <1>0, <1>s, <2>1, FaultsType, SetCommitStateType, FrameTypes
          DEF GetCommitsError
<1>5. CASE RetryStartDownload
  <2>1. down' \in DownRecord
    BY <1>5, <1>0, <1>s DEF RetryStartDownload, DownRecord
  <2>2. sync' \in SyncRecord /\ backlog' \in BacklogRecord /\ up' \in UpOver(stored)
    BY <1>5, <1>0, <1>s, SetCommitStateType DEF RetryStartDownload
  <2> QED BY <1>5, <1>0, <2>1, <2>2, FrameTypes DEF RetryStartDownload
<1>6. CASE SetRemoteWatcher
  <2>1. down' \in DownRecord /\ watcher' \in WatcherRecord
    BY <1>6, <1>0, <1>s DEF SetRemoteWatcher, DownRecord, WatcherRecord
  <2> QED BY <1>6, <1>0, <1>s, <2>1, SetCommitStateType, FrameTypes DEF SetRemoteWatcher
<1>7. CASE SetRemoteWatcherError
  BY <1>7, <1>0, FaultsType, HandleDownloadCommitErrorType, FrameTypes
     DEF SetRemoteWatcherError
<1>8. CASE OnNewCommits
  <2>1. PICK k \in (watcher.pos + 1)..Len(log) :
          LET commits == SubSeq(log, watcher.pos + 1, k) IN
          \/ /\ batch.pc # "none"
             /\ down' = [down EXCEPT !.pending = @ \o commits, !.pendingToken = k]
             /\ watcher' = [watcher EXCEPT !.pos = k]
             /\ UNCHANGED <<batch, sync, backlog, up>>
          \/ /\ batch.pc = "none"
             /\ down' = [down EXCEPT !.state = "IN_PROGRESS"]
             /\ SetCommitState("IN_PROGRESS")
             /\ batch' = [pc |-> "add", commits |-> commits, token |-> k, onDone |-> "watcher"]
             /\ watcher' = [watcher EXCEPT !.pos = k, !.waiting = TRUE]
    BY <1>8 DEF OnNewCommits
  <2>2. SubSeq(log, watcher.pos + 1, k) \in Seq(Commit) /\ k \in Nat
    BY <1>0 DEF WatcherRecord
  <2>3. down.pending \o SubSeq(log, watcher.pos + 1, k) \in Seq(Commit)
    BY <2>2, <1>0 DEF DownRecord
  <2>4. down' \in DownRecord
    BY <2>1, <2>2, <2>3, <1>0, <1>s DEF DownRecord
  <2>5. batch' \in BatchRecord
    <3>1. batch' = batch \/ batch' = [pc |-> "add", commits |-> SubSeq(log, watcher.pos + 1, k),
                                      token |-> k, onDone |-> "watcher"]
      BY <2>1
    <3>2. [pc |-> "add", commits |-> SubSeq(log, watcher.pos + 1, k), token |-> k,
           onDone |-> "watcher"] \in BatchRecord
      BY <2>2 DEF BatchRecord
    <3> QED BY <3>1, <3>2, <1>0
  <2>6. watcher' \in WatcherRecord
    BY <2>1, <2>2, <1>0 DEF WatcherRecord
  <2>7. sync' \in SyncRecord /\ backlog' \in BacklogRecord /\ up' \in UpOver(stored)
    BY <2>1, <1>0, <1>s, SetCommitStateType
  <2> QED BY <1>8, <1>0, <2>4, <2>5, <2>6, <2>7, FrameTypes DEF OnNewCommits
<1>9. CASE OnError
  <2>1. down' \in DownRecord /\ watcher' \in WatcherRecord
    BY <1>9, <1>0, <1>s DEF OnError, DownRecord, WatcherRecord, NoWatcher
  <2> QED BY <1>9, <1>0, <1>s, <2>1, FaultsType, SetCommitStateType, FrameTypes DEF OnError
<1>10. CASE OnPermanentError
  BY <1>10, <1>0, FaultsType, HandleDownloadCommitErrorType, FrameTypes DEF OnPermanentError
<1>11. CASE RetrySetRemoteWatcher
  <2>1. down' \in DownRecord
    BY <1>11, <1>0, <1>s DEF RetrySetRemoteWatcher, DownRecord
  <2>2. sync' \in SyncRecord /\ backlog' \in BacklogRecord /\ up' \in UpOver(stored)
    BY <1>11, <1>0, <1>s, SetCommitStateType DEF RetrySetRemoteWatcher
  <2> QED BY <1>11, <1>0, <2>1, <2>2, FrameTypes DEF RetrySetRemoteWatcher
<1> QED BY <1>1, <1>2, <1>3, <1>4, <1>5, <1>6, <1>7, <1>8, <1>9, <1>10, <1>11

\* What the steps below read of TypeInv.
LEMMA TypeFacts ==
    ASSUME TypeInv
    PROVE  /\ sync \in SyncRecord /\ down \in DownRecord /\ batch \in BatchRecord
           /\ watcher \in WatcherRecord /\ gets \in GetsRecord /\ up \in UpOver(stored)
           /\ upload \in UploadRecord /\ upload.commits \subseteq stored
           /\ backlog \in BacklogRecord /\ faults \in FaultsRecord
           /\ stored \subseteq Commit /\ IsFiniteSet(stored) /\ unsynced \subseteq stored
           /\ pieces \subseteq Commit /\ objects \subseteq Commit
           /\ token \in Nat /\ log \in Seq(Commit)
BY DEF TypeInv, RowsTyped, ProcessTyped

\* The steps of BatchDownload.
LEMMA BatchTypes ==
    ASSUME TypeInv,
           BatchAdd \/ BatchAddError \/ BatchUpdateTimestamp \/ BatchUpdateTimestampError
    PROVE  TypeInv'
<1> USE DEF downVars, upVars
<1>0. /\ sync \in SyncRecord /\ down \in DownRecord /\ batch \in BatchRecord
      /\ watcher \in WatcherRecord /\ gets \in GetsRecord /\ up \in UpOver(stored)
      /\ upload \in UploadRecord /\ upload.commits \subseteq stored
      /\ backlog \in BacklogRecord /\ faults \in FaultsRecord
      /\ stored \subseteq Commit /\ IsFiniteSet(stored) /\ unsynced \subseteq stored
      /\ pieces \subseteq Commit /\ objects \subseteq Commit
      /\ token \in Nat /\ log \in Seq(Commit)
  BY TypeFacts
<1>d. [batch EXCEPT !.pc = "dead"] \in BatchRecord /\ [batch EXCEPT !.pc = "token"] \in BatchRecord
  BY <1>0 DEF BatchRecord
<1>1. CASE BatchAdd
  <2>1. batch.commits \in Seq(Commit)
    BY <1>0 DEF BatchRecord
  <2>2. ToSet(batch.commits) \subseteq Commit /\ IsFiniteSet(ToSet(batch.commits))
    BY <2>1, ToSetElements, ToSetFinite
  <2>3. stored' \subseteq Commit /\ IsFiniteSet(stored') /\ stored \subseteq stored'
    BY <1>1, <1>0, <2>2, FS_Union DEF BatchAdd
  <2>4. unsynced' \subseteq stored'
    BY <1>1, <1>0 DEF BatchAdd
  <2>5. up' \in UpOver(stored')
    BY <1>1, <1>0, <2>3, UpOverMonotone DEF BatchAdd
  <2>6. RowsTyped'
    BY <1>1, <1>0, <2>3, <2>4 DEF BatchAdd, RowsTyped, cloud
  <2>7. ProcessTyped'
    BY <1>1, <1>0, <1>d, <2>3, <2>5 DEF BatchAdd, ProcessTyped
  <2> QED BY <2>6, <2>7 DEF TypeInv
<1>2. CASE BatchAddError
  <2>1. faults' \in FaultsRecord
    BY <1>2, <1>0, FaultsType DEF BatchAddError
  <2>2. HandleDownloadCommitError(down.pc)
    BY <1>2 DEF BatchAddError
  <2>3. batch' \in BatchRecord
    BY <1>2, <1>d DEF BatchAddError
  <2>4. UNCHANGED <<rows, cloud, gets, upload>>
    BY <1>2 DEF BatchAddError
  <2> QED BY <1>0, <2>1, <2>2, <2>3, <2>4, HandleDownloadCommitErrorType, FrameTypes
<1>3. CASE BatchUpdateTimestamp
  <2>1. BatchDone /\ token' = batch.token
        /\ UNCHANGED <<stored, unsynced, pieces, cloud, gets, upload, faults>>
    BY <1>3 DEF BatchUpdateTimestamp
  <2> DEFINE next == IF batch.onDone = "backlog" THEN "SETTING_REMOTE_WATCHER"
                     ELSE IF down.state = "IN_PROGRESS" /\ down.pending = <<>> THEN "IDLE"
                     ELSE down.state
             pc == IF batch.onDone = "backlog" THEN "watch" ELSE down.pc
  <2>2. next \in DownloadState /\ pc \in {"watch", down.pc}
    BY <1>0 DEF DownRecord, DownloadState
  <2>3. /\ down' = [down EXCEPT !.state = next, !.pc = pc, !.pending = <<>>, !.pendingToken = 0]
        /\ SetCommitState(next)
    BY <2>1 DEF BatchDone
  <2> HIDE DEF next, pc
  <2>4. down' \in DownRecord
    <3>1. down \in DownRecord /\ <<>> \in Seq(Commit) /\ pc \in {"none", "metadata", "commits",
            "watch", "retryStart", "retryWatch"}
      BY <1>0, <2>2 DEF DownRecord
    <3> QED BY <2>2, <2>3, <3>1 DEF DownRecord
  <2>5. sync' \in SyncRecord /\ backlog' \in BacklogRecord /\ up' \in UpOver(stored)
    BY <2>2, <2>3, SetCommitStateType
  <2>6. watcher' \in WatcherRecord
    BY <2>1, <1>0 DEF BatchDone, WatcherRecord
  <2>7. batch' \in BatchRecord
    <3>1. NoBatch \in BatchRecord
      BY DEF NoBatch, BatchRecord
    <3>2. [pc |-> "add", commits |-> down.pending, token |-> down.pendingToken,
           onDone |-> "none"] \in BatchRecord
      BY <1>0 DEF DownRecord, BatchRecord
    <3> QED BY <2>1, <3>1, <3>2 DEF BatchDone
  <2>8. token' \in Nat
    BY <2>1, <1>0 DEF BatchRecord
  <2>9. RowsTyped'
    BY <2>1, <2>8, <1>0 DEF RowsTyped, cloud
  <2>10. ProcessTyped'
    BY <2>1, <1>0, <2>4, <2>5, <2>6, <2>7 DEF ProcessTyped
  <2> QED BY <2>9, <2>10 DEF TypeInv
<1>4. CASE BatchUpdateTimestampError
  BY <1>4, <1>0, <1>d, FaultsType, HandleDownloadCommitErrorType, FrameTypes
     DEF BatchUpdateTimestampError
<1> QED BY <1>1, <1>2, <1>3, <1>4

\* The steps of GetObject, PageSyncImpl, and the other devices.
LEMMA OtherTypes ==
    ASSUME TypeInv,
           \/ GetObject \/ GetObjectDone \/ GetObjectError \/ RetryGetObject
           \/ EnableUpload \/ Start \/ Crash
           \/ \E c \in Commit : AddLocalCommit(c) \/ PushRemote(c)
    PROVE  TypeInv'
<1> USE DEF downVars, upVars
<1>0. /\ sync \in SyncRecord /\ down \in DownRecord /\ batch \in BatchRecord
      /\ watcher \in WatcherRecord /\ gets \in GetsRecord /\ up \in UpOver(stored)
      /\ upload \in UploadRecord /\ upload.commits \subseteq stored
      /\ backlog \in BacklogRecord /\ faults \in FaultsRecord
      /\ stored \subseteq Commit /\ IsFiniteSet(stored) /\ unsynced \subseteq stored
      /\ pieces \subseteq Commit /\ objects \subseteq Commit
      /\ token \in Nat /\ log \in Seq(Commit)
  BY TypeFacts
<1>1. CASE GetObject
  <2>1. gets' \in GetsRecord /\ faults' \in FaultsRecord
    BY <1>1, <1>0 DEF GetObject, GetsRecord, FaultsRecord
  <2> QED BY <1>1, <1>0, <2>1, FrameTypes DEF GetObject
<1>2. CASE GetObjectDone
  <2>1. gets' \in GetsRecord
    BY <1>2, <1>0 DEF GetObjectDone, GetsRecord
  <2> QED BY <1>2, <1>0, <2>1, FrameTypes DEF GetObjectDone
<1>3. CASE GetObjectError
  <2>1. gets' \in GetsRecord
    <3>1. gets.calls > 0 /\ gets' = [gets EXCEPT !.calls = @ - 1, !.retries = @ + 1]
      BY <1>3 DEF GetObjectError
    <3>2. gets.calls - 1 \in Nat /\ gets.retries + 1 \in Nat
      BY <3>1, <1>0 DEF GetsRecord
    <3> QED BY <3>1, <3>2, <1>0 DEF GetsRecord
  <2> QED BY <1>3, <1>0, <2>1, FaultsType, FrameTypes DEF GetObjectError
<1>4. CASE RetryGetObject
  <2>1. gets' \in GetsRecord
    BY <1>4, <1>0 DEF RetryGetObject, GetsRecord
  <2> QED BY <1>4, <1>0, <2>1, FrameTypes DEF RetryGetObject
<1>5. CASE EnableUpload
  <2>1. sync' \in SyncRecord
    BY <1>5, <1>0 DEF EnableUpload, SyncRecord
  <2>2. up' \in UpOver(stored)
    BY <1>5, <1>0, StartUploadType DEF EnableUpload
  <2> QED BY <1>5, <1>0, <2>1, <2>2, FrameTypes DEF EnableUpload
<1>6. CASE Start
  <2>1. sync' \in SyncRecord
    BY <1>6, <1>0 DEF Start, SyncRecord, DownloadState
  <2>2. up' \in UpOver(stored)
    BY <1>6, <1>0, StartUploadType DEF Start
  <2>3. down' \in DownRecord
    BY <1>6, <1>0 DEF Start, DownRecord, DownloadState
  <2>4. backlog' \in BacklogRecord
    BY <1>6, <1>0 DEF Start, BacklogRecord
  <2> QED BY <1>6, <1>0, <2>1, <2>2, <2>3, <2>4, FrameTypes DEF Start
<1>7. CASE Crash
  <2>1. NoSync \in SyncRecord /\ NoWatcher \in WatcherRecord /\ NoGets \in GetsRecord
    BY DEF NoSync, SyncRecord, DownloadState, NoWatcher, WatcherRecord, NoGets, GetsRecord
  <2>2. NoDown \in DownRecord /\ NoBatch \in BatchRecord
    BY DEF NoDown, DownRecord, DownloadState, NoBatch, BatchRecord
  <2>3. NoUp \in UpOver(stored)
    BY DEF NoUp, UpOver, UploadState
  <2>4. NoUpload \in UploadRecord /\ NoUpload.commits = {}
    BY DEF NoUpload, UploadRecord
  <2>5. backlog' \in BacklogRecord /\ faults' \in FaultsRecord
    BY <1>7, <1>0 DEF Crash, BacklogRecord, FaultsRecord
  <2> QED BY <1>7, <1>0, <2>1, <2>2, <2>3, <2>4, <2>5, FrameTypes DEF Crash
<1>8. ASSUME NEW c \in Commit, AddLocalCommit(c)
      PROVE  TypeInv'
  <2>1. stored' = stored \cup {c} /\ unsynced' = unsynced \cup {c} /\ pieces' = pieces \cup {c}
        /\ UNCHANGED <<token, cloud, sync, downVars, upload, backlog>>
    BY <1>8 DEF AddLocalCommit
  <2>2. IsFiniteSet(stored')
    BY <2>1, <1>0, FS_AddElement
  <2>3. RowsTyped'
    BY <2>1, <2>2, <1>0 DEF RowsTyped, cloud
  <2>4. up \in UpOver(stored')
    BY <2>1, <1>0, UpOverMonotone
  <2>5. up' \in UpOver(stored')
    BY <1>8, <2>1, <2>4, <1>0, NotifyWatchersType DEF AddLocalCommit
  <2>6. faults' \in FaultsRecord
    BY <1>8, <1>0 DEF AddLocalCommit, FaultsRecord
  <2>7. ProcessTyped'
    BY <2>1, <2>5, <2>6, <1>0 DEF ProcessTyped
  <2> QED BY <2>3, <2>7 DEF TypeInv
<1>9. ASSUME NEW c \in Commit, PushRemote(c)
      PROVE  TypeInv'
  <2>1. log' = Append(log, c) /\ objects' = objects \cup {c}
        /\ UNCHANGED <<rows, sync, downVars, upVars, backlog, faults>>
    BY <1>9 DEF PushRemote
  <2>2. log' \in Seq(Commit)
    BY <2>1, <1>0
  <2>3. RowsTyped'
    BY <2>1, <2>2, <1>0 DEF RowsTyped, rows
  <2>4. ProcessTyped'
    BY <2>1, <1>0 DEF ProcessTyped, rows
  <2> QED BY <2>3, <2>4 DEF TypeInv
<1> QED BY <1>1, <1>2, <1>3, <1>4, <1>5, <1>6, <1>7, <1>8, <1>9

\* The steps of PageUpload.
LEMMA UploadTypes ==
    ASSUME TypeInv, NEW i \in DOMAIN up.chains,
           \/ VerifyUnsyncedCommits(i) \/ VerifyUnsyncedCommitsError(i)
           \/ HandleUnsyncedCommits(i) \/ PostponeUpload(i) \/ GetHeadsError(i)
    PROVE  TypeInv'
<1> USE DEF downVars, upVars
<1>0. /\ sync \in SyncRecord /\ down \in DownRecord /\ batch \in BatchRecord
      /\ watcher \in WatcherRecord /\ gets \in GetsRecord /\ up \in UpOver(stored)
      /\ upload \in UploadRecord /\ upload.commits \subseteq stored
      /\ backlog \in BacklogRecord /\ faults \in FaultsRecord
      /\ stored \subseteq Commit /\ pieces \subseteq Commit
  BY TypeFacts
<1>c. up.chains \in Seq(ChainOver(stored)) /\ up.chains[i] \in ChainOver(stored)
  BY <1>0 DEF UpOver
<1>s. /\ {"IDLE", "IN_PROGRESS", "WAIT_REMOTE_DOWNLOAD", "WAIT_TOO_MANY_LOCAL_HEADS",
          "PERMANENT_ERROR"} \subseteq UploadState
  BY DEF UploadState
<1>u. ASSUME NEW s \in UploadState
      PROVE  /\ [up EXCEPT !.state = s] \in UpOver(stored)
             /\ [up EXCEPT !.state = s].chains = up.chains
             /\ [up EXCEPT !.state = s, !.flag = FALSE] \in UpOver(stored)
             /\ [up EXCEPT !.state = s, !.flag = FALSE].chains = up.chains
  BY <1>0 DEF UpOver
<1>1. CASE VerifyUnsyncedCommits(i)
  <2> DEFINE u == IF up.state = "SETUP" THEN [up EXCEPT !.watchers = @ + 1] ELSE up
  <2>1. u \in UpOver(stored) /\ u.chains = up.chains
    BY <1>0 DEF UpOver
  <2>2. up' = IF up.chains[i].commits = {}
                THEN EndChain([u EXCEPT !.state = "IDLE", !.flag = FALSE], i)
                ELSE [u EXCEPT !.chains[i].pc = "heads", !.chains[i].heads = Heads]
    BY <1>1 DEF VerifyUnsyncedCommits
  <2> HIDE DEF u
  <2>3. [u EXCEPT !.state = "IDLE", !.flag = FALSE] \in UpOver(stored)
        /\ [u EXCEPT !.state = "IDLE", !.flag = FALSE].chains = up.chains
    BY <2>1 DEF UpOver, UploadState
  <2>4. EndChain([u EXCEPT !.state = "IDLE", !.flag = FALSE], i) \in UpOver(stored)
    BY <2>3, EndChainType
  <2>5. Heads \subseteq Commit \cup {Root}
    BY <1>0 DEF Heads
  <2>6. [u EXCEPT !.chains[i].pc = "heads", !.chains[i].heads = Heads] \in UpOver(stored)
    <3> DEFINE ch == [up.chains EXCEPT ![i] = [up.chains[i] EXCEPT !.pc = "heads", !.heads = Heads]]
    <3>1. [up.chains[i] EXCEPT !.pc = "heads", !.heads = Heads] \in ChainOver(stored)
      BY <1>c, <2>5 DEF ChainOver
    <3>2. ch \in Seq(ChainOver(stored))
      BY <1>c, <3>1
    <3>3. [u EXCEPT !.chains[i].pc = "heads", !.chains[i].heads = Heads] = [u EXCEPT !.chains = ch]
      BY <2>1, <1>c DEF UpOver, ChainOver
    <3> HIDE DEF ch
    <3>4. [u EXCEPT !.chains = ch] \in UpOver(stored)
      BY <2>1, <3>2 DEF UpOver
    <3> QED BY <3>3, <3>4
  <2> QED BY <1>1, <1>0, <2>2, <2>4, <2>6, FrameTypes DEF VerifyUnsyncedCommits
<1>2. CASE VerifyUnsyncedCommitsError(i)
  <2>1. [up EXCEPT !.state = "PERMANENT_ERROR"] \in UpOver(stored)
        /\ [up EXCEPT !.state = "PERMANENT_ERROR"].chains = up.chains
    BY <1>s, <1>u
  <2>2. HandleError([up EXCEPT !.state = "PERMANENT_ERROR"]) \in UpOver(stored)
        /\ HandleError([up EXCEPT !.state = "PERMANENT_ERROR"]).chains = up.chains
    BY <2>1, HandleErrorType
  <2>3. EndChain(HandleError([up EXCEPT !.state = "PERMANENT_ERROR"]), i) \in UpOver(stored)
    BY <2>2, EndChainType
  <2> QED BY <1>2, <1>0, <2>3, FaultsType, FrameTypes DEF VerifyUnsyncedCommitsError
<1>3. CASE HandleUnsyncedCommits(i)
  <2>1. EndChain([up EXCEPT !.state = "IN_PROGRESS"], i) \in UpOver(stored)
    BY <1>s, <1>u, EndChainType
  <2>2. up.chains[i].commits \subseteq stored
    BY <1>c DEF ChainOver
  <2>3. upload' = [NoUpload EXCEPT !.pc = "pieces", !.commits = up.chains[i].commits,
                                   !.remaining = pieces]
    BY <1>3 DEF HandleUnsyncedCommits
  <2>4. upload' \in UploadRecord /\ upload'.commits \subseteq stored
    BY <2>2, <2>3, <1>0 DEF NoUpload, UploadRecord
  <2> QED BY <1>3, <1>0, <2>1, <2>4, FrameTypes DEF HandleUnsyncedCommits
<1>4. CASE PostponeUpload(i)
  <2>1. /\ EndChain(up, i) \in UpOver(stored)
        /\ EndChain([up EXCEPT !.state = "WAIT_REMOTE_DOWNLOAD"], i) \in UpOver(stored)
        /\ EndChain([up EXCEPT !.state = "WAIT_TOO_MANY_LOCAL_HEADS", !.flag = FALSE], i)
             \in UpOver(stored)
    BY <1>0, <1>s, <1>u, EndChainType
  <2>2. up' \in UpOver(stored)
    BY <1>4, <2>1 DEF PostponeUpload
  <2> QED BY <1>4, <1>0, <2>2, FrameTypes DEF PostponeUpload
<1>5. CASE GetHeadsError(i)
  <2>1. HandleError(up) \in UpOver(stored) /\ HandleError(up).chains = up.chains
    BY <1>0, HandleErrorType
  <2>2. EndChain(HandleError(up), i) \in UpOver(stored)
    BY <2>1, EndChainType
  <2> QED BY <1>5, <1>0, <2>2, FaultsType, FrameTypes DEF GetHeadsError
<1> QED BY <1>1, <1>2, <1>3, <1>4, <1>5

\* The ends of a batch of uploads.
LEMMA UploadEndTypes ==
    ASSUME TypeInv
    PROVE  /\ NoUpload \in UploadRecord /\ NoUpload.commits = {}
           /\ \A R \in SUBSET stored : UploadDone(R) =>
                /\ upload' = NoUpload
                /\ up' \in UpOver(stored)
           /\ \A b : UploadFailed(b) =>
                /\ up' \in UpOver(stored)
                /\ upload' \in UploadRecord /\ upload'.commits = {}
<1>0. up \in UpOver(stored)
  BY TypeFacts
<1>1. NoUpload \in UploadRecord /\ NoUpload.commits = {}
  BY DEF NoUpload, UploadRecord
<1>2. [NoUpload EXCEPT !.pc = "dead"] \in UploadRecord
      /\ [NoUpload EXCEPT !.pc = "dead"].commits = {}
  BY DEF NoUpload, UploadRecord
<1>3. [up EXCEPT !.state = "PERMANENT_ERROR"] \in UpOver(stored)
      /\ [up EXCEPT !.state = "TEMPORARY_ERROR", !.retries = @ + 1] \in UpOver(stored)
  <2>1. up.retries + 1 \in Nat /\ {"PERMANENT_ERROR", "TEMPORARY_ERROR"} \subseteq UploadState
    BY <1>0 DEF UpOver, UploadState
  <2> QED BY <1>0, <2>1 DEF UpOver
<1>4. ASSUME NEW R \in SUBSET stored, UploadDone(R)
      PROVE  upload' = NoUpload /\ up' \in UpOver(stored)
  BY <1>0, <1>4, UploadUnsyncedCommitsType DEF UploadDone
<1>5. ASSUME NEW b, UploadFailed(b)
      PROVE  up' \in UpOver(stored) /\ upload' \in UploadRecord /\ upload'.commits = {}
  BY <1>1, <1>2, <1>3, <1>5 DEF UploadFailed
<1> QED BY <1>1, <1>4, <1>5

\* Filtering keeps the batch.
LEMMA FilteringType ==
    ASSUME TypeInv, NEW u \in UploadRecord
    PROVE  Filtering(u) \in UploadRecord /\ Filtering(u).commits = u.commits
<1>1. unsynced \in SUBSET Commit
  BY TypeFacts
<1> QED BY <1>1 DEF Filtering, UploadRecord

\* What MarkPieceSynced's callback leaves is typed.
LEMMA PieceHandledType ==
    ASSUME TypeInv, NEW u \in UploadRecord, u.commits \subseteq stored, PieceHandled(u)
    PROVE  up' \in UpOver(stored) /\ upload' \in UploadRecord /\ upload'.commits \subseteq stored
<1>0. up \in UpOver(stored)
  BY TypeFacts
<1>1. CASE UploadFailed(u.permanent)
  BY <1>1, UploadEndTypes
<1>2. CASE upload' = Filtering(u) /\ UNCHANGED up
  BY <1>0, <1>2, FilteringType
<1>3. CASE /\ \E q \in u.remaining :
                upload' = [u EXCEPT !.uploading = @ \cup {q}, !.remaining = @ \ {q}]
           /\ UNCHANGED up
  <2>1. PICK q \in u.remaining :
          upload' = [u EXCEPT !.uploading = @ \cup {q}, !.remaining = @ \ {q}]
    BY <1>3
  <2>2. u.uploading \cup {q} \in SUBSET Commit /\ u.remaining \ {q} \in SUBSET Commit
    BY DEF UploadRecord
  <2>3. upload' \in UploadRecord /\ upload'.commits = u.commits
    BY <2>1, <2>2 DEF UploadRecord
  <2> QED BY <1>0, <1>3, <2>3
<1>4. CASE upload' = u /\ UNCHANGED up
  BY <1>0, <1>4
<1> QED BY <1>1, <1>2, <1>3, <1>4 DEF PieceHandled

\* The steps of BatchUpload that concern pieces.
LEMMA PieceTypes ==
    ASSUME TypeInv,
           \/ StartObjectUpload \/ StartUploadError
           \/ \E p \in Commit : \/ AddObject(p) \/ AddObjectError(p)
                                \/ MarkPieceSynced(p) \/ MarkPieceSyncedError(p)
    PROVE  TypeInv'
<1> USE DEF downVars, upVars
<1>0. /\ sync \in SyncRecord /\ down \in DownRecord /\ batch \in BatchRecord
      /\ watcher \in WatcherRecord /\ gets \in GetsRecord /\ up \in UpOver(stored)
      /\ upload \in UploadRecord /\ upload.commits \subseteq stored
      /\ backlog \in BacklogRecord /\ faults \in FaultsRecord
      /\ stored \subseteq Commit /\ IsFiniteSet(stored) /\ unsynced \subseteq stored
      /\ pieces \subseteq Commit /\ objects \subseteq Commit
      /\ token \in Nat /\ log \in Seq(Commit)
  BY TypeFacts
<1>1. CASE StartObjectUpload
  <2>1. upload' \in UploadRecord /\ upload'.commits \subseteq stored
    <3>1. CASE upload' = Filtering(upload)
      BY <3>1, <1>0, FilteringType
    <3>2. ASSUME NEW S \in SUBSET upload.remaining,
                 upload' = [upload EXCEPT !.pc = "objects", !.uploading = S, !.remaining = @ \ S]
          PROVE  upload' \in UploadRecord /\ upload'.commits \subseteq stored
      BY <3>2, <1>0 DEF UploadRecord
    <3> QED BY <1>1, <3>1, <3>2 DEF StartObjectUpload, FirstObjects
  <2> QED BY <1>1, <1>0, <2>1, FrameTypes DEF StartObjectUpload
<1>2. CASE StartUploadError
  BY <1>2, <1>0, FaultsType, UploadEndTypes, FrameTypes DEF StartUploadError
<1>3. ASSUME NEW p \in Commit, AddObject(p)
      PROVE  TypeInv'
  <2>1. objects' \subseteq Commit
    BY <1>3, <1>0 DEF AddObject
  <2>2. upload' \in UploadRecord /\ upload'.commits \subseteq stored
    BY <1>3, <1>0 DEF AddObject, UploadRecord
  <2>3. RowsTyped'
    BY <1>3, <1>0, <2>1 DEF AddObject, RowsTyped, rows
  <2>4. ProcessTyped'
    BY <1>3, <1>0, <2>2 DEF AddObject, ProcessTyped, rows
  <2> QED BY <2>3, <2>4 DEF TypeInv
<1>4. ASSUME NEW p \in Commit, AddObjectError(p)
      PROVE  TypeInv'
  <2>1. objects' \subseteq Commit
    BY <1>4, <1>0 DEF AddObjectError
  <2>2. up' \in UpOver(stored) /\ upload' \in UploadRecord /\ upload'.commits \subseteq stored
    <3>1. CASE UploadFailed(upload.permanent)
      BY <3>1, UploadEndTypes
    <3>2. CASE /\ upload' = [upload EXCEPT !.uploading = @ \ {p}, !.remaining = @ \cup {p},
                                           !.errored = TRUE]
               /\ UNCHANGED up
      BY <3>2, <1>0 DEF UploadRecord
    <3> QED BY <1>4, <3>1, <3>2 DEF AddObjectError
  <2>3. RowsTyped'
    BY <1>4, <1>0, <2>1 DEF AddObjectError, RowsTyped, rows
  <2>4. faults' \in FaultsRecord
    BY <1>4, FaultsType DEF AddObjectError
  <2>5. ProcessTyped'
    BY <1>4, <1>0, <2>2, <2>4 DEF AddObjectError, ProcessTyped, rows
  <2> QED BY <2>3, <2>5 DEF TypeInv
<1>5. ASSUME NEW p \in Commit, MarkPieceSynced(p)
      PROVE  TypeInv'
  <2> DEFINE u == [upload EXCEPT !.marking = @ \ {p}]
  <2>1. u \in UploadRecord /\ u.commits \subseteq stored
    BY <1>0 DEF UploadRecord
  <2>2. up' \in UpOver(stored) /\ upload' \in UploadRecord /\ upload'.commits \subseteq stored
    BY <1>5, <2>1, PieceHandledType DEF MarkPieceSynced
  <2>3. RowsTyped'
    BY <1>5, <1>0 DEF MarkPieceSynced, RowsTyped, cloud
  <2>4. ProcessTyped'
    BY <1>5, <1>0, <2>2 DEF MarkPieceSynced, ProcessTyped
  <2> QED BY <2>3, <2>4 DEF TypeInv
<1>6. ASSUME NEW p \in Commit, MarkPieceSyncedError(p)
      PROVE  TypeInv'
  <2> DEFINE u == [upload EXCEPT !.marking = @ \ {p}, !.errored = TRUE, !.permanent = TRUE]
  <2>1. u \in UploadRecord /\ u.commits \subseteq stored
    BY <1>0 DEF UploadRecord
  <2>2. up' \in UpOver(stored) /\ upload' \in UploadRecord /\ upload'.commits \subseteq stored
    BY <1>6, <2>1, PieceHandledType DEF MarkPieceSyncedError
  <2> QED BY <1>6, <1>0, <2>2, FaultsType, FrameTypes DEF MarkPieceSyncedError
<1> QED BY <1>1, <1>2, <1>3, <1>4, <1>5, <1>6

\* What AddCommits appends to the log: the commits of the batch, each of them.
LEMMA InGenerationOrderType ==
    ASSUME NEW S, IsFiniteSet(S), NEW s \in InGenerationOrder(S)
    PROVE  s \in Seq(S) /\ ToSet(s) = S
<1>1. Cardinality(S) \in Nat
  BY FS_CardinalityType
<1> QED BY <1>1 DEF InGenerationOrder

\* The batch under way, in the order it is sent.
LEMMA InGenerationOrderSeq ==
    ASSUME TypeInv, NEW s \in InGenerationOrder(upload.commits)
    PROVE  s \in Seq(Commit) /\ ToSet(s) = upload.commits
<1>1. upload.commits \subseteq stored /\ stored \subseteq Commit /\ IsFiniteSet(stored)
  BY TypeFacts
<1>2. s \in Seq(upload.commits) /\ ToSet(s) = upload.commits
  BY <1>1, FS_Subset, InGenerationOrderType
<1> QED BY <1>1, <1>2

\* The steps of BatchUpload that concern commits, and the retry of an upload.
LEMMA CommitTypes ==
    ASSUME TypeInv,
           \/ FilterAndUploadCommits \/ FilterError \/ EncryptCommitsError \/ AddCommits
           \/ AddCommitsError \/ AddCommitsDone \/ MarkCommitSyncedError \/ RetryUpload
           \/ \E c \in Commit : MarkCommitSynced(c)
    PROVE  TypeInv'
<1> USE DEF downVars, upVars
<1>0. /\ sync \in SyncRecord /\ down \in DownRecord /\ batch \in BatchRecord
      /\ watcher \in WatcherRecord /\ gets \in GetsRecord /\ up \in UpOver(stored)
      /\ upload \in UploadRecord /\ upload.commits \subseteq stored
      /\ backlog \in BacklogRecord /\ faults \in FaultsRecord
      /\ stored \subseteq Commit /\ IsFiniteSet(stored) /\ unsynced \subseteq stored
      /\ pieces \subseteq Commit /\ objects \subseteq Commit
      /\ token \in Nat /\ log \in Seq(Commit)
  BY TypeFacts
<1>a. ASSUME NEW S \in SUBSET upload.commits, NEW q \in {"send", "mark"}
      PROVE  /\ [upload EXCEPT !.pc = q, !.commits = S] \in UploadRecord
             /\ [upload EXCEPT !.pc = q, !.commits = S].commits = S
             /\ [upload EXCEPT !.commits = S] \in UploadRecord
             /\ [upload EXCEPT !.commits = S].commits = S
  BY <1>0 DEF UploadRecord
<1>b. ASSUME NEW q \in {"sent", "mark"}
      PROVE  /\ [upload EXCEPT !.pc = q] \in UploadRecord
             /\ [upload EXCEPT !.pc = q].commits = upload.commits
  BY <1>0 DEF UploadRecord
<1>1. CASE FilterAndUploadCommits
  <2>1. up' \in UpOver(stored) /\ upload' \in UploadRecord /\ upload'.commits \subseteq stored
    BY <1>1, <1>0, <1>a, UploadEndTypes DEF FilterAndUploadCommits
  <2> QED BY <1>1, <1>0, <2>1, FrameTypes DEF FilterAndUploadCommits
<1>2. CASE FilterError
  BY <1>2, <1>0, FaultsType, UploadEndTypes, FrameTypes DEF FilterError
<1>3. CASE EncryptCommitsError
  BY <1>3, <1>0, FaultsType, UploadEndTypes, FrameTypes DEF EncryptCommitsError
<1>4. CASE AddCommits
  <2>1. PICK s \in InGenerationOrder(upload.commits) : log' = log \o s
    BY <1>4 DEF AddCommits
  <2>4. s \in Seq(Commit)
    BY InGenerationOrderSeq
  <2>5. log' \in Seq(Commit)
    BY <2>1, <2>4, <1>0
  <2>6. RowsTyped'
    BY <1>4, <2>5, <1>0 DEF AddCommits, RowsTyped, rows
  <2>7. ProcessTyped'
    BY <1>4, <1>b, <1>0 DEF AddCommits, ProcessTyped, rows
  <2> QED BY <2>6, <2>7 DEF TypeInv
<1>5. CASE AddCommitsError
  BY <1>5, <1>0, FaultsType, UploadEndTypes, FrameTypes DEF AddCommitsError
<1>6. CASE AddCommitsDone
  BY <1>6, <1>0, <1>b, FrameTypes DEF AddCommitsDone
<1>7. CASE MarkCommitSyncedError
  <2>1. RowsTyped'
    BY <1>7, <1>0 DEF MarkCommitSyncedError, RowsTyped, cloud
  <2>2. up' \in UpOver(stored) /\ upload' \in UploadRecord /\ upload'.commits = {}
    BY <1>7, UploadEndTypes DEF MarkCommitSyncedError
  <2>3. faults' \in FaultsRecord
    BY <1>7, FaultsType DEF MarkCommitSyncedError
  <2>4. ProcessTyped'
    BY <1>7, <1>0, <2>2, <2>3 DEF MarkCommitSyncedError, ProcessTyped
  <2> QED BY <2>1, <2>4 DEF TypeInv
<1>8. CASE RetryUpload
  <2> DEFINE u == [up EXCEPT !.retries = @ - 1]
  <2>1. u \in UpOver(stored)
    BY <1>8, <1>0 DEF RetryUpload, UpOver
  <2>2. Uploading \in BOOLEAN
    BY DEF Uploading
  <2>3. UploadUnsyncedCommits(u, Uploading, unsynced) \in UpOver(stored)
    BY <1>0, <2>1, <2>2, UploadUnsyncedCommitsType
  <2>4. up' \in UpOver(stored)
    BY <1>8, <2>1, <2>3 DEF RetryUpload
  <2> QED BY <1>8, <1>0, <2>4, FrameTypes DEF RetryUpload
<1>9. ASSUME NEW c \in Commit, MarkCommitSynced(c)
      PROVE  TypeInv'
  <2>1. RowsTyped'
    BY <1>9, <1>0 DEF MarkCommitSynced, RowsTyped, cloud
  <2>2. up' \in UpOver(stored) /\ upload' \in UploadRecord /\ upload'.commits \subseteq stored
    BY <1>9, <1>0, <1>a, UploadEndTypes, ZenonT(40) DEF MarkCommitSynced
  <2>3. ProcessTyped'
    BY <1>9, <1>0, <2>2 DEF MarkCommitSynced, ProcessTyped
  <2> QED BY <2>1, <2>3 DEF TypeInv
<1> QED BY <1>1, <1>2, <1>3, <1>4, <1>5, <1>6, <1>7, <1>8, <1>9

\* Every step keeps the types.
LEMMA TypeStep ==
    ASSUME TypeInv, [Next]_vars
    PROVE  TypeInv'
<1>1. CASE Next
  BY <1>1, DownloadTypes, BatchTypes, OtherTypes, UploadTypes, PieceTypes, CommitTypes
     DEF Next, DownloadStep, DownloadError, ObjectStep, UploadStep, UploadError, BatchUploadStep
<1>2. CASE UNCHANGED vars
  BY <1>2 DEF vars, rows, cloud, downVars, upVars, TypeInv, RowsTyped, ProcessTyped
<1> QED BY <1>1, <1>2

-----------------------------------------------------------------------------
(* The position token *)

\* The log m continues the log l.
Continues(l, m) == Len(l) <= Len(m) /\ \A i \in 1..Len(l) : m[i] = l[i]

\* What is covered stays covered while the log and the database grow.
LEMMA CoveredGrows ==
    ASSUME NEW l \in Seq(Commit), NEW m \in Seq(Commit), Continues(l, m),
           NEW S, NEW T, S \subseteq T, NEW n, Covered(l, n, S)
    PROVE  Covered(m, n, T)
BY DEF Covered, Continues

\* Steps that leave the download alone: local commits, uploads, other devices.
LEMMA TokenGrows ==
    ASSUME TypeInv, TypeInv', StartInv, TokenInv, stored \subseteq stored', Continues(log, log'),
           sync'.started = sync.started, UNCHANGED <<token, down, batch, watcher>>
    PROVE  StartInv' /\ TokenInv'
<1>1. log \in Seq(Commit) /\ log' \in Seq(Commit)
  BY DEF TypeInv, RowsTyped
<1>2. StartInv'
  BY DEF StartInv
<1>3. Adding' = Adding /\ Coming \subseteq Coming'
  BY DEF Adding, Coming
<1>4. Covered(log', token', stored')
  BY <1>1, CoveredGrows DEF TokenInv
<1>5. down'.pc = "commits" => Covered(log', down'.from, stored')
  BY <1>1, CoveredGrows DEF TokenInv
<1>6. batch'.pc \in {"add", "token"} => Covered(log', batch'.token, stored' \cup Adding')
  <2>1. stored \cup Adding \subseteq stored' \cup Adding'
    BY <1>3
  <2> QED BY <2>1, <1>1, CoveredGrows DEF TokenInv
<1>7. batch'.pc \in {"add", "token"} /\ down'.pending # <<>> =>
        Covered(log', down'.pendingToken, Coming')
  BY <1>1, <1>3, CoveredGrows DEF TokenInv
<1>8. watcher'.bound /\ batch'.pc # "dead" => Covered(log', watcher'.pos, Coming')
  BY <1>1, <1>3, CoveredGrows DEF TokenInv
<1> QED BY <1>2, <1>4, <1>5, <1>6, <1>7, <1>8 DEF TokenInv

\* Steps of the commit download that touch neither the database nor the batch:
\* the positions they start from are read from the token.
LEMMA TokenRead ==
    ASSUME TypeInv, TokenInv, UNCHANGED <<stored, log, token, batch>>,
           down'.pending = down.pending, down'.pendingToken = down.pendingToken,
           down'.pc = "commits" =>
               down'.from = token \/ (down.pc = "commits" /\ down'.from = down.from),
           watcher'.bound => watcher' = watcher \/ watcher'.pos = token
    PROVE  TokenInv'
<1>1. log \in Seq(Commit) /\ Continues(log, log)
  BY DEF TypeInv, RowsTyped, Continues
<1>2. Adding' = Adding /\ Coming' = Coming /\ stored \subseteq Coming
  BY DEF Adding, Coming
<1>3. Covered(log, token, stored) /\ Covered(log, token, Coming)
  BY <1>1, <1>2, CoveredGrows DEF TokenInv
<1> QED BY <1>2, <1>3 DEF TokenInv

\* SetCommitState does not start or stop the sync.
LEMMA SetCommitStateStarted ==
    ASSUME TypeInv, NEW new, SetCommitState(new)
    PROVE  sync'.started = sync.started
BY DEF TypeInv, ProcessTyped, SyncRecord, SetCommitState, SetDownloadState

\* StartDownload and the binding of the watcher.
LEMMA TokenDownload ==
    ASSUME TypeInv, StartInv, TokenInv,
           \/ StartDownloadMetadata \/ StartDownloadMetadataError
           \/ GetCommitsError \/ RetryStartDownload \/ SetRemoteWatcher
           \/ SetRemoteWatcherError \/ OnError \/ OnPermanentError
           \/ RetrySetRemoteWatcher \/ Start
    PROVE  StartInv' /\ TokenInv'
<1> USE DEF rows, cloud, downVars, upVars
<1>0. down \in DownRecord /\ sync \in SyncRecord /\ watcher \in WatcherRecord
  BY TypeFacts
<1>1. CASE StartDownloadMetadata
  <2>1. StartInv'
    BY <1>1, <1>0 DEF StartDownloadMetadata, StartInv, DownRecord
  <2>2. TokenInv'
    BY <1>1, <1>0, TokenRead DEF StartDownloadMetadata, DownRecord
  <2> QED BY <2>1, <2>2
<1>2. CASE GetCommitsError \/ RetryStartDownload \/ RetrySetRemoteWatcher \/ OnError
  <2>1. sync'.started = sync.started
    BY <1>2, SetCommitStateStarted
       DEF GetCommitsError, RetryStartDownload, RetrySetRemoteWatcher, OnError
  <2>2. /\ UNCHANGED <<stored, log, token, batch>>
        /\ down'.pending = down.pending /\ down'.pendingToken = down.pendingToken
        /\ down'.pc # "commits"
        /\ down'.pc \in {"metadata", "commits", "retryStart"} => down.pc \in {"commits", "retryStart"}
        /\ watcher' = watcher \/ watcher' = NoWatcher
        /\ down.pc # "none" \/ watcher.bound
    BY <1>2, <1>0
       DEF GetCommitsError, RetryStartDownload, RetrySetRemoteWatcher, OnError, DownRecord
  <2>3. StartInv'
    BY <2>1, <2>2 DEF StartInv, NoWatcher
  <2>4. TokenInv'
    BY <2>2, TokenRead DEF NoWatcher
  <2> QED BY <2>3, <2>4
<1>3. CASE SetRemoteWatcher
  <2>1. sync'.started = sync.started
    BY <1>3, SetCommitStateStarted DEF SetRemoteWatcher
  <2>2. /\ UNCHANGED <<stored, log, token, batch>>
        /\ down'.pending = down.pending /\ down'.pendingToken = down.pendingToken
        /\ down.pc = "watch" /\ down'.pc = "none"
        /\ watcher'.pos = token
    BY <1>3, <1>0 DEF SetRemoteWatcher, DownRecord
  <2>3. StartInv'
    BY <2>1, <2>2 DEF StartInv
  <2>4. TokenInv'
    BY <2>2, TokenRead
  <2> QED BY <2>3, <2>4
<1>4. CASE StartDownloadMetadataError \/ SetRemoteWatcherError \/ OnPermanentError
  <2>1. \E pc \in {"none", down.pc} : HandleDownloadCommitError(pc)
    BY <1>4 DEF StartDownloadMetadataError, SetRemoteWatcherError, OnPermanentError
  <2>2. sync'.started = sync.started
    BY <2>1, SetCommitStateStarted DEF HandleDownloadCommitError
  <2>3. UNCHANGED <<stored, log, token, batch>> /\ (down.pc # "none" \/ watcher.bound)
    BY <1>4 DEF StartDownloadMetadataError, SetRemoteWatcherError, OnPermanentError
  <2>4. /\ down'.pending = down.pending /\ down'.pendingToken = down.pendingToken
        /\ down'.from = down.from
        /\ down'.pc \in {"none", down.pc}
        /\ ~watcher'.bound
    BY <2>1, <1>0 DEF HandleDownloadCommitError, NoWatcher, DownRecord
  <2>5. StartInv'
    BY <2>2, <2>3, <2>4 DEF StartInv
  <2>6. TokenInv'
    BY <2>3, <2>4, TokenRead
  <2> QED BY <2>5, <2>6
<1>5. CASE Start
  <2>1. /\ UNCHANGED <<stored, log, token, batch, watcher>>
        /\ down'.pending = down.pending /\ down'.pendingToken = down.pendingToken
        /\ down'.pc = "metadata"
        /\ ~sync.started /\ sync'.started
    BY <1>5, <1>0 DEF Start, DownRecord, SyncRecord
  <2>2. StartInv'
    BY <2>1 DEF StartInv
  <2>3. TokenInv'
    BY <2>1, TokenRead
  <2> QED BY <2>2, <2>3
<1> QED BY <1>1, <1>2, <1>3, <1>4, <1>5

\* GetCommits returns every commit after the position it was given, so that the
\* end of the log is covered once they are added.
LEMMA TokenGetCommits ==
    ASSUME TypeInv, StartInv, TokenInv, GetCommits
    PROVE  StartInv' /\ TokenInv'
<1> USE DEF rows, cloud
<1>0. down \in DownRecord /\ sync \in SyncRecord /\ log \in Seq(Commit)
  BY TypeFacts
<1>1. UNCHANGED <<stored, log, token, watcher>> /\ down.pc = "commits"
  BY DEF GetCommits
<1>2. ~watcher.bound /\ batch.pc = "none" /\ down.pending = <<>> /\ sync.started
      /\ Covered(log, down.from, stored)
  BY <1>1 DEF StartInv, TokenInv
<1>3. PICK s \in CommitsAfter(down.from) :
        \/ /\ s = <<>>
           /\ down' = [down EXCEPT !.state = "SETTING_REMOTE_WATCHER", !.pc = "watch", !.from = 0]
           /\ SetCommitState("SETTING_REMOTE_WATCHER")
           /\ UNCHANGED batch
        \/ /\ s # <<>>
           /\ down' = [down EXCEPT !.pc = "none", !.from = 0]
           /\ batch' = [pc |-> "add", commits |-> s, token |-> Len(log), onDone |-> "backlog"]
           /\ UNCHANGED <<sync, backlog, up>>
  BY DEF GetCommits
<1>4. CASE s = <<>>
  <2>1. /\ sync'.started = sync.started /\ UNCHANGED batch
        /\ down'.pending = down.pending /\ down'.pendingToken = down.pendingToken
        /\ down'.pc = "watch"
    BY <1>0, <1>3, <1>4, SetCommitStateStarted DEF DownRecord
  <2>2. StartInv'
    BY <2>1, <1>1, <1>2 DEF StartInv
  <2>3. TokenInv'
    BY <2>1, <1>1, TokenRead
  <2> QED BY <2>2, <2>3
<1>5. CASE s # <<>>
  <2>1. /\ UNCHANGED sync /\ down'.pending = <<>> /\ down'.pc = "none"
        /\ batch'.pc = "add" /\ batch'.commits = s /\ batch'.token = Len(log)
    <3>1. /\ down' = [down EXCEPT !.pc = "none", !.from = 0]
          /\ batch' = [pc |-> "add", commits |-> s, token |-> Len(log), onDone |-> "backlog"]
          /\ UNCHANGED sync
      BY <1>3, <1>5
    <3> QED BY <3>1, <1>0, <1>2 DEF DownRecord
  <2>2. StartInv'
    BY <2>1, <1>1, <1>2 DEF StartInv
  <2>3. Adding' = ToSet(s)
    BY <2>1 DEF Adding
  <2>4. Covered(log, Len(log), stored \cup ToSet(s))
    <3>1. PICK i \in {down.from + 1} \cup ({down.from} \ {0}) : s = SubSeq(log, i, Len(log))
      BY DEF CommitsAfter
    <3>2. down.from \in Nat /\ Len(log) \in Nat /\ down.from <= Len(log)
      BY <1>0, <1>2 DEF DownRecord, Covered
    <3>3. i \in Nat \ {0} /\ i <= Len(log) + 1 /\ i <= down.from + 1
      BY <3>2
    <3>4. ToSet(s) = {log[j] : j \in i..Len(log)}
      BY <3>1, <3>2, <3>3, <1>0, Segment
    <3>5. ASSUME NEW j \in 1..Len(log)
          PROVE  log[j] \in stored \cup ToSet(s)
      <4>1. CASE j <= down.from
        BY <4>1, <3>2, <1>2 DEF Covered
      <4>2. CASE j > down.from
        <5>1. j \in i..Len(log)
          BY <4>2, <3>2, <3>3
        <5> QED BY <5>1, <3>4
      <4> QED BY <4>1, <4>2, <3>2
    <3> QED BY <3>2, <3>5 DEF Covered
  <2>5. TokenInv'
    BY <1>1, <1>2, <2>1, <2>3, <2>4 DEF TokenInv
  <2> QED BY <2>2, <2>5
<1> QED BY <1>4, <1>5

\* The watcher delivers the commits behind its position, without a gap, and
\* what it delivers is added or put aside.
LEMMA TokenOnNewCommits ==
    ASSUME TypeInv, StartInv, TokenInv, OnNewCommits
    PROVE  StartInv' /\ TokenInv'
<1> USE DEF rows, cloud
<1>0. /\ down \in DownRecord /\ sync \in SyncRecord /\ log \in Seq(Commit)
      /\ watcher \in WatcherRecord /\ Len(log) \in Nat /\ watcher.pos \in Nat
      /\ down.pending \in Seq(Commit)
  BY TypeFacts DEF WatcherRecord, DownRecord
<1>1. UNCHANGED <<stored, log, token>> /\ watcher.bound
  BY DEF OnNewCommits
<1>2. PICK k \in (watcher.pos + 1)..Len(log) :
        LET commits == SubSeq(log, watcher.pos + 1, k) IN
        \/ /\ batch.pc # "none"
           /\ down' = [down EXCEPT !.pending = @ \o commits, !.pendingToken = k]
           /\ watcher' = [watcher EXCEPT !.pos = k]
           /\ UNCHANGED <<batch, sync, backlog, up>>
        \/ /\ batch.pc = "none"
           /\ down' = [down EXCEPT !.state = "IN_PROGRESS"]
           /\ SetCommitState("IN_PROGRESS")
           /\ batch' = [pc |-> "add", commits |-> commits, token |-> k, onDone |-> "watcher"]
           /\ watcher' = [watcher EXCEPT !.pos = k, !.waiting = TRUE]
  BY DEF OnNewCommits
<1> DEFINE commits == SubSeq(log, watcher.pos + 1, k)
<1>3. k \in Nat /\ k <= Len(log) /\ watcher.pos + 1 <= k
  BY <1>0
<1>4. commits \in Seq(Commit) /\ ToSet(commits) = {log[j] : j \in (watcher.pos + 1)..k}
  BY <1>0, <1>3, Segment
<1> HIDE DEF commits
<1>5. ASSUME NEW S, Covered(log, watcher.pos, S)
      PROVE  Covered(log, k, S \cup ToSet(commits))
  <2>1. ASSUME NEW j \in 1..k
        PROVE  log[j] \in S \cup ToSet(commits)
    <3>1. CASE j <= watcher.pos
      BY <3>1, <1>0, <1>5 DEF Covered
    <3>2. CASE j > watcher.pos
      <4>1. j \in (watcher.pos + 1)..k
        BY <3>2, <1>0, <1>3
      <4> QED BY <4>1, <1>4
    <3> QED BY <3>1, <3>2, <1>0, <1>3
  <2> QED BY <2>1, <1>0, <1>3 DEF Covered
<1>6. down.pc \notin {"metadata", "commits", "retryStart"} /\ sync.started
  BY <1>1 DEF StartInv
<1>7. CASE batch.pc # "none"
  <2>1. /\ down'.pending = down.pending \o commits /\ down'.pendingToken = k
        /\ down'.pc = down.pc
        /\ watcher'.pos = k /\ watcher'.bound
        /\ UNCHANGED <<batch, sync>>
    BY <1>0, <1>1, <1>2, <1>7 DEF commits, DownRecord, WatcherRecord
  <2>2. StartInv'
    BY <1>6, <1>7, <2>1 DEF StartInv
  <2>3. ToSet(down'.pending) = ToSet(down.pending) \cup ToSet(commits)
    BY <2>1, <1>0, <1>4, ToSetConcat
  <2>4. Adding' = Adding /\ Coming' = Coming \cup ToSet(commits)
    BY <1>1, <2>1, <2>3 DEF Adding, Coming
  <2>5. batch.pc # "dead" => Covered(log, k, Coming')
    BY <1>1, <1>5, <2>4 DEF TokenInv
  <2>6. TokenInv'
    BY <1>1, <1>6, <2>1, <2>4, <2>5 DEF TokenInv
  <2> QED BY <2>2, <2>6
<1>8. CASE batch.pc = "none"
  <2>1. /\ down'.pending = down.pending /\ down'.pc = down.pc
        /\ watcher'.pos = k /\ watcher'.bound
        /\ batch'.pc = "add" /\ batch'.commits = commits /\ batch'.token = k
        /\ sync'.started = sync.started
    <3>1. /\ down' = [down EXCEPT !.state = "IN_PROGRESS"]
          /\ SetCommitState("IN_PROGRESS")
          /\ batch' = [pc |-> "add", commits |-> commits, token |-> k, onDone |-> "watcher"]
          /\ watcher' = [watcher EXCEPT !.pos = k, !.waiting = TRUE]
      BY <1>2, <1>8 DEF commits
    <3>2. sync'.started = sync.started
      BY <3>1, SetCommitStateStarted
    <3> QED BY <3>1, <3>2, <1>0, <1>1 DEF DownRecord, WatcherRecord
  <2>2. StartInv'
    BY <1>6, <2>1 DEF StartInv
  <2>3. down.pending = <<>> /\ Adding = {} /\ Adding' = ToSet(commits)
    BY <1>8, <2>1 DEF Adding, StartInv
  <2>4. Coming = stored /\ Coming' = stored \cup ToSet(commits)
    BY <1>1, <2>1, <2>3 DEF Coming, ToSet
  <2>5. Covered(log, k, stored \cup ToSet(commits))
    BY <1>1, <1>5, <1>8, <2>4 DEF TokenInv
  <2>6. TokenInv'
    BY <1>1, <1>6, <2>1, <2>3, <2>4, <2>5 DEF TokenInv
  <2> QED BY <2>2, <2>6
<1> QED BY <1>7, <1>8

\* A batch becomes part of the database before its token does, and the commits
\* put aside are the next batch.
LEMMA TokenBatch ==
    ASSUME TypeInv, TypeInv', StartInv, TokenInv,
           BatchAdd \/ BatchAddError \/ BatchUpdateTimestamp \/ BatchUpdateTimestampError
    PROVE  StartInv' /\ TokenInv'
<1> USE DEF rows, cloud, downVars, upVars
<1>0. /\ down \in DownRecord /\ sync \in SyncRecord /\ log \in Seq(Commit)
      /\ watcher \in WatcherRecord /\ batch \in BatchRecord
  BY TypeFacts
<1>c. Continues(log, log)
  BY <1>0 DEF Continues
<1>s. batch.pc # "none" /\ sync.started /\ down.pc \notin {"metadata", "commits", "retryStart"}
  BY DEF BatchAdd, BatchAddError, BatchUpdateTimestamp, BatchUpdateTimestampError, StartInv
<1>1. CASE BatchAdd
  <2>1. /\ batch.pc = "add" /\ batch'.pc = "token" /\ batch'.token = batch.token
        /\ stored' = stored \cup ToSet(batch.commits)
        /\ UNCHANGED <<token, log, sync, down, watcher>>
    BY <1>1, <1>0 DEF BatchAdd, BatchRecord
  <2>2. Adding' = {} /\ Adding = ToSet(batch.commits)
    BY <2>1 DEF Adding
  <2>3. Coming' = Coming /\ stored' \cup Adding' = stored \cup Adding /\ stored \subseteq stored'
    BY <2>1, <2>2 DEF Coming
  <2>4. Covered(log, token, stored')
    BY <1>0, <1>c, <2>3, CoveredGrows DEF TokenInv
  <2>5. StartInv'
    BY <1>s, <2>1 DEF StartInv
  <2>6. TokenInv'
    BY <1>s, <2>1, <2>3, <2>4 DEF TokenInv
  <2> QED BY <2>5, <2>6
<1>2. CASE BatchAddError \/ BatchUpdateTimestampError
  <2>1. HandleDownloadCommitError(down.pc) /\ batch' = [batch EXCEPT !.pc = "dead"]
        /\ UNCHANGED <<stored, token, log>>
    BY <1>2 DEF BatchAddError, BatchUpdateTimestampError
  <2>2. sync'.started = sync.started
    BY <2>1, SetCommitStateStarted DEF HandleDownloadCommitError
  <2>3. ~watcher'.bound /\ batch'.pc = "dead" /\ down'.pc = down.pc
    BY <2>1, <1>0 DEF HandleDownloadCommitError, NoWatcher, BatchRecord, DownRecord
  <2>4. StartInv'
    BY <1>s, <2>2, <2>3 DEF StartInv
  <2>5. TokenInv'
    BY <1>s, <2>1, <2>3 DEF TokenInv
  <2> QED BY <2>4, <2>5
<1>3. CASE BatchUpdateTimestamp
  <2>1. /\ batch.pc = "token" /\ token' = batch.token /\ BatchDone
        /\ UNCHANGED <<stored, log>>
    BY <1>3 DEF BatchUpdateTimestamp
  <2>2. sync'.started = sync.started
    BY <2>1, SetCommitStateStarted DEF BatchDone
  <2>3. /\ down'.pending = <<>> /\ down'.pc \in {"watch", down.pc}
        /\ watcher'.pos = watcher.pos /\ watcher'.bound = watcher.bound
    BY <2>1, <1>0 DEF BatchDone, DownRecord, WatcherRecord
  <2>4. Adding = {} /\ Coming = stored \cup ToSet(down.pending)
    BY <2>1 DEF Adding, Coming
  <2>5. Covered(log, token', stored)
    BY <2>1, <2>4 DEF TokenInv
  <2>6. CASE down.pending = <<>>
    <3>1. batch'.pc = "none"
      BY <2>1, <2>6 DEF BatchDone, NoBatch
    <3>2. Coming' = Coming
      BY <2>1, <2>3, <2>4, <2>6, <3>1 DEF Coming, Adding
    <3>3. StartInv'
      BY <1>s, <2>2, <2>3, <3>1 DEF StartInv
    <3>4. TokenInv'
      BY <1>s, <2>1, <2>3, <2>5, <3>1, <3>2 DEF TokenInv
    <3> QED BY <3>3, <3>4
  <2>7. CASE down.pending # <<>>
    <3>1. batch'.pc = "add" /\ batch'.commits = down.pending /\ batch'.token = down.pendingToken
      BY <2>1, <2>7 DEF BatchDone
    <3>2. Adding' = ToSet(down.pending)
      BY <3>1 DEF Adding
    <3>3. Coming' = Coming /\ stored' \cup Adding' = Coming
      BY <2>1, <2>3, <2>4, <3>2 DEF Coming, ToSet
    <3>4. StartInv'
      BY <1>s, <2>2, <2>3, <3>1 DEF StartInv
    <3>5. TokenInv'
      BY <1>s, <2>1, <2>3, <2>5, <2>7, <3>1, <3>3 DEF TokenInv
    <3> QED BY <3>4, <3>5
  <2> QED BY <2>6, <2>7
<1> QED BY <1>1, <1>2, <1>3

\* Every step keeps every position covered.
LEMMA TokenStep ==
    ASSUME TypeInv, TypeInv', StartInv, TokenInv, [Next]_vars
    PROVE  StartInv' /\ TokenInv'
<1> USE DEF rows, cloud, downVars, upVars
<1>0. log \in Seq(Commit) /\ sync \in SyncRecord
  BY TypeFacts
<1>c. Continues(log, log)
  BY <1>0 DEF Continues
<1>1. CASE \/ StartDownloadMetadata \/ StartDownloadMetadataError
           \/ GetCommitsError \/ RetryStartDownload \/ SetRemoteWatcher
           \/ SetRemoteWatcherError \/ OnError \/ OnPermanentError
           \/ RetrySetRemoteWatcher \/ Start
  BY <1>1, TokenDownload
<1>2. CASE GetCommits
  BY <1>2, TokenGetCommits
<1>3. CASE OnNewCommits
  BY <1>3, TokenOnNewCommits
<1>4. CASE BatchAdd \/ BatchAddError \/ BatchUpdateTimestamp \/ BatchUpdateTimestampError
  BY <1>4, TokenBatch
<1>5. CASE Crash
  <2>1. /\ down' = NoDown /\ batch' = NoBatch /\ watcher' = NoWatcher
        /\ UNCHANGED <<stored, log, token>>
    BY <1>5 DEF Crash
  <2> QED BY <2>1 DEF NoDown, NoBatch, NoWatcher, StartInv, TokenInv
<1>6. CASE \/ GetObject \/ ObjectStep \/ GetObjectError \/ EnableUpload \/ UploadStep \/ UploadError
           \/ StartObjectUpload \/ FilterAndUploadCommits \/ AddCommitsDone
           \/ \E c \in Commit : AddObject(c) \/ MarkPieceSynced(c) \/ MarkCommitSynced(c)
           \/ UNCHANGED vars
  <2>1. UNCHANGED <<stored, log, token, down, batch, watcher>> /\ sync'.started = sync.started
    BY <1>6, <1>0
       DEF GetObject, ObjectStep, GetObjectDone, RetryGetObject, GetObjectError, EnableUpload,
           UploadStep, VerifyUnsyncedCommits, HandleUnsyncedCommits, PostponeUpload, RetryUpload,
           UploadError, VerifyUnsyncedCommitsError, GetHeadsError, StartUploadError, FilterError,
           EncryptCommitsError, AddCommitsError, MarkCommitSyncedError, AddObjectError,
           MarkPieceSyncedError, StartObjectUpload, FilterAndUploadCommits, AddCommitsDone,
           AddObject, MarkPieceSynced, MarkCommitSynced, vars, SyncRecord
  <2> QED BY <2>1, <1>c, TokenGrows
<1>7. CASE AddCommits
  <2>1. PICK s \in InGenerationOrder(upload.commits) : log' = log \o s
    BY <1>7 DEF AddCommits
  <2>2. s \in Seq(Commit)
    BY InGenerationOrderSeq
  <2>3. Continues(log, log')
    BY <2>1, <2>2, <1>0 DEF Continues
  <2> QED BY <1>7, <2>3, TokenGrows DEF AddCommits
<1>8. ASSUME NEW c \in Commit, PushRemote(c)
      PROVE  StartInv' /\ TokenInv'
  <2>1. Continues(log, log')
    BY <1>8, <1>0 DEF PushRemote, Continues
  <2> QED BY <1>8, <2>1, TokenGrows DEF PushRemote
<1>9. ASSUME NEW c \in Commit, AddLocalCommit(c)
      PROVE  StartInv' /\ TokenInv'
  BY <1>9, <1>c, TokenGrows DEF AddLocalCommit
<1> QED BY <1>1, <1>2, <1>3, <1>4, <1>5, <1>6, <1>7, <1>8, <1>9
        DEF Next, DownloadStep, DownloadError, BatchUploadStep

-----------------------------------------------------------------------------
(* What is synced is in the cloud *)

\* A batch of uploads that ends holds nothing.
LEMMA EndedUpload ==
    ASSUME \/ upload' = NoUpload
           \/ \E R : UploadDone(R)
           \/ \E b : UploadFailed(b)
    PROVE  /\ upload'.pc \in {"none", "dead"}
           /\ upload'.commits = {} /\ upload'.uploading = {} /\ upload'.marking = {}
<1>1. upload' = NoUpload \/ upload' = [NoUpload EXCEPT !.pc = "dead"]
  BY DEF UploadDone, UploadFailed
<1> QED BY <1>1 DEF NoUpload

\* MarkPieceSynced's callback goes on with the batch, asks again for the
\* unsynced commits, or ends.
LEMMA PieceHandledCases ==
    ASSUME NEW u \in UploadRecord, PieceHandled(u), u.pc = "objects"
    PROVE  \/ /\ upload'.pc \in {"none", "dead"}
              /\ upload'.commits = {} /\ upload'.uploading = {} /\ upload'.marking = {}
           \/ /\ upload'.pc = "filter" /\ upload'.commits = u.commits
              /\ upload'.uploading = {} /\ upload'.marking = {}
              /\ u.uploading = {} /\ u.remaining = {}
           \/ /\ upload'.pc = "objects" /\ upload'.commits = u.commits
              /\ upload'.marking = u.marking
              /\ upload'.remaining \cup upload'.uploading = u.remaining \cup u.uploading
<1>1. CASE UploadFailed(u.permanent)
  BY <1>1, EndedUpload
<1>2. CASE u.uploading \cup u.marking = {} /\ u.remaining = {} /\ upload' = Filtering(u)
  BY <1>2 DEF Filtering, UploadRecord
<1>3. CASE \E q \in u.remaining :
             upload' = [u EXCEPT !.uploading = @ \cup {q}, !.remaining = @ \ {q}]
  <2>1. PICK q \in u.remaining :
          upload' = [u EXCEPT !.uploading = @ \cup {q}, !.remaining = @ \ {q}]
    BY <1>3
  <2>2. /\ upload'.pc = "objects" /\ upload'.commits = u.commits /\ upload'.marking = u.marking
        /\ upload'.remaining = u.remaining \ {q} /\ upload'.uploading = u.uploading \cup {q}
    BY <2>1 DEF UploadRecord
  <2> QED BY <2>2
<1>4. CASE upload' = u
  BY <1>4
<1> QED BY <1>1, <1>2, <1>3, <1>4 DEF PieceHandled

\* Steps that change neither the database nor the log.
LEMMA SyncedFrame ==
    ASSUME SyncedInv, UNCHANGED <<stored, unsynced, log>>,
           batch'.commits \in {batch.commits, down.pending, <<>>},
           down'.pending \in {down.pending, <<>>},
           upload'.pc \in {"sent", "mark"} =>
               upload.pc \in {"sent", "mark"} /\ upload'.commits \subseteq upload.commits
    PROVE  SyncedInv'
<1>1. ToSet(<<>>) = {}
  BY DEF ToSet
<1> QED BY <1>1 DEF SyncedInv, SyncedIsInCloud, InLog

\* The steps of the download: what they bring comes from the log.
LEMMA SyncedDownload ==
    ASSUME TypeInv, SyncedInv, DownloadStep \/ OnNewCommits \/ DownloadError \/ Start \/ Crash
    PROVE  SyncedInv'
<1> USE DEF rows, cloud, downVars, upVars
<1>0. /\ down \in DownRecord /\ batch \in BatchRecord /\ log \in Seq(Commit)
      /\ watcher \in WatcherRecord /\ down.pending \in Seq(Commit) /\ Len(log) \in Nat
  BY TypeFacts DEF DownRecord
<1>l. ToSet(log) = {log[j] : j \in 1..Len(log)}
  BY <1>0, ToSetElements
<1>1. CASE GetCommits
  <2>1. PICK s \in CommitsAfter(down.from) :
          batch' = batch \/ batch' = [pc |-> "add", commits |-> s, token |-> Len(log),
                                      onDone |-> "backlog"]
    BY <1>1 DEF GetCommits
  <2>2. ToSet(s) \subseteq ToSet(log)
    <3>1. PICK i \in {down.from + 1} \cup ({down.from} \ {0}) : s = SubSeq(log, i, Len(log))
      BY DEF CommitsAfter
    <3>2. i \in Nat \ {0}
      BY <1>0 DEF DownRecord
    <3>3. CASE i <= Len(log) + 1
      <4>1. ToSet(SubSeq(log, i, Len(log))) = {log[j] : j \in i..Len(log)}
        BY <3>2, <3>3, <1>0, Segment
      <4> QED BY <4>1, <3>1, <3>2, <1>l
    <3>4. CASE i > Len(log) + 1
      <4>1. s = <<>>
        BY <3>1, <3>2, <3>4, <1>0
      <4> QED BY <4>1 DEF ToSet
    <3> QED BY <3>2, <3>3, <3>4, <1>0
  <2>3. down'.pending = down.pending
    BY <1>1, <1>0 DEF GetCommits, DownRecord
  <2>4. ToSet(batch'.commits) \subseteq ToSet(log)
    BY <2>1, <2>2 DEF SyncedInv
  <2> QED BY <1>1, <2>3, <2>4 DEF GetCommits, SyncedInv, SyncedIsInCloud, InLog
<1>2. CASE OnNewCommits
  <2>1. PICK k \in (watcher.pos + 1)..Len(log) :
          LET commits == SubSeq(log, watcher.pos + 1, k) IN
          \/ /\ down' = [down EXCEPT !.pending = @ \o commits, !.pendingToken = k]
             /\ UNCHANGED batch
          \/ /\ down' = [down EXCEPT !.state = "IN_PROGRESS"]
             /\ batch' = [pc |-> "add", commits |-> commits, token |-> k, onDone |-> "watcher"]
    BY <1>2 DEF OnNewCommits
  <2> DEFINE commits == SubSeq(log, watcher.pos + 1, k)
  <2>2. watcher.pos \in Nat /\ k \in Nat /\ k <= Len(log) /\ watcher.pos + 1 <= k
    BY <1>0 DEF WatcherRecord
  <2>3. commits \in Seq(Commit) /\ ToSet(commits) = {log[j] : j \in (watcher.pos + 1)..k}
    BY <2>2, <1>0, Segment
  <2> HIDE DEF commits
  <2>4. ToSet(commits) \subseteq ToSet(log)
    BY <2>2, <2>3, <1>l
  <2>5. ToSet(down.pending \o commits) = ToSet(down.pending) \cup ToSet(commits)
    BY <2>3, <1>0, ToSetConcat
  <2>6. CASE down' = [down EXCEPT !.pending = @ \o commits, !.pendingToken = k] /\ UNCHANGED batch
    <3>1. down'.pending = down.pending \o commits
      BY <2>6, <1>0 DEF DownRecord
    <3> QED BY <1>2, <2>4, <2>5, <2>6, <3>1 DEF OnNewCommits, SyncedInv, SyncedIsInCloud, InLog
  <2>7. CASE /\ down' = [down EXCEPT !.state = "IN_PROGRESS"]
             /\ batch' = [pc |-> "add", commits |-> commits, token |-> k, onDone |-> "watcher"]
    <3>1. down'.pending = down.pending /\ batch'.commits = commits
      BY <2>7, <1>0 DEF DownRecord
    <3> QED BY <1>2, <2>4, <3>1 DEF OnNewCommits, SyncedInv, SyncedIsInCloud, InLog
  <2> QED BY <2>1, <2>6, <2>7 DEF commits
<1>3. CASE BatchAdd
  <2>1. /\ stored' = stored \cup ToSet(batch.commits) /\ unsynced' = unsynced \ ToSet(batch.commits)
        /\ batch'.commits = batch.commits /\ UNCHANGED <<log, down, upload>>
    BY <1>3, <1>0 DEF BatchAdd, BatchRecord
  <2> QED BY <2>1 DEF SyncedInv, SyncedIsInCloud, InLog
<1>4. CASE BatchUpdateTimestamp
  <2>1. BatchDone /\ UNCHANGED <<stored, unsynced, log, upload>>
    BY <1>4 DEF BatchUpdateTimestamp
  <2>2. batch'.commits \in {down.pending, <<>>} /\ down'.pending = <<>>
    BY <2>1, <1>0 DEF BatchDone, NoBatch, DownRecord
  <2> QED BY <2>1, <2>2, SyncedFrame
<1>5. CASE DownloadError
  <2>1. UNCHANGED <<stored, unsynced, log, upload>>
    BY <1>5 DEF DownloadError, StartDownloadMetadataError, GetCommitsError, SetRemoteWatcherError,
                OnError, OnPermanentError, BatchAddError, BatchUpdateTimestampError
  <2>2. down'.pending = down.pending
    BY <1>5, <1>0
       DEF DownloadError, StartDownloadMetadataError, GetCommitsError, SetRemoteWatcherError, OnError,
           OnPermanentError, BatchAddError, BatchUpdateTimestampError, HandleDownloadCommitError,
           DownRecord
  <2>3. batch'.commits = batch.commits
    BY <1>5, <1>0
       DEF DownloadError, StartDownloadMetadataError, GetCommitsError, SetRemoteWatcherError, OnError,
           OnPermanentError, BatchAddError, BatchUpdateTimestampError, BatchRecord
  <2> QED BY <2>1, <2>2, <2>3, SyncedFrame
<1>6. CASE \/ StartDownloadMetadata \/ RetryStartDownload \/ SetRemoteWatcher
           \/ RetrySetRemoteWatcher \/ Start
  <2>1. UNCHANGED <<stored, unsynced, log, upload, batch>>
    BY <1>6 DEF StartDownloadMetadata, RetryStartDownload, SetRemoteWatcher,
                RetrySetRemoteWatcher, Start
  <2>2. down'.pending = down.pending
    BY <1>6, <1>0 DEF StartDownloadMetadata, RetryStartDownload, SetRemoteWatcher,
                      RetrySetRemoteWatcher, Start, DownRecord
  <2> QED BY <2>1, <2>2, SyncedFrame
<1>7. CASE Crash
  <2>1. /\ UNCHANGED <<stored, unsynced, log>>
        /\ batch'.commits = <<>> /\ down'.pending = <<>> /\ upload'.pc = "none"
    BY <1>7 DEF Crash, NoBatch, NoDown, NoUpload
  <2> QED BY <2>1, SyncedFrame
<1> QED BY <1>1, <1>2, <1>3, <1>4, <1>5, <1>6, <1>7 DEF DownloadStep

\* The steps of the upload: a commit is marked after AddCommits succeeded.
LEMMA SyncedUpload ==
    ASSUME TypeInv, TypeInv', SyncedInv, UploadStep \/ UploadError \/ BatchUploadStep
    PROVE  SyncedInv'
<1> USE DEF rows, cloud, downVars, upVars
<1>0. upload \in UploadRecord /\ log \in Seq(Commit)
  BY TypeFacts
<1>1. CASE UploadStep
  <2>1. UNCHANGED <<stored, unsynced, log, down, batch>>
    BY <1>1 DEF UploadStep, VerifyUnsyncedCommits, HandleUnsyncedCommits, PostponeUpload, RetryUpload
  <2>2. upload' = upload \/ upload'.pc = "pieces"
    BY <1>1 DEF UploadStep, VerifyUnsyncedCommits, HandleUnsyncedCommits, PostponeUpload,
                RetryUpload, NoUpload
  <2> QED BY <2>1, <2>2, SyncedFrame
<1>2. CASE \/ \E i \in DOMAIN up.chains : VerifyUnsyncedCommitsError(i) \/ GetHeadsError(i)
           \/ StartUploadError \/ FilterError \/ EncryptCommitsError \/ AddCommitsError
  <2>1. UNCHANGED <<stored, unsynced, log, down, batch>>
    BY <1>2 DEF VerifyUnsyncedCommitsError, GetHeadsError, StartUploadError, FilterError,
                EncryptCommitsError, AddCommitsError
  <2>2. upload' = upload \/ upload'.pc \in {"none", "dead"}
    BY <1>2, EndedUpload DEF VerifyUnsyncedCommitsError, GetHeadsError, StartUploadError,
                             FilterError, EncryptCommitsError, AddCommitsError
  <2> QED BY <2>1, <2>2, SyncedFrame
<1>3. CASE MarkCommitSyncedError
  <2>1. PICK marked \in SUBSET upload.commits : unsynced' = unsynced \ marked
    BY <1>3 DEF MarkCommitSyncedError
  <2>2. UNCHANGED <<stored, log, down, batch>> /\ upload.pc = "mark"
    BY <1>3 DEF MarkCommitSyncedError
  <2>3. upload'.pc \in {"none", "dead"}
    BY <1>3, EndedUpload DEF MarkCommitSyncedError
  <2> QED BY <2>1, <2>2, <2>3 DEF SyncedInv, SyncedIsInCloud, InLog
<1>4. ASSUME NEW p \in Commit,
             \/ AddObject(p) \/ AddObjectError(p) \/ MarkPieceSynced(p) \/ MarkPieceSyncedError(p)
      PROVE  SyncedInv'
  <2>1. UNCHANGED <<stored, unsynced, log, down, batch>>
    BY <1>4 DEF AddObject, AddObjectError, MarkPieceSynced, MarkPieceSyncedError
  <2>2. upload'.commits \subseteq upload.commits /\ upload'.pc \in {"none", "dead", "filter", upload.pc}
    <3>1. CASE AddObject(p)
      BY <3>1, <1>0 DEF AddObject, UploadRecord
    <3>2. CASE AddObjectError(p)
      <4>1. CASE UploadFailed(upload.permanent)
        BY <4>1, EndedUpload
      <4>2. CASE upload' = [upload EXCEPT !.uploading = @ \ {p}, !.remaining = @ \cup {p},
                                          !.errored = TRUE]
        BY <4>2, <1>0 DEF UploadRecord
      <4> QED BY <3>2, <4>1, <4>2 DEF AddObjectError
    <3>3. CASE MarkPieceSynced(p) \/ MarkPieceSyncedError(p)
      <4>1. PICK u : /\ PieceHandled(u)
                     /\ \/ u = [upload EXCEPT !.marking = @ \ {p}]
                        \/ u = [upload EXCEPT !.marking = @ \ {p}, !.errored = TRUE,
                                              !.permanent = TRUE]
        BY <3>3 DEF MarkPieceSynced, MarkPieceSyncedError
      <4>2. u.commits = upload.commits /\ u.pc = upload.pc
        BY <4>1, <1>0 DEF UploadRecord
      <4>3. CASE UploadFailed(u.permanent)
        BY <4>3, EndedUpload
      <4>4. CASE upload' = Filtering(u)
        BY <4>1, <4>2, <4>4, <1>0 DEF Filtering, UploadRecord
      <4>5. CASE \E q \in u.remaining :
                   upload' = [u EXCEPT !.uploading = @ \cup {q}, !.remaining = @ \ {q}]
        BY <4>1, <4>2, <4>5, <1>0 DEF UploadRecord
      <4> QED BY <4>1, <4>2, <4>3, <4>4, <4>5 DEF PieceHandled
    <3> QED BY <1>4, <3>1, <3>2, <3>3
  <2> QED BY <2>1, <2>2, SyncedFrame
<1>5. CASE StartObjectUpload \/ FilterAndUploadCommits
  <2>1. UNCHANGED <<stored, unsynced, log, down, batch>>
    BY <1>5 DEF StartObjectUpload, FilterAndUploadCommits
  <2>2. upload'.pc \in {"none", "dead", "filter", "objects", "send"}
    BY <1>5, <1>0, EndedUpload DEF StartObjectUpload, FilterAndUploadCommits, Filtering, UploadRecord
  <2> QED BY <2>1, <2>2, SyncedFrame
<1>6. CASE AddCommits
  <2>1. PICK s \in InGenerationOrder(upload.commits) : log' = log \o s
    BY <1>6 DEF AddCommits
  <2>2. s \in Seq(Commit) /\ ToSet(s) = upload.commits
    BY InGenerationOrderSeq
  <2>3. ToSet(log') = ToSet(log) \cup upload.commits
    BY <2>1, <2>2, <1>0, ToSetConcat
  <2>4. upload'.commits = upload.commits
    BY <1>6, <1>0 DEF AddCommits, UploadRecord
  <2> QED BY <1>6, <2>3, <2>4 DEF AddCommits, SyncedInv, SyncedIsInCloud, InLog
<1>7. CASE AddCommitsDone
  <2>1. UNCHANGED <<stored, unsynced, log, down, batch>> /\ upload.pc = "sent"
        /\ upload'.commits = upload.commits
    BY <1>7, <1>0 DEF AddCommitsDone, UploadRecord
  <2> QED BY <2>1, SyncedFrame
<1>8. ASSUME NEW c \in Commit, MarkCommitSynced(c)
      PROVE  SyncedInv'
  <2>1. /\ upload.pc = "mark" /\ c \in upload.commits /\ unsynced' = unsynced \ {c}
        /\ UNCHANGED <<stored, log, down, batch>>
    BY <1>8 DEF MarkCommitSynced
  <2>2. upload'.commits \subseteq upload.commits
    <3>1. CASE UploadDone(unsynced \ {c})
      BY <3>1, EndedUpload
    <3>2. CASE upload' = [upload EXCEPT !.commits = upload.commits \ {c}]
      BY <3>2, <1>0 DEF UploadRecord
    <3> QED BY <1>8, <3>1, <3>2 DEF MarkCommitSynced
  <2> QED BY <2>1, <2>2 DEF SyncedInv, SyncedIsInCloud, InLog
<1> QED BY <1>1, <1>2, <1>3, <1>4, <1>5, <1>6, <1>7, <1>8 DEF UploadError, BatchUploadStep

\* Every step keeps what is marked synced in the cloud.
LEMMA SyncedStep ==
    ASSUME TypeInv, TypeInv', SyncedInv, [Next]_vars
    PROVE  SyncedInv'
<1> USE DEF rows, cloud, downVars, upVars
<1>0. log \in Seq(Commit)
  BY TypeFacts
<1>1. CASE DownloadStep \/ OnNewCommits \/ DownloadError \/ Start \/ Crash
  BY <1>1, SyncedDownload
<1>2. CASE UploadStep \/ UploadError \/ BatchUploadStep
  BY <1>2, SyncedUpload
<1>3. CASE EnableUpload \/ GetObject \/ ObjectStep \/ GetObjectError \/ UNCHANGED vars
  <2>1. UNCHANGED <<stored, unsynced, log, down, batch, upload>>
    BY <1>3 DEF EnableUpload, GetObject, ObjectStep, GetObjectDone, RetryGetObject, GetObjectError,
                vars
  <2> QED BY <2>1, SyncedFrame
<1>4. ASSUME NEW c \in Commit, AddLocalCommit(c)
      PROVE  SyncedInv'
  BY <1>4 DEF AddLocalCommit, SyncedInv, SyncedIsInCloud, InLog
<1>5. ASSUME NEW c \in Commit, PushRemote(c)
      PROVE  SyncedInv'
  <2>1. ToSet(log') = ToSet(log) \cup {c}
    BY <1>5, <1>0, ToSetAppend DEF PushRemote
  <2>2. ToSet(log) \subseteq ToSet(log')
    BY <2>1
  <2> QED BY <1>5, <2>2 DEF PushRemote, SyncedInv, SyncedIsInCloud, InLog
<1> QED BY <1>1, <1>2, <1>3, <1>4, <1>5 DEF Next

-----------------------------------------------------------------------------
(* The pieces come before the commits *)

\* The steps of BatchUpload that concern pieces: each piece of the batch is in
\* the cloud, being sent or still to be sent.
LEMMA ObjectsPieces ==
    ASSUME TypeInv, ObjectsInv,
           \/ StartObjectUpload \/ StartUploadError
           \/ \E p \in Commit : \/ AddObject(p) \/ AddObjectError(p)
                                \/ MarkPieceSynced(p) \/ MarkPieceSyncedError(p)
    PROVE  ObjectsInv'
<1> USE DEF rows, cloud, downVars, upVars
<1>0. upload \in UploadRecord
  BY TypeFacts
<1>1. CASE StartObjectUpload
  <2>1. UNCHANGED <<stored, pieces, log, objects>> /\ upload.pc = "pieces"
    BY <1>1 DEF StartObjectUpload
  <2>2. CASE upload.remaining = {} /\ upload' = Filtering(upload)
    <3>1. /\ upload'.pc = "filter" /\ upload'.commits = upload.commits
          /\ upload'.uploading = upload.uploading /\ upload'.marking = upload.marking
      BY <2>2, <1>0 DEF Filtering, UploadRecord
    <3> QED BY <2>1, <2>2, <3>1 DEF ObjectsInv, ObjectsBeforeCommits
  <2>3. ASSUME NEW S \in SUBSET upload.remaining,
               upload' = [upload EXCEPT !.pc = "objects", !.uploading = S, !.remaining = @ \ S]
        PROVE  ObjectsInv'
    <3>1. /\ upload'.pc = "objects" /\ upload'.commits = upload.commits
          /\ upload'.uploading = S /\ upload'.remaining = upload.remaining \ S
          /\ upload'.marking = upload.marking
      BY <2>3, <1>0 DEF UploadRecord
    <3> QED BY <2>1, <3>1 DEF ObjectsInv, ObjectsBeforeCommits
  <2> QED BY <1>1, <2>2, <2>3 DEF StartObjectUpload, FirstObjects
<1>2. CASE StartUploadError
  <2>1. UNCHANGED <<stored, pieces, log, objects>> /\ UploadFailed(TRUE)
    BY <1>2 DEF StartUploadError
  <2> QED BY <2>1, EndedUpload DEF ObjectsInv, ObjectsBeforeCommits
<1>3. ASSUME NEW p \in Commit, AddObject(p)
      PROVE  ObjectsInv'
  <2>1. /\ UNCHANGED <<stored, pieces, log>> /\ objects' = objects \cup {p}
        /\ p \in upload.uploading
    BY <1>3 DEF AddObject
  <2>2. /\ upload'.pc = upload.pc /\ upload'.commits = upload.commits
        /\ upload'.uploading = upload.uploading \ {p} /\ upload'.remaining = upload.remaining
        /\ upload'.marking = upload.marking \cup {p}
    BY <1>3, <1>0 DEF AddObject, UploadRecord
  <2>3. upload.pc = "objects"
    BY <2>1 DEF ObjectsInv
  <2> QED BY <2>1, <2>2, <2>3 DEF ObjectsInv, ObjectsBeforeCommits
<1>4. ASSUME NEW p \in Commit, AddObjectError(p)
      PROVE  ObjectsInv'
  <2>1. /\ UNCHANGED <<stored, pieces, log>> /\ objects \subseteq objects'
        /\ p \in upload.uploading
    BY <1>4 DEF AddObjectError
  <2>2. upload.pc = "objects"
    BY <2>1 DEF ObjectsInv
  <2>3. CASE UploadFailed(upload.permanent)
    BY <2>1, <2>3, EndedUpload DEF ObjectsInv, ObjectsBeforeCommits
  <2>4. CASE upload' = [upload EXCEPT !.uploading = @ \ {p}, !.remaining = @ \cup {p},
                                      !.errored = TRUE]
    <3>1. /\ upload'.pc = upload.pc /\ upload'.commits = upload.commits
          /\ upload'.uploading = upload.uploading \ {p}
          /\ upload'.remaining = upload.remaining \cup {p}
          /\ upload'.marking = upload.marking
      BY <2>4, <1>0 DEF UploadRecord
    <3> QED BY <2>1, <2>2, <3>1 DEF ObjectsInv, ObjectsBeforeCommits
  <2> QED BY <1>4, <2>3, <2>4 DEF AddObjectError
<1>5. ASSUME NEW p \in Commit, MarkPieceSynced(p) \/ MarkPieceSyncedError(p)
      PROVE  ObjectsInv'
  <2>1. /\ UNCHANGED <<stored, log, objects>> /\ p \in upload.marking
        /\ pieces \ {p} \subseteq pieces'
    BY <1>5 DEF MarkPieceSynced, MarkPieceSyncedError
  <2>2. upload.pc = "objects" /\ p \in objects
    BY <2>1 DEF ObjectsInv
  <2>3. PICK u : /\ PieceHandled(u)
                 /\ \/ u = [upload EXCEPT !.marking = @ \ {p}]
                    \/ u = [upload EXCEPT !.marking = @ \ {p}, !.errored = TRUE, !.permanent = TRUE]
    BY <1>5 DEF MarkPieceSynced, MarkPieceSyncedError
  <2>4. /\ u \in UploadRecord /\ u.pc = "objects" /\ u.commits = upload.commits
        /\ u.uploading = upload.uploading /\ u.remaining = upload.remaining
        /\ u.marking = upload.marking \ {p}
    <3>1. CASE u = [upload EXCEPT !.marking = @ \ {p}]
      BY <3>1, <2>2, <1>0 DEF UploadRecord
    <3>2. CASE u = [upload EXCEPT !.marking = @ \ {p}, !.errored = TRUE, !.permanent = TRUE]
      BY <3>2, <2>2, <1>0 DEF UploadRecord
    <3> QED BY <2>3, <3>1, <3>2
  <2>5. stored' \ pieces' \subseteq objects'
    BY <2>1, <2>2 DEF ObjectsInv
  <2>6. upload.commits \subseteq objects \cup u.remaining \cup u.uploading /\ u.marking \subseteq objects
    BY <2>2, <2>4 DEF ObjectsInv
  <2>7. CASE /\ upload'.pc \in {"none", "dead"}
             /\ upload'.commits = {} /\ upload'.uploading = {} /\ upload'.marking = {}
    BY <2>1, <2>5, <2>7 DEF ObjectsInv, ObjectsBeforeCommits
  <2>8. CASE /\ upload'.pc = "filter" /\ upload'.commits = u.commits
             /\ upload'.uploading = {} /\ upload'.marking = {}
             /\ u.uploading = {} /\ u.remaining = {}
    BY <2>1, <2>4, <2>5, <2>6, <2>8 DEF ObjectsInv, ObjectsBeforeCommits
  <2>9. CASE /\ upload'.pc = "objects" /\ upload'.commits = u.commits
             /\ upload'.marking = u.marking
             /\ upload'.remaining \cup upload'.uploading = u.remaining \cup u.uploading
    BY <2>1, <2>4, <2>5, <2>6, <2>9 DEF ObjectsInv, ObjectsBeforeCommits
  <2> QED BY <2>3, <2>4, <2>7, <2>8, <2>9, PieceHandledCases
<1> QED BY <1>1, <1>2, <1>3, <1>4, <1>5

\* The steps of BatchUpload that concern commits.
LEMMA ObjectsCommits ==
    ASSUME TypeInv, ObjectsInv,
           \/ FilterAndUploadCommits \/ FilterError \/ EncryptCommitsError \/ AddCommits
           \/ AddCommitsError \/ AddCommitsDone \/ MarkCommitSyncedError
           \/ \E c \in Commit : MarkCommitSynced(c)
    PROVE  ObjectsInv'
<1> USE DEF rows, cloud, downVars, upVars
<1>0. upload \in UploadRecord /\ log \in Seq(Commit)
  BY TypeFacts
<1>1. CASE FilterError \/ EncryptCommitsError \/ AddCommitsError \/ MarkCommitSyncedError
  <2>1. UNCHANGED <<stored, pieces, log, objects>>
    BY <1>1 DEF FilterError, EncryptCommitsError, AddCommitsError, MarkCommitSyncedError
  <2>2. (\E R : UploadDone(R)) \/ (\E b : UploadFailed(b))
    BY <1>1 DEF FilterError, EncryptCommitsError, AddCommitsError, MarkCommitSyncedError
  <2> QED BY <2>1, <2>2, EndedUpload DEF ObjectsInv, ObjectsBeforeCommits
<1>2. CASE FilterAndUploadCommits \/ AddCommitsDone \/ \E c \in Commit : MarkCommitSynced(c)
  <2>1. UNCHANGED <<stored, pieces, log, objects>> /\ upload.pc \in {"filter", "sent", "mark"}
    BY <1>2 DEF FilterAndUploadCommits, AddCommitsDone, MarkCommitSynced
  <2>2. \/ \E R : UploadDone(R)
        \/ \E S \in SUBSET upload.commits : upload' = [upload EXCEPT !.pc = "send", !.commits = S]
        \/ upload' = [upload EXCEPT !.pc = "mark"]
        \/ \E S \in SUBSET upload.commits : upload' = [upload EXCEPT !.commits = S]
    BY <1>2 DEF FilterAndUploadCommits, AddCommitsDone, MarkCommitSynced
  <2>3. CASE \E R : UploadDone(R)
    BY <2>1, <2>3, EndedUpload DEF ObjectsInv, ObjectsBeforeCommits
  <2>4. CASE ~ \E R : UploadDone(R)
    <3>1. /\ upload'.pc \in {"filter", "send", "sent", "mark"}
          /\ upload'.commits \subseteq upload.commits
          /\ upload'.uploading = upload.uploading /\ upload'.marking = upload.marking
      BY <2>1, <2>2, <2>4, <1>0 DEF UploadRecord
    <3> QED BY <2>1, <3>1 DEF ObjectsInv, ObjectsBeforeCommits
  <2> QED BY <2>3, <2>4
<1>3. CASE AddCommits
  <2>1. PICK s \in InGenerationOrder(upload.commits) : log' = log \o s
    BY <1>3 DEF AddCommits
  <2>2. s \in Seq(Commit) /\ ToSet(s) = upload.commits
    BY InGenerationOrderSeq
  <2>3. ToSet(log') = ToSet(log) \cup upload.commits
    BY <2>1, <2>2, <1>0, ToSetConcat
  <2>4. UNCHANGED <<stored, pieces, objects>> /\ upload.pc = "send"
    BY <1>3 DEF AddCommits
  <2>5. /\ upload'.commits = upload.commits /\ upload'.pc = "sent"
        /\ upload'.uploading = upload.uploading /\ upload'.marking = upload.marking
    BY <1>3, <1>0 DEF AddCommits, UploadRecord
  <2> QED BY <2>3, <2>4, <2>5 DEF ObjectsInv, ObjectsBeforeCommits
<1> QED BY <1>1, <1>2, <1>3

\* Every step keeps the pieces of the log's commits in the cloud.
LEMMA ObjectsStep ==
    ASSUME TypeInv, SyncedInv, ObjectsInv, [Next]_vars
    PROVE  ObjectsInv'
<1> USE DEF rows, cloud, downVars, upVars
<1>0. /\ log \in Seq(Commit) /\ up \in UpOver(stored) /\ batch \in BatchRecord
  BY TypeFacts
<1>1. CASE \/ StartObjectUpload \/ StartUploadError
           \/ \E p \in Commit : \/ AddObject(p) \/ AddObjectError(p)
                                \/ MarkPieceSynced(p) \/ MarkPieceSyncedError(p)
  BY <1>1, ObjectsPieces
<1>2. CASE \/ FilterAndUploadCommits \/ FilterError \/ EncryptCommitsError \/ AddCommits
           \/ AddCommitsError \/ AddCommitsDone \/ MarkCommitSyncedError
           \/ \E c \in Commit : MarkCommitSynced(c)
  BY <1>2, ObjectsCommits
<1>3. CASE BatchAdd
  <2>1. stored' = stored \cup ToSet(batch.commits) /\ UNCHANGED <<pieces, cloud, upload>>
    BY <1>3 DEF BatchAdd
  <2>2. ToSet(batch.commits) \subseteq objects
    BY DEF SyncedInv, ObjectsInv, ObjectsBeforeCommits
  <2> QED BY <2>1, <2>2 DEF ObjectsInv, ObjectsBeforeCommits
<1>4. CASE Crash
  <2>1. UNCHANGED <<stored, pieces, log, objects>> /\ upload' = NoUpload
    BY <1>4 DEF Crash
  <2> QED BY <2>1, EndedUpload DEF ObjectsInv, ObjectsBeforeCommits
<1>5. ASSUME NEW i \in DOMAIN up.chains, HandleUnsyncedCommits(i)
      PROVE  ObjectsInv'
  <2>1. up.chains[i].commits \subseteq stored
    <3>1. up.chains \in Seq(ChainOver(stored))
      BY <1>0 DEF UpOver
    <3>2. up.chains[i] \in ChainOver(stored)
      BY <3>1
    <3> QED BY <3>2 DEF ChainOver
  <2>2. /\ upload' = [NoUpload EXCEPT !.pc = "pieces", !.commits = up.chains[i].commits,
                                      !.remaining = pieces]
        /\ UNCHANGED <<stored, pieces, log, objects>>
    BY <1>5 DEF HandleUnsyncedCommits
  <2>3. /\ upload'.pc = "pieces" /\ upload'.commits = up.chains[i].commits
        /\ upload'.remaining = pieces /\ upload'.uploading = {} /\ upload'.marking = {}
    BY <2>2 DEF NoUpload
  <2> QED BY <2>1, <2>2, <2>3 DEF ObjectsInv, ObjectsBeforeCommits
<1>6. ASSUME NEW c \in Commit, AddLocalCommit(c)
      PROVE  ObjectsInv'
  <2>1. stored' = stored \cup {c} /\ pieces' = pieces \cup {c} /\ UNCHANGED <<cloud, upload>>
    BY <1>6 DEF AddLocalCommit
  <2> QED BY <2>1 DEF ObjectsInv, ObjectsBeforeCommits
<1>7. ASSUME NEW c \in Commit, PushRemote(c)
      PROVE  ObjectsInv'
  <2>1. ToSet(log') = ToSet(log) \cup {c} /\ objects' = objects \cup {c}
        /\ UNCHANGED <<stored, pieces, upload>>
    BY <1>7, <1>0, ToSetAppend DEF PushRemote
  <2> QED BY <2>1 DEF ObjectsInv, ObjectsBeforeCommits
<1>8. CASE \/ StartDownloadMetadata \/ GetCommits \/ RetryStartDownload \/ SetRemoteWatcher
           \/ RetrySetRemoteWatcher \/ BatchUpdateTimestamp \/ OnNewCommits \/ DownloadError
           \/ EnableUpload \/ Start \/ GetObject \/ ObjectStep \/ GetObjectError \/ RetryUpload
           \/ \E i \in DOMAIN up.chains :
                \/ VerifyUnsyncedCommits(i) \/ PostponeUpload(i)
                \/ VerifyUnsyncedCommitsError(i) \/ GetHeadsError(i)
           \/ UNCHANGED vars
  <2>1. UNCHANGED <<stored, pieces, log, objects, upload>>
    BY <1>8
       DEF StartDownloadMetadata, GetCommits, RetryStartDownload, SetRemoteWatcher,
           RetrySetRemoteWatcher, BatchUpdateTimestamp, OnNewCommits, DownloadError,
           StartDownloadMetadataError, GetCommitsError, SetRemoteWatcherError, OnError,
           OnPermanentError, BatchAddError, BatchUpdateTimestampError, EnableUpload, Start,
           GetObject, ObjectStep, GetObjectDone, RetryGetObject, GetObjectError, RetryUpload,
           VerifyUnsyncedCommits, PostponeUpload, VerifyUnsyncedCommitsError, GetHeadsError, vars
  <2> QED BY <2>1 DEF ObjectsInv, ObjectsBeforeCommits
<1> QED BY <1>1, <1>2, <1>3, <1>4, <1>5, <1>6, <1>7, <1>8
        DEF Next, DownloadStep, UploadStep, UploadError, BatchUploadStep

-----------------------------------------------------------------------------
(* The backlog *)

\* What PageSyncImpl sees after SetCommitState.
LEMMA SetCommitStateBacklog ==
    ASSUME TypeInv, NEW new \in DownloadState, SetCommitState(new),
           sync.download = "BACKLOG" => down.state = "BACKLOG"
    PROVE  /\ sync'.download = "BACKLOG" => new = "BACKLOG"
           /\ backlog' = backlog \/ backlog' = [start |-> 0, called |-> TRUE]
           /\ backlog' # backlog => down.state = "BACKLOG" /\ new # "PERMANENT_ERROR"
<1>0. sync \in SyncRecord
  BY TypeFacts
<1>1. CASE GetMergedState(down.state) # GetMergedState(new)
  <2>1. SetDownloadState(GetMergedState(new))
    BY <1>1 DEF SetCommitState
  <2>2. sync'.download = GetMergedState(new)
    BY <2>1, <1>0 DEF SetDownloadState, SyncRecord
  <2>3. sync'.download = "BACKLOG" => new = "BACKLOG"
    BY <2>2 DEF GetMergedState
  <2>4. new = "PERMANENT_ERROR" => GetMergedState(new) = "PERMANENT_ERROR"
    BY DEF GetMergedState
  <2> QED BY <2>1, <2>3, <2>4 DEF SetDownloadState, OnBacklogDownloaded
<1>2. CASE GetMergedState(down.state) = GetMergedState(new)
  <2>1. UNCHANGED <<sync, backlog>>
    BY <1>2 DEF SetCommitState
  <2>2. down.state = "BACKLOG" => new = "BACKLOG"
    BY <1>2 DEF GetMergedState
  <2> QED BY <2>1, <2>2
<1> QED BY <1>1, <1>2

\* Steps that set the state of the commit download to something else.
LEMMA BacklogLeft ==
    ASSUME TypeInv, BacklogInv, UNCHANGED log, NEW new \in DownloadState \ {"BACKLOG"},
           SetCommitState(new), down'.state = new,
           batch'.pc \in {"add", "token"} /\ batch'.onDone = "backlog" =>
               batch.pc \in {"add", "token"} /\ batch.onDone = "backlog" /\ batch'.token = batch.token
    PROVE  BacklogInv'
<1>0. log \in Seq(Commit) /\ backlog \in BacklogRecord /\ batch \in BatchRecord
  BY TypeFacts
<1>1. sync'.download # "BACKLOG" /\ (backlog' = backlog \/ backlog'.start = 0)
  BY SetCommitStateBacklog DEF BacklogInv
<1>2. Len(log) \in Nat /\ batch.token \in Nat
  BY <1>0 DEF BatchRecord
<1> QED BY <1>1, <1>2 DEF BacklogInv

\* The steps of the download.
LEMMA BacklogDownload ==
    ASSUME TypeInv, StartInv, BacklogInv,
           DownloadStep \/ OnNewCommits \/ DownloadError \/ Start \/ Crash
    PROVE  BacklogInv'
<1> USE DEF rows, cloud, downVars, upVars
<1>0. /\ down \in DownRecord /\ batch \in BatchRecord /\ sync \in SyncRecord
      /\ backlog \in BacklogRecord /\ log \in Seq(Commit) /\ Len(log) \in Nat
  BY TypeFacts
<1>s. {"BACKLOG", "TEMPORARY_ERROR", "SETTING_REMOTE_WATCHER", "IDLE", "IN_PROGRESS",
       "PERMANENT_ERROR"} \subseteq DownloadState
  BY DEF DownloadState
<1>1. CASE StartDownloadMetadata
  <2>1. down'.state = down.state /\ down.pc = "metadata" /\ down'.pc = "commits"
        /\ UNCHANGED <<log, sync, batch, watcher, backlog>>
    BY <1>1, <1>0 DEF StartDownloadMetadata, DownRecord
  <2> QED BY <2>1 DEF BacklogInv
<1>2. CASE GetCommits
  <2>0. UNCHANGED <<log, watcher>> /\ down.pc = "commits" /\ ~watcher.bound
    BY <1>2 DEF GetCommits, StartInv
  <2>1. PICK s \in CommitsAfter(down.from) :
          \/ /\ s = <<>>
             /\ down' = [down EXCEPT !.state = "SETTING_REMOTE_WATCHER", !.pc = "watch", !.from = 0]
             /\ SetCommitState("SETTING_REMOTE_WATCHER")
             /\ UNCHANGED batch
          \/ /\ s # <<>>
             /\ down' = [down EXCEPT !.pc = "none", !.from = 0]
             /\ batch' = [pc |-> "add", commits |-> s, token |-> Len(log), onDone |-> "backlog"]
             /\ UNCHANGED <<sync, backlog, up>>
    BY <1>2 DEF GetCommits
  <2>2. CASE s = <<>>
    <3>1. /\ down' = [down EXCEPT !.state = "SETTING_REMOTE_WATCHER", !.pc = "watch", !.from = 0]
          /\ SetCommitState("SETTING_REMOTE_WATCHER")
          /\ UNCHANGED batch
      BY <2>1, <2>2
    <3>2. down'.state = "SETTING_REMOTE_WATCHER"
      BY <3>1, <1>0 DEF DownRecord
    <3> QED BY <2>0, <3>1, <3>2, <1>s, BacklogLeft
  <2>3. CASE s # <<>>
    <3>1. /\ down' = [down EXCEPT !.pc = "none", !.from = 0]
          /\ batch' = [pc |-> "add", commits |-> s, token |-> Len(log), onDone |-> "backlog"]
          /\ UNCHANGED <<sync, backlog>>
      BY <2>1, <2>3
    <3>2. down'.state = down.state /\ down'.pc = "none" /\ batch'.pc = "add"
          /\ batch'.onDone = "backlog" /\ batch'.token = Len(log)
      BY <3>1, <1>0 DEF DownRecord
    <3> QED BY <2>0, <3>1, <3>2 DEF BacklogInv
  <2> QED BY <2>2, <2>3
<1>3. CASE RetryStartDownload
  <2>1. UNCHANGED <<log, batch, watcher>>
    BY <1>3 DEF RetryStartDownload
  <2>2. CASE down.state = "PERMANENT_ERROR"
    <3>1. UNCHANGED <<sync, backlog>> /\ down'.state = down.state
      BY <1>3, <1>0, <2>2 DEF RetryStartDownload, DownRecord
    <3> QED BY <2>1, <2>2, <3>1 DEF BacklogInv
  <2>3. CASE down.state # "PERMANENT_ERROR"
    <3>1. SetCommitState("BACKLOG") /\ down'.state = "BACKLOG" /\ down'.pc = "metadata"
          /\ down.pc = "retryStart"
      BY <1>3, <1>0, <2>3 DEF RetryStartDownload, DownRecord
    <3>2. backlog' = backlog
      BY <3>1, <1>s, SetCommitStateBacklog DEF BacklogInv
    <3> QED BY <2>1, <3>1, <3>2 DEF BacklogInv
  <2> QED BY <2>2, <2>3
<1>4. CASE SetRemoteWatcher \/ GetCommitsError \/ OnError
  <2>1. \E new \in {"IDLE", "TEMPORARY_ERROR"} : SetCommitState(new) /\ down'.state = new
    BY <1>4, <1>0 DEF SetRemoteWatcher, GetCommitsError, OnError, DownRecord
  <2>2. UNCHANGED <<log, batch>>
    BY <1>4 DEF SetRemoteWatcher, GetCommitsError, OnError
  <2> QED BY <2>1, <2>2, <1>s, BacklogLeft
<1>5. CASE RetrySetRemoteWatcher
  <2>1. UNCHANGED <<log, batch, watcher>>
    BY <1>5 DEF RetrySetRemoteWatcher
  <2>2. CASE down.state = "PERMANENT_ERROR"
    <3>1. UNCHANGED <<sync, backlog>> /\ down'.state = down.state
      BY <1>5, <1>0, <2>2 DEF RetrySetRemoteWatcher, DownRecord
    <3> QED BY <2>1, <2>2, <3>1 DEF BacklogInv
  <2>3. CASE down.state # "PERMANENT_ERROR"
    <3>1. SetCommitState("SETTING_REMOTE_WATCHER") /\ down'.state = "SETTING_REMOTE_WATCHER"
      BY <1>5, <1>0, <2>3 DEF RetrySetRemoteWatcher, DownRecord
    <3> QED BY <2>1, <3>1, <1>s, BacklogLeft
  <2> QED BY <2>2, <2>3
<1>6. CASE OnNewCommits
  <2>1. UNCHANGED log /\ watcher.bound
    BY <1>6 DEF OnNewCommits
  <2>2. down.state # "BACKLOG"
    BY <2>1 DEF StartInv, BacklogInv
  <2>3. \/ /\ down'.state = down.state
           /\ UNCHANGED <<batch, sync, backlog>>
        \/ /\ down'.state = "IN_PROGRESS" /\ SetCommitState("IN_PROGRESS")
           /\ batch'.onDone = "watcher"
    <3>1. PICK k \in (watcher.pos + 1)..Len(log) :
            LET commits == SubSeq(log, watcher.pos + 1, k) IN
            \/ /\ down' = [down EXCEPT !.pending = @ \o commits, !.pendingToken = k]
               /\ UNCHANGED <<batch, sync, backlog, up>>
            \/ /\ down' = [down EXCEPT !.state = "IN_PROGRESS"]
               /\ SetCommitState("IN_PROGRESS")
               /\ batch' = [pc |-> "add", commits |-> commits, token |-> k, onDone |-> "watcher"]
      BY <1>6 DEF OnNewCommits
    <3> DEFINE commits == SubSeq(log, watcher.pos + 1, k)
    <3>2. /\ [down EXCEPT !.pending = @ \o commits, !.pendingToken = k].state = down.state
          /\ [down EXCEPT !.state = "IN_PROGRESS"].state = "IN_PROGRESS"
      BY <1>0 DEF DownRecord
    <3>3. CASE /\ down' = [down EXCEPT !.pending = @ \o commits, !.pendingToken = k]
               /\ UNCHANGED <<batch, sync, backlog, up>>
      BY <3>2, <3>3
    <3>4. CASE /\ down' = [down EXCEPT !.state = "IN_PROGRESS"]
               /\ SetCommitState("IN_PROGRESS")
               /\ batch' = [pc |-> "add", commits |-> commits, token |-> k, onDone |-> "watcher"]
      BY <3>2, <3>4
    <3> QED BY <3>1, <3>3, <3>4
  <2>4. CASE down'.state = down.state /\ UNCHANGED <<batch, sync, backlog>>
    BY <2>1, <2>2, <2>4 DEF BacklogInv
  <2>5. CASE /\ down'.state = "IN_PROGRESS" /\ SetCommitState("IN_PROGRESS")
             /\ batch'.onDone = "watcher"
    BY <2>1, <2>5, <1>s, BacklogLeft
  <2> QED BY <2>3, <2>4, <2>5
<1>7. CASE BatchAdd
  <2>1. /\ batch.pc = "add" /\ batch'.pc = "token" /\ batch'.onDone = batch.onDone
        /\ batch'.token = batch.token /\ UNCHANGED <<log, sync, down, watcher, backlog>>
    BY <1>7, <1>0 DEF BatchAdd, BatchRecord
  <2> QED BY <2>1 DEF BacklogInv
<1>8. CASE BatchUpdateTimestamp
  <2> DEFINE next == IF batch.onDone = "backlog" THEN "SETTING_REMOTE_WATCHER"
                     ELSE IF down.state = "IN_PROGRESS" /\ down.pending = <<>> THEN "IDLE"
                     ELSE down.state
  <2>1. BatchDone /\ UNCHANGED log /\ batch.pc = "token"
    BY <1>8 DEF BatchUpdateTimestamp
  <2>2. SetCommitState(next) /\ down'.state = next
    BY <2>1, <1>0 DEF BatchDone, DownRecord
  <2>3. next \in DownloadState \ {"BACKLOG"}
    <3>1. down.state # "BACKLOG" \/ batch.onDone = "backlog"
      BY <2>1 DEF BacklogInv, StartInv
    <3> QED BY <3>1, <1>0, <1>s DEF DownRecord
  <2>4. batch'.onDone = "none"
    BY <2>1 DEF BatchDone, NoBatch
  <2> HIDE DEF next
  <2> QED BY <2>1, <2>2, <2>3, <2>4, BacklogLeft
<1>9. CASE \/ StartDownloadMetadataError \/ SetRemoteWatcherError \/ OnPermanentError
           \/ BatchAddError \/ BatchUpdateTimestampError
  <2>1. \E pc : HandleDownloadCommitError(pc)
    BY <1>9 DEF StartDownloadMetadataError, SetRemoteWatcherError, OnPermanentError,
                BatchAddError, BatchUpdateTimestampError
  <2>2. SetCommitState("PERMANENT_ERROR") /\ down'.state = "PERMANENT_ERROR"
    BY <2>1, <1>0 DEF HandleDownloadCommitError, DownRecord
  <2>3. UNCHANGED log /\ (batch' = batch \/ batch' = [batch EXCEPT !.pc = "dead"])
    BY <1>9 DEF StartDownloadMetadataError, SetRemoteWatcherError, OnPermanentError,
                BatchAddError, BatchUpdateTimestampError
  <2>4. batch' = batch \/ batch'.pc = "dead"
    BY <2>3, <1>0 DEF BatchRecord
  <2> QED BY <2>2, <2>3, <2>4, <1>s, BacklogLeft
<1>10. CASE Start
  <2>1. /\ ~sync.started /\ down'.pc = "metadata" /\ down'.state = "BACKLOG"
        /\ backlog'.start = Len(log) /\ UNCHANGED <<log, batch>>
    BY <1>10, <1>0 DEF Start, DownRecord, BacklogRecord
  <2>2. batch.pc = "none"
    BY <2>1 DEF StartInv
  <2> QED BY <2>1, <2>2, <1>0 DEF BacklogInv
<1>11. CASE Crash
  <2>1. sync' = NoSync /\ down' = NoDown /\ batch' = NoBatch /\ backlog'.start = 0 /\ UNCHANGED log
    BY <1>11 DEF Crash
  <2> QED BY <2>1, <1>0 DEF BacklogInv, NoSync, NoDown, NoBatch
<1> QED BY <1>1, <1>2, <1>3, <1>4, <1>5, <1>6, <1>7, <1>8, <1>9, <1>10, <1>11
        DEF DownloadStep, DownloadError

\* Every step keeps the batch of the backlog long enough.
LEMMA BacklogStep ==
    ASSUME TypeInv, TypeInv', StartInv, BacklogInv, [Next]_vars
    PROVE  BacklogInv'
<1> USE DEF rows, cloud, downVars, upVars
<1>0. /\ log \in Seq(Commit) /\ log' \in Seq(Commit) /\ sync \in SyncRecord
      /\ backlog \in BacklogRecord
  BY TypeFacts DEF TypeInv, RowsTyped
<1>1. CASE DownloadStep \/ OnNewCommits \/ DownloadError \/ Start \/ Crash
  BY <1>1, BacklogDownload
<1>2. CASE \/ GetObject \/ ObjectStep \/ GetObjectError \/ EnableUpload \/ UploadStep \/ UploadError
           \/ StartObjectUpload \/ FilterAndUploadCommits \/ AddCommitsDone
           \/ \E c \in Commit : AddObject(c) \/ MarkPieceSynced(c) \/ MarkCommitSynced(c)
           \/ \E c \in Commit : AddLocalCommit(c)
           \/ UNCHANGED vars
  <2>1. UNCHANGED <<log, down, batch, watcher, backlog>> /\ sync'.download = sync.download
    BY <1>2, <1>0
       DEF GetObject, ObjectStep, GetObjectDone, RetryGetObject, GetObjectError, EnableUpload,
           UploadStep, VerifyUnsyncedCommits, HandleUnsyncedCommits, PostponeUpload, RetryUpload,
           UploadError, VerifyUnsyncedCommitsError, GetHeadsError, StartUploadError, FilterError,
           EncryptCommitsError, AddCommitsError, MarkCommitSyncedError, AddObjectError,
           MarkPieceSyncedError, StartObjectUpload, FilterAndUploadCommits, AddCommitsDone,
           AddObject, MarkPieceSynced, MarkCommitSynced, AddLocalCommit, vars, SyncRecord
  <2> QED BY <2>1 DEF BacklogInv
<1>3. CASE AddCommits \/ \E c \in Commit : PushRemote(c)
  <2>1. UNCHANGED <<sync, down, batch, watcher, backlog>>
    BY <1>3 DEF AddCommits, PushRemote
  <2>2. Len(log) <= Len(log')
    <3>1. CASE AddCommits
      <4>1. PICK s \in InGenerationOrder(upload.commits) : log' = log \o s
        BY <3>1 DEF AddCommits
      <4>2. s \in Seq(Commit)
        BY InGenerationOrderSeq
      <4> QED BY <4>1, <4>2, <1>0
    <3>2. ASSUME NEW c \in Commit, PushRemote(c)
          PROVE  Len(log) <= Len(log')
      BY <3>2, <1>0 DEF PushRemote
    <3> QED BY <1>3, <3>1, <3>2
  <2>3. Len(log) \in Nat /\ Len(log') \in Nat /\ backlog.start \in Nat
    BY <1>0 DEF BacklogRecord
  <2> QED BY <2>1, <2>2, <2>3 DEF BacklogInv
<1> QED BY <1>1, <1>2, <1>3 DEF Next, BatchUploadStep

\* The step that calls on_backlog_downloaded_ finds the backlog stored.
LEMMA BacklogCalled ==
    ASSUME TypeInv, StartInv, TokenInv, BacklogInv, [Next]_vars,
           backlog'.called, ~backlog.called, faults'.temporary = 0
    PROVE  \A i \in 1..backlog.start : log[i] \in stored
<1> USE DEF rows, cloud, downVars, upVars
<1>0. /\ down \in DownRecord /\ batch \in BatchRecord /\ sync \in SyncRecord
      /\ backlog \in BacklogRecord /\ log \in Seq(Commit) /\ Len(log) \in Nat
      /\ faults \in FaultsRecord /\ down.from \in Nat
  BY TypeFacts DEF DownRecord
<1>s. {"BACKLOG", "TEMPORARY_ERROR", "SETTING_REMOTE_WATCHER", "IDLE", "IN_PROGRESS",
       "PERMANENT_ERROR"} \subseteq DownloadState
  BY DEF DownloadState
<1>b. backlog' # backlog
  OBVIOUS
<1>c. backlog.start \in Nat /\ backlog.start <= Len(log)
  BY <1>0 DEF BacklogInv, BacklogRecord
<1>t. ASSUME TemporaryError PROVE FALSE
  BY <1>t, <1>0 DEF TemporaryError, FaultsRecord
<1>k. ASSUME NEW n \in Nat, Covered(log, n, stored), backlog.start <= n
      PROVE  \A i \in 1..backlog.start : log[i] \in stored
  BY <1>k, <1>c DEF Covered
<1>1. CASE GetCommits
  <2>1. PICK s \in CommitsAfter(down.from) :
          s = <<>> \/ UNCHANGED backlog
    BY <1>1 DEF GetCommits
  <2>2. s = <<>>
    BY <2>1, <1>b
  <2>3. down.pc = "commits"
    BY <1>1 DEF GetCommits
  <2>4. Covered(log, down.from, stored) /\ down.from <= Len(log)
    BY <2>3, <1>0 DEF TokenInv, Covered
  <2>5. PICK i \in {down.from + 1} \cup ({down.from} \ {0}) : s = SubSeq(log, i, Len(log))
    BY DEF CommitsAfter
  <2>6. i \in Nat \ {0} /\ i <= down.from + 1
    BY <1>0
  <2>7. Len(log) < i
    <3>1. Len(SubSeq(log, i, Len(log))) = IF i <= Len(log) THEN Len(log) - i + 1 ELSE 0
      BY <1>0, <2>6
    <3>2. Len(SubSeq(log, i, Len(log))) = 0
      <4>1. SubSeq(log, i, Len(log)) = <<>>
        BY <2>2, <2>5
      <4> QED BY <4>1
    <3> QED BY <3>1, <3>2, <1>0, <2>6
  <2>8. Len(log) = down.from
    BY <2>4, <2>6, <2>7, <1>0
  <2> QED BY <2>4, <2>8, <1>0, <1>c, <1>k
<1>2. CASE BatchUpdateTimestamp
  <2>1. BatchDone /\ batch.pc = "token"
    BY <1>2 DEF BatchUpdateTimestamp
  <2> DEFINE next == IF batch.onDone = "backlog" THEN "SETTING_REMOTE_WATCHER"
                     ELSE IF down.state = "IN_PROGRESS" /\ down.pending = <<>> THEN "IDLE"
                     ELSE down.state
  <2>2. SetCommitState(next) /\ next \in DownloadState
    BY <2>1, <1>0, <1>s DEF BatchDone, DownRecord
  <2> HIDE DEF next
  <2>3. down.state = "BACKLOG"
    BY <2>2, <1>b, SetCommitStateBacklog DEF BacklogInv
  <2>4. batch.onDone = "backlog"
    BY <2>1, <2>3 DEF BacklogInv, StartInv
  <2>5. backlog.start <= batch.token /\ Covered(log, batch.token, stored \cup Adding) /\ Adding = {}
    BY <2>1, <2>4 DEF BacklogInv, TokenInv, Adding
  <2>6. batch.token \in Nat /\ Covered(log, batch.token, stored)
    BY <2>5, <1>0 DEF BatchRecord
  <2> QED BY <2>5, <2>6, <1>k
<1>3. CASE RetryStartDownload \/ SetRemoteWatcher \/ RetrySetRemoteWatcher
  <2>1. \/ UNCHANGED backlog
        \/ \E new \in {"BACKLOG", "IDLE", "SETTING_REMOTE_WATCHER"} : SetCommitState(new)
    BY <1>3 DEF RetryStartDownload, SetRemoteWatcher, RetrySetRemoteWatcher
  <2>2. down.state = "BACKLOG"
    BY <2>1, <1>b, <1>s, SetCommitStateBacklog DEF BacklogInv
  <2>3. down.pc \in {"retryStart", "watch", "retryWatch"}
    BY <1>3 DEF RetryStartDownload, SetRemoteWatcher, RetrySetRemoteWatcher
  <2> QED BY <2>2, <2>3 DEF BacklogInv
<1>4. CASE OnNewCommits
  <2>1. UNCHANGED backlog \/ SetCommitState("IN_PROGRESS")
    BY <1>4 DEF OnNewCommits
  <2>2. down.state = "BACKLOG"
    BY <2>1, <1>b, <1>s, SetCommitStateBacklog DEF BacklogInv
  <2>3. watcher.bound
    BY <1>4 DEF OnNewCommits
  <2> QED BY <2>2, <2>3 DEF BacklogInv, StartInv
<1>5. CASE \/ StartDownloadMetadataError \/ SetRemoteWatcherError \/ OnPermanentError
           \/ BatchAddError \/ BatchUpdateTimestampError
  <2>1. SetCommitState("PERMANENT_ERROR")
    BY <1>5 DEF StartDownloadMetadataError, SetRemoteWatcherError, OnPermanentError,
                BatchAddError, BatchUpdateTimestampError, HandleDownloadCommitError
  <2> QED BY <2>1, <1>b, <1>s, SetCommitStateBacklog DEF BacklogInv
<1>6. CASE GetCommitsError \/ OnError
  BY <1>6, <1>t DEF GetCommitsError, OnError
<1>7. CASE Start \/ Crash
  BY <1>7, <1>0 DEF Start, Crash, BacklogRecord
<1>8. CASE \/ StartDownloadMetadata \/ BatchAdd
           \/ GetObject \/ ObjectStep \/ GetObjectError \/ EnableUpload \/ UploadStep \/ UploadError
           \/ BatchUploadStep \/ \E c \in Commit : AddLocalCommit(c) \/ PushRemote(c)
           \/ UNCHANGED vars
  <2>1. UNCHANGED backlog
    BY <1>8
       DEF StartDownloadMetadata, BatchAdd, GetObject, ObjectStep, GetObjectDone, RetryGetObject,
           GetObjectError, EnableUpload, BatchUploadStep, AddCommits, PushRemote,
           UploadStep, VerifyUnsyncedCommits, HandleUnsyncedCommits, PostponeUpload, RetryUpload,
           UploadError, VerifyUnsyncedCommitsError, GetHeadsError, StartUploadError, FilterError,
           EncryptCommitsError, AddCommitsError, MarkCommitSyncedError, AddObjectError,
           MarkPieceSyncedError, StartObjectUpload, FilterAndUploadCommits, AddCommitsDone,
           AddObject, MarkPieceSynced, MarkCommitSynced, AddLocalCommit, vars
  <2> QED BY <2>1, <1>b
<1> QED BY <1>1, <1>2, <1>3, <1>4, <1>5, <1>6, <1>7, <1>8 DEF Next, DownloadStep, DownloadError

-----------------------------------------------------------------------------
(* The theorems *)

\* The page starts in the invariant.
LEMMA InitInv == Init => IInv
<1> SUFFICES ASSUME Init PROVE IInv
  OBVIOUS
<1> USE DEF Init, Constructed
<1>1. TypeInv
  <2>1. RowsTyped
    BY FS_EmptySet DEF RowsTyped
  <2>2. NoSync \in SyncRecord /\ NoWatcher \in WatcherRecord /\ NoGets \in GetsRecord
    BY DEF NoSync, SyncRecord, DownloadState, NoWatcher, WatcherRecord, NoGets, GetsRecord
  <2>3. NoDown \in DownRecord /\ NoBatch \in BatchRecord
    BY DEF NoDown, DownRecord, DownloadState, NoBatch, BatchRecord
  <2>4. NoUp \in UpOver(stored)
    BY DEF NoUp, UpOver, UploadState
  <2>5. NoUpload \in UploadRecord /\ NoUpload.commits = {}
    BY DEF NoUpload, UploadRecord
  <2>6. backlog \in BacklogRecord /\ faults \in FaultsRecord
    BY DEF BacklogRecord, FaultsRecord
  <2>7. ProcessTyped
    BY <2>2, <2>3, <2>4, <2>5, <2>6 DEF ProcessTyped
  <2> QED BY <2>1, <2>7 DEF TypeInv
<1>2. StartInv
  BY DEF StartInv, NoSync, NoDown, NoBatch, NoWatcher
<1>3. TokenInv
  BY DEF TokenInv, Covered, NoDown, NoBatch, NoWatcher
<1>4. ToSet(<<>>) = {}
  BY DEF ToSet
<1>5. SyncedInv
  BY <1>4 DEF SyncedInv, SyncedIsInCloud, NoDown, NoBatch, NoUpload
<1>6. ObjectsInv
  BY <1>4 DEF ObjectsInv, ObjectsBeforeCommits, NoUpload
<1>7. BacklogInv
  BY DEF BacklogInv, NoSync, NoDown, NoBatch
<1> QED BY <1>1, <1>2, <1>3, <1>5, <1>6, <1>7 DEF IInv

\* The inductive invariant holds in every behaviour of the synchronisation.
THEOREM Invariance == Spec => []IInv
<1>1. Init => IInv
  BY InitInv
<1>2. IInv /\ [Next]_vars => IInv'
  <2> SUFFICES ASSUME IInv, [Next]_vars PROVE IInv'
    OBVIOUS
  <2>1. TypeInv'
    BY TypeStep DEF IInv
  <2>2. StartInv' /\ TokenInv'
    BY <2>1, TokenStep DEF IInv
  <2>3. SyncedInv'
    BY <2>1, SyncedStep DEF IInv
  <2>4. ObjectsInv'
    BY ObjectsStep DEF IInv
  <2>5. BacklogInv'
    BY <2>1, BacklogStep DEF IInv
  <2> QED BY <2>1, <2>2, <2>3, <2>4, <2>5 DEF IInv
<1> QED BY <1>1, <1>2, PTL DEF Spec

\* Every variable keeps its type.
THEOREM TypeCorrect == Spec => []TypeOK
<1>1. IInv => TypeOK
  BY TypeInvImpliesTypeOK DEF IInv
<1> QED BY <1>1, Invariance, PTL

\* The position token that BatchDownload saves never runs ahead of the commits
\* that are stored: whatever connection is lost, whatever batch is put aside and
\* whenever the process stops, the next GetCommits or SetWatcher skips nothing.
THEOREM NoCommitSkipped == Spec => []TokenIsCovered
<1>1. IInv => TokenIsCovered
  <2> SUFFICES ASSUME IInv PROVE TokenIsCovered
    OBVIOUS
  <2>1. log \in Seq(Commit) /\ token \in Nat
    BY TypeFacts DEF IInv
  <2> QED BY <2>1 DEF IInv, TokenInv, Covered, TokenIsCovered
<1> QED BY <1>1, Invariance, PTL

\* A commit that is marked synced, by MarkCommitSynced or because it came from
\* the cloud, is in the cloud's log.
THEOREM SyncedCommitsAreInCloud == Spec => []SyncedIsInCloud
<1>1. IInv => SyncedIsInCloud
  BY DEF IInv, SyncedInv
<1> QED BY <1>1, Invariance, PTL

\* BatchUpload calls AddCommits only when the pieces of those commits are in the
\* cloud, however many it uploads at a time and whichever calls fail.
THEOREM PiecesComeFirst == Spec => []ObjectsBeforeCommits
<1>1. IInv => ObjectsBeforeCommits
  BY DEF IInv, ObjectsInv
<1> QED BY <1>1, Invariance, PTL

\* PageSyncImpl reports the backlog as downloaded only when every commit that was
\* in the cloud when sync started is stored, unless a temporary error made it
\* leave the backlog state before.
THEOREM BacklogReported == Spec => BacklogIsStored
<1>1. IInv /\ [Next]_vars =>
        [backlog'.called /\ ~backlog.called /\ faults'.temporary = 0
           => \A i \in 1..backlog.start : log[i] \in stored]_vars
  BY BacklogCalled DEF IInv
<1> QED BY <1>1, Invariance, PTL DEF Spec, BacklogIsStored

-----------------------------------------------------------------------------
(* When the repository lets its pages upload *)

CONSTANTS Ledger, Page, LedgerOf, Request, MaxConnections, MaxWork
VARIABLES mem, disk, known, orphans, answer, work, repositoryFaults, raced

Repo == INSTANCE LedgerRepository WITH faults <- repositoryFaults

\* The pages belong to ledgers, and the bounds are numbers.
RepositoryIsGiven == Repo!PageAssumption /\ Repo!BoundAssumption

Memory == [repo : Repo!RepositoryState, ledgers : [Ledger -> Repo!LedgerState],
           pages : [Page -> Repo!PageState]]

Disk == [dir : [Page -> {"none", "fresh", "stale"}], mark : BOOLEAN]

\* What is up is owned by something that is up, and what is down is as new: an
\* erased ledger has no clients, an erased repository no provider.
Owned(m) ==
    /\ ~m.repo.up => m.repo = Repo!NoRepository
    /\ \A l \in Ledger : ~m.ledgers[l].up => m.ledgers[l] = Repo!NoLedger
    /\ \A l \in Ledger : m.ledgers[l].up => m.repo.up
    /\ \A p \in Page : m.pages[p].pc # "none" => m.ledgers[LedgerOf[p]].up

\* Uploads are enabled by the end of the check only.
Checked(m) == m.repo.enabled => m.repo.sync \in {"watch", "rewatch"}

UniformIn(m) ==
    /\ \A l \in Ledger : m.ledgers[l].up => m.ledgers[l].upload = m.repo.enabled
    /\ \A p \in Page : m.pages[p].pc = "ready" => m.pages[p].upload = m.repo.enabled

MemoryOK(m) == m \in Memory /\ Owned(m) /\ Checked(m) /\ UniformIn(m)

RepositoryTypes ==
    /\ disk \in Disk
    /\ known \in BOOLEAN
    /\ orphans \in [Page -> Nat]
    /\ answer \in [Request -> {"unused", "pending", "told", "lost"}]
    /\ work \in 0..MaxWork /\ repositoryFaults \in 0..MaxFaults
    /\ raced \subseteq Repo!Event

\* A fingerprint is set only by a device that has no fingerprint file, and
\* checked by one that has; a device that uploads has one.
MarkOK(repo, mark) ==
    /\ repo.sync \in {"set", "created"} => ~mark
    /\ repo.sync \in {"check", "found"} \/ repo.enabled => mark

\* What is stale is kept by a device that has a fingerprint file, which the cloud
\* does not know.
StaleKnown ==
    "unmarked" \notin raced => \A p \in Page : disk.dir[p] = "stale" => disk.mark /\ ~known

StaleInv == MarkOK(mem.repo, disk.mark) /\ StaleKnown

\* The inductive invariant.
RepositoryInv == RepositoryTypes /\ MemoryOK(mem) /\ StaleInv

-----------------------------------------------------------------------------
(* The empty memory, and the checks for emptiness *)

\* What is down is well typed.
LEMMA EmptyTypes ==
    ASSUME RepositoryIsGiven
    PROVE  /\ Repo!NoRepository \in Repo!RepositoryState
           /\ Repo!NoLedger \in Repo!LedgerState
           /\ Repo!NoPage \in Repo!PageState
           /\ ~Repo!NoRepository.up /\ ~Repo!NoRepository.enabled /\ Repo!NoRepository.sync = "none"
           /\ ~Repo!NoLedger.up /\ Repo!NoPage.pc = "none"
           /\ Repo!NoLedger.clients = 0 /\ Repo!NoRepository.clients = 0
  BY DEF Repo!NoRepository, Repo!NoLedger, Repo!NoPage, Repo!RepositoryState, Repo!LedgerState,
     Repo!PageState

\* Nothing, the memory of a process that has just started, is in order.
LEMMA NothingOK ==
    ASSUME RepositoryIsGiven
    PROVE  MemoryOK(Repo!Nothing) /\ Repo!Nothing.repo = Repo!NoRepository
  <1>1. Repo!Nothing \in Memory
    BY EmptyTypes DEF Repo!Nothing, Memory
  <1>2. /\ Repo!Nothing.repo = Repo!NoRepository
        /\ \A l \in Ledger : Repo!Nothing.ledgers[l] = Repo!NoLedger
        /\ \A p \in Page : Repo!Nothing.pages[p] = Repo!NoPage
    BY DEF Repo!Nothing
  <1> QED
    BY <1>1, <1>2, EmptyTypes DEF RepositoryIsGiven, Repo!PageAssumption, MemoryOK, Owned,
       Checked, UniformIn

\* RepositoryCheckEmpty drops a repository without ledgers, or nothing.
LEMMA RepositoryEmptyOK ==
    ASSUME RepositoryIsGiven, NEW m, MemoryOK(m)
    PROVE  /\ MemoryOK(Repo!RepositoryCheckEmpty(m))
           /\ Repo!RepositoryCheckEmpty(m).repo \in {m.repo, Repo!NoRepository}
  <1> DEFINE n == [m EXCEPT !.repo = Repo!NoRepository]
  <1>1. CASE Repo!RepositoryCheckEmpty(m) = m
    BY <1>1
  <1>2. CASE Repo!RepositoryCheckEmpty(m) # m
    <2>1. Repo!RepositoryCheckEmpty(m) = n /\ \A l \in Ledger : ~m.ledgers[l].up
      BY <1>2 DEF Repo!RepositoryCheckEmpty
    <2>2. n \in Memory /\ n.repo = Repo!NoRepository /\ n.ledgers = m.ledgers /\ n.pages = m.pages
      BY EmptyTypes DEF MemoryOK, Memory
    <2>3. \A p \in Page : m.pages[p].pc = "none"
      BY <2>1 DEF RepositoryIsGiven, Repo!PageAssumption, MemoryOK, Owned
    <2>4. MemoryOK(n)
      <3> HIDE DEF n
      <3> QED
        BY <2>1, <2>2, <2>3, EmptyTypes DEF RepositoryIsGiven, Repo!PageAssumption, MemoryOK,
           Owned, Checked, UniformIn
    <2> QED
      BY <2>1, <2>2, <2>4
  <1> QED
    BY <1>1, <1>2

\* A ledger may become c if it stays with its pages and shares the flag.
LEMMA LedgerUpdateOK ==
    ASSUME RepositoryIsGiven, NEW m, MemoryOK(m), NEW l \in Ledger, NEW c \in Repo!LedgerState,
           ~c.up => c = Repo!NoLedger /\ \A p \in Page : LedgerOf[p] = l => m.pages[p].pc = "none",
           c.up => m.repo.up /\ c.upload = m.repo.enabled
    PROVE  MemoryOK([m EXCEPT !.ledgers[l] = c])
  <1> DEFINE n == [m EXCEPT !.ledgers[l] = c]
  <1>1. /\ n \in Memory /\ n.repo = m.repo /\ n.pages = m.pages
        /\ n.ledgers[l] = c /\ \A k \in Ledger \ {l} : n.ledgers[k] = m.ledgers[k]
    BY DEF MemoryOK, Memory
  <1> HIDE DEF n
  <1>2. Owned(n)
    BY <1>1 DEF RepositoryIsGiven, Repo!PageAssumption, MemoryOK, Owned
  <1>3. Checked(n) /\ UniformIn(n)
    BY <1>1 DEF MemoryOK, Checked, UniformIn
  <1> QED
    BY <1>1, <1>2, <1>3 DEF MemoryOK, n

\* A page may become c if its ledger is up and it shares the flag.
LEMMA PageUpdateOK ==
    ASSUME RepositoryIsGiven, NEW m, MemoryOK(m), NEW p \in Page, NEW c \in Repo!PageState,
           c.pc # "none" => m.ledgers[LedgerOf[p]].up,
           c.pc = "ready" => c.upload = m.repo.enabled
    PROVE  /\ MemoryOK([m EXCEPT !.pages[p] = c])
           /\ [m EXCEPT !.pages[p] = c].repo = m.repo
           /\ [m EXCEPT !.pages[p] = c].pages[p] = c
  <1> DEFINE n == [m EXCEPT !.pages[p] = c]
  <1>1. /\ n \in Memory /\ n.repo = m.repo /\ n.ledgers = m.ledgers
        /\ n.pages[p] = c /\ \A q \in Page \ {p} : n.pages[q] = m.pages[q]
    BY DEF MemoryOK, Memory
  <1> HIDE DEF n
  <1>2. Owned(n)
    BY <1>1 DEF RepositoryIsGiven, Repo!PageAssumption, MemoryOK, Owned
  <1>3. Checked(n) /\ UniformIn(n)
    BY <1>1 DEF MemoryOK, Checked, UniformIn
  <1> QED
    BY <1>1, <1>2, <1>3 DEF MemoryOK, n

\* The repository may become c if it stays up and keeps the flag.
LEMMA RepositoryUpdateOK ==
    ASSUME RepositoryIsGiven, NEW m, MemoryOK(m), NEW c \in Repo!RepositoryState,
           c.up, c.enabled = m.repo.enabled,
           c.enabled => c.sync \in {"watch", "rewatch"}
    PROVE  /\ MemoryOK([m EXCEPT !.repo = c])
           /\ [m EXCEPT !.repo = c].repo = c
  <1> DEFINE n == [m EXCEPT !.repo = c]
  <1>1. n \in Memory /\ n.repo = c /\ n.ledgers = m.ledgers /\ n.pages = m.pages
    BY DEF MemoryOK, Memory
  <1> HIDE DEF n
  <1>2. Owned(n) /\ Checked(n) /\ UniformIn(n)
    BY <1>1 DEF MemoryOK, Owned, Checked, UniformIn
  <1> QED
    BY <1>1, <1>2 DEF MemoryOK, n

\* LedgerCheckEmpty drops a ledger without pages, then maybe the repository.
LEMMA LedgerEmptyOK ==
    ASSUME RepositoryIsGiven, NEW m, MemoryOK(m), NEW l \in Ledger
    PROVE  /\ MemoryOK(Repo!LedgerCheckEmpty(m, l))
           /\ Repo!LedgerCheckEmpty(m, l).repo \in {m.repo, Repo!NoRepository}
  <1> DEFINE n == [m EXCEPT !.ledgers[l] = Repo!NoLedger]
  <1>1. CASE Repo!LedgerCheckEmpty(m, l) = m
    BY <1>1
  <1>2. CASE Repo!LedgerCheckEmpty(m, l) # m
    <2>1. /\ Repo!LedgerCheckEmpty(m, l) = Repo!RepositoryCheckEmpty(n)
          /\ \A p \in Page : LedgerOf[p] = l => m.pages[p].pc = "none"
      BY <1>2 DEF Repo!LedgerCheckEmpty
    <2>2. MemoryOK(n)
      BY <2>1, LedgerUpdateOK, EmptyTypes
    <2>3. n.repo = m.repo
      BY DEF MemoryOK, Memory
    <2> HIDE DEF n
    <2> QED
      BY <2>1, <2>2, <2>3, RepositoryEmptyOK
  <1> QED
    BY <1>1, <1>2

\* ErasePage drops the page, then maybe its ledger and the repository.
LEMMA ErasePageOK ==
    ASSUME RepositoryIsGiven, NEW m, MemoryOK(m), NEW p \in Page
    PROVE  /\ MemoryOK(Repo!ErasePage(m, p))
           /\ Repo!ErasePage(m, p).repo \in {m.repo, Repo!NoRepository}
  <1> DEFINE n == [m EXCEPT !.pages[p] = Repo!NoPage]
  <1>1. MemoryOK(n) /\ n.repo = m.repo
    BY PageUpdateOK, EmptyTypes
  <1>2. LedgerOf[p] \in Ledger
    BY DEF RepositoryIsGiven, Repo!PageAssumption
  <1>3. Repo!ErasePage(m, p) = Repo!LedgerCheckEmpty(n, LedgerOf[p])
    BY DEF Repo!ErasePage
  <1> HIDE DEF n
  <1> QED
    BY <1>1, <1>2, <1>3, LedgerEmptyOK

\* PageCheckEmpty drops the page or nothing.
LEMMA PageEmptyOK ==
    ASSUME RepositoryIsGiven, NEW m, MemoryOK(m), NEW p \in Page
    PROVE  /\ MemoryOK(Repo!PageCheckEmpty(m, p))
           /\ Repo!PageCheckEmpty(m, p).repo \in {m.repo, Repo!NoRepository}
  <1>1. Repo!PageCheckEmpty(m, p) = m \/ Repo!PageCheckEmpty(m, p) = Repo!ErasePage(m, p)
    BY DEF Repo!PageCheckEmpty
  <1> QED
    BY <1>1, ErasePageOK

-----------------------------------------------------------------------------
(* What each operation does to the memory *)

\* The memory stays in order, and neither is the check begun or continued nor
\* are uploads enabled.
Quiet ==
    /\ MemoryOK(mem')
    /\ mem'.repo.sync \in {mem.repo.sync, "none", "devices"}
    /\ mem'.repo.enabled => mem.repo.enabled

\* A page that keeps its state and its flag, in a new record.
LEMMA WithOK ==
    ASSUME RepositoryIsGiven, MemoryOK(mem), NEW p \in Page, NEW c \in Repo!PageState,
           c.pc = mem.pages[p].pc, c.upload = mem.pages[p].upload
    PROVE  MemoryOK(Repo!With(p, c)) /\ Repo!With(p, c).repo = mem.repo
  <1>1. c.pc # "none" => mem.ledgers[LedgerOf[p]].up
    BY DEF MemoryOK, Owned
  <1>2. c.pc = "ready" => c.upload = mem.repo.enabled
    BY DEF MemoryOK, UniformIn
  <1> QED
    BY <1>1, <1>2, PageUpdateOK DEF Repo!With

\* Connections to the repository come and go.
LEMMA RepositoryClients ==
    ASSUME RepositoryIsGiven, MemoryOK(mem),
           \/ \E provider \in BOOLEAN : Repo!GetRepository(provider)
           \/ Repo!CloseRepository \/ Repo!GetLedgerRepositoryDebug \/ Repo!CloseRepositoryDebug
    PROVE  Quiet
  <1>0. mem \in Memory /\ mem.repo \in Repo!RepositoryState
    BY DEF MemoryOK, Memory
  <1>1. ASSUME NEW provider \in BOOLEAN, Repo!GetRepository(provider) PROVE Quiet
    <2>1. CASE mem.repo.up
      <3> DEFINE c == [mem.repo EXCEPT !.clients = @ + 1]
      <3>1. mem' = [mem EXCEPT !.repo = c]
        BY <1>0, <1>1, <2>1 DEF Repo!GetRepository, Memory
      <3>2. /\ c \in Repo!RepositoryState /\ c.up = mem.repo.up /\ c.enabled = mem.repo.enabled
            /\ c.sync = mem.repo.sync
        BY <1>0 DEF Repo!RepositoryState
      <3> HIDE DEF c
      <3>3. MemoryOK([mem EXCEPT !.repo = c]) /\ [mem EXCEPT !.repo = c].repo = c
        BY <2>1, <3>2, RepositoryUpdateOK DEF MemoryOK, Checked
      <3> QED
        BY <3>1, <3>2, <3>3 DEF Quiet
    <2>2. CASE ~mem.repo.up
      <3> DEFINE c == [Repo!NoRepository EXCEPT !.up = TRUE, !.clients = 1,
                                           !.sync = IF provider THEN "devices" ELSE "none"]
      <3>1. mem' = [mem EXCEPT !.repo = c]
        BY <1>1, <2>2 DEF Repo!GetRepository
      <3>2. c \in Repo!RepositoryState /\ c.up /\ ~c.enabled /\ c.sync \in {"none", "devices"}
        BY DEF Repo!RepositoryState, Repo!NoRepository
      <3> HIDE DEF c
      <3>3. ~mem.repo.enabled
        BY <2>2, EmptyTypes DEF MemoryOK, Owned
      <3>4. c.enabled = mem.repo.enabled
        BY <1>0, <3>2, <3>3 DEF Repo!RepositoryState
      <3>5. MemoryOK([mem EXCEPT !.repo = c]) /\ [mem EXCEPT !.repo = c].repo = c
        BY <3>2, <3>4, RepositoryUpdateOK
      <3> QED
        BY <3>1, <3>2, <3>5 DEF Quiet
    <2> QED
      BY <2>1, <2>2
  <1>2. CASE Repo!CloseRepository
    <2> DEFINE c == [mem.repo EXCEPT !.clients = @ - 1]
               m == [mem EXCEPT !.repo = c]
    <2>1. mem' = Repo!RepositoryCheckEmpty(m)
      BY <1>0, <1>2 DEF Repo!CloseRepository, Memory
    <2>2. /\ c \in Repo!RepositoryState /\ c.up = mem.repo.up /\ c.enabled = mem.repo.enabled
          /\ c.sync = mem.repo.sync
      BY <1>0, <1>2 DEF Repo!RepositoryState, Repo!CloseRepository
    <2>3. mem.repo.up
      BY <1>2, EmptyTypes DEF MemoryOK, Owned, Repo!CloseRepository
    <2> HIDE DEF c
    <2>4. MemoryOK(m) /\ m.repo = c
      BY <2>2, <2>3, RepositoryUpdateOK DEF MemoryOK, Checked
    <2> HIDE DEF m
    <2>5. MemoryOK(mem') /\ mem'.repo \in {c, Repo!NoRepository}
      BY <2>1, <2>4, RepositoryEmptyOK
    <2> QED
      BY <2>2, <2>5, EmptyTypes DEF Quiet
  <1>3. CASE Repo!GetLedgerRepositoryDebug
    <2> DEFINE c == [mem.repo EXCEPT !.debug = TRUE]
    <2>1. mem' = [mem EXCEPT !.repo = c]
      BY <1>0, <1>3 DEF Repo!GetLedgerRepositoryDebug, Memory
    <2>2. /\ c \in Repo!RepositoryState /\ c.up = mem.repo.up /\ c.enabled = mem.repo.enabled
          /\ c.sync = mem.repo.sync
      BY <1>0 DEF Repo!RepositoryState
    <2>3. mem.repo.up
      BY <1>3, EmptyTypes DEF MemoryOK, Owned, Repo!GetLedgerRepositoryDebug
    <2> HIDE DEF c
    <2>4. MemoryOK([mem EXCEPT !.repo = c]) /\ [mem EXCEPT !.repo = c].repo = c
      BY <2>2, <2>3, RepositoryUpdateOK DEF MemoryOK, Checked
    <2> QED
      BY <2>1, <2>2, <2>4 DEF Quiet
  <1>4. CASE Repo!CloseRepositoryDebug
    <2> DEFINE c == [mem.repo EXCEPT !.debug = FALSE]
               m == [mem EXCEPT !.repo = c]
    <2>1. mem' = Repo!RepositoryCheckEmpty(m)
      BY <1>0, <1>4 DEF Repo!CloseRepositoryDebug, Memory
    <2>2. /\ c \in Repo!RepositoryState /\ c.up = mem.repo.up /\ c.enabled = mem.repo.enabled
          /\ c.sync = mem.repo.sync
      BY <1>0 DEF Repo!RepositoryState
    <2>3. mem.repo.up
      BY <1>4 DEF MemoryOK, Owned, Repo!CloseRepositoryDebug, Repo!NoRepository
    <2> HIDE DEF c
    <2>4. MemoryOK(m) /\ m.repo = c
      BY <2>2, <2>3, RepositoryUpdateOK DEF MemoryOK, Checked
    <2> HIDE DEF m
    <2>5. MemoryOK(mem') /\ mem'.repo \in {c, Repo!NoRepository}
      BY <2>1, <2>4, RepositoryEmptyOK
    <2> QED
      BY <2>2, <2>5, EmptyTypes DEF Quiet
  <1> QED
    BY <1>1, <1>2, <1>3, <1>4

\* Connections to a ledger come and go.
LEMMA LedgerClients ==
    ASSUME RepositoryIsGiven, MemoryOK(mem), NEW l \in Ledger,
           Repo!GetLedger(l) \/ Repo!CloseLedger(l) \/ Repo!GetLedgerDebug(l) \/ Repo!CloseLedgerDebug(l)
    PROVE  Quiet
  <1>0. mem \in Memory /\ mem.ledgers[l] \in Repo!LedgerState /\ mem.repo \in Repo!RepositoryState
    BY DEF MemoryOK, Memory
  <1>a. ASSUME NEW c \in Repo!LedgerState, c.up, mem.ledgers[l].up, c.upload = mem.ledgers[l].upload
        PROVE  /\ MemoryOK([mem EXCEPT !.ledgers[l] = c])
               /\ [mem EXCEPT !.ledgers[l] = c].repo = mem.repo
    <2>1. mem.repo.up /\ c.upload = mem.repo.enabled
      BY <1>a DEF MemoryOK, Owned, UniformIn
    <2> QED
      BY <1>0, <1>a, <2>1, LedgerUpdateOK DEF Memory
  <1>1. CASE Repo!GetLedger(l)
    <2>1. CASE mem.ledgers[l].up
      <3> DEFINE c == [mem.ledgers[l] EXCEPT !.clients = @ + 1]
      <3>1. mem' = [mem EXCEPT !.ledgers[l] = c]
        BY <1>0, <1>1, <2>1 DEF Repo!GetLedger, Memory
      <3>2. c \in Repo!LedgerState /\ c.up /\ c.upload = mem.ledgers[l].upload
        BY <1>0, <2>1 DEF Repo!LedgerState
      <3> HIDE DEF c
      <3> QED
        BY <1>a, <2>1, <3>1, <3>2 DEF Quiet
    <2>2. CASE ~mem.ledgers[l].up
      <3> DEFINE c == [Repo!NoLedger EXCEPT !.up = TRUE, !.clients = 1, !.upload = mem.repo.enabled]
      <3>1. mem' = [mem EXCEPT !.ledgers[l] = c]
        BY <1>1, <2>2 DEF Repo!GetLedger
      <3>2. c \in Repo!LedgerState /\ c.up /\ c.upload = mem.repo.enabled
        BY <1>0 DEF Repo!LedgerState, Repo!NoLedger, Repo!RepositoryState
      <3>3. mem.repo.up
        BY <1>1, EmptyTypes DEF MemoryOK, Owned, Repo!GetLedger
      <3> HIDE DEF c
      <3>4. MemoryOK(mem')
        BY <3>1, <3>2, <3>3, LedgerUpdateOK
      <3>5. mem'.repo = mem.repo
        BY <1>0, <3>1 DEF Memory
      <3> QED
        BY <3>4, <3>5 DEF Quiet
    <2> QED
      BY <2>1, <2>2
  <1>2. CASE Repo!CloseLedger(l)
    <2> DEFINE c == [mem.ledgers[l] EXCEPT !.clients = @ - 1]
               m == [mem EXCEPT !.ledgers[l] = c]
    <2>1. mem' = Repo!LedgerCheckEmpty(m, l)
      BY <1>0, <1>2 DEF Repo!CloseLedger, Memory
    <2>2. mem.ledgers[l].up
      BY <1>2, EmptyTypes DEF MemoryOK, Owned, Repo!CloseLedger
    <2>3. c \in Repo!LedgerState /\ c.up /\ c.upload = mem.ledgers[l].upload
      BY <1>0, <1>2, <2>2 DEF Repo!LedgerState, Repo!CloseLedger
    <2> HIDE DEF c
    <2>4. MemoryOK(m) /\ m.repo = mem.repo
      BY <1>a, <2>2, <2>3
    <2> HIDE DEF m
    <2> QED
      BY <2>1, <2>4, LedgerEmptyOK, EmptyTypes DEF Quiet
  <1>3. CASE Repo!GetLedgerDebug(l)
    <2> DEFINE c == [mem.ledgers[l] EXCEPT !.debug = TRUE]
    <2>1. mem' = [mem EXCEPT !.ledgers[l] = c] /\ mem.ledgers[l].up
      BY <1>0, <1>3 DEF Repo!GetLedgerDebug, Memory
    <2>2. c \in Repo!LedgerState /\ c.up /\ c.upload = mem.ledgers[l].upload
      BY <1>0, <2>1 DEF Repo!LedgerState
    <2> HIDE DEF c
    <2> QED
      BY <1>a, <2>1, <2>2 DEF Quiet
  <1>4. CASE Repo!CloseLedgerDebug(l)
    <2> DEFINE c == [mem.ledgers[l] EXCEPT !.debug = FALSE]
               m == [mem EXCEPT !.ledgers[l] = c]
    <2>1. mem' = Repo!LedgerCheckEmpty(m, l)
      BY <1>0, <1>4 DEF Repo!CloseLedgerDebug, Memory
    <2>2. mem.ledgers[l].up
      BY <1>4 DEF MemoryOK, Owned, Repo!CloseLedgerDebug, Repo!NoLedger
    <2>3. c \in Repo!LedgerState /\ c.up /\ c.upload = mem.ledgers[l].upload
      BY <1>0, <2>2 DEF Repo!LedgerState
    <2> HIDE DEF c
    <2>4. MemoryOK(m) /\ m.repo = mem.repo
      BY <1>a, <2>2, <2>3
    <2> HIDE DEF m
    <2> QED
      BY <2>1, <2>4, LedgerEmptyOK, EmptyTypes DEF Quiet
  <1> QED
    BY <1>1, <1>2, <1>3, <1>4

\* The fields of a page that are not its state and not its flag.
SamePage(c, d) == d \in Repo!PageState /\ d.pc = c.pc /\ d.upload = c.upload

\* BindPage keeps the state of the page and its flag.
LEMMA BindPageOK ==
    ASSUME RepositoryIsGiven, NEW c \in Repo!PageState, NEW S \in SUBSET Request
    PROVE  SamePage(c, Repo!BindPage(c, S))
  BY DEF SamePage, Repo!BindPage, Repo!PageState

\* OnSyncBacklogDownloaded keeps the state of the page and its flag.
LEMMA BacklogOK ==
    ASSUME RepositoryIsGiven, NEW c \in Repo!PageState
    PROVE  SamePage(c, Repo!OnSyncBacklogDownloaded(c))
  <1> DEFINE d == [c EXCEPT !.backlog = TRUE, !.waiting = {}]
  <1>1. SamePage(c, d) /\ c.waiting \in SUBSET Request
    BY DEF SamePage, Repo!PageState
  <1>2. Repo!OnSyncBacklogDownloaded(c) = Repo!BindPage(d, c.waiting)
    BY DEF Repo!OnSyncBacklogDownloaded
  <1> HIDE DEF d
  <1>3. SamePage(d, Repo!BindPage(d, c.waiting))
    BY <1>1, BindPageOK DEF SamePage
  <1> QED
    BY <1>1, <1>2, <1>3 DEF SamePage

\* A step that changes a page only, and then may look whether it is empty.
LEMMA SamePageQuiet ==
    ASSUME RepositoryIsGiven, MemoryOK(mem), NEW p \in Page, NEW d, SamePage(mem.pages[p], d),
           mem' = Repo!With(p, d) \/ mem' = Repo!PageCheckEmpty(Repo!With(p, d), p)
    PROVE  Quiet
  <1>1. MemoryOK(Repo!With(p, d)) /\ Repo!With(p, d).repo = mem.repo
    BY WithOK DEF SamePage
  <1>2. MemoryOK(mem') /\ mem'.repo \in {mem.repo, Repo!NoRepository}
    BY <1>1, PageEmptyOK
  <1> QED
    BY <1>2, EmptyTypes DEF Quiet

\* GetPage: the page is new, or takes one request more.
LEMMA GetPageQuiet ==
    ASSUME RepositoryIsGiven, MemoryOK(mem), NEW r \in Request, NEW p \in Page, Repo!GetPage(r, p)
    PROVE  Quiet
  <1> DEFINE c == mem.pages[p]
  <1>0. mem \in Memory /\ c \in Repo!PageState
    BY DEF MemoryOK, Memory
  <1>1. mem.ledgers[LedgerOf[p]].up
    BY EmptyTypes DEF RepositoryIsGiven, Repo!PageAssumption, MemoryOK, Owned, Repo!GetPage
  <1>2. CASE mem' = mem
    BY <1>2 DEF Quiet
  <1>3. CASE mem' = Repo!With(p, IF c.pc = "ready" THEN Repo!BindPage(c, {r})
                            ELSE [c EXCEPT !.waiting = @ \cup {r}])
    <2>1. SamePage(c, [c EXCEPT !.waiting = @ \cup {r}])
      BY <1>0 DEF SamePage, Repo!PageState
    <2>2. SamePage(c, Repo!BindPage(c, {r}))
      BY <1>0, BindPageOK
    <2> QED
      BY <1>3, <2>1, <2>2, SamePageQuiet
  <1>4. ASSUME NEW pc \in {"get", "create"},
               mem' = Repo!With(p, [Repo!NoPage EXCEPT !.pc = pc, !.waiting = {r}])
        PROVE  Quiet
    <2> DEFINE d == [Repo!NoPage EXCEPT !.pc = pc, !.waiting = {r}]
    <2>1. d \in Repo!PageState /\ d.pc # "ready"
      BY DEF Repo!PageState, Repo!NoPage
    <2> HIDE DEF d
    <2>2. MemoryOK([mem EXCEPT !.pages[p] = d]) /\ [mem EXCEPT !.pages[p] = d].repo = mem.repo
      BY <1>1, <2>1, PageUpdateOK
    <2> QED
      BY <1>4, <2>2 DEF Repo!With, Quiet, d
  <1> QED
    BY <1>2, <1>3, <1>4 DEF Repo!GetPage

\* SetPageManager: the new page manager has the flag of its ledger.
LEMMA StorageReadyQuiet ==
    ASSUME RepositoryIsGiven, MemoryOK(mem), NEW p \in Page, Repo!StorageReady(p)
    PROVE  Quiet
  <1> DEFINE c == mem.pages[p]
             n == Repo!NewPageManager(p)
             d == Repo!BindPage(n, c.waiting)
             l == mem.ledgers[LedgerOf[p]]
  <1>0. mem \in Memory /\ c \in Repo!PageState /\ mem.repo \in Repo!RepositoryState /\ l \in Repo!LedgerState
    BY DEF RepositoryIsGiven, Repo!PageAssumption, MemoryOK, Memory
  <1>1. l.up /\ l.upload = mem.repo.enabled
    BY DEF RepositoryIsGiven, Repo!PageAssumption, MemoryOK, Owned, UniformIn, Repo!StorageReady
  <1>2. (mem.repo.sync # "none" /\ l.upload) = mem.repo.enabled
    BY <1>0, <1>1 DEF MemoryOK, Checked, Repo!RepositoryState, Repo!LedgerState
  <1>3. n \in Repo!PageState /\ n.pc = "ready" /\ n.upload = (mem.repo.sync # "none" /\ l.upload)
    BY <1>0, ZenonT(40) DEF Repo!NewPageManager, Repo!PageState, Repo!LedgerState
  <1>4. c.waiting \in SUBSET Request
    BY <1>0 DEF Repo!PageState
  <1>5. mem' = [mem EXCEPT !.pages[p] = d]
    BY DEF Repo!StorageReady, Repo!With
  <1> HIDE DEF n
  <1>6. d \in Repo!PageState /\ d.pc = "ready" /\ d.upload = mem.repo.enabled
    BY <1>2, <1>3, <1>4, BindPageOK DEF SamePage
  <1> HIDE DEF d
  <1>7. MemoryOK(mem') /\ mem'.repo = mem.repo
    BY <1>1, <1>5, <1>6, PageUpdateOK
  <1> QED
    BY <1>7 DEF Quiet

\* Every other step of a page manager, and the ways to drop a page.
LEMMA PageQuiet ==
    ASSUME RepositoryIsGiven, MemoryOK(mem), NEW p \in Page,
           \/ Repo!DeletePage(p) \/ Repo!GetPageDebug(p) \/ Repo!ClosePageDebug(p)
           \/ Repo!BindPageSnapshot(p) \/ Repo!CloseSnapshot(p)
           \/ \E r \in Request : Repo!ClosePage(r, p)
           \/ Repo!Running(p)
    PROVE  Quiet
  <1> DEFINE c == mem.pages[p]
  <1>0. mem \in Memory /\ c \in Repo!PageState
    BY DEF MemoryOK, Memory
  <1>1. CASE mem' = Repo!ErasePage(mem, p)
    BY <1>1, ErasePageOK, EmptyTypes DEF Quiet
  <1>2. CASE mem' = mem
    BY <1>2 DEF Quiet
  <1>3. CASE Repo!StorageReady(p)
    BY <1>3, StorageReadyQuiet
  <1>4. \A b \in BOOLEAN : /\ SamePage(c, [c EXCEPT !.debug = b])
                           /\ SamePage(c, [c EXCEPT !.snapshot = b])
                           /\ SamePage(c, [c EXCEPT !.merging = b])
                           /\ SamePage(c, [c EXCEPT !.timer = b])
    BY <1>0 DEF SamePage, Repo!PageState
  <1>5. \A s \in {"idle", "busy", "backlog", "waits", "stuck"} : SamePage(c, [c EXCEPT !.sync = s])
    BY <1>0 DEF SamePage, Repo!PageState
  <1>9. \A f \in {"none", "running", "unnoticed"} :
          /\ SamePage(c, [c EXCEPT !.fetch = f])
          /\ SamePage(c, [[c EXCEPT !.fetch = "none"] EXCEPT !.fetch = f])
    BY <1>0 DEF SamePage, Repo!PageState
  <1>6. \A r \in Request :
          /\ SamePage(c, [c EXCEPT !.open = @ \ {r}])
          /\ SamePage(c, [c EXCEPT !.opening = @ \ {r}, !.open = @ \cup {r}])
          /\ SamePage(c, [c EXCEPT !.opening = @ \ {r}, !.failed = @ \cup {r}])
    BY <1>0 DEF SamePage, Repo!PageState
  <1>7. SamePage(c, [Repo!OnSyncBacklogDownloaded(c) EXCEPT !.sync = "busy"])
    <2> DEFINE d == Repo!OnSyncBacklogDownloaded(c)
    <2>1. SamePage(c, d)
      BY <1>0, BacklogOK
    <2> HIDE DEF d
    <2>2. SamePage(c, [d EXCEPT !.sync = "busy"])
      BY <2>1 DEF SamePage, Repo!PageState
    <2> QED
      BY <2>2 DEF d
  <1>8. SamePage(c, LET d == [c EXCEPT !.timer = FALSE]
                    IN IF d.backlog THEN d ELSE Repo!OnSyncBacklogDownloaded(d))
    <2> DEFINE d == [c EXCEPT !.timer = FALSE]
    <2>1. SamePage(c, d)
      BY <1>4
    <2> HIDE DEF d
    <2>2. SamePage(d, Repo!OnSyncBacklogDownloaded(d))
      BY <2>1, BacklogOK DEF SamePage
    <2>3. SamePage(c, Repo!OnSyncBacklogDownloaded(d))
      BY <2>1, <2>2 DEF SamePage
    <2> QED
      BY <2>1, <2>3 DEF d
  <1>a. CASE Repo!GetPageDebug(p) \/ Repo!ClosePageDebug(p)
    BY <1>a, <1>4, SamePageQuiet DEF Repo!GetPageDebug, Repo!ClosePageDebug
  <1>b. CASE Repo!BindPageSnapshot(p) \/ Repo!CloseSnapshot(p)
    BY <1>b, <1>4, SamePageQuiet DEF Repo!BindPageSnapshot, Repo!CloseSnapshot
  <1>c. CASE Repo!MergeStarts(p) \/ Repo!MergeEnds(p)
    BY <1>c, <1>4, SamePageQuiet DEF Repo!MergeStarts, Repo!MergeEnds
  <1>d. CASE Repo!SyncIdle(p) \/ Repo!SyncStops(p) \/ Repo!SyncBusy(p)
    BY <1>d, <1>5, SamePageQuiet DEF Repo!SyncIdle, Repo!SyncStops, Repo!SyncBusy
  <1>j. CASE Repo!GetObject(p) \/ Repo!UploadPutOff(p)
    BY <1>j, <1>5, <1>9, SamePageQuiet DEF Repo!GetObject, Repo!UploadPutOff
  <1>k. CASE Repo!GetObjectEnds(p)
    <2> DEFINE d == [c EXCEPT !.fetch = "none"]
    <2>1. mem' = Repo!With(p, d) \/ mem' = Repo!With(p, [d EXCEPT !.fetch = "unnoticed"])
      BY <1>k DEF Repo!GetObjectEnds
    <2> QED
      BY <2>1, <1>9, SamePageQuiet
  <1>e. ASSUME NEW r \in Request, Repo!ClosePage(r, p) PROVE Quiet
    BY <1>e, <1>6, SamePageQuiet DEF Repo!ClosePage
  <1>f. ASSUME NEW r \in Request, Repo!PageInit(r, p) PROVE Quiet
    BY <1>f, <1>6, SamePageQuiet DEF Repo!PageInit
  <1>g. CASE Repo!BacklogDownloaded(p)
    BY <1>g, <1>7, SamePageQuiet DEF Repo!BacklogDownloaded
  <1>h. CASE Repo!SyncTimeout(p)
    BY <1>h, <1>8, SamePageQuiet DEF Repo!SyncTimeout
  <1>i. CASE Repo!DeletePage(p) \/ Repo!StorageFails(p) \/ Repo!OrphanAnswers(p)
    BY <1>i, <1>1, <1>2 DEF Repo!DeletePage, Repo!StorageFails, Repo!OrphanAnswers
  <1> QED
    BY <1>3, <1>a, <1>b, <1>c, <1>d, <1>e, <1>f, <1>g, <1>h, <1>i, <1>j, <1>k
       DEF Repo!Running, Repo!StorageAnswers

\* The check goes on: while uploads are off, or between the watchers.
LEMMA SyncOK ==
    ASSUME RepositoryIsGiven, MemoryOK(mem), mem.repo.sync # "none",
           NEW pc \in {"devices", "check", "set", "found", "created", "retry", "watch", "rewatch",
                       "failed"},
           mem.repo.enabled => pc \in {"watch", "rewatch"}
    PROVE  /\ MemoryOK(Repo!Sync(pc)) /\ Repo!Sync(pc).repo.sync = pc
           /\ Repo!Sync(pc).repo.enabled = mem.repo.enabled
           /\ Repo!Sync(pc).repo.up
  <1> DEFINE c == [mem.repo EXCEPT !.sync = pc]
  <1>0. mem \in Memory /\ mem.repo \in Repo!RepositoryState
    BY DEF MemoryOK, Memory
  <1>1. Repo!Sync(pc) = [mem EXCEPT !.repo = c]
    BY <1>0 DEF Repo!Sync, Memory
  <1>2. mem.repo.up
    BY EmptyTypes DEF MemoryOK, Owned
  <1>3. c \in Repo!RepositoryState /\ c.up /\ c.enabled = mem.repo.enabled /\ c.sync = pc
    BY <1>0, <1>2 DEF Repo!RepositoryState
  <1> HIDE DEF c
  <1>4. MemoryOK([mem EXCEPT !.repo = c]) /\ [mem EXCEPT !.repo = c].repo = c
    BY <1>3, RepositoryUpdateOK
  <1> QED
    BY <1>1, <1>3, <1>4

\* EnableUpload reaches every ledger and every page manager.
LEMMA EnableUploadOK ==
    ASSUME RepositoryIsGiven, NEW m, MemoryOK(m), m.repo.sync = "watch", m.repo.up
    PROVE  MemoryOK(Repo!EnableUpload(m)) /\ Repo!EnableUpload(m).repo.sync = "watch"
  <1> DEFINE n == Repo!EnableUpload(m)
             repo == [m.repo EXCEPT !.enabled = TRUE]
             ledgers == [l \in Ledger |-> [m.ledgers[l] EXCEPT !.upload = m.ledgers[l].up]]
             pages == [p \in Page |-> [m.pages[p] EXCEPT !.upload = (m.pages[p].pc = "ready")]]
  <1>0. /\ m \in Memory /\ m.repo \in Repo!RepositoryState
        /\ \A l \in Ledger : m.ledgers[l] \in Repo!LedgerState
        /\ \A p \in Page : m.pages[p] \in Repo!PageState
    BY DEF MemoryOK, Memory
  <1>1. n \in [repo : {repo}, ledgers : {ledgers}, pages : {pages}]
    BY <1>0 DEF Repo!EnableUpload, Memory
  <1>2. repo \in Repo!RepositoryState /\ repo.enabled /\ repo.sync = "watch" /\ repo.up
    BY <1>0 DEF Repo!RepositoryState
  <1>3. ASSUME NEW l \in Ledger
        PROVE  /\ ledgers[l] \in Repo!LedgerState
               /\ ledgers[l].up = m.ledgers[l].up /\ ledgers[l].upload = m.ledgers[l].up
               /\ ~m.ledgers[l].up => ledgers[l] = Repo!NoLedger
    <2>1. ~m.ledgers[l].up => m.ledgers[l] = Repo!NoLedger
      BY DEF MemoryOK, Owned
    <2>2. m.ledgers[l] \in Repo!LedgerState
      BY <1>0
    <2> QED
      BY <2>1, <2>2 DEF Repo!LedgerState, Repo!NoLedger
  <1>4. ASSUME NEW p \in Page
        PROVE  /\ pages[p] \in Repo!PageState
               /\ pages[p].pc = m.pages[p].pc /\ pages[p].upload = (m.pages[p].pc = "ready")
    <2>1. m.pages[p] \in Repo!PageState
      BY <1>0
    <2> QED
      BY <2>1 DEF Repo!PageState
  <1> HIDE DEF repo, ledgers, pages, n
  <1>5. /\ n = [repo |-> repo, ledgers |-> ledgers, pages |-> pages]
        /\ n.repo = repo /\ n.ledgers = ledgers /\ n.pages = pages
    BY <1>1
  <1>6. ledgers \in [Ledger -> Repo!LedgerState] /\ pages \in [Page -> Repo!PageState]
    BY <1>3, <1>4 DEF ledgers, pages
  <1>7. n \in Memory
    BY <1>2, <1>5, <1>6 DEF Memory
  <1>8. Owned(n)
    BY <1>2, <1>3, <1>4, <1>5 DEF RepositoryIsGiven, Repo!PageAssumption, Owned, MemoryOK
  <1>9. UniformIn(n) /\ Checked(n)
    <2>1. \A l \in Ledger : ledgers[l].up => ledgers[l].upload = TRUE
      BY <1>0, <1>3 DEF Repo!LedgerState
    <2>2. \A p \in Page : pages[p].pc = "ready" => pages[p].upload = TRUE
      BY <1>4
    <2>3. repo.enabled = TRUE
      BY <1>2 DEF Repo!RepositoryState
    <2> QED
      BY <1>2, <1>5, <2>1, <2>2, <2>3 DEF UniformIn, Checked
  <1> QED
    BY <1>2, <1>5, <1>7, <1>8, <1>9 DEF MemoryOK, n

\* UserSyncImpl: the memory stays in order, SetFingerprint is called by a device
\* without a fingerprint file only, and uploads are enabled on one that has it.
LEMMA UserSyncOK ==
    ASSUME RepositoryIsGiven, MemoryOK(mem), RepositoryTypes, StaleInv, Repo!UserSync
    PROVE  MemoryOK(mem') /\ MarkOK(mem'.repo, disk'.mark)
  <1> USE DEF MarkOK
  <1>0. /\ mem.repo.sync \notin {"watch", "rewatch"} => ~mem.repo.enabled
        /\ MarkOK(mem.repo, disk.mark)
    BY DEF MemoryOK, Checked, StaleInv
  <1>1. CASE Repo!DeviceSetAnswers
    <2>1. mem' \in {Repo!Sync(Repo!CheckCloudNotErased), Repo!Sync("failed")} /\ mem.repo.sync = "devices"
      BY <1>1 DEF Repo!DeviceSetAnswers
    <2>2. Repo!CheckCloudNotErased = IF disk.mark THEN "check" ELSE "set"
      BY DEF Repo!CheckCloudNotErased
    <2>3. UNCHANGED disk
      BY <1>1 DEF Repo!DeviceSetAnswers
    <2>4. ASSUME NEW pc \in {"check", "set", "failed"}
          PROVE  MemoryOK(Repo!Sync(pc)) /\ Repo!Sync(pc).repo.sync = pc /\ ~Repo!Sync(pc).repo.enabled
      BY <1>0, <2>1, SyncOK
    <2> QED
      BY <2>1, <2>2, <2>3, <2>4
  <1>2. CASE Repo!FingerprintFound \/ Repo!FingerprintSet
    <2>1. /\ mem.repo.sync \in {"found", "created"}
          /\ \/ mem' = Repo!EnableUpload(Repo!Sync("watch")) /\ disk'.mark
             \/ mem' = Repo!Sync("failed") /\ UNCHANGED disk
      BY <1>0, <1>2 DEF Repo!FingerprintFound, Repo!FingerprintSet, RepositoryTypes, Disk
    <2>2. ASSUME NEW pc \in {"watch", "failed"}
          PROVE  /\ MemoryOK(Repo!Sync(pc)) /\ Repo!Sync(pc).repo.sync = pc /\ Repo!Sync(pc).repo.up
                 /\ ~Repo!Sync(pc).repo.enabled
      BY <1>0, <2>1, SyncOK
    <2>3. /\ MemoryOK(Repo!EnableUpload(Repo!Sync("watch")))
          /\ Repo!EnableUpload(Repo!Sync("watch")).repo.sync = "watch"
      BY <2>2, EnableUploadOK
    <2> QED
      BY <2>1, <2>2, <2>3
  <1>7. CASE Repo!CheckFingerprint \/ Repo!SetFingerprint
    <2>1. /\ UNCHANGED disk
          /\ \/ mem' = Repo!Sync("found") /\ mem.repo.sync = "check"
             \/ mem' = Repo!Sync("created") /\ mem.repo.sync = "set"
      BY <1>7 DEF Repo!CheckFingerprint, Repo!SetFingerprint
    <2>2. ASSUME NEW pc \in {"found", "created"}
          PROVE  MemoryOK(Repo!Sync(pc)) /\ Repo!Sync(pc).repo.sync = pc /\ ~Repo!Sync(pc).repo.enabled
      BY <1>0, <2>1, SyncOK
    <2> QED
      BY <1>0, <2>1, <2>2
  <1>3. CASE Repo!FingerprintError
    <2>1. /\ mem' \in {Repo!Sync("retry"), Repo!Sync("failed")} /\ mem.repo.sync \in {"check", "set"}
          /\ UNCHANGED disk
      BY <1>3 DEF Repo!FingerprintError
    <2>2. ASSUME NEW pc \in {"retry", "failed"}
          PROVE  MemoryOK(Repo!Sync(pc)) /\ Repo!Sync(pc).repo.sync = pc /\ ~Repo!Sync(pc).repo.enabled
      BY <1>0, <2>1, SyncOK
    <2> QED
      BY <2>1, <2>2
  <1>4. CASE Repo!RetryCheck
    <2>1. mem' \in {Repo!Sync(Repo!CheckCloudNotErased), Repo!Sync("failed")} /\ mem.repo.sync = "retry"
      BY <1>4 DEF Repo!RetryCheck
    <2>2. Repo!CheckCloudNotErased = IF disk.mark THEN "check" ELSE "set"
      BY DEF Repo!CheckCloudNotErased
    <2>3. UNCHANGED disk
      BY <1>4 DEF Repo!RetryCheck
    <2>4. ASSUME NEW pc \in {"check", "set", "failed"}
          PROVE  MemoryOK(Repo!Sync(pc)) /\ Repo!Sync(pc).repo.sync = pc /\ ~Repo!Sync(pc).repo.enabled
      BY <1>0, <2>1, SyncOK
    <2> QED
      BY <2>1, <2>2, <2>3, <2>4
  <1>5. CASE Repo!OnNetworkError \/ Repo!SetCloudErasedWatcher
    <2>1. /\ mem' \in {Repo!Sync("watch"), Repo!Sync("rewatch")}
          /\ mem.repo.sync \in {"watch", "rewatch"} /\ UNCHANGED disk
      BY <1>5 DEF Repo!OnNetworkError, Repo!SetCloudErasedWatcher
    <2>2. ASSUME NEW pc \in {"watch", "rewatch"}
          PROVE  /\ MemoryOK(Repo!Sync(pc)) /\ Repo!Sync(pc).repo.sync = pc
                 /\ Repo!Sync(pc).repo.enabled = mem.repo.enabled
      BY <2>1, SyncOK
    <2> QED
      BY <1>0, <2>1, <2>2
  <1>6. CASE Repo!OnVersionMismatch
    BY <1>6, NothingOK, EmptyTypes DEF Repo!OnVersionMismatch
  <1> QED
    BY <1>1, <1>2, <1>3, <1>4, <1>5, <1>6, <1>7 DEF Repo!UserSync

\* Every other step is quiet.
LEMMA OthersQuiet ==
    ASSUME RepositoryIsGiven, MemoryOK(mem),
           \/ Repo!Client \/ (\E p \in Page : Repo!Running(p))
           \/ Repo!ProviderLost \/ Repo!CloudErased \/ Repo!Crash
    PROVE  Quiet
  <1>1. CASE Repo!Client
    BY <1>1, RepositoryClients, LedgerClients, GetPageQuiet, PageQuiet DEF Repo!Client
  <1>2. CASE \E p \in Page : Repo!Running(p)
    BY <1>2, PageQuiet
  <1>3. CASE Repo!ProviderLost \/ Repo!Crash
    BY <1>3, NothingOK, EmptyTypes DEF Quiet, Repo!ProviderLost, Repo!Crash
  <1>4. CASE Repo!CloudErased
    BY <1>4 DEF Quiet, Repo!CloudErased
  <1> QED
    BY <1>1, <1>2, <1>3, <1>4

-----------------------------------------------------------------------------
(* The invariant *)

\* Destroy answers or loses requests, and counts the storages left in Init.
LEMMA DestroyTypes ==
    ASSUME RepositoryIsGiven, RepositoryTypes, NEW S, Repo!Destroy(S)
    PROVE  /\ answer' \in [Request -> {"unused", "pending", "told", "lost"}]
           /\ orphans' \in [Page -> Nat]
  BY DEF RepositoryTypes, Repo!Destroy

\* An empty content directory.
LEMMA EmptyDisk ==
    ASSUME RepositoryIsGiven
    PROVE  [dir |-> [p \in Page |-> "none"], mark |-> FALSE] \in Disk
  <1>1. [p \in Page |-> "none"] \in [Page -> {"none", "fresh", "stale"}]
    OBVIOUS
  <1> QED
    BY <1>1 DEF Disk

\* DeleteRepositoryDirectory keeps the directory or empties it.
LEMMA DeleteTypes ==
    ASSUME RepositoryIsGiven, RepositoryTypes, Repo!DeleteRepositoryDirectory
    PROVE  disk' \in Disk /\ repositoryFaults' \in 0..MaxFaults
  <1>1. disk' \in Disk
    BY EmptyDisk DEF RepositoryTypes, Repo!DeleteRepositoryDirectory
  <1>2. repositoryFaults' \in 0..MaxFaults
    BY DEF RepositoryIsGiven, Repo!BoundAssumption, RepositoryTypes,
       Repo!DeleteRepositoryDirectory, Repo!Fault
  <1> QED
    BY <1>1, <1>2

\* Every step keeps the types of what is not memory.
LEMMA RepositoryTypeStep ==
    ASSUME RepositoryIsGiven, RepositoryTypes, MemoryOK(mem), Repo!Next
    PROVE  RepositoryTypes'
  <1> USE DEF RepositoryIsGiven, Repo!BoundAssumption
  <1>2. ASSUME NEW r \in Request, NEW p \in Page, Repo!GetPage(r, p) PROVE RepositoryTypes'
    <2>1. disk' = disk \/ disk' = [disk EXCEPT !.dir[p] = "fresh"]
      BY <1>2 DEF Repo!GetPage
    <2>2. disk' \in Disk
      BY <2>1 DEF RepositoryTypes, Disk
    <2>3. answer' \in [Request -> {"unused", "pending", "told", "lost"}]
      BY <1>2 DEF Repo!GetPage, RepositoryTypes
    <2> QED
      BY <1>2, <2>2, <2>3 DEF Repo!GetPage, Repo!Fault, RepositoryTypes
  <1>3. ASSUME NEW p \in Page, Repo!DeletePage(p) PROVE RepositoryTypes'
    <2>1. disk' \in Disk
      BY <1>3 DEF Repo!DeletePage, RepositoryTypes, Disk
    <2>2. /\ answer' \in [Request -> {"unused", "pending", "told", "lost"}]
          /\ orphans' \in [Page -> Nat]
      BY <1>3, DestroyTypes DEF Repo!DeletePage
    <2> QED
      BY <1>3, <2>1, <2>2 DEF Repo!DeletePage, Repo!Fault, RepositoryTypes
  <1>4. ASSUME NEW r \in Request, NEW p \in Page, Repo!PageInit(r, p) PROVE RepositoryTypes'
    BY <1>4 DEF Repo!PageInit, Repo!Fault, RepositoryTypes
  <1>5. ASSUME NEW p \in Page, Repo!StorageFails(p) PROVE RepositoryTypes'
    BY <1>5 DEF Repo!StorageFails, Repo!Fault, RepositoryTypes
  <1>6. ASSUME NEW p \in Page, Repo!OrphanAnswers(p) PROVE RepositoryTypes'
    BY <1>6 DEF Repo!OrphanAnswers, RepositoryTypes, Repo!Event, Repo!limits
  <1>7. CASE Repo!FingerprintSet
    <2>1. disk' \in Disk
      BY <1>7 DEF Repo!FingerprintSet, RepositoryTypes, Disk
    <2>2. repositoryFaults' \in 0..MaxFaults
      BY <1>7 DEF Repo!FingerprintSet, RepositoryTypes, Repo!Fault
    <2> QED
      BY <1>7, <2>1, <2>2 DEF Repo!FingerprintSet, RepositoryTypes
  <1>8. CASE Repo!OnVersionMismatch
    BY <1>8, DestroyTypes, DeleteTypes DEF Repo!OnVersionMismatch, RepositoryTypes
  <1>9. CASE Repo!ProviderLost
    BY <1>9, DestroyTypes DEF Repo!ProviderLost, Repo!Fault, RepositoryTypes
  <1>10. CASE Repo!CloudErased
    <2>1. disk' \in Disk
      BY <1>10 DEF Repo!CloudErased, RepositoryTypes, Disk
    <2>2. repositoryFaults' \in 0..MaxFaults
      BY <1>10 DEF Repo!CloudErased, RepositoryTypes, Repo!Fault
    <2>3. raced' \in {raced, raced \cup {"unmarked"}} /\ raced' \subseteq Repo!Event
      BY <1>10 DEF Repo!CloudErased, RepositoryTypes, Repo!Event
    <2> QED
      BY <1>10, <2>1, <2>2, <2>3 DEF Repo!CloudErased, RepositoryTypes
  <1>11. CASE Repo!Crash
    BY <1>11 DEF Repo!Crash, Repo!Fault, RepositoryTypes
  <1>12. ASSUME UNCHANGED <<disk, known, orphans, answer, raced>>,
                work' = work \/ (work < MaxWork /\ work' = work + 1),
                \/ repositoryFaults' = repositoryFaults
                \/ repositoryFaults < MaxFaults /\ repositoryFaults' = repositoryFaults + 1
         PROVE  RepositoryTypes'
    BY <1>12 DEF RepositoryTypes
  <1>13. CASE \/ Repo!DeviceSetAnswers \/ Repo!CheckFingerprint \/ Repo!FingerprintFound
              \/ Repo!FingerprintError \/ Repo!RetryCheck
              \/ Repo!OnNetworkError \/ Repo!SetCloudErasedWatcher
    BY <1>12, <1>13 DEF Repo!DeviceSetAnswers, Repo!CheckFingerprint, Repo!FingerprintFound,
       Repo!FingerprintError, Repo!RetryCheck,
       Repo!OnNetworkError, Repo!SetCloudErasedWatcher, Repo!Fault, Repo!limits
  <1>21. CASE Repo!SetFingerprint
    BY <1>21 DEF Repo!SetFingerprint, RepositoryTypes, Repo!limits
  <1>14. ASSUME NEW p \in Page,
                \/ Repo!StorageReady(p) \/ Repo!BacklogDownloaded(p) \/ Repo!SyncTimeout(p) \/ Repo!SyncIdle(p)
                \/ Repo!SyncStops(p) \/ Repo!SyncBusy(p) \/ Repo!MergeStarts(p) \/ Repo!MergeEnds(p)
                \/ Repo!GetObject(p) \/ Repo!UploadPutOff(p) \/ Repo!GetObjectEnds(p)
         PROVE  RepositoryTypes'
    BY <1>12, <1>14 DEF Repo!StorageReady, Repo!BacklogDownloaded, Repo!SyncTimeout,
       Repo!SyncIdle, Repo!SyncStops,
       Repo!SyncBusy, Repo!MergeStarts, Repo!MergeEnds, Repo!GetObject, Repo!UploadPutOff,
       Repo!GetObjectEnds, Repo!Fault, Repo!limits
  <1>15. ASSUME NEW p \in Page,
                \/ Repo!GetPageDebug(p) \/ Repo!ClosePageDebug(p) \/ Repo!BindPageSnapshot(p) \/ Repo!CloseSnapshot(p)
                \/ \E r \in Request : Repo!ClosePage(r, p)
         PROVE  RepositoryTypes'
    BY <1>12, <1>15 DEF Repo!GetPageDebug, Repo!ClosePageDebug, Repo!BindPageSnapshot,
       Repo!CloseSnapshot,
                        Repo!ClosePage, Repo!limits
  <1>16. ASSUME NEW l \in Ledger,
                Repo!GetLedger(l) \/ Repo!CloseLedger(l) \/ Repo!GetLedgerDebug(l) \/ Repo!CloseLedgerDebug(l)
         PROVE  RepositoryTypes'
    BY <1>12, <1>16 DEF Repo!GetLedger, Repo!CloseLedger, Repo!GetLedgerDebug,
       Repo!CloseLedgerDebug, Repo!limits
  <1>17. CASE \/ \E provider \in BOOLEAN : Repo!GetRepository(provider)
              \/ Repo!CloseRepository \/ Repo!GetLedgerRepositoryDebug \/ Repo!CloseRepositoryDebug
    BY <1>12, <1>17 DEF Repo!GetRepository, Repo!CloseRepository, Repo!GetLedgerRepositoryDebug,
                        Repo!CloseRepositoryDebug, Repo!limits
  <1>18. CASE Repo!Client
    BY <1>18, <1>2, <1>3, <1>15, <1>16, <1>17 DEF Repo!Client
  <1>19. CASE Repo!UserSync
    BY <1>19, <1>7, <1>8, <1>13, <1>21 DEF Repo!UserSync
  <1>20. ASSUME NEW p \in Page, Repo!Running(p) PROVE RepositoryTypes'
    BY <1>20, <1>4, <1>5, <1>6, <1>14 DEF Repo!Running, Repo!StorageAnswers
  <1> QED
    BY <1>9, <1>10, <1>11, <1>18, <1>19, <1>20 DEF Repo!Next

\* Only SetFingerprint makes the device known: at that moment nothing is stale,
\* and neither is when the file is written.
LEMMA FingerprintSetFresh ==
    ASSUME RepositoryIsGiven, StaleInv, Repo!SetFingerprint \/ Repo!FingerprintSet,
           "unmarked" \notin raced
    PROVE  \A p \in Page : disk.dir[p] # "stale"
  BY DEF StaleInv, MarkOK, StaleKnown, Repo!SetFingerprint, Repo!FingerprintSet

\* Every step keeps StaleInv.
LEMMA StaleStep ==
    ASSUME RepositoryIsGiven, RepositoryTypes, MemoryOK(mem), StaleInv, Repo!Next
    PROVE  StaleInv'
  <1>1. MarkOK(mem'.repo, disk'.mark)
    <2>1. CASE Repo!UserSync
      BY <2>1, UserSyncOK
    <2>2. CASE \/ Repo!Client \/ (\E p \in Page : Repo!Running(p))
               \/ Repo!ProviderLost \/ Repo!CloudErased \/ Repo!Crash
      <3>1. MarkOK(mem'.repo, disk.mark)
        BY <2>2, OthersQuiet DEF Quiet, StaleInv, MarkOK
      <3>2. disk'.mark = disk.mark
        <4>1. CASE \E p \in Page, r \in Request : Repo!GetPage(r, p)
          BY <4>1 DEF Repo!GetPage, RepositoryTypes, Disk
        <4>2. CASE \E p \in Page : Repo!DeletePage(p)
          BY <4>2 DEF Repo!DeletePage, RepositoryTypes, Disk
        <4>3. CASE Repo!CloudErased
          BY <4>3 DEF Repo!CloudErased, RepositoryTypes, Disk
        <4>4. CASE UNCHANGED disk
          BY <4>4
        <4>5. \/ \E p \in Page, r \in Request : Repo!GetPage(r, p)
              \/ \E p \in Page : Repo!DeletePage(p)
              \/ Repo!CloudErased \/ UNCHANGED disk
          BY <2>2 DEF Repo!Client, Repo!Running, Repo!StorageAnswers, Repo!ProviderLost,
             Repo!Crash, Repo!GetRepository,
             Repo!CloseRepository, Repo!GetLedgerRepositoryDebug, Repo!CloseRepositoryDebug, Repo!GetLedger,
             Repo!CloseLedger, Repo!GetLedgerDebug, Repo!CloseLedgerDebug, Repo!GetPageDebug, Repo!ClosePageDebug,
             Repo!BindPageSnapshot, Repo!CloseSnapshot, Repo!ClosePage, Repo!StorageReady, Repo!StorageFails,
             Repo!OrphanAnswers, Repo!PageInit, Repo!BacklogDownloaded, Repo!SyncTimeout, Repo!SyncIdle, Repo!SyncStops,
             Repo!SyncBusy, Repo!MergeStarts, Repo!MergeEnds, Repo!GetObject, Repo!UploadPutOff,
             Repo!GetObjectEnds
        <4> QED
          BY <4>1, <4>2, <4>3, <4>4, <4>5
      <3> QED
        BY <3>1, <3>2
    <2> QED
      BY <2>1, <2>2 DEF Repo!Next
  <1>2. StaleKnown
    BY DEF StaleInv
  <1>3. ASSUME UNCHANGED known, "unmarked" \notin raced' => "unmarked" \notin raced,
               disk'.mark = disk.mark,
               \A p \in Page : disk'.dir[p] = "stale" => disk.dir[p] = "stale"
        PROVE  StaleKnown'
    BY <1>2, <1>3 DEF StaleKnown
  <1>4. StaleKnown'
    <2>1. ASSUME NEW p \in Page, NEW r \in Request, Repo!GetPage(r, p) PROVE StaleKnown'
      <3>1. disk' = disk \/ disk' = [disk EXCEPT !.dir[p] = "fresh"]
        BY <2>1 DEF Repo!GetPage
      <3>2. UNCHANGED <<known, raced>>
        BY <2>1 DEF Repo!GetPage
      <3>3. /\ disk'.mark = disk.mark
            /\ \A q \in Page : disk'.dir[q] = "stale" => disk.dir[q] = "stale"
        BY <3>1 DEF RepositoryTypes, Disk
      <3> QED
        BY <1>3, <3>2, <3>3
    <2>2. ASSUME NEW p \in Page, Repo!DeletePage(p) PROVE StaleKnown'
      <3>1. disk' = disk \/ disk' = [disk EXCEPT !.dir[p] = "none"]
        BY <2>2 DEF Repo!DeletePage
      <3>2. UNCHANGED <<known, raced>>
        BY <2>2 DEF Repo!DeletePage
      <3>3. /\ disk'.mark = disk.mark
            /\ \A q \in Page : disk'.dir[q] = "stale" => disk.dir[q] = "stale"
        BY <3>1 DEF RepositoryTypes, Disk
      <3> QED
        BY <1>3, <3>2, <3>3
    <2>3. CASE Repo!FingerprintSet
      <3>1. raced' = raced /\ disk'.dir = disk.dir
        BY <2>3 DEF Repo!FingerprintSet, RepositoryTypes, Disk
      <3> QED
        BY <2>3, <3>1, FingerprintSetFresh DEF StaleKnown
    <2>9. CASE Repo!SetFingerprint
      <3>1. raced' = raced /\ disk' = disk
        BY <2>9 DEF Repo!SetFingerprint
      <3> QED
        BY <2>9, <3>1, FingerprintSetFresh DEF StaleKnown
    <2>4. CASE Repo!OnVersionMismatch
      <3>1. \/ disk' = disk
            \/ \A p \in Page : disk'.dir[p] # "stale"
        BY <2>4 DEF Repo!OnVersionMismatch, Repo!DeleteRepositoryDirectory
      <3>2. UNCHANGED <<known, raced>>
        BY <2>4 DEF Repo!OnVersionMismatch
      <3> QED
        BY <1>2, <3>1, <3>2 DEF StaleKnown
    <2>5. CASE Repo!CloudErased
      <3>1. /\ disk'.mark = disk.mark /\ known' = FALSE
            /\ \A q \in Page : disk'.dir[q] = "stale" => disk.dir[q] # "none"
        BY <2>5 DEF Repo!CloudErased, RepositoryTypes, Disk
      <3>2. "unmarked" \notin raced' =>
              "unmarked" \notin raced /\ (disk.mark \/ \A p \in Page : disk.dir[p] = "none")
        BY <2>5 DEF Repo!CloudErased, RepositoryTypes, Disk
      <3> QED
        BY <3>1, <3>2 DEF StaleKnown
    <2>6. CASE \E p \in Page : Repo!OrphanAnswers(p)
      BY <2>6, <1>3 DEF Repo!OrphanAnswers
    <2>7. CASE UNCHANGED <<disk, known, raced>>
      BY <2>7, <1>3
    <2>8. \/ \E p \in Page, r \in Request : Repo!GetPage(r, p)
          \/ \E p \in Page : Repo!DeletePage(p)
          \/ Repo!SetFingerprint \/ Repo!FingerprintSet \/ Repo!OnVersionMismatch
          \/ Repo!CloudErased
          \/ \E p \in Page : Repo!OrphanAnswers(p)
          \/ UNCHANGED <<disk, known, raced>>
      BY DEF Repo!Next, Repo!Client, Repo!UserSync, Repo!Running, Repo!StorageAnswers,
         Repo!ProviderLost, Repo!Crash, Repo!GetRepository,
         Repo!CloseRepository, Repo!GetLedgerRepositoryDebug, Repo!CloseRepositoryDebug, Repo!GetLedger,
         Repo!CloseLedger, Repo!GetLedgerDebug, Repo!CloseLedgerDebug, Repo!GetPageDebug, Repo!ClosePageDebug,
         Repo!BindPageSnapshot, Repo!CloseSnapshot, Repo!ClosePage, Repo!StorageReady, Repo!StorageFails,
         Repo!PageInit, Repo!BacklogDownloaded, Repo!SyncTimeout, Repo!SyncIdle, Repo!SyncStops,
         Repo!SyncBusy, Repo!MergeStarts, Repo!MergeEnds, Repo!GetObject, Repo!UploadPutOff,
         Repo!GetObjectEnds, Repo!DeviceSetAnswers, Repo!CheckFingerprint, Repo!FingerprintFound,
         Repo!FingerprintError, Repo!RetryCheck, Repo!OnNetworkError, Repo!SetCloudErasedWatcher
    <2> QED
      BY <2>1, <2>2, <2>3, <2>4, <2>5, <2>6, <2>7, <2>8, <2>9
  <1> QED
    BY <1>1, <1>4 DEF StaleInv

\* IInv is an invariant of every behaviour: opening, sharing, erasing and
\* crashing never leave a ledger without its repository or a page with a flag of
\* its own.
THEOREM RepositoryInvariance ==
    ASSUME RepositoryIsGiven
    PROVE  Repo!Spec => []RepositoryInv
  <1>1. Repo!Init => RepositoryInv
    <2> SUFFICES ASSUME Repo!Init PROVE RepositoryInv
      OBVIOUS
    <2>1. RepositoryTypes
      <3>1. disk \in Disk /\ known \in BOOLEAN /\ raced \subseteq Repo!Event
        BY EmptyDisk DEF Repo!Init
      <3>2. /\ orphans \in [Page -> Nat]
            /\ answer \in [Request -> {"unused", "pending", "told", "lost"}]
        BY DEF Repo!Init
      <3>3. work \in 0..MaxWork /\ repositoryFaults \in 0..MaxFaults
        BY DEF RepositoryIsGiven, Repo!BoundAssumption, Repo!Init
      <3> QED
        BY <3>1, <3>2, <3>3 DEF RepositoryTypes
    <2>2. MemoryOK(mem)
      BY NothingOK DEF Repo!Init
    <2>3. StaleInv
      BY NothingOK, EmptyTypes DEF Repo!Init, StaleInv, MarkOK, StaleKnown
    <2> QED
      BY <2>1, <2>2, <2>3 DEF RepositoryInv
  <1>2. RepositoryInv /\ [Repo!Next]_Repo!vars => RepositoryInv'
    <2> SUFFICES ASSUME RepositoryInv, [Repo!Next]_Repo!vars PROVE RepositoryInv'
      OBVIOUS
    <2>1. CASE Repo!Next
      <3>1. MemoryOK(mem')
        BY <2>1, UserSyncOK, OthersQuiet DEF Repo!Next, Quiet, RepositoryInv
      <3>2. RepositoryTypes' /\ StaleInv'
        BY <2>1, RepositoryTypeStep, StaleStep DEF RepositoryInv
      <3> QED
        BY <3>1, <3>2 DEF RepositoryInv
    <2>2. CASE UNCHANGED Repo!vars
      BY <2>2 DEF Repo!vars, Repo!limits, RepositoryInv, RepositoryTypes, StaleInv, StaleKnown
    <2> QED
      BY <2>1, <2>2
  <1> QED
    BY <1>1, <1>2, PTL DEF Repo!Spec

\* The types of the repository, its ledgers and pages, the disk and the
\* answers, whatever is opened, deleted and erased.
THEOREM RepositoryTypeCorrect ==
    ASSUME RepositoryIsGiven
    PROVE  Repo!Spec => []Repo!TypeOK
  <1>1. RepositoryInv => Repo!TypeOK
    BY DEF RepositoryInv, RepositoryTypes, MemoryOK, Memory, Disk, Repo!TypeOK
  <1> QED
    BY <1>1, RepositoryInvariance, PTL

\* EnableUpload reaches every ledger and page, in whatever order they are opened
\* and the cloud is checked.  A device that uploads has its fingerprint on disk
\* and a watcher; if it keeps pages from before the cloud was wiped, and had the
\* fingerprint file then, the wipe came after the cloud had answered, the cloud
\* does not know the fingerprint, and the watcher will tell.
THEOREM NoUploadBeforeCheck ==
    ASSUME RepositoryIsGiven
    PROVE  Repo!Spec => []Repo!UploadFollowsCheck
  <1>1. RepositoryInv => Repo!UploadFollowsCheck
    <2> SUFFICES ASSUME RepositoryInv PROVE Repo!UploadFollowsCheck
      OBVIOUS
    <2>1. Repo!Uniform
      BY DEF RepositoryInv, MemoryOK, UniformIn, Repo!Uniform
    <2>2. mem.repo.enabled => disk.mark /\ mem.repo.sync \in {"watch", "rewatch"}
      BY DEF RepositoryInv, MemoryOK, Checked, StaleInv, MarkOK
    <2>3. ~known \/ "unmarked" \in raced \/ \A p \in Page : disk.dir[p] # "stale"
      BY DEF RepositoryInv, StaleInv, StaleKnown
    <2> QED
      BY <2>1, <2>2, <2>3 DEF Repo!UploadFollowsCheck
  <1> QED
    BY <1>1, RepositoryInvariance, PTL

=============================================================================
