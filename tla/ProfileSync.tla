---------------------------- MODULE ProfileSync ----------------------------
(***************************************************************************)
(* The delta sync of one profile between several devices through the       *)
(* object store: SyncEngine::sync_profile and download_profile_if_missing  *)
(* of sync/engine.rs over the manifests of sync/manifest.rs.               *)
(*                                                                         *)
(* profile_dir is profiles/<id>, which holds metadata.json (Meta) next to  *)
(* the browser's files, and no exclude pattern matches metadata.json: it   *)
(* is listed, transferred and dated like any other file, and save_profile  *)
(* rewrites it at the end of every sync.                                   *)
(*                                                                         *)
(* A content is a version (of a browser file, or of the settings stored in *)
(* metadata.json) and, for metadata.json, the last_sync written into it.   *)
(***************************************************************************)
EXTENDS ManifestDiff, FiniteSets

CONSTANTS
  Devices,
  Meta,         \* the path metadata.json
  MaxTime,      \* bound: seconds
  MaxVersion,   \* bound: edits
  Failures,     \* what can fail: see FailureKinds
  BrowserRuns,  \* files can change while their profile is synced
  SameSize,     \* an edit can leave a file's size as it was
  SlowSync      \* a sync ends in a later second than the changes it found

\* One transfer, which is only logged; a request or a save that ends the sync
\* with an error; the end of the application in the middle of the transfers,
\* or (also: a failed save) between the manifest and the save of the profile.
FailureKinds == {"upload", "download", "abort", "exit", "quit"}

Time == 0 .. MaxTime
Content == [version : 0 .. MaxVersion, stamp : Time]

ASSUME ProfileSyncAssumption ==
  /\ Meta \in Paths
  /\ MaxTime \in Nat /\ MaxVersion \in Nat
  /\ Failures \subseteq FailureKinds
  /\ {BrowserRuns, SameSize, SlowSync} \subseteq BOOLEAN
  /\ Hashes = Content
  /\ Absent \notin [data : Content, mtime : Time]

VARIABLES
  clock,
  version,     \* the last version an edit has written
  disk,        \* each device's profile directory
  cache,       \* .buglogin-sync/cache.json of each device
  remote,      \* profiles/<id>/files/<path>
  remoteMeta,  \* profiles/<id>/metadata.json
  manifest,    \* profiles/<id>/manifest.json
  sync,        \* the sync or recovery in progress on each device
  unsynced,    \* history: files changed on a device and in no other place
  removed      \* history: files some browser has removed

vars == <<clock, version, disk, cache, remote, remoteMeta, manifest, sync, unsynced,
          removed>>

DataPaths == Paths \ {Meta}
File(content) == [data |-> content, mtime |-> clock]
Files == [data : Content, mtime : Time]
Stored == Files \cup {Absent}

SyncStates ==
  [at : {"fetch", "transfer", "manifest", "save", "recover"},
   clone : Content, local : Manifest, todo : Diffs]
\* No sync; the last one, if the application still knows of it, was reported
\* as "synced" or as "error".
IdleSync == [at |-> "idle", clone |-> Absent, local |-> NoManifest, todo |-> EmptyDiff]
FailedSync == [at |-> "failed", clone |-> Absent, local |-> NoManifest, todo |-> EmptyDiff]
NoSync == {IdleSync, FailedSync}
Idle(d) == sync[d].at \in {"idle", "failed"}
HasProfile(d) == disk[d][Meta] # Absent

MinOf(S) == CHOOSE m \in S : \A n \in S : m <= n
MaxOf(S) == CHOOSE m \in S : \A n \in S : n <= m

TypeOK ==
  /\ clock \in Time
  /\ version \in 0 .. MaxVersion
  /\ disk \in [Devices -> [Paths -> Stored]]
  /\ cache \in [Devices -> [Paths -> Stored]]
  /\ remote \in [Paths -> Content \cup {Absent}]
  /\ remoteMeta \in Content \cup {Absent}
  /\ manifest = NoManifest \/ manifest \in Manifest
  /\ sync \in [Devices -> SyncStates \cup NoSync]
  /\ unsynced \in [Devices -> SUBSET DataPaths]
  /\ removed \in SUBSET DataPaths

\* One device has just created the profile, with some of the files; the
\* others do not have it.
Init ==
  /\ clock = 0
  /\ version = 0
  /\ \E d \in Devices, created \in SUBSET DataPaths :
       disk = [e \in Devices |-> [p \in Paths |->
                 IF e = d /\ p \in created \cup {Meta}
                 THEN File([version |-> 0, stamp |-> 0]) ELSE Absent]]
  /\ cache = [d \in Devices |-> [p \in Paths |-> Absent]]
  /\ remote = [p \in Paths |-> Absent]
  /\ remoteMeta = Absent
  /\ manifest = NoManifest
  /\ sync = [d \in Devices |-> IdleSync]
  /\ unsynced = [d \in Devices |-> {p \in DataPaths : disk[d][p] # Absent}]
  /\ removed = {}

Goto(d, at) == sync' = [sync EXCEPT ![d].at = at]

-----------------------------------------------------------------------------
(* The browser and the application.                                        *)

Tick ==
  /\ clock < MaxTime
  /\ clock' = clock + 1
  /\ UNCHANGED <<version, disk, cache, remote, remoteMeta, manifest, sync, unsynced,
                 removed>>

MayEdit(d) ==
  /\ HasProfile(d)
  /\ version < MaxVersion
  /\ clock < MaxTime
  /\ BrowserRuns \/ Idle(d)

\* The browser writes or creates a file.
EditFile(d, p) ==
  /\ MayEdit(d)
  /\ version' = version + 1
  /\ disk' = [disk EXCEPT ![d][p] = File([version |-> version', stamp |-> 0])]
  /\ unsynced' = [unsynced EXCEPT ![d] = @ \cup {p}]
  /\ UNCHANGED <<clock, cache, remote, remoteMeta, manifest, sync, removed>>

\* The browser removes a file.
RemoveFile(d, p) ==
  /\ MayEdit(d)
  /\ disk[d][p] # Absent
  /\ version' = version + 1
  /\ disk' = [disk EXCEPT ![d][p] = Absent]
  /\ removed' = removed \cup {p}
  /\ unsynced' = [unsynced EXCEPT ![d] = @ \ {p}]
  /\ UNCHANGED <<clock, cache, remote, remoteMeta, manifest, sync>>

\* The user changes a setting of the profile: save_profile.
EditSettings(d) ==
  /\ MayEdit(d)
  /\ version' = version + 1
  /\ disk' = [disk EXCEPT ![d][Meta] =
                File([version |-> version', stamp |-> disk[d][Meta].data.stamp])]
  /\ UNCHANGED <<clock, cache, remote, remoteMeta, manifest, sync, unsynced,
                 removed>>

-----------------------------------------------------------------------------
(* sync_profile.                                                           *)

\* Mutant: the time is not compared.
CacheHitOfSize(entry, file) ==
  /\ entry # Absent
  /\ SameSize \/ entry.data = file.data \/ entry.data.stamp = file.data.stamp

\* HashCache::get: size and mtime are those the hash was computed for.
CacheHit(entry, file) ==
  /\ entry # Absent
  /\ entry.mtime = file.mtime
  /\ SameSize \/ entry.data = file.data

HashOf(d, p) ==
  IF CacheHit(cache[d][p], disk[d][p]) THEN cache[d][p].data ELSE disk[d][p].data

OnDisk(d) == {p \in Paths : disk[d][p] # Absent}

\* Mutant: dated like its oldest file.
LocalManifestOldest(d) ==
  [files |-> [p \in Paths |-> IF p \in OnDisk(d) THEN HashOf(d, p) ELSE Absent],
   updatedAt |-> MinOf({disk[d][p].mtime : p \in OnDisk(d)})]

LocalManifest(d) ==
  [files |-> [p \in Paths |-> IF p \in OnDisk(d) THEN HashOf(d, p) ELSE Absent],
   updatedAt |-> MaxOf({disk[d][p].mtime : p \in OnDisk(d)})]

\* The caller has read the profile (the clone that will be saved back);
\* generate_manifest walks the directory and the hash cache is saved.
GenerateManifest(d) ==
  /\ Idle(d)
  /\ HasProfile(d)
  /\ sync' = [sync EXCEPT ![d] = [at |-> "fetch", clone |-> disk[d][Meta].data,
                                  local |-> LocalManifest(d), todo |-> EmptyDiff]]
  /\ cache' = [cache EXCEPT ![d] = [p \in Paths |->
                 IF p \notin OnDisk(d) THEN cache[d][p]
                 ELSE [data |-> HashOf(d, p), mtime |-> disk[d][p].mtime]]]
  /\ UNCHANGED <<clock, version, disk, remote, remoteMeta, manifest, unsynced, removed>>

\* download_manifest and compute_diff; an empty diff ends the sync.
FetchManifest(d) ==
  /\ sync[d].at = "fetch"
  /\ LET diff == ComputeDiff(sync[d].local, manifest) IN
       sync' = [sync EXCEPT ![d] =
                  IF diff = EmptyDiff THEN IdleSync
                  ELSE [@ EXCEPT !.at = "transfer", !.todo = diff]]
  /\ UNCHANGED <<clock, version, disk, cache, remote, remoteMeta, manifest, unsynced, removed>>

\* One of the upload tasks: the file is read now, whatever it was when it
\* was hashed.  A failure to read or to upload is only logged.
UploadFile(d, p, ok) ==
  /\ sync[d].at = "transfer"
  /\ p \in sync[d].todo.upload
  /\ ok \/ "upload" \in Failures
  /\ sync' = [sync EXCEPT ![d].todo.upload = @ \ {p}]
  /\ IF ok /\ disk[d][p] # Absent
     THEN /\ remote' = [remote EXCEPT ![p] = disk[d][p].data]
          /\ unsynced' = [unsynced EXCEPT ![d] = @ \ {p}]
     ELSE UNCHANGED <<remote, unsynced>>
  /\ UNCHANGED <<clock, version, disk, cache, remoteMeta, manifest, removed>>

\* One of the download tasks; a missing object is a failure.
DownloadFile(d, p, ok) ==
  /\ sync[d].at \in {"transfer", "recover"}
  /\ p \in sync[d].todo.download
  /\ ok \/ "download" \in Failures
  /\ sync' = [sync EXCEPT ![d].todo.download = @ \ {p}]
  /\ IF ok /\ remote[p] # Absent
     THEN /\ disk' = [disk EXCEPT ![d][p] = File(remote[p])]
          /\ unsynced' = [unsynced EXCEPT ![d] = @ \ {p}]
     ELSE UNCHANGED <<disk, unsynced>>
  /\ UNCHANGED <<clock, version, cache, remote, remoteMeta, manifest, removed>>

\* The local deletions, one loop without an await.
DeleteLocalFiles(d) ==
  /\ sync[d].at = "transfer"
  /\ sync[d].todo.download = {}
  /\ sync[d].todo.deleteLocal # {}
  /\ disk' = [disk EXCEPT ![d] = [p \in Paths |->
                IF p \in sync[d].todo.deleteLocal THEN Absent ELSE disk[d][p]]]
  /\ unsynced' = [unsynced EXCEPT ![d] = @ \ sync[d].todo.deleteLocal]
  /\ sync' = [sync EXCEPT ![d].todo.deleteLocal = {}]
  /\ UNCHANGED <<clock, version, cache, remote, remoteMeta, manifest, removed>>

\* The remote deletions, each awaited; a failure is dropped.
DeleteRemoteFile(d, p, ok) ==
  /\ sync[d].at = "transfer"
  /\ sync[d].todo.upload = {}
  /\ p \in sync[d].todo.deleteRemote
  /\ ok \/ "upload" \in Failures
  /\ remote' = IF ok THEN [remote EXCEPT ![p] = Absent] ELSE remote
  /\ sync' = [sync EXCEPT ![d].todo.deleteRemote = @ \ {p}]
  /\ UNCHANGED <<clock, version, disk, cache, remoteMeta, manifest, unsynced, removed>>

\* upload_profile_metadata.
UploadMetadata(d) ==
  /\ sync[d].at = "transfer"
  /\ sync[d].todo = EmptyDiff
  /\ remoteMeta' = sync[d].clone
  /\ Goto(d, "manifest")
  /\ UNCHANGED <<clock, version, disk, cache, remote, manifest, unsynced, removed>>

\* upload_manifest: the manifest generated at the start, whichever way the
\* files went.
UploadManifest(d) ==
  /\ sync[d].at = "manifest"
  /\ manifest' = sync[d].local
  /\ Goto(d, "save")
  /\ UNCHANGED <<clock, version, disk, cache, remote, remoteMeta, unsynced, removed>>

\* The clone with a new last_sync is saved over metadata.json.
SaveProfile(d) ==
  /\ sync[d].at = "save"
  /\ SlowSync => clock > sync[d].local.updatedAt
  /\ disk' = [disk EXCEPT ![d][Meta] = File([sync[d].clone EXCEPT !.stamp = clock])]
  /\ sync' = [sync EXCEPT ![d] = IdleSync]
  /\ UNCHANGED <<clock, version, cache, remote, remoteMeta, manifest, unsynced, removed>>

\* Mutant: the state of the failed sync is kept.
AbortKeepsState(d) ==
  /\ "abort" \in Failures
  /\ \/ sync[d].at \in {"fetch", "manifest"}
     \/ sync[d].at \in {"transfer", "recover"} /\ sync[d].todo = EmptyDiff
  /\ Goto(d, "failed")
  /\ UNCHANGED <<clock, version, disk, cache, remote, remoteMeta, manifest, unsynced, removed>>

\* An awaited request fails, or the save of a recovered profile: the status
\* "error".  No such failure falls into the transfers: the links to all the
\* files are asked for before the first, and the next request is that of the
\* metadata.  (When the links are refused, all is as it was before.)
Abort(d) ==
  /\ "abort" \in Failures
  /\ \/ sync[d].at \in {"fetch", "manifest"}
     \/ sync[d].at \in {"transfer", "recover"} /\ sync[d].todo = EmptyDiff
  /\ sync' = [sync EXCEPT ![d] = FailedSync]
  /\ UNCHANGED <<clock, version, disk, cache, remote, remoteMeta, manifest, unsynced, removed>>

\* The application ends and is started again.
Exit(d) ==
  /\ ~Idle(d)
  /\ (IF sync[d].at = "save" THEN "quit" ELSE "exit") \in Failures
  /\ sync' = [sync EXCEPT ![d] = IdleSync]
  /\ UNCHANGED <<clock, version, disk, cache, remote, remoteMeta, manifest, unsynced, removed>>

CutShort(d) == Abort(d) \/ Exit(d)

-----------------------------------------------------------------------------
(* download_profile_if_missing.                                            *)

RecoverProfile(d) ==
  /\ Idle(d)
  /\ ~HasProfile(d)
  /\ manifest # NoManifest
  /\ remoteMeta # Absent
  /\ sync' = [sync EXCEPT ![d] =
                [at |-> "recover", clone |-> remoteMeta, local |-> manifest,
                 todo |-> Diff({}, Listed(manifest.files), {}, {})]]
  /\ UNCHANGED <<clock, version, disk, cache, remote, remoteMeta, manifest, unsynced, removed>>

\* Mutant: the download tasks are not awaited.
SaveRecoveredEarly(d) ==
  /\ sync[d].at = "recover"
  /\ disk' = [disk EXCEPT ![d][Meta] = File([sync[d].clone EXCEPT !.stamp = clock])]
  /\ sync' = [sync EXCEPT ![d] = IdleSync]
  /\ UNCHANGED <<clock, version, cache, remote, remoteMeta, manifest, unsynced, removed>>

SaveRecovered(d) ==
  /\ sync[d].at = "recover"
  /\ sync[d].todo = EmptyDiff
  /\ SlowSync => clock > sync[d].local.updatedAt
  /\ disk' = [disk EXCEPT ![d][Meta] = File([sync[d].clone EXCEPT !.stamp = clock])]
  /\ sync' = [sync EXCEPT ![d] = IdleSync]
  /\ UNCHANGED <<clock, version, cache, remote, remoteMeta, manifest, unsynced, removed>>

-----------------------------------------------------------------------------
SyncStep(d) ==
  \/ GenerateManifest(d) \/ FetchManifest(d)
  \/ \E p \in Paths, ok \in BOOLEAN :
       UploadFile(d, p, ok) \/ DownloadFile(d, p, ok) \/ DeleteRemoteFile(d, p, ok)
  \/ DeleteLocalFiles(d) \/ UploadMetadata(d) \/ UploadManifest(d) \/ SaveProfile(d)
  \/ RecoverProfile(d) \/ SaveRecovered(d)

Edit(d) ==
  EditSettings(d) \/ \E p \in DataPaths : EditFile(d, p) \/ RemoveFile(d, p)

Next == Tick \/ \E d \in Devices : SyncStep(d) \/ Edit(d) \/ CutShort(d)

Spec == Init /\ [][Next]_vars

\* Every device keeps asking for a sync (each edit, event and start-up does)
\* and the engine's steps are taken; time passes.
Fairness == WF_vars(Tick) /\ \A d \in Devices : WF_vars(SyncStep(d))
FairSpec == Spec /\ Fairness

-----------------------------------------------------------------------------
(* Properties.                                                             *)

\* engine.rs: "Upload manifest.json last for atomicity".  Whoever reads a
\* manifest finds the files it lists, with the contents it promises.
ManifestDescribesFiles ==
  (manifest # NoManifest /\ \A d \in Devices : Idle(d))
    => \A p \in Listed(manifest.files) : remote[p] = manifest.files[p]

\* manifest.rs: the cache exists "to avoid re-hashing unchanged files".  The
\* manifest a sync works with has the hash of every file as it was then.
FreshHashes ==
  [][\A d \in Devices : GenerateManifest(d) =>
       \A p \in OnDisk(d) : sync'[d].local.files[p] = disk[d][p].data]_vars

\* openspec: "No hidden sync overwrite across devices".  A change leaves the
\* device only to the store, and is never replaced by an older content.
NoHiddenOverwrite ==
  [][\A d \in Devices : \A p \in (unsynced[d] \ unsynced'[d]) \ removed' :
       remote'[p] = disk[d][p].data]_vars

Kept(p) == remote[p] # Absent \/ \E d \in Devices : disk[d][p] # Absent

\* openspec: "Never silently lose critical continuity".  A file that was
\* written and that no browser has removed is somewhere.
NothingVanishes ==
  [][\A p \in DataPaths \ removed' : Kept(p) => Kept(p)']_vars

\* The store ends up with every file as it is on a device that is alone, once
\* nothing fails any more, whatever the failures have left.
StoreCatchesUp ==
  \/ []<><<\E d \in Devices : CutShort(d) \/ \E p \in Paths : UploadFile(d, p, FALSE)>>_vars
  \/ <>[](\A d \in Devices : HasProfile(d) => \A p \in DataPaths :
         disk[d][p] # Absent => remote[p] = disk[d][p].data)
=============================================================================
