-------------------------- MODULE ProfileSyncProofs --------------------------
(* What a delta sync without failures and without a second writer does; and
   what the syncs of a device that is alone, or of devices that take turns, do
   to changes and files. *)
EXTENDS ProfileScenarios, FiniteSetTheorems, TLAPS

-----------------------------------------------------------------------------
(* compute_diff.                                                           *)

\* compute_diff: exactly one side changes, and its transfers and deletions
\* are of different paths.
THEOREM OneSideChanges ==
  ASSUME NEW local \in Manifest, NEW other \in Manifest \cup {NoManifest}
  PROVE  LET diff == ComputeDiff(local, other) IN
           /\ diff.upload \cup diff.deleteRemote = {}
                \/ diff.download \cup diff.deleteLocal = {}
           /\ diff.upload \cap diff.deleteRemote = {}
           /\ diff.download \cap diff.deleteLocal = {}
<1>. USE DEF ComputeDiff, Diff, Changed, Surplus, Listed
<1>1. CASE other = NoManifest
  BY <1>1
<1>2. CASE other # NoManifest /\ LocalIsNewer(local, other)
  BY <1>2
<1>3. CASE other # NoManifest /\ ~LocalIsNewer(local, other)
  BY <1>3
<1>. QED BY <1>1, <1>2, <1>3

\* The first sync of a profile stores every file that the profile has.
THEOREM FirstSyncStoresAll ==
  ASSUME NEW local \in Manifest, NEW diff, diff = ComputeDiff(local, NoManifest)
  PROVE  Patched([p \in Paths |-> Absent], local.files, diff.upload,
                 diff.deleteRemote) = local.files
<1>1. diff.upload = Listed(local.files) /\ diff.deleteRemote = {}
  BY DEF ComputeDiff, Diff
<1>2. local.files \in [Paths -> Hashes \cup {Absent}]
  BY DEF Manifest, Listing
<1>. QED BY <1>1, <1>2 DEF Patched, Listed

\* When the local manifest is newer, applying the diff to the store gives it
\* the local files, whatever it held; the local side is not touched.
THEOREM NewerLocalReplacesRemote ==
  ASSUME NEW local \in Manifest, NEW other \in Manifest,
         LocalIsNewer(local, other),
         NEW diff, diff = ComputeDiff(local, other)
  PROVE  /\ Patched(other.files, local.files, diff.upload, diff.deleteRemote)
              = local.files
         /\ Patched(local.files, other.files, diff.download, diff.deleteLocal)
              = local.files
<1>1. other # NoManifest
  BY ManifestAssumption DEF Manifest, Listing
<1>2. /\ diff.upload = Changed(local.files, other.files)
      /\ diff.deleteRemote = Surplus(local.files, other.files)
      /\ diff.download = {} /\ diff.deleteLocal = {}
  BY <1>1 DEF ComputeDiff, Diff
<1>3. /\ local.files \in [Paths -> Hashes \cup {Absent}]
      /\ other.files \in [Paths -> Hashes \cup {Absent}]
  BY DEF Manifest, Listing
<1>4. Patched(other.files, local.files, diff.upload, diff.deleteRemote) = local.files
  BY <1>2, <1>3 DEF Patched, Changed, Surplus, Listed
<1>5. Patched(local.files, other.files, diff.download, diff.deleteLocal) = local.files
  BY <1>2, <1>3 DEF Patched
<1>. QED BY <1>4, <1>5

\* When it is not newer, equal seconds included, the local files become those
\* of the remote manifest: nothing the device changed survives.
THEOREM OtherwiseRemoteReplacesLocal ==
  ASSUME NEW local \in Manifest, NEW other \in Manifest,
         ~LocalIsNewer(local, other),
         NEW diff, diff = ComputeDiff(local, other)
  PROVE  /\ Patched(local.files, other.files, diff.download, diff.deleteLocal)
              = other.files
         /\ Patched(other.files, local.files, diff.upload, diff.deleteRemote)
              = other.files
<1>1. other # NoManifest
  BY ManifestAssumption DEF Manifest, Listing
<1>2. /\ diff.download = Changed(other.files, local.files)
      /\ diff.deleteLocal = Surplus(other.files, local.files)
      /\ diff.upload = {} /\ diff.deleteRemote = {}
  BY <1>1 DEF ComputeDiff, Diff
<1>3. /\ local.files \in [Paths -> Hashes \cup {Absent}]
      /\ other.files \in [Paths -> Hashes \cup {Absent}]
  BY DEF Manifest, Listing
<1>4. Patched(local.files, other.files, diff.download, diff.deleteLocal) = other.files
  BY <1>2, <1>3 DEF Patched, Changed, Surplus, Listed
<1>5. Patched(other.files, local.files, diff.upload, diff.deleteRemote) = other.files
  BY <1>2, <1>3 DEF Patched
<1>. QED BY <1>4, <1>5

\* "Already in sync" is announced exactly when the two listings agree.
THEOREM EmptyDiffMeansEqual ==
  ASSUME NEW local \in Manifest, NEW other \in Manifest
  PROVE  ComputeDiff(local, other) = EmptyDiff <=> local.files = other.files
<1>1. other # NoManifest
  BY ManifestAssumption DEF Manifest, Listing
<1>2. /\ local.files \in [Paths -> Hashes \cup {Absent}]
      /\ other.files \in [Paths -> Hashes \cup {Absent}]
  BY DEF Manifest, Listing
<1>3. ASSUME NEW from \in [Paths -> Hashes \cup {Absent}],
             NEW to \in [Paths -> Hashes \cup {Absent}],
             Changed(from, to) = {}, Surplus(from, to) = {}
      PROVE  from = to
  <2>1. ASSUME NEW p \in Paths PROVE from[p] = to[p]
    BY <1>3, <2>1 DEF Changed, Surplus, Listed
  <2>. QED BY <2>1
<1>4. ASSUME NEW from \in [Paths -> Hashes \cup {Absent}]
      PROVE  Changed(from, from) = {} /\ Surplus(from, from) = {}
  BY DEF Changed, Surplus
<1>5. CASE LocalIsNewer(local, other)
  <2>1. ComputeDiff(local, other)
          = Diff(Changed(local.files, other.files), {}, {},
                 Surplus(local.files, other.files))
    BY <1>1, <1>5 DEF ComputeDiff
  <2>. QED BY <2>1, <1>2, <1>3, <1>4 DEF Diff, EmptyDiff
<1>6. CASE ~LocalIsNewer(local, other)
  <2>1. ComputeDiff(local, other)
          = Diff({}, Changed(other.files, local.files),
                 Surplus(other.files, local.files), {})
    BY <1>1, <1>6 DEF ComputeDiff
  <2>2. ComputeDiff(local, other) = EmptyDiff <=>
          Changed(other.files, local.files) = {} /\ Surplus(other.files, local.files) = {}
    BY <2>1 DEF Diff, EmptyDiff
  <2>. QED BY <2>2, <1>2, <1>3, <1>4
<1>. QED BY <1>5, <1>6
-----------------------------------------------------------------------------
(* The types.                                                              *)

LEMMA Greatest ==
  ASSUME NEW bound \in Nat, NEW S \in SUBSET (0 .. bound), S # {}
  PROVE  /\ MaxOf(S) \in S
         /\ \A n \in S : n <= MaxOf(S)
<1> DEFINE Above(n) == n .. bound
           T == {Above(n) : n \in S}
           R == StrictSubsetOrdering(0 .. bound)
<1>1. IsWellFoundedOn(R, SUBSET (0 .. bound))
  <2>1. IsFiniteSet(0 .. bound)
    BY FS_Interval
  <2>2. IsWellFoundedOn(R, FiniteSubsetsOf(0 .. bound))
    BY FS_StrictSubsetOrderingWellFounded
  <2> HIDE DEF R
  <2> QED BY <2>1, <2>2, FS_FiniteSubsetsOfFinite
<1>2. T \subseteq SUBSET (0 .. bound) /\ T # {}
  <2>1. \A n \in S : Above(n) \subseteq 0 .. bound
    OBVIOUS
  <2> HIDE DEF Above
  <2> QED BY <2>1
<1>3. PICK x \in T : \A y \in T : ~(<<y, x>> \in R)
  <2> HIDE DEF T, R
  <2> QED BY <1>1, <1>2, WFMin
<1>4. PICK m \in S : x = Above(m)
  OBVIOUS
<1>5. ASSUME NEW n \in S PROVE n <= m
  <2>1. ~(Above(n) \subseteq Above(m) /\ Above(n) # Above(m))
    <3>1. Above(n) \in T /\ Above(m) \in T
      OBVIOUS
    <3> HIDE DEF Above, T, R
    <3>2. <<Above(n), Above(m)>> \notin R
      BY <1>3, <1>4, <3>1
    <3>3. Above(n) \in SUBSET (0 .. bound) /\ Above(m) \in SUBSET (0 .. bound)
      BY <1>2, <3>1
    <3> QED BY <3>2, <3>3 DEF R, StrictSubsetOrdering
  <2>2. n \in 0 .. bound /\ m \in 0 .. bound
    OBVIOUS
  <2>3. n > m => m \in Above(m) /\ m \notin Above(n) /\ Above(n) \subseteq Above(m)
    BY <2>2
  <2> HIDE DEF Above
  <2> QED BY <2>1, <2>2, <2>3
<1> QED BY <1>5 DEF MaxOf

LEMMA SyncTypes ==
  ASSUME TypeOK, NEW d \in Devices
  PROVE  /\ sync[d].at \notin {"idle", "failed"} => sync[d] \in SyncStates
         /\ sync[d].todo \in Diffs
         /\ Idle(d) => sync[d].todo = EmptyDiff
<1>1. sync[d] \in SyncStates \/ sync[d] = IdleSync \/ sync[d] = FailedSync
  BY DEF TypeOK, NoSync
<1>2. CASE sync[d] \in SyncStates
  BY <1>2 DEF SyncStates, Idle
<1>3. CASE sync[d] = IdleSync \/ sync[d] = FailedSync
  BY <1>3 DEF IdleSync, FailedSync, EmptyDiff, Diff, Diffs
<1> QED BY <1>1, <1>2, <1>3

LEMMA DiffType ==
  ASSUME NEW local \in Manifest, NEW other \in Manifest \cup {NoManifest}
  PROVE  ComputeDiff(local, other) \in Diffs
  BY DEF ComputeDiff, Diff, Diffs, Changed, Surplus, Listed

\* A file is written with the present second.
LEMMA FileType ==
  ASSUME TypeOK, NEW content \in Content
  PROVE  File(content) \in Stored /\ File(content) # Absent /\ File(content).mtime = clock
  BY ProfileSyncAssumption DEF TypeOK, File, Stored, Files

LEMMA ContentType ==
  ASSUME NEW v \in 0 .. MaxVersion, NEW t \in Time
  PROVE  [version |-> v, stamp |-> t] \in Content
  BY DEF Content

\* The local manifest is as new as the newest file.
LEMMA LocalManifestType ==
  ASSUME TypeOK, NEW d \in Devices, HasProfile(d)
  PROVE  /\ LocalManifest(d) \in Manifest
         /\ \A p \in OnDisk(d) : HashOf(d, p) \in Content
         /\ \A p \in OnDisk(d) : disk[d][p].mtime <= LocalManifest(d).updatedAt
         /\ \E p \in OnDisk(d) : disk[d][p].mtime = LocalManifest(d).updatedAt
<1> DEFINE times == {disk[d][p].mtime : p \in OnDisk(d)}
<1>1. \A p \in OnDisk(d) : disk[d][p] \in Files
  BY DEF OnDisk, TypeOK, Stored
<1>2. Meta \in OnDisk(d)
  BY ProfileSyncAssumption DEF OnDisk, HasProfile
<1>3. times \in SUBSET (0 .. MaxTime) /\ times # {}
  BY <1>1, <1>2 DEF Files, Time
<1>4. MaxOf(times) \in times /\ \A n \in times : n <= MaxOf(times)
  <2> HIDE DEF times
  <2> QED BY <1>3, Greatest, ProfileSyncAssumption
<1>5. ASSUME NEW p \in OnDisk(d) PROVE HashOf(d, p) \in Content
  <2>1. cache[d][p] # Absent => cache[d][p] \in Files
    BY DEF OnDisk, TypeOK, Stored
  <2> QED BY <1>1, <2>1 DEF HashOf, CacheHit, Files
<1>6. LocalManifest(d).files \in Listing
  BY <1>5, ProfileSyncAssumption DEF LocalManifest, Listing
<1>7. LocalManifest(d).updatedAt = MaxOf(times) /\ MaxOf(times) \in Nat
  BY <1>3, <1>4 DEF LocalManifest
<1>8. LocalManifest(d) \in Manifest
  BY <1>6, <1>7 DEF LocalManifest, Manifest
<1> QED BY <1>4, <1>5, <1>7, <1>8

\* A sync that goes on keeps what it was begun with.
LEMMA SyncMoves ==
  ASSUME TypeOK, NEW d \in Devices, sync[d] \in SyncStates
  PROVE  /\ \A at \in {"fetch", "transfer", "manifest", "save", "recover"} :
              [sync[d] EXCEPT !.at = at] \in SyncStates
         /\ \A todo \in Diffs : /\ [sync[d] EXCEPT !.todo = todo] \in SyncStates
                               /\ [sync[d] EXCEPT !.at = "transfer", !.todo = todo] \in SyncStates
  BY DEF SyncStates

LEMMA TodoShrinks ==
  ASSUME NEW todo \in Diffs, NEW p
  PROVE  /\ [todo EXCEPT !.upload = @ \ {p}] \in Diffs
         /\ [todo EXCEPT !.download = @ \ {p}] \in Diffs
         /\ [todo EXCEPT !.deleteRemote = @ \ {p}] \in Diffs
         /\ [todo EXCEPT !.deleteLocal = {}] \in Diffs
  BY DEF Diffs

\* A file is replaced by a file.
LEMMA Written ==
  ASSUME TypeOK, NEW d \in Devices, NEW p \in Paths, NEW file \in Stored,
         disk' = [disk EXCEPT ![d][p] = file]
  PROVE  /\ disk' \in [Devices -> [Paths -> Stored]]
         /\ \A e \in Devices, q \in Paths : disk'[e][q] = IF e = d /\ q = p THEN file ELSE disk[e][q]
  BY DEF TypeOK

LEMMA InitType == Init => TypeOK
<1> SUFFICES ASSUME Init PROVE TypeOK
  OBVIOUS
<1>1. clock \in Time /\ version \in 0 .. MaxVersion
  BY ProfileSyncAssumption DEF Init, Time
<1>2. File([version |-> 0, stamp |-> 0]) \in Stored
  <2>1. [version |-> 0, stamp |-> 0] \in Content
    BY ProfileSyncAssumption DEF Content, Time
  <2> QED BY <1>1, <2>1 DEF File, Stored, Files
<1>3. disk \in [Devices -> [Paths -> Stored]]
  <2>1. PICK d \in Devices, created \in SUBSET DataPaths :
          disk = [e \in Devices |-> [p \in Paths |->
                    IF e = d /\ p \in created \cup {Meta}
                    THEN File([version |-> 0, stamp |-> 0]) ELSE Absent]]
    BY DEF Init
  <2> QED BY <1>2, <2>1 DEF Stored
<1>4. /\ cache \in [Devices -> [Paths -> Stored]]
      /\ remote \in [Paths -> Content \cup {Absent}]
      /\ remoteMeta \in Content \cup {Absent}
      /\ manifest = NoManifest
      /\ sync \in [Devices -> SyncStates \cup NoSync]
      /\ unsynced \in [Devices -> SUBSET DataPaths]
      /\ removed \in SUBSET DataPaths
  BY DEF Init, Stored, NoSync
<1> QED BY <1>1, <1>3, <1>4 DEF TypeOK

\* A step of a sync has a type for each variable that it changes.
LEMMA StepType ==
  ASSUME TypeOK, NEW d \in Devices, SyncStep(d)
  PROVE  TypeOK'
<1> USE DEF TypeOK
<1>0. Meta \in Paths
  BY ProfileSyncAssumption
<1>1. CASE GenerateManifest(d)
  <2>1. disk[d][Meta].data \in Content
    BY <1>0, <1>1 DEF GenerateManifest, HasProfile, Stored, Files
  <2>2. EmptyDiff \in Diffs
    BY DEF EmptyDiff, Diff, Diffs
  <2>3. [at |-> "fetch", clone |-> disk[d][Meta].data, local |-> LocalManifest(d), todo |-> EmptyDiff]
          \in SyncStates
    BY <1>1, <2>1, <2>2, LocalManifestType DEF GenerateManifest, SyncStates
  <2>4. sync' \in [Devices -> SyncStates \cup NoSync]
    BY <1>1, <2>3 DEF GenerateManifest
  <2>5. ASSUME NEW p \in OnDisk(d)
        PROVE  [data |-> HashOf(d, p), mtime |-> disk[d][p].mtime] \in Stored
    <3>1. disk[d][p] \in Files
      BY DEF OnDisk, Stored
    <3>2. HashOf(d, p) \in Content
      BY <1>1, LocalManifestType DEF GenerateManifest
    <3> QED BY <3>1, <3>2 DEF Stored, Files
  <2>6. [p \in Paths |-> IF p \notin OnDisk(d) THEN cache[d][p]
                         ELSE [data |-> HashOf(d, p), mtime |-> disk[d][p].mtime]] \in [Paths -> Stored]
    BY <2>5
  <2>7. cache' \in [Devices -> [Paths -> Stored]]
    BY <1>1, <2>6 DEF GenerateManifest
  <2> QED BY <1>1, <2>4, <2>7 DEF GenerateManifest
<1>2. CASE FetchManifest(d)
  <2>1. sync[d] \in SyncStates /\ sync[d].local \in Manifest
    BY <1>2, SyncTypes DEF FetchManifest, SyncStates
  <2>2. ComputeDiff(sync[d].local, manifest) \in Diffs
    BY <2>1, DiffType
  <2>3. sync' \in [Devices -> SyncStates \cup NoSync]
    BY <1>2, <2>1, <2>2, SyncMoves DEF FetchManifest, NoSync
  <2> QED BY <1>2, <2>3 DEF FetchManifest
<1>3. ASSUME NEW p \in Paths, NEW ok \in BOOLEAN, UploadFile(d, p, ok) PROVE TypeOK'
  <2>1. sync[d] \in SyncStates
    BY <1>3, SyncTypes DEF UploadFile
  <2>2. [sync[d] EXCEPT !.todo.upload = @ \ {p}] \in SyncStates
    BY <2>1 DEF SyncStates, Diffs
  <2>3. sync' \in [Devices -> SyncStates \cup NoSync]
    BY <1>3, <2>2 DEF UploadFile
  <2>4. disk[d][p] # Absent => disk[d][p].data \in Content
    BY DEF Stored, Files
  <2>5. remote' \in [Paths -> Content \cup {Absent}] /\ unsynced' \in [Devices -> SUBSET DataPaths]
    BY <1>3, <2>4 DEF UploadFile
  <2> QED BY <1>3, <2>3, <2>5 DEF UploadFile
<1>4. ASSUME NEW p \in Paths, NEW ok \in BOOLEAN, DownloadFile(d, p, ok) PROVE TypeOK'
  <2>1. sync[d] \in SyncStates
    BY <1>4, SyncTypes DEF DownloadFile
  <2>2. [sync[d] EXCEPT !.todo.download = @ \ {p}] \in SyncStates
    BY <2>1 DEF SyncStates, Diffs
  <2>3. sync' \in [Devices -> SyncStates \cup NoSync]
    BY <1>4, <2>2 DEF DownloadFile
  <2>4. remote[p] # Absent => File(remote[p]) \in Stored
    BY FileType
  <2>5. disk' \in [Devices -> [Paths -> Stored]] /\ unsynced' \in [Devices -> SUBSET DataPaths]
    <3>1. CASE ok /\ remote[p] # Absent
      <4>1. disk' = [disk EXCEPT ![d][p] = File(remote[p])]
        BY <1>4, <3>1 DEF DownloadFile
      <4>2. disk' \in [Devices -> [Paths -> Stored]]
        BY <2>4, <3>1, <4>1, Written
      <4>3. unsynced' \in [Devices -> SUBSET DataPaths]
        BY <1>4, <3>1 DEF DownloadFile
      <4> QED BY <4>2, <4>3
    <3>2. CASE ~(ok /\ remote[p] # Absent)
      BY <1>4, <3>2 DEF DownloadFile
    <3> QED BY <3>1, <3>2
  <2> QED BY <1>4, <2>3, <2>5 DEF DownloadFile
<1>5. ASSUME NEW p \in Paths, NEW ok \in BOOLEAN, DeleteRemoteFile(d, p, ok) PROVE TypeOK'
  <2>1. sync[d] \in SyncStates
    BY <1>5, SyncTypes DEF DeleteRemoteFile
  <2>2. [sync[d] EXCEPT !.todo.deleteRemote = @ \ {p}] \in SyncStates
    BY <2>1 DEF SyncStates, Diffs
  <2>3. sync' \in [Devices -> SyncStates \cup NoSync]
    BY <1>5, <2>2 DEF DeleteRemoteFile
  <2>4. remote' \in [Paths -> Content \cup {Absent}]
    BY <1>5 DEF DeleteRemoteFile
  <2> QED BY <1>5, <2>3, <2>4 DEF DeleteRemoteFile
<1>6. CASE DeleteLocalFiles(d)
  <2>1. sync[d] \in SyncStates
    BY <1>6, SyncTypes DEF DeleteLocalFiles
  <2>2. [sync[d] EXCEPT !.todo.deleteLocal = {}] \in SyncStates
    BY <2>1 DEF SyncStates, Diffs
  <2>3. sync' \in [Devices -> SyncStates \cup NoSync]
    BY <1>6, <2>2 DEF DeleteLocalFiles
  <2>4. [p \in Paths |-> IF p \in sync[d].todo.deleteLocal THEN Absent ELSE disk[d][p]]
          \in [Paths -> Stored]
    BY DEF Stored
  <2>5. disk' \in [Devices -> [Paths -> Stored]] /\ unsynced' \in [Devices -> SUBSET DataPaths]
    BY <1>6, <2>4 DEF DeleteLocalFiles
  <2> QED BY <1>6, <2>3, <2>5 DEF DeleteLocalFiles
<1>7. CASE UploadMetadata(d)
  <2>1. sync[d] \in SyncStates /\ sync[d].clone \in Content
    BY <1>7, SyncTypes DEF UploadMetadata, SyncStates
  <2>2. sync' \in [Devices -> SyncStates \cup NoSync]
    BY <1>7, <2>1, SyncMoves DEF UploadMetadata, Goto
  <2> QED BY <1>7, <2>1, <2>2 DEF UploadMetadata
<1>8. CASE UploadManifest(d)
  <2>1. sync[d] \in SyncStates /\ sync[d].local \in Manifest
    BY <1>8, SyncTypes DEF UploadManifest, SyncStates
  <2>2. sync' \in [Devices -> SyncStates \cup NoSync]
    BY <1>8, <2>1, SyncMoves DEF UploadManifest, Goto
  <2> QED BY <1>8, <2>1, <2>2 DEF UploadManifest
<1>9. CASE SaveProfile(d) \/ SaveRecovered(d)
  <2>1. sync[d] \in SyncStates
    BY <1>9, SyncTypes DEF SaveProfile, SaveRecovered
  <2>2. File([sync[d].clone EXCEPT !.stamp = clock]) \in Stored
    <3>1. [sync[d].clone EXCEPT !.stamp = clock] \in Content
      BY <2>1 DEF SyncStates, Content
    <3> QED BY <3>1, FileType
  <2>3. disk' \in [Devices -> [Paths -> Stored]]
    <3>1. disk' = [disk EXCEPT ![d][Meta] = File([sync[d].clone EXCEPT !.stamp = clock])]
      BY <1>9 DEF SaveProfile, SaveRecovered
    <3> QED BY <1>0, <2>2, <3>1, Written
  <2>4. sync' \in [Devices -> SyncStates \cup NoSync]
    BY <1>9 DEF SaveProfile, SaveRecovered, NoSync
  <2> QED BY <1>9, <2>3, <2>4 DEF SaveProfile, SaveRecovered
<1>10. CASE RecoverProfile(d)
  <2>1. Diff({}, Listed(manifest.files), {}, {}) \in Diffs
    BY DEF Diff, Diffs, Listed
  <2>2. [at |-> "recover", clone |-> remoteMeta, local |-> manifest,
         todo |-> Diff({}, Listed(manifest.files), {}, {})] \in SyncStates
    BY <1>10, <2>1 DEF RecoverProfile, SyncStates
  <2>3. sync' \in [Devices -> SyncStates \cup NoSync]
    BY <1>10, <2>2 DEF RecoverProfile
  <2> QED BY <1>10, <2>3 DEF RecoverProfile
<1> QED BY <1>1, <1>2, <1>3, <1>4, <1>5, <1>6, <1>7, <1>8, <1>9, <1>10 DEF SyncStep

LEMMA EditType ==
  ASSUME TypeOK, NEW d \in Devices, Edit(d)
  PROVE  TypeOK'
<1> USE DEF TypeOK
<1>0. Meta \in Paths /\ 0 \in Time
  BY ProfileSyncAssumption DEF Time
<1>1. ASSUME NEW p \in DataPaths, EditFile(d, p) PROVE TypeOK'
  <2>1. version' \in 0 .. MaxVersion
    BY <1>1, ProfileSyncAssumption DEF EditFile, MayEdit
  <2>2. File([version |-> version', stamp |-> 0]) \in Stored
    BY <1>0, <2>1, ContentType, FileType
  <2>3. disk' \in [Devices -> [Paths -> Stored]]
    BY <1>1, <2>2 DEF EditFile, DataPaths
  <2>4. unsynced' \in [Devices -> SUBSET DataPaths]
    BY <1>1 DEF EditFile
  <2> QED BY <1>1, <2>1, <2>3, <2>4 DEF EditFile
<1>2. ASSUME NEW p \in DataPaths, RemoveFile(d, p) PROVE TypeOK'
  <2>1. version' \in 0 .. MaxVersion
    BY <1>2, ProfileSyncAssumption DEF RemoveFile, MayEdit
  <2>2. disk' \in [Devices -> [Paths -> Stored]]
    BY <1>2 DEF RemoveFile, DataPaths, Stored
  <2>3. unsynced' \in [Devices -> SUBSET DataPaths] /\ removed' \in SUBSET DataPaths
    BY <1>2 DEF RemoveFile
  <2> QED BY <1>2, <2>1, <2>2, <2>3 DEF RemoveFile
<1>3. CASE EditSettings(d)
  <2>1. version' \in 0 .. MaxVersion
    BY <1>3, ProfileSyncAssumption DEF EditSettings, MayEdit
  <2>2. disk[d][Meta].data.stamp \in Time
    BY <1>0, <1>3 DEF EditSettings, MayEdit, HasProfile, Stored, Files, Content
  <2>3. File([version |-> version', stamp |-> disk[d][Meta].data.stamp]) \in Stored
    BY <2>1, <2>2, ContentType, FileType
  <2>4. disk' \in [Devices -> [Paths -> Stored]]
    BY <1>0, <1>3, <2>3 DEF EditSettings
  <2> QED BY <1>3, <2>1, <2>4 DEF EditSettings
<1> QED BY <1>1, <1>2, <1>3 DEF Edit

LEMMA NextType ==
  ASSUME TypeOK, [Next]_vars
  PROVE  TypeOK'
<1>1. CASE Tick
  <2>1. clock' \in Time
    BY <1>1, ProfileSyncAssumption DEF Tick, TypeOK, Time
  <2> QED BY <1>1, <2>1 DEF Tick, TypeOK
<1>2. ASSUME NEW d \in Devices, CutShort(d) PROVE TypeOK'
  <2>1. sync' \in [Devices -> SyncStates \cup NoSync]
    BY <1>2 DEF TypeOK, CutShort, Abort, Exit, NoSync
  <2> QED BY <1>2, <2>1 DEF TypeOK, CutShort, Abort, Exit
<1>3. CASE UNCHANGED vars
  BY <1>3 DEF vars, TypeOK
<1> QED BY <1>1, <1>2, <1>3, StepType, EditType DEF Next

\* The types of manifests, files and syncs, for any devices and paths.
THEOREM ProfileTypeCorrect == Spec => []TypeOK
  BY InitType, NextType, PTL DEF Spec

-----------------------------------------------------------------------------
(* The scenarios.  The manifest of a device with changes is newer than that *)
(* of the store, so that its sync sends and does not fetch; for a device     *)
(* that is alone this is so before it has changes, which may be made while   *)
(* it synchronises.                                                          *)

Newer(d, p) == disk[d][p] # Absent /\ disk[d][p].mtime > manifest.updatedAt

\* What the device's sync does, if it has one, is to send.
Sends(d) ==
  /\ HasProfile(d)
  /\ sync[d].at # "recover"
  /\ sync[d].at = "fetch" /\ manifest # NoManifest => sync[d].local.updatedAt > manifest.updatedAt
  /\ sync[d].at = "transfer" => sync[d].todo.download = {} /\ sync[d].todo.deleteLocal = {}

\* Between syncs the manifest in the store is of the past; a sync that saves its
\* profile has just uploaded it.
ManifestIsPast(d) ==
  /\ sync[d].at = "save" => manifest = sync[d].local
  /\ sync[d].at # "save" /\ manifest # NoManifest => clock > manifest.updatedAt

ChangesAreNewer(d) ==
  unsynced[d] # {} =>
    /\ Sends(d)
    /\ sync[d].at # "save" /\ manifest # NoManifest =>
         Newer(d, Meta) \/ \A p \in unsynced[d] : Newer(d, p)

SingleIsNewer(d) ==
  Alone =>
    /\ Sends(d)
    /\ sync[d].at # "save" /\ manifest # NoManifest => Newer(d, Meta)
    /\ \A p \in DataPaths \ removed : remote[p] # Absent => disk[d][p] # Absent

\* One device at a time synchronises, and no other one has changes.
OneAtATime == \A d \in Devices : sync[d].at # "idle" => MyTurn(d)

ActorInv(d) == ManifestIsPast(d) /\ ChangesAreNewer(d) /\ SingleIsNewer(d)

ScenarioInv ==
  /\ TypeOK
  /\ OneAtATime
  /\ (\A d \in Devices : sync[d].at # "save") /\ manifest # NoManifest => clock > manifest.updatedAt
  /\ \A d \in Devices : /\ sync[d].at = "save" => manifest = sync[d].local
                        /\ ChangesAreNewer(d)
  /\ Alone => MyTurn(Single) /\ SingleIsNewer(Single)

FinishesLate == SlowSync /\ "quit" \notin Failures

LEMMA ActorKnows ==
  ASSUME ScenarioInv, NEW d \in Devices, Acts(d)
  PROVE  MyTurn(d) /\ ActorInv(d)
<1>1. MyTurn(d)
  BY DEF ScenarioInv, Acts
<1>2. sync[d].at # "save" => \A e \in Devices : sync[e].at # "save"
  BY <1>1 DEF MyTurn, Idle
<1> QED BY <1>1, <1>2 DEF ScenarioInv, ActorInv, Acts, ManifestIsPast, SingleIsNewer

\* What the actor then knows of itself says all of the others.
LEMMA ActorSuffices ==
  ASSUME NEW d \in Devices, TypeOK', MyTurn(d)', ActorInv(d)', (Alone => d = Single)'
  PROVE  ScenarioInv'
<1>1. \A e \in Devices \ {d} : sync'[e].at = "idle" /\ unsynced'[e] = {}
  BY DEF MyTurn
<1>2. OneAtATime'
  BY <1>1 DEF OneAtATime, MyTurn
<1>3. \A e \in Devices : /\ sync'[e].at = "save" => manifest' = sync'[e].local
                         /\ ChangesAreNewer(e)'
  BY <1>1 DEF ActorInv, ManifestIsPast, ChangesAreNewer
<1>4. (\A e \in Devices : sync'[e].at # "save") /\ manifest' # NoManifest => clock' > manifest'.updatedAt
  BY DEF ActorInv, ManifestIsPast
<1> QED BY <1>2, <1>3, <1>4 DEF ScenarioInv, ActorInv

\* A step of a device is no step of another one.
LEMMA OthersRest ==
  ASSUME TypeOK, NEW d \in Devices, SyncStep(d) \/ Edit(d) \/ CutShort(d)
  PROVE  \A e \in Devices : e # d =>
           disk'[e] = disk[e] /\ sync'[e] = sync[e] /\ unsynced'[e] = unsynced[e]
<1> USE DEF TypeOK
<1>1. CASE GenerateManifest(d) \/ FetchManifest(d)
  BY <1>1 DEF GenerateManifest, FetchManifest
<1>2. ASSUME NEW p \in Paths, NEW ok \in BOOLEAN,
             UploadFile(d, p, ok) \/ DownloadFile(d, p, ok) \/ DeleteRemoteFile(d, p, ok)
      PROVE  \A e \in Devices : e # d =>
               disk'[e] = disk[e] /\ sync'[e] = sync[e] /\ unsynced'[e] = unsynced[e]
  <2>1. CASE UploadFile(d, p, ok)
    BY <2>1 DEF UploadFile
  <2>2. CASE DownloadFile(d, p, ok)
    BY <2>2 DEF DownloadFile
  <2>3. CASE DeleteRemoteFile(d, p, ok)
    BY <2>3 DEF DeleteRemoteFile
  <2> QED BY <1>2, <2>1, <2>2, <2>3
<1>3. CASE DeleteLocalFiles(d) \/ UploadMetadata(d) \/ UploadManifest(d)
  BY <1>3 DEF DeleteLocalFiles, UploadMetadata, UploadManifest, Goto
<1>4. CASE SaveProfile(d) \/ RecoverProfile(d) \/ SaveRecovered(d)
  BY <1>4 DEF SaveProfile, RecoverProfile, SaveRecovered
<1>5. ASSUME NEW p \in DataPaths, EditFile(d, p) \/ RemoveFile(d, p)
      PROVE  \A e \in Devices : e # d =>
               disk'[e] = disk[e] /\ sync'[e] = sync[e] /\ unsynced'[e] = unsynced[e]
  BY <1>5 DEF EditFile, RemoveFile
<1>6. CASE EditSettings(d) \/ CutShort(d)
  BY <1>6 DEF EditSettings, CutShort, Abort, Exit
<1> QED BY <1>1, <1>2, <1>3, <1>4, <1>5, <1>6 DEF SyncStep, Edit

\* What a change of the device that leaves it becomes.
ChangesGoToStore(d) ==
  \A p \in (unsynced[d] \ unsynced'[d]) \ removed' : remote'[p] = disk[d][p].data

\* A sync of a device with changes begins with a manifest that is newer.
LEMMA Begins ==
  ASSUME TypeOK, NEW d \in Devices, ActorInv(d), UNCHANGED scenario,
         GenerateManifest(d) \/ RecoverProfile(d)
  PROVE  ActorInv(d)' /\ ChangesGoToStore(d)
<1>1. ASSUME GenerateManifest(d) PROVE ActorInv(d)' /\ ChangesGoToStore(d)
  <2>1. /\ sync[d].at \in {"idle", "failed"} /\ HasProfile(d)
        /\ sync'[d].at = "fetch" /\ sync'[d].local = LocalManifest(d)
        /\ UNCHANGED <<clock, version, disk, remote, remoteMeta, manifest, unsynced, removed, scenario>>
    BY <1>1 DEF GenerateManifest, Idle, TypeOK
  <2>2. LocalManifest(d).updatedAt \in Nat
    BY <2>1, LocalManifestType DEF Manifest
  <2>3. ASSUME NEW p \in Paths, Newer(d, p), manifest # NoManifest
        PROVE  LocalManifest(d).updatedAt > manifest.updatedAt
    <3>1. p \in OnDisk(d) /\ disk[d][p] \in Files /\ disk[d][p].mtime \in Nat
      BY <2>3, ProfileSyncAssumption DEF TypeOK, Newer, OnDisk, Stored, Files, Time
    <3>2. disk[d][p].mtime <= LocalManifest(d).updatedAt /\ disk[d][p].mtime > manifest.updatedAt
      BY <2>1, <2>3, <3>1, LocalManifestType DEF Newer
    <3>3. manifest.updatedAt \in Nat
      BY <2>3 DEF TypeOK, Manifest
    <3> QED BY <2>2, <3>1, <3>2, <3>3
  <2>4. Meta \in Paths /\ unsynced[d] \subseteq Paths
    BY ProfileSyncAssumption DEF TypeOK, DataPaths
  <2>5. ManifestIsPast(d)'
    BY <2>1 DEF ActorInv, ManifestIsPast
  <2>6. ChangesAreNewer(d)'
    BY <2>1, <2>3, <2>4 DEF ActorInv, ChangesAreNewer, Sends, HasProfile, Newer
  <2>7. SingleIsNewer(d)'
    BY <2>1, <2>3, <2>4 DEF ActorInv, SingleIsNewer, Sends, HasProfile, Newer, Alone
  <2> QED BY <2>1, <2>5, <2>6, <2>7 DEF ActorInv, ChangesGoToStore
<1>2. ASSUME RecoverProfile(d) PROVE ActorInv(d)' /\ ChangesGoToStore(d)
  <2>1. /\ sync[d].at \in {"idle", "failed"} /\ ~HasProfile(d) /\ sync'[d].at = "recover"
        /\ UNCHANGED <<clock, version, disk, remote, remoteMeta, manifest, unsynced, removed, scenario>>
    BY <1>2 DEF RecoverProfile, Idle, TypeOK
  <2>2. unsynced[d] = {} /\ ~Alone
    BY <2>1 DEF ActorInv, ChangesAreNewer, SingleIsNewer, Sends
  <2> QED BY <2>1, <2>2 DEF ActorInv, ManifestIsPast, ChangesAreNewer, SingleIsNewer, Alone, ChangesGoToStore
<1> QED BY <1>1, <1>2

\* A newer manifest is not to be fetched from.
LEMMA Decides ==
  ASSUME TypeOK, NEW d \in Devices, ActorInv(d), UNCHANGED scenario, FetchManifest(d)
  PROVE  ActorInv(d)' /\ ChangesGoToStore(d)
<1> DEFINE diff == ComputeDiff(sync[d].local, manifest)
<1>1. /\ sync[d].at = "fetch"
      /\ sync'[d].at = "idle" \/ (sync'[d].at = "transfer" /\ sync'[d].todo = diff)
      /\ UNCHANGED <<clock, version, disk, remote, remoteMeta, manifest, unsynced, removed, scenario>>
  BY SyncTypes DEF FetchManifest, TypeOK, IdleSync, SyncStates
<1>2. manifest = NoManifest \/ sync[d].local.updatedAt > manifest.updatedAt
        => diff.download = {} /\ diff.deleteLocal = {}
  BY DEF ComputeDiff, Diff, LocalIsNewer
<1> HIDE DEF diff
<1>3. ManifestIsPast(d)'
  BY <1>1 DEF ActorInv, ManifestIsPast
<1>4. ChangesAreNewer(d)'
  BY <1>1, <1>2 DEF ActorInv, ChangesAreNewer, Sends, HasProfile, Newer
<1>5. SingleIsNewer(d)'
  BY <1>1, <1>2 DEF ActorInv, SingleIsNewer, Sends, HasProfile, Newer, Alone
<1> QED BY <1>1, <1>3, <1>4, <1>5 DEF ActorInv, ChangesGoToStore

\* A file that was uploaded is in the store as it is on disk.
LEMMA Uploads ==
  ASSUME TypeOK, NEW d \in Devices, ActorInv(d), UNCHANGED scenario,
         NEW p \in Paths, NEW ok \in BOOLEAN, UploadFile(d, p, ok)
  PROVE  ActorInv(d)' /\ ChangesGoToStore(d)
<1>1. /\ sync[d].at = "transfer" /\ sync'[d].at = "transfer" /\ sync'[d].local = sync[d].local
      /\ sync'[d].todo.download = sync[d].todo.download
      /\ sync'[d].todo.deleteLocal = sync[d].todo.deleteLocal
      /\ UNCHANGED <<clock, version, disk, remoteMeta, manifest, removed, scenario>>
      /\ unsynced'[d] \subseteq unsynced[d]
  BY SyncTypes DEF UploadFile, TypeOK, SyncStates, Diffs
<1>2. \/ UNCHANGED <<remote, unsynced>>
      \/ /\ disk[d][p] # Absent /\ remote'[p] = disk[d][p].data
         /\ \A q \in Paths : q # p => remote'[q] = remote[q]
         /\ unsynced'[d] = unsynced[d] \ {p}
  BY DEF UploadFile, TypeOK
<1>3. ManifestIsPast(d)'
  BY <1>1 DEF ActorInv, ManifestIsPast
<1>4. ChangesAreNewer(d)'
  BY <1>1 DEF ActorInv, ChangesAreNewer, Sends, HasProfile, Newer
<1>5. SingleIsNewer(d)'
  BY <1>1, <1>2 DEF ActorInv, SingleIsNewer, Sends, HasProfile, Newer, Alone, DataPaths
<1>6. ChangesGoToStore(d)
  BY <1>2 DEF ChangesGoToStore
<1> QED BY <1>3, <1>4, <1>5, <1>6 DEF ActorInv

\* Only a device without changes that is not alone fetches or deletes its files.
LEMMA Fetches ==
  ASSUME TypeOK, NEW d \in Devices, ActorInv(d), UNCHANGED scenario,
         DeleteLocalFiles(d) \/ SaveRecovered(d)
           \/ \E p \in Paths, ok \in BOOLEAN : DownloadFile(d, p, ok)
  PROVE  ActorInv(d)' /\ ChangesGoToStore(d)
<1>1. \/ sync[d].at = "transfer" /\ (sync[d].todo.download # {} \/ sync[d].todo.deleteLocal # {})
      \/ sync[d].at = "recover"
  BY DEF DeleteLocalFiles, SaveRecovered, DownloadFile
<1>2. unsynced[d] = {} /\ ~Alone
  BY <1>1 DEF ActorInv, ChangesAreNewer, SingleIsNewer, Sends
<1>3. /\ UNCHANGED <<clock, manifest, scenario>> /\ sync'[d].at # "save"
      /\ unsynced'[d] \subseteq unsynced[d]
  <2>1. CASE DeleteLocalFiles(d)
    BY <2>1, SyncTypes DEF DeleteLocalFiles, TypeOK, SyncStates
  <2>2. CASE SaveRecovered(d)
    BY <2>2 DEF SaveRecovered, TypeOK, IdleSync
  <2>3. ASSUME NEW p \in Paths, NEW ok \in BOOLEAN, DownloadFile(d, p, ok)
        PROVE  /\ UNCHANGED <<clock, manifest, scenario>> /\ sync'[d].at # "save"
               /\ unsynced'[d] \subseteq unsynced[d]
    BY <2>3, SyncTypes DEF DownloadFile, TypeOK, SyncStates
  <2> QED BY <2>1, <2>2, <2>3
<1>4. sync[d].at # "save"
  BY <1>1
<1> QED BY <1>2, <1>3, <1>4
         DEF ActorInv, ManifestIsPast, ChangesAreNewer, SingleIsNewer, Alone, ChangesGoToStore

LEMMA Ends ==
  ASSUME TypeOK, NEW d \in Devices, ActorInv(d), UNCHANGED scenario,
         UploadMetadata(d) \/ UploadManifest(d)
           \/ \E p \in Paths, ok \in BOOLEAN : DeleteRemoteFile(d, p, ok)
  PROVE  ActorInv(d)' /\ ChangesGoToStore(d)
<1>1. CASE UploadMetadata(d)
  <2>1. /\ sync[d].at = "transfer" /\ sync'[d].at = "manifest" /\ sync'[d].local = sync[d].local
        /\ UNCHANGED <<clock, version, disk, remote, manifest, unsynced, removed, scenario>>
    BY <1>1, SyncTypes DEF UploadMetadata, Goto, TypeOK, SyncStates
  <2> QED BY <2>1 DEF ActorInv, ManifestIsPast, ChangesAreNewer, SingleIsNewer, Sends, HasProfile, Newer,
                      Alone, ChangesGoToStore
<1>2. CASE UploadManifest(d)
  <2>1. /\ sync[d].at = "manifest" /\ sync'[d].at = "save" /\ sync'[d].local = sync[d].local
        /\ manifest' = sync[d].local
        /\ UNCHANGED <<clock, version, disk, remote, unsynced, removed, scenario>>
    BY <1>2, SyncTypes DEF UploadManifest, Goto, TypeOK, SyncStates
  <2> QED BY <2>1 DEF ActorInv, ManifestIsPast, ChangesAreNewer, SingleIsNewer, Sends, HasProfile,
                      Alone, ChangesGoToStore
<1>3. ASSUME NEW p \in Paths, NEW ok \in BOOLEAN, DeleteRemoteFile(d, p, ok)
      PROVE  ActorInv(d)' /\ ChangesGoToStore(d)
  <2>1. /\ sync[d].at = "transfer" /\ sync'[d].at = "transfer" /\ sync'[d].local = sync[d].local
        /\ sync'[d].todo.download = sync[d].todo.download
        /\ sync'[d].todo.deleteLocal = sync[d].todo.deleteLocal
        /\ UNCHANGED <<clock, version, disk, manifest, unsynced, removed, scenario>>
        /\ \A q \in Paths : remote'[q] # Absent => remote[q] # Absent
    BY <1>3, SyncTypes DEF DeleteRemoteFile, TypeOK, SyncStates, Diffs
  <2> QED BY <2>1 DEF ActorInv, ManifestIsPast, ChangesAreNewer, SingleIsNewer, Sends, HasProfile, Newer,
                      Alone, ChangesGoToStore, DataPaths
<1> QED BY <1>1, <1>2, <1>3

\* The profile is saved later than the manifest was dated.
LEMMA Saves ==
  ASSUME TypeOK, NEW d \in Devices, ActorInv(d), UNCHANGED scenario, FinishesLate, SaveProfile(d)
  PROVE  ActorInv(d)' /\ ChangesGoToStore(d)
<1> DEFINE saved == File([sync[d].clone EXCEPT !.stamp = clock])
<1>1. /\ sync[d].at = "save" /\ sync'[d].at = "idle" /\ manifest = sync[d].local
      /\ clock > manifest.updatedAt
      /\ UNCHANGED <<clock, version, remote, manifest, unsynced, removed, scenario>>
  BY DEF SaveProfile, FinishesLate, TypeOK, IdleSync, ActorInv, ManifestIsPast
<1>2. saved \in Stored /\ saved # Absent /\ saved.mtime = clock
  <2>1. [sync[d].clone EXCEPT !.stamp = clock] \in Content
    BY SyncTypes DEF SaveProfile, SyncStates, Content, TypeOK
  <2> QED BY <2>1, FileType
<1>3. disk' = [disk EXCEPT ![d][Meta] = saved]
  BY DEF SaveProfile
<1> HIDE DEF saved
<1>4. \A q \in Paths : disk'[d][q] = IF q = Meta THEN saved ELSE disk[d][q]
  BY <1>2, <1>3, Written, ProfileSyncAssumption
<1>5. disk'[d][Meta] # Absent /\ disk'[d][Meta].mtime > manifest'.updatedAt
  BY <1>1, <1>2, <1>4, ProfileSyncAssumption
<1>6. \A q \in DataPaths : disk'[d][q] = disk[d][q]
  BY <1>4 DEF DataPaths
<1> QED BY <1>1, <1>5, <1>6 DEF ActorInv, ManifestIsPast, ChangesAreNewer, SingleIsNewer, Sends, HasProfile,
                                Newer, Alone, ChangesGoToStore

\* The browser and the user write in the present, which is later than the manifest.
LEMMA Edited ==
  ASSUME TypeOK, NEW d \in Devices, ActorInv(d), UNCHANGED scenario, Alone \/ Idle(d), Edit(d)
  PROVE  ActorInv(d)' /\ ChangesGoToStore(d)
<1>1. HasProfile(d) /\ Meta \in Paths
  BY ProfileSyncAssumption DEF Edit, EditFile, RemoveFile, EditSettings, MayEdit
<1>2. Sends(d)
  BY <1>1 DEF ActorInv, SingleIsNewer, Sends, Idle
<1>3. ASSUME NEW p \in DataPaths, EditFile(d, p) PROVE ActorInv(d)' /\ ChangesGoToStore(d)
  <2> DEFINE file == File([version |-> version', stamp |-> 0])
  <2>1. /\ UNCHANGED <<clock, remote, manifest, sync, removed, scenario>>
        /\ unsynced'[d] = unsynced[d] \cup {p}
        /\ disk' = [disk EXCEPT ![d][p] = file]
    BY <1>3 DEF EditFile, TypeOK
  <2>2. file \in Stored /\ file # Absent /\ file.mtime = clock
    <3>1. version' \in 0 .. MaxVersion /\ 0 \in Time
      BY <1>3, ProfileSyncAssumption DEF EditFile, MayEdit, TypeOK, Time
    <3> QED BY <3>1, ContentType, FileType
  <2> HIDE DEF file
  <2>3. p \in Paths /\ p # Meta
    BY DEF DataPaths
  <2>4. \A q \in Paths : disk'[d][q] = IF q = p THEN file ELSE disk[d][q]
    BY <2>1, <2>2, <2>3, Written
  <2>5. disk'[d][Meta] = disk[d][Meta] /\ disk'[d][p] # Absent /\ disk'[d][p].mtime = clock
    BY <1>1, <2>2, <2>3, <2>4
  <2>6. \A q \in DataPaths : q # p => disk'[d][q] = disk[d][q]
    BY <2>4 DEF DataPaths
  <2>7. unsynced[d] \subseteq DataPaths
    BY DEF TypeOK
  <2>8. ManifestIsPast(d)' /\ Sends(d)'
    BY <1>2, <2>1, <2>5 DEF ActorInv, ManifestIsPast, Sends, HasProfile
  <2>9. ChangesAreNewer(d)'
    BY <2>1, <2>5, <2>6, <2>7, <2>8 DEF ActorInv, ManifestIsPast, ChangesAreNewer, Newer
  <2>10. SingleIsNewer(d)'
    BY <2>1, <2>5, <2>6, <2>8 DEF ActorInv, SingleIsNewer, Newer, Alone
  <2> QED BY <2>1, <2>8, <2>9, <2>10 DEF ActorInv, ChangesGoToStore
<1>4. ASSUME NEW p \in DataPaths, RemoveFile(d, p) PROVE ActorInv(d)' /\ ChangesGoToStore(d)
  <2>1. /\ UNCHANGED <<clock, remote, manifest, sync, scenario>>
        /\ unsynced'[d] = unsynced[d] \ {p} /\ removed' = removed \cup {p}
        /\ disk'[d][Meta] = disk[d][Meta]
        /\ \A q \in DataPaths : q # p => disk'[d][q] = disk[d][q]
    BY <1>1, <1>4 DEF RemoveFile, TypeOK, DataPaths
  <2>2. unsynced[d] \subseteq DataPaths
    BY DEF TypeOK
  <2>3. ManifestIsPast(d)' /\ Sends(d)'
    BY <1>2, <2>1 DEF ActorInv, ManifestIsPast, Sends, HasProfile
  <2>4. ChangesAreNewer(d)'
    BY <2>1, <2>2, <2>3 DEF ActorInv, ChangesAreNewer, Newer
  <2>5. SingleIsNewer(d)'
    BY <2>1, <2>3 DEF ActorInv, SingleIsNewer, Newer, Alone
  <2> QED BY <2>1, <2>3, <2>4, <2>5 DEF ActorInv, ChangesGoToStore
<1>5. ASSUME EditSettings(d) PROVE ActorInv(d)' /\ ChangesGoToStore(d)
  <2> DEFINE file == File([version |-> version', stamp |-> disk[d][Meta].data.stamp])
  <2>1. /\ UNCHANGED <<clock, remote, manifest, sync, unsynced, removed, scenario>>
        /\ disk' = [disk EXCEPT ![d][Meta] = file]
    BY <1>5 DEF EditSettings
  <2>2. file \in Stored /\ file # Absent /\ file.mtime = clock
    <3>1. version' \in 0 .. MaxVersion
      BY <1>5, ProfileSyncAssumption DEF EditSettings, MayEdit, TypeOK
    <3>2. disk[d][Meta].data.stamp \in Time
      BY <1>1 DEF HasProfile, TypeOK, Stored, Files, Content
    <3> QED BY <3>1, <3>2, ContentType, FileType
  <2> HIDE DEF file
  <2>3. \A q \in Paths : disk'[d][q] = IF q = Meta THEN file ELSE disk[d][q]
    BY <1>1, <2>1, <2>2, Written
  <2>4. disk'[d][Meta] # Absent /\ disk'[d][Meta].mtime = clock
    BY <1>1, <2>2, <2>3
  <2>5. \A q \in DataPaths : disk'[d][q] = disk[d][q]
    BY <2>3 DEF DataPaths
  <2>6. ManifestIsPast(d)' /\ Sends(d)'
    BY <1>2, <2>1, <2>4 DEF ActorInv, ManifestIsPast, Sends, HasProfile
  <2>7. ChangesAreNewer(d)'
    BY <2>1, <2>4, <2>6 DEF ActorInv, ManifestIsPast, ChangesAreNewer, Newer
  <2>8. SingleIsNewer(d)'
    BY <2>1, <2>4, <2>5, <2>6 DEF ActorInv, ManifestIsPast, SingleIsNewer, Newer, Alone
  <2> QED BY <2>1, <2>6, <2>7, <2>8 DEF ActorInv, ChangesGoToStore
<1> QED BY <1>3, <1>4, <1>5 DEF Edit

\* A sync that fails leaves the device as new as it was; after the manifest only the
\* end of the application cuts it off.
LEMMA Aborted ==
  ASSUME TypeOK, NEW d \in Devices, ActorInv(d), UNCHANGED scenario, FinishesLate, CutShort(d)
  PROVE  ActorInv(d)' /\ ChangesGoToStore(d)
<1>1. /\ sync[d].at # "save" /\ sync'[d].at \in {"idle", "failed"}
      /\ UNCHANGED <<clock, version, disk, remote, manifest, unsynced, removed, scenario>>
  BY DEF CutShort, Abort, Exit, FinishesLate, TypeOK, IdleSync, FailedSync
<1> QED BY <1>1 DEF ActorInv, ManifestIsPast, ChangesAreNewer, SingleIsNewer, Sends, HasProfile, Newer,
                    Alone, ChangesGoToStore

LEMMA ActorSteps ==
  ASSUME TypeOK, NEW d \in Devices, ActorInv(d), UNCHANGED scenario, FinishesLate,
         SyncStep(d) \/ CutShort(d) \/ (Edit(d) /\ (Alone \/ Idle(d)))
  PROVE  ActorInv(d)' /\ ChangesGoToStore(d)
  BY Begins, Decides, Uploads, Fetches, Ends, Saves, Edited, Aborted DEF SyncStep

\* What every step of the scenarios keeps and does.
StepKeeps == ScenarioInv' /\ \A d \in Devices : ChangesGoToStore(d)

LEMMA ScenarioSteps ==
  ASSUME ScenarioInv, FinishesLate, [ScenariosNext]_<<vars, scenario>>
  PROVE  StepKeeps
<1>0. TypeOK /\ ManifestAssumption
  BY ManifestAssumption DEF ScenarioInv
<1>1. ASSUME NEW d \in Devices, Acts(d), UNCHANGED scenario,
             SyncStep(d) \/ CutShort(d) \/ (Edit(d) /\ (Alone \/ Idle(d)))
      PROVE  StepKeeps
  <2>1. MyTurn(d) /\ ActorInv(d)
    BY <1>1, ActorKnows
  <2>2. ActorInv(d)' /\ ChangesGoToStore(d)
    BY <1>0, <1>1, <2>1, ActorSteps
  <2>3. \A e \in Devices : e # d =>
          disk'[e] = disk[e] /\ sync'[e] = sync[e] /\ unsynced'[e] = unsynced[e]
    BY <1>0, <1>1, OthersRest
  <2>4. MyTurn(d)'
    BY <2>1, <2>3 DEF MyTurn, Idle
  <2>5. TypeOK'
    BY <1>0, <1>1, NextType DEF Next
  <2>6. Alone' => d = Single
    BY <1>1 DEF Acts, Alone
  <2>7. ScenarioInv'
    BY <2>2, <2>4, <2>5, <2>6, ActorSuffices
  <2>8. \A e \in Devices : ChangesGoToStore(e)
    BY <2>2, <2>3 DEF ChangesGoToStore
  <2> QED BY <2>7, <2>8 DEF StepKeeps
<1>2. CASE Tick /\ UNCHANGED scenario
  <2>1. /\ clock' = clock + 1
        /\ UNCHANGED <<version, disk, cache, remote, remoteMeta, manifest, sync, unsynced, removed, scenario>>
    BY <1>2 DEF Tick
  <2>2. TypeOK'
    BY <1>0, <1>2, NextType DEF Next
  <2>3. clock \in Nat /\ (manifest # NoManifest => manifest.updatedAt \in Nat)
    BY <1>0, ProfileSyncAssumption DEF TypeOK, Time, Manifest
  <2>4. clock > manifest.updatedAt /\ manifest # NoManifest => clock' > manifest'.updatedAt
    BY <2>1, <2>3
  <2>5. OneAtATime' /\ (Alone => MyTurn(Single))'
    BY <2>1 DEF ScenarioInv, OneAtATime, MyTurn, Idle, Alone
  <2>6. \A d \in Devices : ChangesAreNewer(d)' /\ (SingleIsNewer(d) => SingleIsNewer(d)')
    BY <2>1 DEF ScenarioInv, ChangesAreNewer, SingleIsNewer, Sends, HasProfile, Newer, Alone
  <2>7. ScenarioInv'
    BY <2>1, <2>2, <2>4, <2>5, <2>6, ScenariosAssumption DEF ScenarioInv, Alone
  <2> QED BY <2>1, <2>7 DEF StepKeeps, ChangesGoToStore
<1>3. CASE UNCHANGED <<vars, scenario>>
  <2>1. UNCHANGED <<clock, version, disk, cache, remote, remoteMeta, manifest, sync, unsynced, removed, scenario>>
    BY <1>3 DEF vars
  <2>2. ScenarioInv'
    BY <2>1, <1>0, NextType DEF vars, ScenarioInv, OneAtATime, MyTurn, Idle, ChangesAreNewer, SingleIsNewer,
                                Sends, HasProfile, Newer, Alone
  <2> QED BY <2>1, <2>2 DEF StepKeeps, ChangesGoToStore
<1>4. CASE ScenariosNext
  <2>1. CASE Tick
    BY <1>2, <1>4, <2>1 DEF ScenariosNext
  <2>2. ASSUME NEW d \in Devices, Fails(d) PROVE StepKeeps
    BY <1>1, <1>4, <2>2 DEF ScenariosNext, Fails, CutShort
  <2>3. ASSUME NEW d \in Devices, Syncs(d) PROVE StepKeeps
    <3>1. Acts(d) /\ SyncStep(d) /\ UNCHANGED scenario
      BY <1>4, <2>3 DEF ScenariosNext, Syncs, Acts
    <3> QED BY <1>1, <3>1
  <2>4. ASSUME NEW d \in Devices, Edits(d) PROVE StepKeeps
    BY <1>1, <1>4, <2>4 DEF ScenariosNext, Edits, Idle
  <2> QED BY <1>4, <2>1, <2>2, <2>3, <2>4 DEF ScenariosNext
<1> QED BY <1>3, <1>4

LEMMA ScenarioBegins ==
  ASSUME ScenariosInit
  PROVE  ScenarioInv
<1>1. TypeOK
  BY InitType DEF ScenariosInit
<1>2. /\ manifest = NoManifest /\ sync = [e \in Devices |-> IdleSync] /\ remote = [p \in Paths |-> Absent]
      /\ unsynced = [e \in Devices |-> {p \in DataPaths : disk[e][p] # Absent}]
  BY DEF ScenariosInit, Init
<1>3. \A d \in Devices : sync[d].at = "idle"
  BY <1>2 DEF IdleSync
<1>4. PICK d \in Devices : /\ HasProfile(d)
                           /\ \A e \in Devices : e # d => \A p \in Paths : disk[e][p] = Absent
  <2> DEFINE file == File([version |-> 0, stamp |-> 0])
  <2>1. file # Absent
    <3>1. [version |-> 0, stamp |-> 0] \in Content
      BY ProfileSyncAssumption DEF Content, Time
    <3> QED BY <1>1, <3>1, FileType
  <2>2. PICK d \in Devices : \E created \in SUBSET DataPaths :
          disk = [e \in Devices |-> [p \in Paths |->
                    IF e = d /\ p \in created \cup {Meta} THEN file ELSE Absent]]
    BY DEF ScenariosInit, Init
  <2> HIDE DEF file
  <2> QED BY <2>1, <2>2, ProfileSyncAssumption DEF HasProfile
<1>5. \A e \in Devices : unsynced[e] # {} => e = d
  BY <1>2, <1>4 DEF DataPaths
<1>6. Alone => Single = d
  BY <1>4, ScenariosAssumption, ProfileSyncAssumption DEF ScenariosInit, HasProfile
<1>7. \A e \in Devices : ChangesAreNewer(e)
  BY <1>2, <1>3, <1>4, <1>5 DEF ChangesAreNewer, Sends
<1>8. Alone => MyTurn(Single) /\ SingleIsNewer(Single)
  BY <1>2, <1>3, <1>4, <1>5, <1>6, ScenariosAssumption DEF MyTurn, Idle, SingleIsNewer, Sends, DataPaths
<1> QED BY <1>1, <1>2, <1>3, <1>7, <1>8 DEF ScenarioInv, OneAtATime, Idle

\* No change is replaced: where a sync ends later than the second of its newest
\* file and is not cut off between the manifest and the profile's save, a change of
\* a device that is alone, or whose turn it is, leaves it only to the store.
THEOREM ScenariosKeepChanges ==
  ASSUME FinishesLate
  PROVE  Scenarios => NoHiddenOverwrite
<1>1. ScenariosInit => ScenarioInv
  BY ScenarioBegins
<1>2. ScenarioInv /\ [ScenariosNext]_<<vars, scenario>> => ScenarioInv'
  BY ScenarioSteps DEF StepKeeps
<1>3. ScenarioInv /\ [ScenariosNext]_<<vars, scenario>> =>
        [\A d \in Devices : \A p \in (unsynced[d] \ unsynced'[d]) \ removed' :
           remote'[p] = disk[d][p].data]_vars
  BY ScenarioSteps DEF StepKeeps, ChangesGoToStore
<1> QED BY <1>1, <1>2, <1>3, PTL DEF Scenarios, NoHiddenOverwrite

\* A file stays on a device that is alone until a browser removes it.
LEMMA StaysOnDisk ==
  ASSUME TypeOK, NEW d \in Devices, Alone, SingleIsNewer(d), SyncStep(d) \/ Edit(d) \/ CutShort(d),
         NEW p \in DataPaths, p \notin removed'
  PROVE  p \notin removed /\ (disk[d][p] # Absent => disk'[d][p] # Absent)
<1> USE DEF TypeOK
<1>1. p \in Paths /\ p # Meta
  BY DEF DataPaths
<1>2. Sends(d)
  BY DEF SingleIsNewer
<1>3. CASE \/ GenerateManifest(d) \/ FetchManifest(d) \/ UploadMetadata(d) \/ UploadManifest(d)
           \/ RecoverProfile(d) \/ CutShort(d)
  BY <1>3 DEF GenerateManifest, FetchManifest, UploadMetadata, UploadManifest, RecoverProfile,
              CutShort, Abort, Exit
<1>4. ASSUME NEW q \in Paths, NEW ok \in BOOLEAN, UploadFile(d, q, ok) \/ DeleteRemoteFile(d, q, ok)
      PROVE  p \notin removed /\ (disk[d][p] # Absent => disk'[d][p] # Absent)
  BY <1>4 DEF UploadFile, DeleteRemoteFile
<1>5. ~DeleteLocalFiles(d) /\ \A q \in Paths, ok \in BOOLEAN : ~DownloadFile(d, q, ok)
  BY <1>2 DEF DeleteLocalFiles, DownloadFile, Sends
<1>6. CASE SaveProfile(d) \/ SaveRecovered(d) \/ EditSettings(d)
  BY <1>1, <1>6 DEF SaveProfile, SaveRecovered, EditSettings
<1>7. ASSUME NEW q \in DataPaths, EditFile(d, q)
      PROVE  p \notin removed /\ (disk[d][p] # Absent => disk'[d][p] # Absent)
  <2> DEFINE file == File([version |-> version', stamp |-> 0])
  <2>1. disk' = [disk EXCEPT ![d][q] = file] /\ UNCHANGED removed
    BY <1>7 DEF EditFile
  <2>2. file \in Stored /\ file # Absent
    <3>1. version' \in 0 .. MaxVersion /\ 0 \in Time
      BY <1>7, ProfileSyncAssumption DEF EditFile, MayEdit, Time
    <3> QED BY <3>1, ContentType, FileType
  <2> HIDE DEF file
  <2>3. q \in Paths
    BY DEF DataPaths
  <2> QED BY <1>1, <2>1, <2>2, <2>3, Written
<1>8. ASSUME NEW q \in DataPaths, RemoveFile(d, q)
      PROVE  p \notin removed /\ (disk[d][p] # Absent => disk'[d][p] # Absent)
  <2>1. p # q /\ p \notin removed
    BY <1>8 DEF RemoveFile
  <2> QED BY <1>1, <1>8, <2>1 DEF RemoveFile, DataPaths
<1> QED BY <1>3, <1>4, <1>5, <1>6, <1>7, <1>8 DEF SyncStep, Edit

\* What a step does not lose.
KeepsFiles == \A p \in DataPaths \ removed' : Kept(p) => Kept(p)'

LEMMA AloneStep ==
  ASSUME ScenarioInv, Alone, [ScenariosNext]_<<vars, scenario>>
  PROVE  Alone' /\ KeepsFiles
<1>1. TypeOK /\ SingleIsNewer(Single) /\ Single \in Devices
  BY ScenariosAssumption DEF ScenarioInv
<1>2. ASSUME SyncStep(Single) \/ Edit(Single) \/ CutShort(Single) PROVE KeepsFiles
  <2>1. ASSUME NEW p \in DataPaths, p \notin removed', Kept(p) PROVE Kept(p)'
    <3>1. p \notin removed /\ (disk[Single][p] # Absent => disk'[Single][p] # Absent)
      BY <1>1, <1>2, <2>1, StaysOnDisk
    <3>2. CASE remote[p] # Absent \/ disk[Single][p] # Absent
      <4>1. disk[Single][p] # Absent
        BY <1>1, <2>1, <3>1, <3>2 DEF SingleIsNewer
      <4> QED BY <1>1, <3>1, <4>1 DEF Kept
    <3>3. ASSUME NEW e \in Devices, e # Single, disk[e][p] # Absent PROVE Kept(p)'
      <4>1. disk'[e] = disk[e]
        BY <1>1, <1>2, <3>3, OthersRest
      <4> QED BY <3>3, <4>1 DEF Kept
    <3> QED BY <2>1, <3>2, <3>3 DEF Kept
  <2> QED BY <2>1 DEF KeepsFiles
<1>3. ASSUME Tick \/ UNCHANGED vars PROVE KeepsFiles
  <2>1. UNCHANGED disk /\ UNCHANGED remote
    BY <1>3 DEF Tick, vars
  <2>2. ASSUME NEW p, Kept(p) PROVE Kept(p)'
    BY <2>1, <2>2 DEF Kept
  <2> QED BY <2>2 DEF KeepsFiles
<1>5. KeepsFiles
  BY <1>2, <1>3 DEF ScenariosNext, Syncs, Edits, Fails, Acts, CutShort
<1>6. Alone'
  BY DEF ScenariosNext, Alone
<1> QED BY <1>5, <1>6

\* No file that a browser of a device that is alone has written, and none has
\* removed, is lost, whatever requests fail.
THEOREM AloneKeepsFiles ==
  ASSUME FinishesLate
  PROVE  Scenarios /\ Alone => NothingVanishes
<1>1. ScenariosInit => ScenarioInv
  BY ScenarioBegins
<1>2. ScenarioInv /\ [ScenariosNext]_<<vars, scenario>> => ScenarioInv'
  BY ScenarioSteps DEF StepKeeps
<1>3. ScenarioInv /\ Alone /\ [ScenariosNext]_<<vars, scenario>> => Alone'
  BY AloneStep
<1>4. ScenarioInv /\ Alone /\ [ScenariosNext]_<<vars, scenario>> =>
        [\A p \in DataPaths \ removed' : Kept(p) => Kept(p)']_vars
  BY AloneStep DEF KeepsFiles
<1> QED BY <1>1, <1>2, <1>3, <1>4, PTL DEF Scenarios, NothingVanishes

-----------------------------------------------------------------------------
(* Two devices that take turns.  A file that is in the store and that no    *)
(* browser has removed is on a device that has a newer file than the        *)
(* manifest, which may delete it, and is listed by the manifest or already   *)
(* on the device, which otherwise would delete it as it fetches.  A sync     *)
(* that fetches leaves the manifest it began with, which may list less: it   *)
(* does no harm when every other device is newer and has every file.  (With  *)
(* a third one, or when a download fails, it does.)  A sync that sends and   *)
(* fails is repeated before another device's: it finds what it found before. *)

Has(d, p) == disk[d][p] # Absent
InStore == {p \in DataPaths \ removed : remote[p] # Absent}
Full(d) == \A p \in InStore : Has(d, p)
Complete == \A p \in InStore : manifest.files[p] # Absent
UpTo(d, time) == \A p \in OnDisk(d) : disk[d][p].mtime <= time
Behind(d) == manifest # NoManifest /\ UpTo(d, manifest.updatedAt)

\* What holds of a device between its syncs.
AtRest(d) ==
  /\ HasProfile(d) /\ ~Behind(d) => Full(d)
  /\ manifest # NoManifest => Complete \/ Newer(d, Meta)

\* A file is in the store or is a change; the others have nothing newer than a change.
Accounted(d) ==
  /\ UpTo(d, clock)
  /\ \A p \in DataPaths \ removed : Has(d, p) => p \in unsynced[d] \/ remote[p] # Absent
  /\ \A p \in unsynced[d] : /\ Has(d, p)
                            /\ \A e \in Devices : e # d => UpTo(e, disk[d][p].mtime)

ListsMeta == manifest # NoManifest => manifest.files[Meta] # Absent

\* Whoever wrote the manifest has a newer profile.
Author == manifest # NoManifest /\ (\A d \in Devices : sync[d].at # "save")
            => \E w \in Devices : Newer(w, Meta)

ListsDisk(d) == \A p \in Paths : sync[d].local.files[p] # Absent <=> Has(d, p)

\* What a device lists that has something to send.
Ahead(local) ==
  manifest # NoManifest => /\ local.updatedAt > manifest.updatedAt
                           /\ \E p \in Paths : local.files[p] # manifest.files[p]
OthersAllow(d, local) ==
  \A e \in Devices : e # d /\ HasProfile(e) => Full(e) \/ UpTo(e, local.updatedAt)

Fetching(d) ==
  /\ sync[d].local = LocalManifest(d)
  /\ HasProfile(d) /\ ListsDisk(d) /\ UpTo(d, sync[d].local.updatedAt)
  /\ \E p \in OnDisk(d) : disk[d][p].mtime = sync[d].local.updatedAt

Sending(d) ==
  /\ sync[d].todo.download = {} /\ sync[d].todo.deleteLocal = {}
  /\ HasProfile(d) /\ Full(d) /\ ListsDisk(d) /\ UpTo(d, sync[d].local.updatedAt)
  /\ \A p \in sync[d].todo.deleteRemote : ~Has(d, p)
  /\ sync[d].local = LocalManifest(d) /\ Ahead(sync[d].local)
  /\ OthersAllow(d, sync[d].local)

\* After a failure.
Resending(d) == /\ HasProfile(d) /\ Full(d) /\ Ahead(LocalManifest(d))
                /\ OthersAllow(d, LocalManifest(d))

Missing(d) == \A p \in InStore : Has(d, p) \/ p \in sync[d].todo.download

Receiving(d) ==
  /\ sync[d].todo.upload = {} /\ sync[d].todo.deleteRemote = {}
  /\ manifest # NoManifest /\ sync[d].local.updatedAt <= manifest.updatedAt
  /\ sync[d].local.files[Meta] # Absent
  /\ unsynced[d] = {} /\ HasProfile(d)
  /\ \A p \in sync[d].todo.deleteLocal : p # Meta /\ p \in removed
  /\ Missing(d) /\ Complete
  /\ \A e \in Devices : e # d => Newer(e, Meta) /\ Full(e)

Recovering(d) ==
  /\ manifest # NoManifest /\ sync[d].local = manifest
  /\ sync[d].todo.deleteLocal = {}
  /\ Missing(d) /\ Complete

OthersAtRest(d) == \A e \in Devices : e # d => AtRest(e)
AllAtRest(d) == OthersAtRest(d) /\ AtRest(d)

Turn(d) ==
  /\ sync[d].at = "idle" => AllAtRest(d)
  /\ sync[d].at = "failed" => AllAtRest(d) \/ Resending(d)
  /\ sync[d].at = "fetch" => Fetching(d) /\ (AllAtRest(d) \/ Resending(d))
  /\ sync[d].at \in {"transfer", "manifest"} => Sending(d) \/ Receiving(d)
  /\ sync[d].at = "manifest" => sync[d].todo = EmptyDiff
  /\ sync[d].at = "save" => OthersAtRest(d) /\ HasProfile(d) /\ Full(d)
  /\ sync[d].at = "recover" => OthersAtRest(d) /\ Recovering(d)

FilesAccounted == \A d \in Devices : Accounted(d)
TurnsInv == /\ FilesAccounted /\ Author /\ ListsMeta
            /\ \A d \in Devices : MyTurn(d) => Turn(d)

AtMostTwo == \A d, e, f \in Devices : d # e /\ d # f => e = f

\* What the device whose turn it is knows, and what its step has to keep.
TurnBegins(d) == /\ TypeOK /\ MyTurn(d) /\ ActorInv(d) /\ ~Alone
                 /\ FilesAccounted /\ Author /\ ListsMeta /\ Turn(d)
OthersSame(d) ==
  \A e \in Devices : e # d =>
    disk'[e] = disk[e] /\ sync'[e] = sync[e] /\ unsynced'[e] = unsynced[e]
NothingLost ==
  \A p \in DataPaths \ removed' :
    /\ remote[p] # Absent => remote'[p] # Absent
    /\ \A e \in Devices : disk[e][p] # Absent => disk'[e][p] # Absent
TurnEnds(d) == NothingLost /\ FilesAccounted' /\ Author' /\ ListsMeta' /\ Turn(d)'

LEMMA Times ==
  ASSUME TypeOK, NEW d \in Devices
  PROVE  /\ clock \in Nat
         /\ \A p \in OnDisk(d) : disk[d][p] \in Files /\ disk[d][p].mtime \in Nat
         /\ manifest # NoManifest => manifest.updatedAt \in Nat /\ manifest.files \in Listing
         /\ sync[d].at \notin {"idle", "failed"} => sync[d].local.updatedAt \in Nat /\ sync[d].local \in Manifest
<1>1. clock \in Nat
  BY ProfileSyncAssumption DEF TypeOK, Time
<1>2. \A p \in OnDisk(d) : disk[d][p] \in Files /\ disk[d][p].mtime \in Nat
  BY ProfileSyncAssumption DEF OnDisk, TypeOK, Stored, Files, Time
<1>3. manifest # NoManifest => manifest.updatedAt \in Nat /\ manifest.files \in Listing
  BY DEF TypeOK, Manifest
<1>4. sync[d].at \notin {"idle", "failed"} => sync[d].local.updatedAt \in Nat /\ sync[d].local \in Manifest
  BY SyncTypes DEF SyncStates, Manifest
<1> QED BY <1>1, <1>2, <1>3, <1>4

\* How a step may change the files of the device.
WritesNow(d) ==
  \A p \in Paths : \/ disk'[d][p] = disk[d][p] \/ disk'[d][p] = Absent
                   \/ disk'[d][p] # Absent /\ disk'[d][p].mtime = clock
ChangesNow(d) ==
  \A p \in unsynced'[d] : /\ disk'[d][p] # Absent
                          /\ p \in unsynced[d] \/ disk'[d][p].mtime = clock
StillAccounted(d) ==
  \A p \in DataPaths \ removed' : disk'[d][p] # Absent => p \in unsynced'[d] \/ remote'[p] # Absent

LEMMA StepAccounts ==
  ASSUME NEW d \in Devices, TurnBegins(d), TypeOK', OthersSame(d), clock' = clock,
         removed \subseteq removed', NothingLost, WritesNow(d), ChangesNow(d), StillAccounted(d)
  PROVE  FilesAccounted'
<1>0. TypeOK /\ FilesAccounted /\ clock \in Nat
  BY Times DEF TurnBegins
<1>1. ASSUME NEW e \in Devices, e # d PROVE Accounted(e)'
  <2>1. disk'[e] = disk[e] /\ unsynced'[e] = {} /\ Accounted(e)
    BY <1>0, <1>1 DEF OthersSame, TurnBegins, MyTurn, FilesAccounted
  <2>2. UpTo(e, clock)'
    BY <2>1 DEF Accounted, UpTo, OnDisk
  <2>3. \A p \in DataPaths \ removed' : Has(e, p)' => p \in unsynced'[e] \/ remote'[p] # Absent
    <3>1. unsynced[e] = {}
      BY <1>1 DEF TurnBegins, MyTurn
    <3> QED BY <2>1, <3>1 DEF Accounted, Has, NothingLost
  <2> QED BY <2>1, <2>2, <2>3 DEF Accounted
<1>2. Accounted(d)'
  <2>1. UpTo(d, clock)'
    BY <1>0 DEF FilesAccounted, Accounted, UpTo, OnDisk, WritesNow
  <2>2. ASSUME NEW p \in unsynced'[d], NEW e \in Devices, e # d PROVE UpTo(e, disk[d][p].mtime)'
    <3>1. disk'[e] = disk[e] /\ UpTo(e, clock)
      BY <1>0, <2>2 DEF OthersSame, FilesAccounted, Accounted
    <3>2. p \in Paths
      BY DEF TypeOK, DataPaths
    <3>3. CASE disk'[d][p].mtime = clock
      BY <3>1, <3>3 DEF UpTo, OnDisk
    <3>4. CASE disk'[d][p].mtime # clock
      <4>1. disk'[d][p] = disk[d][p] /\ p \in unsynced[d]
        BY <3>2, <3>4 DEF ChangesNow, WritesNow
      <4> QED BY <1>0, <2>2, <3>1, <4>1 DEF FilesAccounted, Accounted, UpTo, OnDisk
    <3> QED BY <3>3, <3>4
  <2> QED BY <2>1, <2>2 DEF Accounted, ChangesNow, StillAccounted, Has
<1> QED BY <1>1, <1>2 DEF FilesAccounted

\* The author of the manifest stays newer.
LEMMA StepAuthor ==
  ASSUME NEW d \in Devices, TurnBegins(d), OthersSame(d), UNCHANGED <<clock, manifest>>,
         sync[d].at # "save", sync'[d].at # "save",
         disk'[d][Meta] = disk[d][Meta] \/ (disk'[d][Meta] # Absent /\ disk'[d][Meta].mtime = clock)
  PROVE  Author' /\ ListsMeta'
<1>1. ListsMeta'
  BY DEF TurnBegins, ListsMeta
<1>2. ASSUME manifest # NoManifest PROVE \E w \in Devices : Newer(w, Meta)'
  <2>1. \A e \in Devices : sync[e].at # "save"
    BY DEF TurnBegins, MyTurn, Idle
  <2>2. PICK w \in Devices : Newer(w, Meta)
    BY <1>2, <2>1 DEF TurnBegins, Author
  <2>3. clock > manifest.updatedAt
    BY <1>2 DEF TurnBegins, ActorInv, ManifestIsPast
  <2>4. Newer(w, Meta)'
    BY <2>2, <2>3 DEF OthersSame, Newer
  <2> QED BY <2>4
<1>3. Author'
  BY <1>2 DEF Author
<1> QED BY <1>1, <1>3

\* A device at rest, or that has every file, does not notice a step that leaves the
\* manifest and puts nothing into the store.
LEMMA RestStays ==
  ASSUME NEW e \in Devices, disk'[e] = disk[e], InStore' \subseteq InStore
  PROVE  /\ Full(e) => Full(e)'
         /\ HasProfile(e)' <=> HasProfile(e)
         /\ AtRest(e) /\ manifest' = manifest => AtRest(e)'
         /\ Newer(e, Meta) /\ manifest' = manifest => Newer(e, Meta)'
         /\ \A time : UpTo(e, time) => UpTo(e, time)'
<1>1. Full(e) => Full(e)'
  BY DEF Full, Has
<1>2. \A time : UpTo(e, time) <=> UpTo(e, time)'
  BY DEF UpTo, OnDisk
<1>3. HasProfile(e)' <=> HasProfile(e)
  BY DEF HasProfile
<1>4. Newer(e, Meta) /\ manifest' = manifest => Newer(e, Meta)'
  BY DEF Newer
<1>5. Complete /\ manifest' = manifest => Complete'
  BY DEF Complete
<1>6. manifest' = manifest => (Behind(e)' <=> Behind(e))
  BY DEF Behind, UpTo, OnDisk
<1> QED BY <1>1, <1>2, <1>3, <1>4, <1>5, <1>6 DEF AtRest

\* A directory that is listed again has the same manifest.
LEMMA HashAgain ==
  ASSUME NEW d \in Devices, TypeOK, GenerateManifest(d)
  PROVE  LocalManifest(d)' = LocalManifest(d)
<1>1. disk' = disk /\ OnDisk(d)' = OnDisk(d)
  BY DEF GenerateManifest, OnDisk
<1>2. ASSUME NEW p \in OnDisk(d) PROVE HashOf(d, p)' = HashOf(d, p)
  <2> DEFINE entry == [data |-> HashOf(d, p), mtime |-> disk[d][p].mtime]
  <2>1. p \in Paths
    BY DEF OnDisk
  <2>2. cache'[d] = [q \in Paths |-> IF q \notin OnDisk(d) THEN cache[d][q]
                     ELSE [data |-> HashOf(d, q), mtime |-> disk[d][q].mtime]]
    BY DEF GenerateManifest, TypeOK
  <2>3. cache'[d][p] = entry
    BY <2>1, <2>2, <1>2
  <2>4. entry \in [data : Content, mtime : Time] /\ entry # Absent
    <3>1. HashOf(d, p) \in Content
      BY <1>2, <2>1, ProfileSyncAssumption DEF HashOf, CacheHit, TypeOK, Stored, Files, OnDisk
    <3>2. disk[d][p].mtime \in Time
      BY <1>2, <2>1 DEF TypeOK, Stored, Files, OnDisk
    <3> QED BY <3>1, <3>2, ProfileSyncAssumption
  <2>5. entry.data = HashOf(d, p) /\ entry.mtime = disk[d][p].mtime
    OBVIOUS
  <2>6. SameSize \/ HashOf(d, p) = disk[d][p].data
    BY DEF HashOf, CacheHit
  <2> HIDE DEF entry
  <2> QED BY <1>1, <2>3, <2>4, <2>5, <2>6 DEF HashOf, CacheHit
<1> QED BY <1>1, <1>2 DEF LocalManifest

LEMMA SameFiles ==
  ASSUME NEW d \in Devices, disk'[d] = disk[d], cache'[d] = cache[d]
  PROVE  LocalManifest(d)' = LocalManifest(d)
  BY DEF LocalManifest, OnDisk, HashOf, CacheHit

\* A step that puts nothing into the store leaves what the others allow.
LEMMA AllowStays ==
  ASSUME NEW d \in Devices, OthersSame(d), InStore' \subseteq InStore, NEW local
  PROVE  OthersAllow(d, local) => (\A e \in Devices :
           e # d /\ HasProfile(e)' => Full(e)' \/ UpTo(e, local.updatedAt)')
  BY RestStays DEF OthersAllow, OthersSame

LEMMA TurnGenerates ==
  ASSUME NEW d \in Devices, TurnBegins(d), TypeOK', OthersSame(d), UNCHANGED scenario,
         GenerateManifest(d) \/ RecoverProfile(d)
  PROVE  TurnEnds(d)
<1>1. /\ UNCHANGED <<clock, version, disk, remote, remoteMeta, manifest, unsynced, removed>>
      /\ sync[d].at \in {"idle", "failed"} /\ (AllAtRest(d) \/ Resending(d))
  BY DEF GenerateManifest, RecoverProfile, Idle, TurnBegins, Turn
<1>2. NothingLost /\ WritesNow(d) /\ ChangesNow(d) /\ StillAccounted(d)
  BY <1>1 DEF NothingLost, WritesNow, ChangesNow, StillAccounted, TurnBegins, FilesAccounted, Accounted, Has
<1>3. sync'[d].at # "save"
  BY DEF GenerateManifest, RecoverProfile, TurnBegins, TypeOK
<1>4. FilesAccounted' /\ Author' /\ ListsMeta'
  BY <1>1, <1>2, <1>3, StepAccounts, StepAuthor
<1>5. InStore' = InStore
  BY <1>1 DEF InStore
<1>6. AllAtRest(d) => AllAtRest(d)'
  BY <1>1, <1>5, RestStays DEF AllAtRest, OthersAtRest
<1>7. CASE GenerateManifest(d)
  <2>1. /\ sync'[d].at = "fetch" /\ sync'[d].local = LocalManifest(d) /\ HasProfile(d)
    BY <1>7 DEF GenerateManifest, TurnBegins, TypeOK
  <2>2. ListsDisk(d)'
    <3>1. ASSUME NEW p \in Paths PROVE LocalManifest(d).files[p] # Absent <=> Has(d, p)
      BY <2>1, LocalManifestType, ManifestAssumption, ProfileSyncAssumption
         DEF LocalManifest, OnDisk, Has, TurnBegins
    <3> QED BY <1>1, <2>1, <3>1 DEF ListsDisk, Has
  <2>3. LocalManifest(d)' = LocalManifest(d)
    BY <1>7, HashAgain DEF TurnBegins
  <2>4. Fetching(d)'
    BY <1>1, <2>1, <2>2, <2>3, LocalManifestType DEF Fetching, HasProfile, UpTo, OnDisk, TurnBegins
  <2>5. Resending(d) => Resending(d)'
    BY <1>1, <1>5, <2>3, AllowStays, RestStays DEF Resending, Ahead, OthersAllow
  <2> QED BY <1>1, <1>2, <1>4, <1>6, <2>1, <2>4, <2>5 DEF TurnEnds, Turn
<1>8. CASE RecoverProfile(d)
  <2>1. /\ sync'[d].at = "recover" /\ sync'[d].local = manifest /\ sync'[d].todo.deleteLocal = {}
        /\ sync'[d].todo.download = Listed(manifest.files)
        /\ manifest # NoManifest /\ ~HasProfile(d)
    BY <1>8 DEF RecoverProfile, TurnBegins, TypeOK, Diff
  <2>2. AllAtRest(d)
    BY <1>1, <2>1 DEF Resending
  <2>3. Complete
    BY <2>1, <2>2 DEF AllAtRest, AtRest, Newer, HasProfile
  <2>4. Recovering(d)'
    BY <1>1, <1>5, <2>1, <2>3 DEF Recovering, Missing, Complete, Listed, InStore, DataPaths
  <2> QED BY <1>2, <1>4, <1>6, <2>1, <2>2, <2>4 DEF TurnEnds, Turn, AllAtRest
<1> QED BY <1>7, <1>8

\* A device decides to send when it is newer than the manifest, and then has every
\* file; otherwise the manifest lists every file and whoever wrote it has them too.
LEMMA TurnDecides ==
  ASSUME NEW d \in Devices, TurnBegins(d), TypeOK', OthersSame(d), UNCHANGED scenario, AtMostTwo,
         FetchManifest(d)
  PROVE  TurnEnds(d)
<1> DEFINE diff == ComputeDiff(sync[d].local, manifest)
<1>1. /\ UNCHANGED <<clock, version, disk, remote, remoteMeta, manifest, unsynced, removed>>
      /\ sync[d].at = "fetch" /\ (AllAtRest(d) \/ Resending(d)) /\ Fetching(d) /\ cache' = cache
  BY DEF FetchManifest, TurnBegins, Turn
<1>2. NothingLost /\ WritesNow(d) /\ ChangesNow(d) /\ StillAccounted(d)
  BY <1>1 DEF NothingLost, WritesNow, ChangesNow, StillAccounted, TurnBegins, FilesAccounted, Accounted, Has
<1>3. \/ sync'[d].at = "idle" /\ diff = EmptyDiff
      \/ /\ sync'[d].at = "transfer" /\ sync'[d].todo = diff /\ sync'[d].local = sync[d].local
         /\ diff # EmptyDiff
  <2>1. sync[d] \in SyncStates
    BY <1>1, SyncTypes DEF TurnBegins
  <2> QED BY <2>1 DEF FetchManifest, TurnBegins, TypeOK, IdleSync, SyncStates
<1>4. FilesAccounted' /\ Author' /\ ListsMeta'
  BY <1>1, <1>2, <1>3, StepAccounts, StepAuthor
<1>5. InStore' = InStore
  BY <1>1 DEF InStore
<1>6. CASE sync'[d].at = "idle"
  <2>1. ~Resending(d)
    <3>1. ASSUME Resending(d) PROVE diff # EmptyDiff
      <4>1. Ahead(sync[d].local) /\ sync[d].local.files[Meta] # Absent /\ Meta \in Paths
        BY <1>1, <3>1, ProfileSyncAssumption DEF Resending, Fetching, ListsDisk, HasProfile, Has
      <4>2. CASE manifest = NoManifest
        BY <4>1, <4>2 DEF ComputeDiff, Diff, EmptyDiff, Listed
      <4>3. CASE manifest # NoManifest
        <5>1. PICK p \in Paths : sync[d].local.files[p] # manifest.files[p]
          BY <4>1, <4>3 DEF Ahead
        <5>2. diff.upload = Changed(sync[d].local.files, manifest.files)
          BY <4>1, <4>3 DEF ComputeDiff, Diff, LocalIsNewer, Ahead
        <5>3. diff.deleteRemote = Surplus(sync[d].local.files, manifest.files)
          BY <4>1, <4>3 DEF ComputeDiff, Diff, LocalIsNewer, Ahead
        <5>4. p \in diff.upload \/ p \in diff.deleteRemote
          BY <5>1, <5>2, <5>3 DEF Changed, Surplus, Listed
        <5> QED BY <5>4 DEF EmptyDiff, Diff
      <4> QED BY <4>2, <4>3
    <3>2. diff = EmptyDiff
      BY <1>3, <1>6
    <3> QED BY <3>1, <3>2
  <2>2. AllAtRest(d)'
    BY <1>1, <1>5, <2>1, RestStays DEF AllAtRest, OthersAtRest
  <2> QED BY <1>2, <1>4, <1>6, <2>2 DEF TurnEnds, Turn
<1>7. /\ sync[d].local.updatedAt \in Nat /\ sync[d].local \in Manifest
      /\ manifest # NoManifest => manifest.updatedAt \in Nat
      /\ \A e \in Devices : \A p \in OnDisk(e) : disk[e][p].mtime \in Nat
  BY <1>1, Times DEF TurnBegins
<1>8. HasProfile(d) /\ ListsDisk(d) /\ UpTo(d, sync[d].local.updatedAt)
  BY <1>1 DEF Fetching
<1>12. sync[d].local = LocalManifest(d) /\ sync[d].local = LocalManifest(d)'
  BY <1>1, SameFiles DEF Fetching
<1>9. ASSUME sync'[d].at # "idle", manifest = NoManifest \/ sync[d].local.updatedAt > manifest.updatedAt
      PROVE  Sending(d)'
  <2>1. /\ diff.download = {} /\ diff.deleteLocal = {}
        /\ \A p \in diff.deleteRemote : p \in Paths /\ sync[d].local.files[p] = Absent
    BY <1>9 DEF ComputeDiff, Diff, LocalIsNewer, Surplus, Listed
  <2>2. ~Behind(d)
    BY <1>1, <1>7, <1>9 DEF Fetching, Behind, UpTo
  <2>3. Full(d)
    BY <1>1, <1>8, <2>2 DEF AllAtRest, AtRest, Resending
  <2>4. OthersAllow(d, sync[d].local)
    <3>1. CASE AllAtRest(d)
      BY <1>7, <1>9, <3>1 DEF AllAtRest, OthersAtRest, AtRest, Behind, UpTo, OthersAllow
    <3> QED BY <1>1, <1>12, <3>1 DEF Resending
  <2>5. \A p \in diff.deleteRemote : ~Has(d, p)
    BY <1>8, <2>1 DEF ListsDisk
  <2>7. diff # EmptyDiff
    BY <1>3, <1>9
  <2>8. Ahead(sync[d].local)
    <3>1. ASSUME manifest # NoManifest PROVE \E p \in Paths : sync[d].local.files[p] # manifest.files[p]
      <4>1. diff = Diff(Changed(sync[d].local.files, manifest.files), {}, {},
                        Surplus(sync[d].local.files, manifest.files))
        BY <1>9, <3>1 DEF ComputeDiff, LocalIsNewer
      <4>2. PICK p \in Paths : \/ p \in Changed(sync[d].local.files, manifest.files)
                              \/ p \in Surplus(sync[d].local.files, manifest.files)
        BY <2>7, <4>1 DEF Changed, Surplus, Listed, EmptyDiff
      <4> QED BY <4>2 DEF Changed, Surplus, Listed
    <3> QED BY <1>9, <3>1 DEF Ahead
  <2> HIDE DEF diff
  <2>6. sync'[d].todo = diff /\ sync'[d].local = sync[d].local
    BY <1>3, <1>9
  <2>9. OthersAllow(d, sync[d].local)'
    BY <1>5, <2>4, <2>6, AllowStays DEF OthersAllow
  <2>10. Ahead(sync[d].local)'
    BY <1>1, <2>6, <2>8 DEF Ahead
  <2> QED BY <1>1, <1>5, <1>8, <1>12, <2>1, <2>3, <2>5, <2>6, <2>9, <2>10
          DEF Sending, Full, Has, HasProfile, ListsDisk, UpTo, OnDisk
<1>10. ASSUME sync'[d].at # "idle", ~(manifest = NoManifest \/ sync[d].local.updatedAt > manifest.updatedAt)
       PROVE  Receiving(d)'
  <2>1. manifest # NoManifest /\ sync[d].local.updatedAt <= manifest.updatedAt
    BY <1>7, <1>10
  <2>12. OthersAtRest(d) /\ AtRest(d)
    <3>1. ~Ahead(sync[d].local)
      BY <1>10 DEF Ahead
    <3> QED BY <1>1, <1>12, <3>1 DEF Resending, AllAtRest
  <2>2. /\ diff.upload = {} /\ diff.deleteRemote = {}
        /\ diff.download = Changed(manifest.files, sync[d].local.files)
        /\ diff.deleteLocal = Surplus(manifest.files, sync[d].local.files)
    BY <1>10 DEF ComputeDiff, Diff, LocalIsNewer
  <2>3. unsynced[d] = {}
    BY <1>1, <1>7, <2>1 DEF TurnBegins, ActorInv, ChangesAreNewer, Sends
  <2>4. Meta \in OnDisk(d) /\ UpTo(d, manifest.updatedAt)
    BY <1>7, <1>8, <2>1, ProfileSyncAssumption DEF HasProfile, OnDisk, UpTo
  <2>5. ~Newer(d, Meta)
    BY <1>7, <2>1, <2>4 DEF Newer, UpTo
  <2>6. Complete
    BY <2>1, <2>5, <2>12 DEF AtRest
  <2>7. ASSUME NEW e \in Devices, e # d PROVE Newer(e, Meta) /\ Full(e)
    <3>1. \A f \in Devices : sync[f].at # "save"
      BY <1>1 DEF TurnBegins, MyTurn, Idle
    <3>2. PICK w \in Devices : Newer(w, Meta)
      BY <2>1, <3>1 DEF TurnBegins, Author
    <3>3. w = e
      BY <2>5, <2>7, <3>2 DEF AtMostTwo
    <3>4. HasProfile(e) /\ ~Behind(e)
      BY <1>7, <2>1, <3>2, <3>3, ProfileSyncAssumption DEF Newer, HasProfile, Behind, UpTo, OnDisk
    <3> QED BY <2>7, <2>12, <3>2, <3>3, <3>4 DEF OthersAtRest, AtRest
  <2>8. ASSUME NEW p \in diff.deleteLocal PROVE p # Meta /\ p \in removed
    <3>1. p \in Paths /\ sync[d].local.files[p] # Absent /\ manifest.files[p] = Absent
      BY <2>2, <2>8 DEF Surplus, Listed
    <3>2. p # Meta
      BY <2>1, <3>1 DEF TurnBegins, ListsMeta
    <3>3. Has(d, p)
      BY <1>8, <3>1 DEF ListsDisk
    <3>4. p \notin removed => p \in InStore
      BY <2>3, <3>1, <3>2, <3>3 DEF TurnBegins, FilesAccounted, Accounted, InStore, DataPaths
    <3> QED BY <2>6, <3>1, <3>2, <3>4 DEF Complete
  <2>9. ASSUME NEW p \in InStore PROVE Has(d, p) \/ p \in diff.download
    <3>1. p \in Paths /\ manifest.files[p] # Absent
      BY <2>6 DEF Complete, InStore, DataPaths
    <3> QED BY <1>8, <2>2, <3>1 DEF ListsDisk, Changed, Listed
  <2>10. sync[d].local.files[Meta] # Absent
    BY <1>8, ProfileSyncAssumption DEF ListsDisk, HasProfile, Has
  <2> HIDE DEF diff
  <2>11. sync'[d].todo = diff /\ sync'[d].local = sync[d].local
    BY <1>3, <1>10
  <2>13. Complete'
    BY <1>1, <1>5, <2>6 DEF Complete
  <2> QED BY <1>1, <1>5, <1>8, <2>1, <2>2, <2>3, <2>7, <2>8, <2>9, <2>10, <2>11, <2>13
          DEF Receiving, Missing, Full, Has, HasProfile, Newer
<1>11. CASE sync'[d].at # "idle"
  <2>1. Sending(d)' \/ Receiving(d)'
    BY <1>9, <1>10, <1>11
  <2>2. sync'[d].at = "transfer"
    BY <1>3, <1>11
  <2> QED BY <1>2, <1>4, <2>1, <2>2 DEF TurnEnds, Turn
<1> QED BY <1>6, <1>11

\* What a sync that sends puts into the store is a change, later than all the others have.
LEMMA TurnUploads ==
  ASSUME NEW d \in Devices, TurnBegins(d), TypeOK', OthersSame(d), UNCHANGED scenario,
         NEW p \in Paths, NEW ok \in BOOLEAN, UploadFile(d, p, ok)
  PROVE  TurnEnds(d)
<1>1. /\ UNCHANGED <<clock, version, disk, cache, remoteMeta, manifest, removed>>
      /\ sync[d].at = "transfer" /\ Sending(d)
  BY DEF UploadFile, TurnBegins, Turn, Receiving
<1>2. /\ sync'[d].at = "transfer" /\ sync'[d].local = sync[d].local
      /\ sync'[d].todo.download = {} /\ sync'[d].todo.deleteLocal = {}
      /\ sync'[d].todo.deleteRemote = sync[d].todo.deleteRemote
  <2>1. sync[d] \in SyncStates
    BY <1>1, SyncTypes DEF TurnBegins
  <2> QED BY <1>1, <2>1 DEF UploadFile, TurnBegins, TypeOK, SyncStates, Diffs, Sending
<1>3. \/ UNCHANGED <<remote, unsynced>>
      \/ /\ disk[d][p] # Absent /\ disk[d][p].data # Absent /\ remote'[p] = disk[d][p].data
         /\ \A q \in Paths : q # p => remote'[q] = remote[q]
         /\ unsynced'[d] = unsynced[d] \ {p}
  <2>1. disk[d][p] # Absent => disk[d][p].data # Absent
    BY ManifestAssumption, ProfileSyncAssumption DEF TurnBegins, TypeOK, Stored, Files
  <2> QED BY <2>1 DEF UploadFile, TurnBegins, TypeOK
<1>4. NothingLost
  BY <1>1, <1>3 DEF NothingLost, DataPaths
<1>5. WritesNow(d) /\ ChangesNow(d) /\ StillAccounted(d)
  BY <1>1, <1>3 DEF WritesNow, ChangesNow, StillAccounted, TurnBegins, FilesAccounted, Accounted, Has, DataPaths
<1>6. FilesAccounted' /\ Author' /\ ListsMeta'
  BY <1>1, <1>2, <1>4, <1>5, StepAccounts, StepAuthor
<1>7. InStore' \subseteq InStore \cup {p} /\ (p \in InStore' => disk[d][p] # Absent \/ p \in InStore)
  BY <1>1, <1>3 DEF InStore, DataPaths
<1>8. Full(d)'
  BY <1>1, <1>7 DEF Sending, Full, Has
<1>9. ASSUME NEW e \in Devices, e # d, HasProfile(e) PROVE (Full(e) \/ UpTo(e, sync[d].local.updatedAt))'
  <2>1. disk'[e] = disk[e] /\ (UpTo(e, sync[d].local.updatedAt) => UpTo(e, sync[d].local.updatedAt)')
    BY <1>1, <1>2 DEF UpTo, OnDisk
  <2>2. CASE UpTo(e, sync[d].local.updatedAt)
    BY <2>1, <2>2
  <2>3. CASE Full(e) /\ (p \in InStore \/ p \notin InStore')
    BY <1>1, <1>7, <2>3 DEF Full, Has
  <2>4. CASE p \in InStore' /\ p \notin InStore
    <3>1. disk[d][p] # Absent /\ p \in DataPaths \ removed /\ remote[p] = Absent
      BY <1>1, <1>7, <2>4 DEF InStore
    <3>2. p \in unsynced[d]
      BY <3>1 DEF TurnBegins, FilesAccounted, Accounted, Has
    <3>3. UpTo(e, disk[d][p].mtime)
      BY <1>9, <3>2 DEF TurnBegins, FilesAccounted, Accounted
    <3>4. disk[d][p].mtime <= sync[d].local.updatedAt /\ p \in OnDisk(d)
      BY <1>1, <3>1 DEF Sending, UpTo, OnDisk
    <3>5. UpTo(e, sync[d].local.updatedAt)
      <4>1. /\ \A q \in OnDisk(e) : disk[e][q].mtime \in Nat
            /\ disk[d][p].mtime \in Nat /\ sync[d].local.updatedAt \in Nat
        BY <1>1, <3>4, Times DEF TurnBegins
      <4> QED BY <3>3, <3>4, <4>1 DEF UpTo
    <3> QED BY <2>1, <3>5
  <2> QED BY <1>1, <1>9, <2>2, <2>3, <2>4 DEF Sending, OthersAllow
<1>10. Sending(d)'
  <2>1. sync'[d].local = LocalManifest(d)' /\ Ahead(sync[d].local)'
    BY <1>1, <1>2, SameFiles DEF Sending, Ahead
  <2>2. OthersAllow(d, sync[d].local)'
    <3>1. \A e \in Devices : e # d => (HasProfile(e)' <=> HasProfile(e))
      BY <1>1 DEF HasProfile
    <3> QED BY <1>2, <1>9, <3>1 DEF OthersAllow
  <2> QED BY <1>1, <1>2, <1>8, <2>1, <2>2 DEF Sending, HasProfile, ListsDisk, Has, UpTo, OnDisk
<1> QED BY <1>2, <1>4, <1>6, <1>10 DEF TurnEnds, Turn

\* A sync that sends deletes what it does not have, which is nothing.
LEMMA TurnDeletesRemote ==
  ASSUME NEW d \in Devices, TurnBegins(d), TypeOK', OthersSame(d), UNCHANGED scenario,
         NEW p \in Paths, NEW ok \in BOOLEAN, DeleteRemoteFile(d, p, ok)
  PROVE  TurnEnds(d)
<1>1. /\ UNCHANGED <<clock, version, disk, cache, remoteMeta, manifest, removed, unsynced>>
      /\ sync[d].at = "transfer" /\ Sending(d) /\ ~Has(d, p)
  BY DEF DeleteRemoteFile, TurnBegins, Turn, Receiving, Sending
<1>2. /\ sync'[d].at = "transfer" /\ sync'[d].local = sync[d].local
      /\ sync'[d].todo.download = {} /\ sync'[d].todo.deleteLocal = {}
      /\ sync'[d].todo.deleteRemote \subseteq sync[d].todo.deleteRemote
  <2>1. sync[d] \in SyncStates
    BY <1>1, SyncTypes DEF TurnBegins
  <2> QED BY <1>1, <2>1 DEF DeleteRemoteFile, TurnBegins, TypeOK, SyncStates, Diffs, Sending
<1>3. p \notin InStore /\ \A q \in Paths : q # p => remote'[q] = remote[q]
  BY <1>1 DEF DeleteRemoteFile, TurnBegins, TypeOK, Sending, Full
<1>4. \A q \in DataPaths \ removed : remote[q] # Absent => remote'[q] = remote[q]
  BY <1>3 DEF InStore, DataPaths
<1>5. NothingLost /\ WritesNow(d) /\ ChangesNow(d) /\ StillAccounted(d)
  BY <1>1, <1>4 DEF NothingLost, WritesNow, ChangesNow, StillAccounted, TurnBegins, FilesAccounted, Accounted, Has
<1>6. FilesAccounted' /\ Author' /\ ListsMeta'
  BY <1>1, <1>2, <1>5, StepAccounts, StepAuthor
<1>7. InStore' \subseteq InStore
  <2>1. remote'[p] = Absent \/ remote'[p] = remote[p]
    BY DEF DeleteRemoteFile, TurnBegins, TypeOK
  <2> QED BY <1>1, <1>3, <2>1 DEF InStore, DataPaths
<1>8. Sending(d)'
  <2>1. sync'[d].local = LocalManifest(d)' /\ Ahead(sync[d].local)'
    BY <1>1, <1>2, SameFiles DEF Sending, Ahead
  <2>2. OthersAllow(d, sync[d].local)'
    BY <1>1, <1>2, <1>7, AllowStays DEF Sending, OthersAllow
  <2> QED BY <1>1, <1>2, <1>7, <2>1, <2>2 DEF Sending, Full, HasProfile, ListsDisk, Has, UpTo, OnDisk
<1> QED BY <1>2, <1>5, <1>6, <1>8 DEF TurnEnds, Turn

\* A file that is fetched is in the store.
LEMMA TurnDownloads ==
  ASSUME NEW d \in Devices, TurnBegins(d), TypeOK', OthersSame(d), UNCHANGED scenario,
         "download" \notin Failures,
         NEW p \in Paths, NEW ok \in BOOLEAN, DownloadFile(d, p, ok)
  PROVE  TurnEnds(d)
<1>1. /\ UNCHANGED <<clock, version, remote, remoteMeta, manifest, removed>> /\ ok
      /\ sync[d].at \in {"transfer", "recover"} /\ p \in sync[d].todo.download
      /\ sync[d].at = "transfer" => Receiving(d)
      /\ sync[d].at = "recover" => OthersAtRest(d) /\ Recovering(d)
  BY DEF DownloadFile, TurnBegins, Turn, Sending
<1>2. /\ sync'[d].at = sync[d].at /\ sync'[d].local = sync[d].local
      /\ sync'[d].todo.download = sync[d].todo.download \ {p}
      /\ sync'[d].todo.deleteLocal = sync[d].todo.deleteLocal
      /\ sync'[d].todo.upload = sync[d].todo.upload
      /\ sync'[d].todo.deleteRemote = sync[d].todo.deleteRemote
  <2>1. sync[d] \in SyncStates
    BY <1>1, SyncTypes DEF TurnBegins
  <2> QED BY <1>1, <2>1 DEF DownloadFile, TurnBegins, TypeOK, SyncStates, Diffs
<1>3. \/ UNCHANGED <<disk, unsynced>> /\ remote[p] = Absent
      \/ /\ disk'[d][p] # Absent /\ disk'[d][p].mtime = clock /\ remote[p] # Absent
         /\ \A q \in Paths : q # p => disk'[d][q] = disk[d][q]
         /\ unsynced'[d] = unsynced[d] \ {p}
  <2>1. CASE remote[p] # Absent
    <3>1. File(remote[p]) \in Stored /\ File(remote[p]) # Absent /\ File(remote[p]).mtime = clock
      BY <2>1, FileType DEF TurnBegins, TypeOK
    <3>2. disk' = [disk EXCEPT ![d][p] = File(remote[p])]
      BY <1>1, <2>1 DEF DownloadFile
    <3>3. \A q \in Paths : disk'[d][q] = IF q = p THEN File(remote[p]) ELSE disk[d][q]
      BY <3>1, <3>2, Written DEF TurnBegins
    <3>4. unsynced'[d] = unsynced[d] \ {p}
      BY <1>1, <2>1 DEF DownloadFile, TurnBegins, TypeOK
    <3> QED BY <2>1, <3>1, <3>3, <3>4
  <2>2. CASE remote[p] = Absent
    BY <2>2 DEF DownloadFile
  <2> QED BY <2>1, <2>2
<1>4. \A q \in Paths : Has(d, q) => disk'[d][q] # Absent
  BY <1>3 DEF Has
<1>5. NothingLost
  <2>1. \A q \in Paths, e \in Devices : disk[e][q] # Absent => disk'[e][q] # Absent
    BY <1>4 DEF OthersSame, Has
  <2> QED BY <1>1, <2>1 DEF NothingLost, DataPaths
<1>6. WritesNow(d) /\ ChangesNow(d)
  BY <1>3 DEF WritesNow, ChangesNow, TurnBegins, FilesAccounted, Accounted, Has, TypeOK, DataPaths
<1>7. StillAccounted(d)
  BY <1>1, <1>3 DEF StillAccounted, TurnBegins, FilesAccounted, Accounted, Has, DataPaths
<1>8. FilesAccounted'
  BY <1>1, <1>5, <1>6, <1>7, StepAccounts
<1>9. Author' /\ ListsMeta'
  <2>1. disk'[d][Meta] = disk[d][Meta] \/ (disk'[d][Meta] # Absent /\ disk'[d][Meta].mtime = clock)
    BY <1>3, ProfileSyncAssumption
  <2> QED BY <1>1, <1>2, <2>1, StepAuthor
<1>10. InStore' = InStore
  BY <1>1 DEF InStore
<1>11. Missing(d) => Missing(d)'
  <2>1. ASSUME Missing(d), NEW q \in InStore PROVE disk'[d][q] # Absent \/ q \in sync[d].todo.download \ {p}
    BY <1>3, <1>4, <2>1 DEF Missing, InStore, DataPaths, Has
  <2> QED BY <1>2, <1>10, <2>1 DEF Missing, Has
<1>12. CASE sync[d].at = "transfer"
  <2>1. HasProfile(d)'
    BY <1>1, <1>4, <1>12, ProfileSyncAssumption DEF Receiving, HasProfile, Has
  <2>2. \A e \in Devices : e # d => Newer(e, Meta)' /\ Full(e)'
    BY <1>1, <1>10, <1>12, RestStays DEF Receiving, OthersSame
  <2>3. unsynced'[d] = {}
    BY <1>1, <1>3, <1>12 DEF Receiving
  <2>5. Complete'
    BY <1>1, <1>10, <1>12 DEF Receiving, Complete
  <2>4. Receiving(d)'
    BY <1>1, <1>2, <1>11, <1>12, <2>1, <2>2, <2>3, <2>5 DEF Receiving
  <2> QED BY <1>2, <1>5, <1>8, <1>9, <1>12, <2>4 DEF TurnEnds, Turn
<1>13. CASE sync[d].at = "recover"
  <2>1. OthersAtRest(d)'
    BY <1>1, <1>10, <1>13, RestStays DEF OthersAtRest, OthersSame
  <2>2. Recovering(d)'
    BY <1>1, <1>2, <1>10, <1>11, <1>13 DEF Recovering, Complete
  <2> QED BY <1>2, <1>5, <1>8, <1>9, <1>13, <2>1, <2>2 DEF TurnEnds, Turn
<1> QED BY <1>1, <1>12, <1>13

\* What a sync that fetches deletes, some browser has removed.
LEMMA TurnDeletesLocal ==
  ASSUME NEW d \in Devices, TurnBegins(d), TypeOK', OthersSame(d), UNCHANGED scenario,
         DeleteLocalFiles(d)
  PROVE  TurnEnds(d)
<1>1. /\ UNCHANGED <<clock, version, remote, remoteMeta, manifest, removed>>
      /\ sync[d].at = "transfer" /\ Receiving(d)
      /\ \A q \in Paths : disk'[d][q] = IF q \in sync[d].todo.deleteLocal THEN Absent ELSE disk[d][q]
      /\ unsynced'[d] = unsynced[d] \ sync[d].todo.deleteLocal
  BY DEF DeleteLocalFiles, TurnBegins, Turn, Sending, TypeOK
<1>2. /\ sync'[d].at = "transfer" /\ sync'[d].local = sync[d].local
      /\ sync'[d].todo.download = sync[d].todo.download
      /\ sync'[d].todo.deleteLocal = {}
      /\ sync'[d].todo.upload = sync[d].todo.upload
      /\ sync'[d].todo.deleteRemote = sync[d].todo.deleteRemote
  <2>1. sync[d] \in SyncStates
    BY <1>1, SyncTypes DEF TurnBegins
  <2> QED BY <1>1, <2>1 DEF DeleteLocalFiles, TurnBegins, TypeOK, SyncStates, Diffs
<1>3. disk'[d][Meta] = disk[d][Meta] /\ \A q \in DataPaths \ removed : disk'[d][q] = disk[d][q]
  BY <1>1, ProfileSyncAssumption DEF Receiving, DataPaths
<1>4. NothingLost
  BY <1>1, <1>3 DEF NothingLost, OthersSame
<1>5. unsynced[d] = {} /\ unsynced'[d] = {}
  BY <1>1 DEF Receiving
<1>6. WritesNow(d) /\ ChangesNow(d)
  BY <1>1, <1>5 DEF WritesNow, ChangesNow
<1>7. StillAccounted(d)
  BY <1>1, <1>3, <1>5 DEF StillAccounted, TurnBegins, FilesAccounted, Accounted, Has
<1>8. FilesAccounted' /\ Author' /\ ListsMeta'
  BY <1>1, <1>2, <1>3, <1>4, <1>6, <1>7, StepAccounts, StepAuthor
<1>9. InStore' = InStore
  BY <1>1 DEF InStore
<1>10. \A e \in Devices : e # d => Newer(e, Meta)' /\ Full(e)'
  BY <1>1, <1>9, RestStays DEF Receiving, OthersSame
<1>11. Missing(d)'
  BY <1>1, <1>2, <1>3, <1>9 DEF Receiving, Missing, Has, InStore
<1>12. Receiving(d)'
  BY <1>1, <1>2, <1>3, <1>5, <1>9, <1>10, <1>11 DEF Receiving, HasProfile, Complete
<1> QED BY <1>2, <1>4, <1>8, <1>12 DEF TurnEnds, Turn

LEMMA TurnDescribes ==
  ASSUME NEW d \in Devices, TurnBegins(d), TypeOK', OthersSame(d), UNCHANGED scenario,
         UploadMetadata(d)
  PROVE  TurnEnds(d)
<1>1. /\ UNCHANGED <<clock, version, disk, cache, remote, manifest, removed, unsynced>>
      /\ sync[d].at = "transfer" /\ (Sending(d) \/ Receiving(d))
      /\ sync[d].todo = EmptyDiff
  BY DEF UploadMetadata, TurnBegins, Turn
<1>2. /\ sync'[d].at = "manifest" /\ sync'[d].local = sync[d].local
      /\ sync'[d].todo = sync[d].todo
  <2>1. sync[d] \in SyncStates
    BY <1>1, SyncTypes DEF TurnBegins
  <2> QED BY <1>1, <2>1 DEF UploadMetadata, Goto, TurnBegins, TypeOK, SyncStates
<1>3. NothingLost /\ WritesNow(d) /\ ChangesNow(d) /\ StillAccounted(d)
  BY <1>1 DEF NothingLost, WritesNow, ChangesNow, StillAccounted, TurnBegins, FilesAccounted, Accounted, Has
<1>4. FilesAccounted' /\ Author' /\ ListsMeta'
  BY <1>1, <1>2, <1>3, StepAccounts, StepAuthor
<1>5. InStore' = InStore
  BY <1>1 DEF InStore
<1>6. ASSUME Sending(d) PROVE Sending(d)'
  <2>1. sync'[d].local = LocalManifest(d)' /\ Ahead(sync[d].local)'
    BY <1>1, <1>2, <1>6, SameFiles DEF Sending, Ahead
  <2>2. OthersAllow(d, sync[d].local)'
    BY <1>2, <1>5, <1>6, AllowStays DEF Sending, OthersAllow
  <2> QED BY <1>1, <1>2, <1>5, <1>6, <2>1, <2>2 DEF Sending, Full, HasProfile, ListsDisk, Has, UpTo, OnDisk
<1>7. Receiving(d) => Receiving(d)'
  BY <1>1, <1>2, <1>5 DEF Receiving, Missing, Complete, Full, HasProfile, Has, Newer
<1> QED BY <1>1, <1>2, <1>3, <1>4, <1>6, <1>7 DEF TurnEnds, Turn

\* The manifest of a sync that sent lists every file; that of one that fetched is older
\* than every other device, which has them all.
LEMMA TurnPublishes ==
  ASSUME NEW d \in Devices, TurnBegins(d), TypeOK', OthersSame(d), UNCHANGED scenario,
         UploadManifest(d)
  PROVE  TurnEnds(d)
<1>1. /\ UNCHANGED <<clock, version, disk, remote, removed, unsynced>>
      /\ sync[d].at = "manifest" /\ (Sending(d) \/ Receiving(d))
      /\ sync[d].todo = EmptyDiff /\ manifest' = sync[d].local
  BY DEF UploadManifest, TurnBegins, Turn
<1>2. sync'[d].at = "save" /\ sync'[d].local = sync[d].local
  <2>1. sync[d] \in SyncStates
    BY <1>1, SyncTypes DEF TurnBegins
  <2> QED BY <1>1, <2>1 DEF UploadManifest, Goto, TurnBegins, TypeOK, SyncStates
<1>3. NothingLost /\ WritesNow(d) /\ ChangesNow(d) /\ StillAccounted(d)
  BY <1>1 DEF NothingLost, WritesNow, ChangesNow, StillAccounted, TurnBegins, FilesAccounted, Accounted, Has
<1>4. FilesAccounted'
  BY <1>1, <1>3, StepAccounts
<1>5. ListsMeta'
  BY <1>1, ProfileSyncAssumption DEF ListsMeta, Sending, Receiving, ListsDisk, HasProfile, Has
<1>6. Author'
  BY <1>2 DEF Author
<1>7. InStore' = InStore
  BY <1>1 DEF InStore
<1>8. /\ sync[d].local.updatedAt \in Nat /\ sync[d].local \in Manifest /\ sync[d].local # NoManifest
      /\ manifest # NoManifest => manifest.updatedAt \in Nat
      /\ \A e \in Devices : \A p \in OnDisk(e) : disk[e][p].mtime \in Nat
  <2>1. sync[d].local # NoManifest
    <3>1. sync[d].local \in Manifest
      BY <1>1, Times DEF TurnBegins
    <3> QED BY <3>1, ManifestAssumption DEF Manifest, Listing
  <2> QED BY <1>1, <2>1, Times DEF TurnBegins
<1>9. CASE Sending(d)
  <2>1. HasProfile(d)' /\ Full(d)'
    BY <1>1, <1>7, <1>9 DEF Sending, HasProfile, Full, Has
  <2>2. Complete'
    BY <1>1, <1>7, <1>9 DEF Sending, Full, ListsDisk, Complete, InStore, DataPaths
  <2>3. ASSUME NEW e \in Devices, e # d PROVE AtRest(e)'
    <3>1. HasProfile(e) => Full(e) \/ UpTo(e, sync[d].local.updatedAt)
      BY <1>9, <2>3 DEF Sending, OthersAllow
    <3>2. HasProfile(e)' => Full(e)' \/ Behind(e)'
      BY <1>1, <1>7, <1>8, <3>1 DEF HasProfile, Full, Has, Behind, UpTo, OnDisk
    <3> QED BY <2>2, <3>2 DEF AtRest
  <2> QED BY <1>2, <1>3, <1>4, <1>5, <1>6, <2>1, <2>3 DEF TurnEnds, Turn, OthersAtRest
<1>10. CASE Receiving(d)
  <2>1. HasProfile(d)' /\ Full(d)'
    BY <1>1, <1>7, <1>10 DEF Receiving, Missing, EmptyDiff, Diff, HasProfile, Full, Has
  <2>2. ASSUME NEW e \in Devices, e # d PROVE AtRest(e)'
    <3>1. Newer(e, Meta) /\ Full(e) /\ sync[d].local.updatedAt <= manifest.updatedAt /\ manifest # NoManifest
      BY <1>10, <2>2 DEF Receiving
    <3>2. Meta \in OnDisk(e)
      BY <3>1, ProfileSyncAssumption DEF Newer, OnDisk
    <3>3. disk[e][Meta].mtime > sync[d].local.updatedAt
      BY <1>8, <3>1, <3>2 DEF Newer
    <3>4. Newer(e, Meta)' /\ Full(e)'
      BY <1>1, <1>7, <3>1, <3>3 DEF Newer, Full, Has
    <3> QED BY <3>4 DEF AtRest
  <2> QED BY <1>2, <1>3, <1>4, <1>5, <1>6, <2>1, <2>2 DEF TurnEnds, Turn, OthersAtRest
<1> QED BY <1>1, <1>9, <1>10

\* A sync or recovery ends with a profile that is newer than the manifest.
LEMMA TurnSaves ==
  ASSUME NEW d \in Devices, TurnBegins(d), TypeOK', OthersSame(d), UNCHANGED scenario, FinishesLate,
         SaveProfile(d) \/ SaveRecovered(d)
  PROVE  TurnEnds(d)
<1> DEFINE file == File([sync[d].clone EXCEPT !.stamp = clock])
<1>1. /\ UNCHANGED <<clock, version, remote, manifest, removed, unsynced>>
      /\ manifest = sync[d].local /\ clock > manifest.updatedAt
      /\ OthersAtRest(d) /\ Full(d) /\ sync[d].at \in {"save", "recover"}
      /\ sync'[d].at = "idle"
  <2>1. CASE SaveProfile(d)
    BY <2>1 DEF SaveProfile, FinishesLate, TurnBegins, Turn, ActorInv, ManifestIsPast, IdleSync, TypeOK
  <2>2. CASE SaveRecovered(d)
    <3>1. Full(d)
      BY <2>2 DEF SaveRecovered, TurnBegins, Turn, Recovering, Missing, Full, EmptyDiff, Diff
    <3> QED BY <2>2, <3>1 DEF SaveRecovered, FinishesLate, TurnBegins, Turn, Recovering, IdleSync, TypeOK
  <2> QED BY <2>1, <2>2
<1>2. file \in Stored /\ file # Absent /\ file.mtime = clock
  <2>1. sync[d] \in SyncStates
    BY <1>1, SyncTypes DEF TurnBegins
  <2>2. [sync[d].clone EXCEPT !.stamp = clock] \in Content
    BY <2>1 DEF SyncStates, Content, TurnBegins, TypeOK
  <2> QED BY <2>2, FileType DEF TurnBegins
<1>3. disk' = [disk EXCEPT ![d][Meta] = file]
  BY DEF SaveProfile, SaveRecovered
<1> HIDE DEF file
<1>4. \A q \in Paths : disk'[d][q] = IF q = Meta THEN file ELSE disk[d][q]
  BY <1>2, <1>3, Written, ProfileSyncAssumption DEF TurnBegins
<1>5. disk'[d][Meta] # Absent /\ disk'[d][Meta].mtime = clock /\ \A q \in DataPaths : disk'[d][q] = disk[d][q]
  BY <1>2, <1>4, ProfileSyncAssumption DEF DataPaths
<1>6. NothingLost
  BY <1>1, <1>5 DEF NothingLost, OthersSame
<1>7. WritesNow(d)
  BY <1>2, <1>4 DEF WritesNow
<1>8. ChangesNow(d) /\ StillAccounted(d)
  BY <1>1, <1>5 DEF ChangesNow, StillAccounted, TurnBegins, FilesAccounted, Accounted, Has, TypeOK
<1>9. FilesAccounted'
  BY <1>1, <1>6, <1>7, <1>8, StepAccounts
<1>10. Newer(d, Meta)'
  BY <1>1, <1>5 DEF Newer
<1>11. Author' /\ ListsMeta'
  BY <1>1, <1>10 DEF Author, ListsMeta, TurnBegins
<1>12. InStore' = InStore
  BY <1>1 DEF InStore
<1>13. OthersAtRest(d)'
  BY <1>1, <1>12, RestStays DEF OthersAtRest, OthersSame
<1>14. AtRest(d)'
  <2>1. Full(d)'
    BY <1>1, <1>5, <1>12 DEF Full, Has, InStore
  <2> QED BY <1>10, <2>1 DEF AtRest
<1> QED BY <1>1, <1>6, <1>9, <1>11, <1>13, <1>14 DEF TurnEnds, Turn, AllAtRest

\* A device is edited when it has every file.
LEMMA TurnEdits ==
  ASSUME NEW d \in Devices, TurnBegins(d), TypeOK', OthersSame(d), UNCHANGED scenario,
         sync[d].at = "idle", UpToDate(d), Edit(d)
  PROVE  TurnEnds(d)
<1>1. /\ UNCHANGED <<clock, remote, manifest, sync>> /\ removed \subseteq removed'
      /\ sync[d].at = "idle" /\ OthersAtRest(d) /\ AtRest(d) /\ HasProfile(d) /\ Meta \in Paths
  BY ProfileSyncAssumption DEF Edit, EditFile, RemoveFile, EditSettings, MayEdit, TurnBegins, Turn, AllAtRest
<1>2. Full(d)
  BY DEF UpToDate, Full, InStore, Has, TurnBegins, FilesAccounted, Accounted
<1>3. InStore' \subseteq InStore
  BY <1>1 DEF InStore
<1>4. OthersAtRest(d)'
  BY <1>1, <1>3, RestStays DEF OthersAtRest, OthersSame
<1>5. manifest # NoManifest => clock > manifest.updatedAt
  BY <1>1 DEF TurnBegins, ActorInv, ManifestIsPast
<1>6. ASSUME NothingLost, WritesNow(d), ChangesNow(d), StillAccounted(d),
             disk'[d][Meta] = disk[d][Meta] \/ (disk'[d][Meta] # Absent /\ disk'[d][Meta].mtime = clock),
             \A q \in DataPaths \ removed' : disk[d][q] # Absent => disk'[d][q] # Absent
      PROVE  TurnEnds(d)
  <2>1. FilesAccounted'
    BY <1>1, <1>6, StepAccounts
  <2>2. Author' /\ ListsMeta'
    BY <1>1, <1>6, StepAuthor
  <2>3. Full(d)'
    BY <1>2, <1>3, <1>6 DEF Full, Has, InStore
  <2>4. manifest # NoManifest /\ Newer(d, Meta) => Newer(d, Meta)'
    BY <1>1, <1>5, <1>6 DEF Newer
  <2>5. Complete => Complete'
    BY <1>1, <1>3 DEF Complete
  <2>6. AtRest(d)'
    BY <1>1, <2>3, <2>4, <2>5 DEF AtRest
  <2> QED BY <1>1, <1>4, <1>6, <2>1, <2>2, <2>6 DEF TurnEnds, Turn, AllAtRest
<1>7. ASSUME NEW p \in DataPaths, EditFile(d, p) PROVE TurnEnds(d)
  <2> DEFINE file == File([version |-> version', stamp |-> 0])
  <2>1. disk' = [disk EXCEPT ![d][p] = file] /\ unsynced'[d] = unsynced[d] \cup {p} /\ removed' = removed
    BY <1>7 DEF EditFile, TurnBegins, TypeOK
  <2>2. file \in Stored /\ file # Absent /\ file.mtime = clock
    <3>1. version' \in 0 .. MaxVersion /\ 0 \in Time
      BY <1>7, ProfileSyncAssumption DEF EditFile, MayEdit, TurnBegins, TypeOK, Time
    <3> QED BY <3>1, ContentType, FileType DEF TurnBegins
  <2> HIDE DEF file
  <2>3. p \in Paths /\ p # Meta
    BY DEF DataPaths
  <2>4. \A q \in Paths : disk'[d][q] = IF q = p THEN file ELSE disk[d][q]
    BY <2>1, <2>2, <2>3, Written DEF TurnBegins
  <2>5. \A q \in DataPaths : disk[d][q] # Absent => disk'[d][q] # Absent
    BY <2>2, <2>4 DEF DataPaths
  <2>6. NothingLost
    BY <1>1, <2>5 DEF NothingLost, OthersSame
  <2>7. WritesNow(d)
    BY <2>2, <2>4 DEF WritesNow
  <2>8. \A q \in unsynced[d] : q \in DataPaths /\ disk[d][q] # Absent
    BY DEF TurnBegins, FilesAccounted, Accounted, Has, TypeOK
  <2>9. ChangesNow(d)
    BY <2>1, <2>2, <2>3, <2>4, <2>5, <2>8 DEF ChangesNow
  <2>10. StillAccounted(d)
    BY <1>1, <2>1, <2>4 DEF StillAccounted, TurnBegins, FilesAccounted, Accounted, Has, DataPaths
  <2>11. disk'[d][Meta] = disk[d][Meta]
    BY <1>1, <2>3, <2>4
  <2> QED BY <1>6, <2>5, <2>6, <2>7, <2>9, <2>10, <2>11
<1>8. ASSUME NEW p \in DataPaths, RemoveFile(d, p) PROVE TurnEnds(d)
  <2>1. /\ \A q \in Paths : disk'[d][q] = IF q = p THEN Absent ELSE disk[d][q]
        /\ unsynced'[d] = unsynced[d] \ {p} /\ removed' = removed \cup {p} /\ p # Meta
    BY <1>8 DEF RemoveFile, TurnBegins, TypeOK, DataPaths
  <2>2. \A q \in DataPaths \ removed' : disk'[d][q] = disk[d][q]
    BY <2>1 DEF DataPaths
  <2>3. NothingLost
    BY <1>1, <2>2 DEF NothingLost, OthersSame
  <2>4. WritesNow(d)
    BY <2>1 DEF WritesNow
  <2>5. \A q \in unsynced[d] : q \in Paths /\ disk[d][q] # Absent
    BY DEF TurnBegins, FilesAccounted, Accounted, Has, TypeOK, DataPaths
  <2>6. ChangesNow(d)
    BY <2>1, <2>5 DEF ChangesNow
  <2>7. StillAccounted(d)
    BY <1>1, <2>1, <2>2 DEF StillAccounted, TurnBegins, FilesAccounted, Accounted, Has
  <2>8. disk'[d][Meta] = disk[d][Meta]
    BY <1>1, <2>1
  <2> QED BY <1>6, <2>2, <2>3, <2>4, <2>6, <2>7, <2>8
<1>9. CASE EditSettings(d)
  <2> DEFINE file == File([version |-> version', stamp |-> disk[d][Meta].data.stamp])
  <2>1. disk' = [disk EXCEPT ![d][Meta] = file] /\ UNCHANGED <<unsynced, removed>>
    BY <1>9 DEF EditSettings
  <2>2. file \in Stored /\ file # Absent /\ file.mtime = clock
    <3>1. version' \in 0 .. MaxVersion
      BY <1>9, ProfileSyncAssumption DEF EditSettings, MayEdit, TurnBegins, TypeOK
    <3>2. disk[d][Meta].data.stamp \in Time
      BY <1>1 DEF HasProfile, TurnBegins, TypeOK, Stored, Files, Content
    <3> QED BY <3>1, <3>2, ContentType, FileType DEF TurnBegins
  <2> HIDE DEF file
  <2>3. \A q \in Paths : disk'[d][q] = IF q = Meta THEN file ELSE disk[d][q]
    BY <1>1, <2>1, <2>2, Written DEF TurnBegins
  <2>4. \A q \in DataPaths : disk'[d][q] = disk[d][q]
    BY <2>3 DEF DataPaths
  <2>5. NothingLost
    BY <1>1, <2>4 DEF NothingLost, OthersSame
  <2>6. WritesNow(d)
    BY <2>2, <2>3 DEF WritesNow
  <2>7. \A q \in unsynced[d] : q \in DataPaths /\ disk[d][q] # Absent
    BY DEF TurnBegins, FilesAccounted, Accounted, Has, TypeOK
  <2>8. ChangesNow(d)
    BY <2>1, <2>4, <2>7 DEF ChangesNow
  <2>9. StillAccounted(d)
    BY <1>1, <2>1, <2>4 DEF StillAccounted, TurnBegins, FilesAccounted, Accounted, Has
  <2>10. disk'[d][Meta] # Absent /\ disk'[d][Meta].mtime = clock
    BY <1>1, <2>2, <2>3
  <2> QED BY <1>6, <2>4, <2>5, <2>6, <2>8, <2>9, <2>10
<1> QED BY <1>7, <1>8, <1>9 DEF Edit

\* A sync that fails has changed nothing, or sends the same again.
LEMMA TurnFails ==
  ASSUME NEW d \in Devices, TurnBegins(d), TypeOK', OthersSame(d), UNCHANGED scenario,
         Abort(d)
  PROVE  TurnEnds(d)
<1>1. /\ UNCHANGED <<clock, version, disk, cache, remote, remoteMeta, manifest, unsynced, removed>>
      /\ sync'[d].at = "failed" /\ sync[d].at # "save"
      /\ \/ sync[d].at = "fetch"
         \/ sync[d].at \in {"transfer", "manifest", "recover"} /\ sync[d].todo = EmptyDiff
  BY DEF Abort, FailedSync, TurnBegins, TypeOK, Turn
<1>2. NothingLost /\ WritesNow(d) /\ ChangesNow(d) /\ StillAccounted(d)
  BY <1>1 DEF NothingLost, WritesNow, ChangesNow, StillAccounted, TurnBegins, FilesAccounted, Accounted, Has
<1>3. FilesAccounted' /\ Author' /\ ListsMeta'
  BY <1>1, <1>2, StepAccounts, StepAuthor
<1>4. InStore' = InStore
  BY <1>1 DEF InStore
<1>5. ASSUME AllAtRest(d) \/ Resending(d) PROVE TurnEnds(d)
  <2>1. AllAtRest(d) => AllAtRest(d)'
    BY <1>1, <1>4, RestStays DEF AllAtRest, OthersAtRest
  <2>2. ASSUME Resending(d) PROVE Resending(d)'
    <3>1. LocalManifest(d)' = LocalManifest(d)
      BY <1>1, SameFiles
    <3>2. OthersAllow(d, LocalManifest(d))'
      BY <1>4, <2>2, <3>1, AllowStays DEF Resending, OthersAllow
    <3> QED BY <1>1, <1>4, <2>2, <3>1, <3>2 DEF Resending, HasProfile, Full, Has, Ahead
  <2> QED BY <1>1, <1>2, <1>3, <1>5, <2>1, <2>2 DEF TurnEnds, Turn
<1>6. CASE sync[d].at = "fetch"
  BY <1>5, <1>6 DEF TurnBegins, Turn
<1>7. CASE sync[d].at \in {"transfer", "manifest"}
  <2>1. sync[d].todo = EmptyDiff /\ (Sending(d) \/ Receiving(d))
    BY <1>1, <1>7 DEF TurnBegins, Turn
  <2>2. Sending(d) => Resending(d)
    BY DEF Sending, Resending
  <2>3. ASSUME Receiving(d) PROVE AllAtRest(d)
    <3>1. Full(d) /\ Complete
      BY <2>1, <2>3 DEF Receiving, Missing, Full, EmptyDiff, Diff
    <3>2. \A e \in Devices : e # d => Full(e)
      BY <2>3 DEF Receiving
    <3> QED BY <3>1, <3>2 DEF AllAtRest, OthersAtRest, AtRest
  <2> QED BY <1>5, <2>1, <2>2, <2>3
<1>8. CASE sync[d].at = "recover"
  <2>1. sync[d].todo = EmptyDiff /\ OthersAtRest(d) /\ Recovering(d)
    BY <1>1, <1>8 DEF TurnBegins, Turn
  <2>2. Full(d) /\ Complete
    BY <2>1 DEF Recovering, Missing, Full, EmptyDiff, Diff
  <2>3. AllAtRest(d)
    BY <2>1, <2>2 DEF AllAtRest, AtRest
  <2> QED BY <1>5, <2>3
<1> QED BY <1>1, <1>6, <1>7, <1>8

LEMMA TurnSteps ==
  ASSUME NEW d \in Devices, TurnBegins(d), TypeOK', OthersSame(d), UNCHANGED scenario, FinishesLate,
         AtMostTwo, "download" \notin Failures, SyncStep(d) \/ Abort(d)
  PROVE  TurnEnds(d)
  BY TurnFails, TurnGenerates, TurnDecides, TurnUploads, TurnDeletesRemote, TurnDownloads, TurnDeletesLocal,
     TurnDescribes, TurnPublishes, TurnSaves DEF SyncStep

\* When a device is at rest again another one may begin.
LEMMA TurnPasses ==
  ASSUME NEW d \in Devices, MyTurn(d)', TurnEnds(d)
  PROVE  TurnsInv'
<1>1. ASSUME NEW e \in Devices, e # d, MyTurn(e)' PROVE Turn(e)'
  <2>1. sync'[d].at = "idle" /\ sync'[e].at = "idle"
    BY <1>1 DEF MyTurn
  <2>2. AtRest(d)' /\ OthersAtRest(d)'
    BY <2>1 DEF TurnEnds, Turn, AllAtRest
  <2>3. OthersAtRest(e)' /\ AtRest(e)'
    BY <1>1, <2>2 DEF OthersAtRest
  <2> QED BY <2>1, <2>3 DEF Turn, AllAtRest
<1> QED BY <1>1 DEF TurnEnds, TurnsInv

LEMMA NothingLostKeeps == NothingLost => KeepsFiles
<1>1. ASSUME NothingLost, NEW p \in DataPaths \ removed', Kept(p) PROVE Kept(p)'
  BY <1>1 DEF NothingLost, Kept
<1> QED BY <1>1 DEF KeepsFiles

TurnsKept == TurnsInv' /\ KeepsFiles

LEMMA TurnsStep ==
  ASSUME ScenarioInv, ~Alone, TurnsInv, FinishesLate, AtMostTwo, "download" \notin Failures,
         ExitsIn \subseteq {"alone"},
         [ScenariosNext]_<<vars, scenario>>
  PROVE  TurnsKept
<1>0. TypeOK
  BY DEF ScenarioInv
<1>1. ASSUME NEW d \in Devices, MyTurn(d), UNCHANGED scenario,
             SyncStep(d) \/ Abort(d) \/ (Edit(d) /\ sync[d].at = "idle" /\ UpToDate(d))
      PROVE  TurnsKept
  <2>1. TurnBegins(d)
    BY <1>0, <1>1, ActorKnows DEF Acts, TurnBegins, TurnsInv
  <2>2. OthersSame(d)
    BY <1>0, <1>1, OthersRest DEF OthersSame, CutShort
  <2>3. TypeOK'
    BY <1>0, <1>1, NextType DEF Next, CutShort
  <2>4. TurnEnds(d)
    BY <1>1, <2>1, <2>2, <2>3, TurnSteps, TurnEdits
  <2>5. MyTurn(d)'
    BY <1>1, <2>2 DEF OthersSame, MyTurn
  <2> QED BY <2>4, <2>5, TurnPasses, NothingLostKeeps DEF TurnEnds, TurnsKept
<1>2. ASSUME UNCHANGED <<disk, cache, remote, manifest, sync, unsynced, removed>>,
             clock' \in Nat /\ clock' >= clock
      PROVE  TurnsKept
  <2>1. ASSUME NEW d \in Devices
        PROVE  /\ Full(d) <=> Full(d)'
               /\ HasProfile(d) <=> HasProfile(d)'
               /\ AtRest(d) => AtRest(d)'
    BY <1>2 DEF Full, InStore, Has, HasProfile, AtRest, Behind, UpTo, OnDisk, Complete, Newer
  <2>2. ASSUME NEW d \in Devices, Turn(d) PROVE Turn(d)'
    <3>1. /\ OthersAtRest(d) => OthersAtRest(d)'
          /\ AllAtRest(d) => AllAtRest(d)'
      BY <2>1 DEF AllAtRest, OthersAtRest
    <3>7. LocalManifest(d)' = LocalManifest(d)
      BY <1>2, SameFiles
    <3>8. /\ Ahead(LocalManifest(d)) => Ahead(LocalManifest(d))'
          /\ OthersAllow(d, LocalManifest(d)) => OthersAllow(d, LocalManifest(d))'
      BY <1>2, <2>1, <3>7 DEF Ahead, OthersAllow, UpTo, OnDisk
    <3>9. Resending(d) => Resending(d)'
      BY <2>1, <3>8 DEF Resending
    <3>2. Fetching(d) => Fetching(d)'
      BY <1>2, <3>7 DEF Fetching, HasProfile, ListsDisk, Has, UpTo, OnDisk
    <3>3. ASSUME Sending(d) PROVE Sending(d)'
      <4>1. sync[d].local = LocalManifest(d) /\ sync'[d].local = LocalManifest(d)'
        BY <1>2, <3>3, <3>7 DEF Sending
      <4>2. Ahead(sync[d].local)' /\ OthersAllow(d, sync[d].local)'
        BY <3>3, <3>8, <4>1 DEF Sending
      <4> QED BY <1>2, <2>1, <3>3, <4>1, <4>2 DEF Sending, ListsDisk, Has, UpTo, OnDisk
    <3>4. Missing(d) => Missing(d)'
      BY <1>2 DEF Missing, Has, InStore
    <3>5. Receiving(d) => Receiving(d)'
      BY <1>2, <2>1, <3>4 DEF Receiving, Newer, Complete, InStore
    <3>6. Recovering(d) => Recovering(d)'
      BY <1>2, <3>4 DEF Recovering, Complete, InStore
    <3> QED BY <1>2, <2>1, <2>2, <3>1, <3>2, <3>3, <3>5, <3>6, <3>9 DEF Turn
  <2>3. ASSUME NEW d \in Devices, Accounted(d) PROVE Accounted(d)'
    <3>1. UpTo(d, clock)'
      BY <1>0, <1>2, <2>3, Times DEF Accounted, UpTo, OnDisk
    <3> QED BY <1>2, <2>3, <3>1 DEF Accounted, UpTo, OnDisk, Has
  <2>4. Author' /\ ListsMeta'
    BY <1>2 DEF TurnsInv, Author, ListsMeta, Newer
  <2>5. \A d \in Devices : MyTurn(d)' => MyTurn(d)
    BY <1>2 DEF MyTurn
  <2>6. TurnsInv'
    BY <2>2, <2>3, <2>4, <2>5 DEF TurnsInv, FilesAccounted
  <2>7. NothingLost
    BY <1>2 DEF NothingLost
  <2> QED BY <2>6, <2>7, NothingLostKeeps DEF TurnsKept
<1>3. CASE Tick \/ UNCHANGED <<vars, scenario>>
  <2>1. clock \in Nat
    BY <1>0, ProfileSyncAssumption DEF TypeOK, Time
  <2>2. clock' \in Nat /\ clock' >= clock
    BY <1>3, <2>1 DEF Tick, vars
  <2>3. UNCHANGED <<disk, cache, remote, manifest, sync, unsynced, removed>>
    BY <1>3 DEF Tick, vars
  <2> QED BY <1>2, <2>2, <2>3
<1>4. ASSUME NEW d \in Devices, Syncs(d), UNCHANGED scenario PROVE TurnsKept
  BY <1>1, <1>4 DEF Syncs, Acts
<1>5. ASSUME NEW d \in Devices, Edits(d), UNCHANGED scenario PROVE TurnsKept
  BY <1>1, <1>5 DEF Edits, Acts
<1>6. ASSUME NEW d \in Devices, Fails(d), UNCHANGED scenario PROVE TurnsKept
  <2>1. scenario \notin ExitsIn
    BY DEF Alone
  <2> QED BY <1>1, <1>6, <2>1 DEF Fails, Acts
<1> QED BY <1>3, <1>4, <1>5, <1>6 DEF ScenariosNext

LEMMA TurnsBegin ==
  ASSUME ScenariosInit
  PROVE  TurnsInv
<1>1. TypeOK
  BY InitType DEF ScenariosInit
<1>2. /\ clock = 0 /\ manifest = NoManifest /\ sync = [e \in Devices |-> IdleSync]
      /\ remote = [p \in Paths |-> Absent]
      /\ unsynced = [e \in Devices |-> {p \in DataPaths : disk[e][p] # Absent}]
  BY DEF ScenariosInit, Init
<1>3. \A d \in Devices : sync[d].at = "idle"
  BY <1>2 DEF IdleSync
<1>4. PICK d \in Devices :
        \A e \in Devices, p \in Paths : disk[e][p] # Absent => e = d /\ disk[e][p].mtime = 0
  <2> DEFINE file == File([version |-> 0, stamp |-> 0])
  <2>1. file.mtime = 0
    BY <1>2 DEF File
  <2>2. PICK d \in Devices : \E created \in SUBSET DataPaths :
          disk = [e \in Devices |-> [p \in Paths |->
                    IF e = d /\ p \in created \cup {Meta} THEN file ELSE Absent]]
    BY DEF ScenariosInit, Init
  <2> HIDE DEF file
  <2> QED BY <2>1, <2>2
<1>5. InStore = {}
  BY <1>2 DEF InStore, DataPaths
<1>6. \A e \in Devices : AtRest(e)
  BY <1>2, <1>5 DEF AtRest, Full
<1>7. ASSUME NEW e \in Devices PROVE Accounted(e)
  BY <1>2, <1>4 DEF Accounted, UpTo, OnDisk, Has, DataPaths
<1>8. \A e \in Devices : Turn(e)
  BY <1>3, <1>6 DEF Turn, AllAtRest, OthersAtRest
<1> QED BY <1>2, <1>7, <1>8 DEF TurnsInv, FilesAccounted, Author, ListsMeta

\* No file that a browser has written, and none has removed, is lost by two devices that
\* take turns, or by one that is alone, whichever requests fail except those that fetch
\* a file: a sync that failed is repeated before it is another device's turn.  (When the
\* application ends in the middle of a recovery instead, TLC finds files lost.)
THEOREM TwoKeepFiles ==
  ASSUME FinishesLate, AtMostTwo, "download" \notin Failures, ExitsIn \subseteq {"alone"}
  PROVE  Scenarios => NothingVanishes
<1> DEFINE Inv == ScenarioInv /\ (~Alone => TurnsInv)
<1>1. ScenariosInit => Inv
  BY ScenarioBegins, TurnsBegin
<1>2. Inv /\ [ScenariosNext]_<<vars, scenario>> => Inv' /\ KeepsFiles
  <2>1. ASSUME Inv, [ScenariosNext]_<<vars, scenario>> PROVE Inv' /\ KeepsFiles
    <3>1. ScenarioInv'
      BY <2>1, ScenarioSteps DEF StepKeeps
    <3>2. CASE Alone
      BY <2>1, <3>1, <3>2, AloneStep
    <3>3. CASE ~Alone
      BY <2>1, <3>1, <3>3, TurnsStep DEF TurnsKept
    <3> QED BY <3>2, <3>3
  <2> QED BY <2>1
<1>3. Inv /\ [ScenariosNext]_<<vars, scenario>> =>
        [\A p \in DataPaths \ removed' : Kept(p) => Kept(p)']_vars
  BY <1>2 DEF KeepsFiles
<1>4. Inv /\ [ScenariosNext]_<<vars, scenario>> => Inv'
  BY <1>2
<1> HIDE DEF Inv
<1> QED BY <1>1, <1>3, <1>4, PTL DEF Scenarios, NothingVanishes
=============================================================================
