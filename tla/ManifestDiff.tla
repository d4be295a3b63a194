---------------------------- MODULE ManifestDiff ----------------------------
(***************************************************************************)
(* sync/manifest.rs: the manifest of a profile directory and the decision  *)
(* compute_diff takes from the local and the remote one.  A manifest maps  *)
(* each path to the hash of its file (Absent: the path is not listed) and  *)
(* carries updatedAt, the largest modification time of its files in whole  *)
(* seconds.  blake3 is taken to be injective: a hash is the content.       *)
(***************************************************************************)
EXTENDS Naturals

CONSTANTS Paths, Hashes, Absent, NoManifest

ASSUME ManifestAssumption ==
  /\ Absent \notin Hashes
  /\ NoManifest \notin [files : [Paths -> Hashes \cup {Absent}], updatedAt : Nat]

Listing == [Paths -> Hashes \cup {Absent}]
Manifest == [files : Listing, updatedAt : Nat]

Listed(files) == {p \in Paths : files[p] # Absent}

\* Paths that one side lists and the other lacks or has with another hash.
Changed(from, to) == {p \in Listed(from) : from[p] # to[p]}

\* Paths to delete on the side that is behind.
Surplus(from, to) == Listed(to) \ Listed(from)

\* updated_at_datetime: chrono wrote both timestamps, both parse.  Equal
\* seconds count as `remote is newer'.
LocalIsNewer(local, remote) == local.updatedAt > remote.updatedAt

Diff(up, down, delLocal, delRemote) ==
  [upload |-> up, download |-> down,
   deleteLocal |-> delLocal, deleteRemote |-> delRemote]
EmptyDiff == Diff({}, {}, {}, {})
Diffs == [upload : SUBSET Paths, download : SUBSET Paths,
          deleteLocal : SUBSET Paths, deleteRemote : SUBSET Paths]

ComputeDiff(local, remote) ==
  IF remote = NoManifest
  THEN Diff(Listed(local.files), {}, {}, {})
  ELSE IF LocalIsNewer(local, remote)
  THEN Diff(Changed(local.files, remote.files), {}, {},
            Surplus(local.files, remote.files))
  ELSE Diff({}, Changed(remote.files, local.files),
            Surplus(remote.files, local.files), {})

\* What the files of one side are when its transfers and deletions succeed.
Patched(files, source, transfer, delete) ==
  [p \in Paths |-> IF p \in transfer THEN source[p]
                   ELSE IF p \in delete THEN Absent ELSE files[p]]
=============================================================================
