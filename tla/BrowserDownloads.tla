--------------------------- MODULE BrowserDownloads ---------------------------
(***************************************************************************)
(* The versions of one browser on a device: downloader.rs, extraction.rs,  *)
(* downloaded_browsers_registry.rs, auto_updater.rs and the clean-ups of   *)
(* browser_runner.rs, profile/manager.rs and lib.rs.  Downloads, launches, *)
(* clean-ups and updates of profiles share the binaries directory, the     *)
(* registry and the profiles' metadata; only a download is kept from       *)
(* another one of the same version.                                        *)
(*                                                                         *)
(* A step goes from one await of the code to the next, awaits that nothing *)
(* can tell apart are one, and an unpacking, which takes long, is two      *)
(* steps.  Versions are numbered as compare_versions orders them.  The     *)
(* file the server has for a version is a sequence of Chunks chunks.       *)
(* Clean-ups and consolidations are not commands of their own: the threads *)
(* that run them list the profiles first and remove directories later,     *)
(* with no lock that keeps other threads from the profiles meanwhile.      *)
(***************************************************************************)
EXTENDS Naturals, Sequences, FiniteSets

CONSTANTS
  Slots,        \* bound: downloads that are in progress at the same time
  Profiles,     \* bound: the profiles there ever are
  Cleaners,     \* bound: threads that clean up or consolidate at the same time
  NoSlot,
  MaxVersion,   \* bound: versions that are published
  Chunks,
  MaxActive,    \* bound: profiles and downloads there are at the same time
  MaxRequests,  \* bound: downloads that are asked for
  MaxChanges    \* bound: launches, losses of files, errors of the disk and restarts

Versions == 1 .. MaxVersion
Newest == MaxVersion
NoVersion == 0

ASSUME BrowserDownloadsAssumption ==
  /\ MaxVersion \in Nat \ {0} /\ Chunks \in Nat \ {0}
  /\ {MaxActive, MaxRequests, MaxChanges} \subseteq Nat
  /\ NoSlot \notin Slots

VARIABLES
  installed,    \* the files of each version next to its archive
  archives,     \* the versions with an archive on disk
  archive,      \* what these archives contain: chunks, each of the server's file of a version
  folder,       \* the versions with a directory
  registry,     \* downloaded_browsers.json
  downloading,  \* the keys of DOWNLOADING_BROWSERS and DOWNLOAD_CANCELLATION_TOKENS
  cancelled,    \* those whose token is cancelled
  leaked,       \* those that a download has left since the start of the app
  task,         \* download_browser_full, in each slot
  version,      \* of each profile, in its metadata.json
  running,      \* the profiles with a process_id
  launch,       \* the launch in progress of each profile, and its clone's version
  cleaning,     \* what each cleaner has listed
  requests, changes   \* how many there have been

disk == <<installed, archives, archive, folder>>
keys == <<downloading, cancelled, leaked>>
profiles == <<version, running, launch>>
counts == <<requests, changes>>
vars == <<disk, registry, keys, task, profiles, cleaning, counts>>

\* Unusable files are those without an executable; some files of a version
\* that only looks installed may be missing.
Installations == {"none", "unusable", "looks", "whole"}
Steps == {"idle", "consolidate", "ensure", "ask", "stream", "unpacking", "verify"}
\* file is what the server sends and next the chunk of it that is expected;
\* requested and missing are what ensure_all_binaries_exist downloads now and
\* has still to download.
Tasks == [at : Steps, version : Versions, file : Versions, next : 1 .. Chunks + 1,
          requested : Versions \cup {NoVersion}, missing : SUBSET Versions]
Idle == [at |-> "idle", version |-> 1, file |-> 1, next |-> 1, requested |-> NoVersion, missing |-> {}]
NoLaunch == [at |-> "none", version |-> 1]
Pieces == [file : Versions, chunk : 1 .. Chunks]

\* A clean-up keeps the versions it has listed.  A consolidation moves profiles
\* from the versions it has listed of them to the latest; left are those it has
\* not come to, and it may have been called by ensure_all_binaries_exist.
Cleanings == [at : {"idle", "remove", "consolidate"}, keep : SUBSET Versions,
              old : [Profiles -> Versions \cup {NoVersion}], left : SUBSET Profiles,
              latest : Versions, slot : Slots \cup {NoSlot}]
NotCleaning == [at |-> "idle", keep |-> {}, old |-> [p \in Profiles |-> NoVersion], left |-> {},
                latest |-> 1, slot |-> NoSlot]

DownloadsTypeOK ==
  /\ installed \in [Versions -> Installations]
  /\ archives \subseteq Versions
  /\ archive \in [Versions -> Seq(Pieces)]
  /\ folder \subseteq Versions
  /\ registry \subseteq Versions
  /\ downloading \subseteq Versions /\ cancelled \subseteq downloading
  /\ leaked \subseteq Versions
  /\ task \in [Slots -> Tasks]
  /\ version \in [Profiles -> Versions \cup {NoVersion}]
  /\ running \subseteq Profiles
  /\ launch \in [Profiles -> [at : {"none", "read", "spawned"}, version : Versions]]
  /\ cleaning \in [Cleaners -> Cleanings]
  /\ requests \in 0 .. MaxRequests /\ changes \in 0 .. MaxChanges

Init ==
  /\ installed = [v \in Versions |-> "none"]
  /\ archives = {} /\ archive = [v \in Versions |-> <<>>]
  /\ folder = {} /\ registry = {}
  /\ downloading = {} /\ cancelled = {} /\ leaked = {}
  /\ task = [s \in Slots |-> Idle]
  /\ version = [p \in Profiles |-> NoVersion]
  /\ running = {} /\ launch = [p \in Profiles |-> NoLaunch]
  /\ cleaning = [c \in Cleaners |-> NotCleaning]
  /\ requests = 0 /\ changes = 0

\* is_version_downloaded: an executable is where it is expected.
Usable(v) == installed[v] \in {"looks", "whole"}
Existing == {p \in Profiles : version[p] # NoVersion}
Without(gone) == [v \in Versions |-> IF v \in gone THEN "none" ELSE installed[v]]

-----------------------------------------------------------------------------
(* The registry and the profiles *)

\* sync_with_binaries_directory registers what looks installed.
Registered == {v \in folder : Usable(v)} \cup (registry \ folder)

\* One of the versions is kept when no profile uses any of them.
Removals(inUse) ==
  LET unused == Registered \ inUse
  IN IF unused = Registered /\ unused # {} THEN {unused \ {v} : v \in unused} ELSE {unused}

\* Mutant: the directories without files of a browser are taken for empty.
CleansUpPartial(inUse) ==
  \E gone \in Removals(inUse) :
    /\ installed' = Without(gone)
    /\ registry' = {v \in Registered \ gone : Usable(v)}
    /\ folder' = {v \in folder : installed'[v] # "none"}
    /\ archives' = archives \cap folder'
    /\ archive' = [v \in Versions |-> IF v \in folder' THEN archive[v] ELSE <<>>]

\* comprehensive_cleanup for the versions in use, which preserves archives and
\* removes empty directories.
CleansUp(inUse) ==
  \E gone \in Removals(inUse) :
    /\ installed' = Without(gone)
    /\ registry' = {v \in Registered \ gone : Usable(v)}
    /\ folder' = {v \in folder : v \in archives \/ installed'[v] # "none"}
    /\ UNCHANGED <<archives, archive>>

Uses(vs) == {vs[p] : p \in Profiles} \ {NoVersion}

\* auto_update_profile_versions and update_profile_version.
AutoUpdated(v) ==
  [p \in Profiles |->
     IF p \in Existing \ running /\ v > version[p] /\ Usable(v) THEN v ELSE version[p]]

\* update_profiles_to_version, which does not ask which version is newer.
UpdatedTo(v) ==
  [p \in Profiles |-> IF p \in Existing \ running /\ Usable(v) THEN v ELSE version[p]]

-----------------------------------------------------------------------------
(* cleanup_unused_binaries and consolidate_browser_versions *)

Free(c) == cleaning[c] = NotCleaning
Lists(c, with) == cleaning' = [cleaning EXCEPT ![c] = with]

ListsUsed(c, vs) == Free(c) /\ Lists(c, [NotCleaning EXCEPT !.at = "remove", !.keep = Uses(vs)])

\* The versions listed before are kept, whatever the profiles use by now.
Removes(c) ==
  /\ cleaning[c].at = "remove"
  /\ CleansUp(cleaning[c].keep)
  /\ Lists(c, NotCleaning)
  /\ UNCHANGED <<keys, task, profiles, counts>>

\* The profiles that do not run are to go to the latest version that some
\* profile uses and that is there, if there is one.
ListsOld(c, run, slot) ==
  LET available == {v \in Uses(version) : Usable(v)}
      latest == CHOOSE v \in available : \A w \in available : w <= v
  IN /\ Free(c) /\ available # {}
     /\ Lists(c, [at |-> "consolidate", keep |-> {}, left |-> Existing, latest |-> latest, slot |-> slot,
                  old |-> [p \in Profiles |-> IF p \in Existing \ run /\ version[p] # latest
                                              THEN version[p] ELSE NoVersion]])
NoneAvailable == \A v \in Uses(version) : ~Usable(v)

Changes == changes < MaxChanges /\ changes' = changes + 1 /\ UNCHANGED requests

\* For one profile after the other: it and those before it are updated, unless
\* update_profile_version refuses or fails, and their old versions removed.
Consolidates(c, p) ==
  LET cl == cleaning[c]
      left == cl.left \ {p}
      listed == {q \in Profiles \ left : cl.old[q] # NoVersion}
      gone == {cl.old[q] : q \in listed}
      updated == {q \in listed : q \in Existing \ running /\ Usable(cl.latest)}
  IN /\ cl.at = "consolidate" /\ p \in cl.left
     /\ \E failed \in SUBSET updated :
          /\ version' = [q \in Profiles |-> IF q \in updated \ failed THEN cl.latest ELSE version[q]]
          /\ IF failed = {} THEN UNCHANGED counts ELSE Changes
     /\ installed' = Without(gone \cap registry)
     /\ registry' = registry \ gone
     /\ Lists(c, IF left = {} THEN NotCleaning ELSE [cl EXCEPT !.left = left])
     /\ UNCHANGED <<archives, archive, folder, keys, task, running, launch>>

-----------------------------------------------------------------------------
(* download_browser_full and download_browser *)

At(s, step) == task[s].at = step
V(s) == task[s].version
Working(s) == task[s].at \in {"ask", "stream", "unpacking", "verify"}
Goes(s, step) == task' = [task EXCEPT ![s].at = step]

\* The command returns, to ensure_all_binaries_exist if that has called it.
Returns(s, missing) ==
  task' = [task EXCEPT ![s] =
             IF missing = {} THEN Idle ELSE [Idle EXCEPT !.at = "ensure", !.missing = missing]]

\* With success, which ensure_all_binaries_exist takes for the version it has
\* asked for.
Succeeds(s, requested, missing) ==
  /\ Returns(s, missing)
  /\ version' = IF requested = NoVersion THEN version ELSE UpdatedTo(requested)

\* The newest version of the server is taken for the one that is asked for,
\* unless the server cannot be reached, or has not published it yet.
Begins(s, asked, requested, missing) ==
  /\ \E v \in {Newest, asked} :
       \/ /\ v \in downloading
          /\ Returns(s, missing)
          /\ UNCHANGED <<version, folder, registry, downloading>>
       \/ /\ v \notin downloading
          /\ v \in registry /\ Usable(v)
          /\ Succeeds(s, requested, missing)
          /\ UNCHANGED <<folder, registry, downloading>>
       \/ /\ v \notin downloading
          /\ v \notin registry \/ ~Usable(v)
          /\ registry' = registry \ {v}
          /\ folder' = folder \cup {v}
          /\ downloading' = downloading \cup {v}
          /\ task' = [task EXCEPT ![s] = [at |-> "ask", version |-> v, file |-> v, next |-> 1,
                                          requested |-> requested, missing |-> missing]]
          /\ UNCHANGED version
  /\ UNCHANGED <<installed, archives, archive, cancelled, leaked, running, launch, cleaning>>

Room == Cardinality(Existing) + Cardinality({s \in Slots : task[s].at # "idle"}) < MaxActive
Requests == Room /\ requests < MaxRequests /\ requests' = requests + 1 /\ UNCHANGED changes

\* Asked for in the user interface, for an update or because there is no version.
Request(s, v) == At(s, "idle") /\ Requests /\ Begins(s, v, NoVersion, {})

\* verify_and_cleanup_stale_entries.
Verified == {v \in registry : Usable(v)}

\* ensure_all_binaries_exist: after a consolidation the versions of profiles
\* that are missing are downloaded one after the other.
EnsureAll(s) ==
  /\ At(s, "idle") /\ Requests
  /\ registry' = Verified
  /\ task' = [task EXCEPT ![s].at = "consolidate"]
  /\ \/ NoneAvailable /\ UNCHANGED cleaning
     \/ \E c \in Cleaners : ListsOld(c, running, s)
  /\ UNCHANGED <<disk, keys, profiles>>

\* check_missing_binaries, when the consolidation has returned.
Missing == {v \in Uses(version) : ~Usable(v)}
EnsuresMissing(s) ==
  /\ At(s, "consolidate")
  /\ \A c \in Cleaners : cleaning[c].slot # s
  /\ Returns(s, Missing)
  /\ UNCHANGED <<disk, registry, keys, profiles, cleaning, counts>>
EnsuresNext(s) ==
  /\ At(s, "ensure")
  /\ \E v \in task[s].missing : Begins(s, v, v, task[s].missing \ {v})
  /\ UNCHANGED counts

\* Mutants: the token stays; a cancelled download keeps its key.
ReleasesKeyOnly(v) == downloading' = downloading \ {v} /\ UNCHANGED <<cancelled, leaked>>
ReleasesUnlessCancelled(v) ==
  /\ downloading' = downloading \ ({v} \ cancelled)
  /\ UNCHANGED <<cancelled, leaked>>

Releases(v) ==
  /\ downloading' = downloading \ {v}
  /\ cancelled' = cancelled \ {v}
  /\ UNCHANGED leaked

\* The failure of a download, of the unpacking or of the verification.
Fails(s) ==
  /\ registry' = registry \ {V(s)}
  /\ Releases(V(s))
  /\ Returns(s, task[s].missing)
  /\ UNCHANGED <<installed, folder, profiles, cleaning, counts>>

\* resolve_download_url asks the server once more, and takes its newest version's
\* file for that of a version it no longer finds.
Files(v) == {v, Newest}

\* What an earlier download has left is resumed if the server agrees.  The
\* archive is opened to be appended to, unless a clean-up has removed its
\* directory while it was empty.
Size(v) == IF v \in archives THEN Len(archive[v]) ELSE 0
Opens(s, next, chunks) ==
  /\ V(s) \in folder
  /\ archives' = archives \cup {V(s)}
  /\ archive' = [archive EXCEPT ![V(s)] = chunks]
  /\ \E file \in Files(V(s)) :
       task' = [task EXCEPT ![s].at = "stream", ![s].file = file, ![s].next = next]

\* The rest of the file (206): nothing tells whether the beginning is of it.
Resumes(s) ==
  /\ At(s, "ask") /\ Size(V(s)) \in 1 .. Chunks - 1
  /\ Opens(s, Size(V(s)) + 1, archive[V(s)])
  /\ UNCHANGED <<installed, folder, registry, keys, profiles, cleaning, counts>>

\* Mutant: what is there is not removed first.
RestartsKeeping(s) ==
  /\ At(s, "ask")
  /\ Opens(s, 1, archive[V(s)])
  /\ UNCHANGED <<installed, folder, registry, keys, profiles, cleaning, counts>>

\* All of it (200), also after a range that the server cannot satisfy (416).
Restarts(s) ==
  /\ At(s, "ask")
  /\ Opens(s, 1, <<>>)
  /\ UNCHANGED <<installed, folder, registry, keys, profiles, cleaning, counts>>

Receives(s) ==
  /\ At(s, "stream") /\ V(s) \notin cancelled /\ task[s].next <= Chunks
  /\ archive' = [archive EXCEPT ![V(s)] = Append(@, [file |-> task[s].file, chunk |-> task[s].next])]
  /\ task' = [task EXCEPT ![s].next = @ + 1]
  /\ UNCHANGED <<installed, archives, folder, registry, keys, profiles, cleaning, counts>>

\* The token is looked at when a chunk arrives.
Stops(s) ==
  /\ At(s, "stream") /\ V(s) \in cancelled /\ task[s].next <= Chunks
  /\ archives' = archives \ {V(s)}
  /\ archive' = [archive EXCEPT ![V(s)] = <<>>]
  /\ Fails(s)

\* A request or a stream breaks off, or the archive cannot be unpacked: what is
\* on disk stays.
Breaks(s) ==
  /\ task[s].at \in {"ask", "stream", "unpacking"}
  /\ Fails(s)
  /\ UNCHANGED <<archives, archive>>

\* The server cannot satisfy the range (416) and the second request breaks off.
RetryBreaks(s) ==
  /\ At(s, "ask") /\ Size(V(s)) = Chunks
  /\ Fails(s)
  /\ archives' = archives \ {V(s)}
  /\ archive' = [archive EXCEPT ![V(s)] = <<>>]

\* At the end of the stream, or if what is there has the size the server says.
\* The executable is among the files that come first, or it is not.
Unpacks(s) ==
  /\ \/ At(s, "ask") /\ Size(V(s)) = Chunks
     \/ At(s, "stream") /\ task[s].next > Chunks
  /\ \E files \in {"unusable", "looks"} :
       installed' = [installed EXCEPT ![V(s)] = IF Usable(V(s)) THEN "looks" ELSE files]
  /\ Goes(s, "unpacking")
  /\ UNCHANGED <<archives, archive, folder, registry, keys, profiles, cleaning, counts>>

\* A clean-up that has seen the executable has removed what was there of it.
Unpacked(s) ==
  /\ At(s, "unpacking")
  /\ installed' = [installed EXCEPT ![V(s)] = IF @ = "none" THEN "unusable" ELSE "whole"]
  /\ Goes(s, "verify")
  /\ UNCHANGED <<archives, archive, folder, registry, keys, profiles, cleaning, counts>>

Verifies(s) ==
  /\ At(s, "verify") /\ Usable(V(s))
  /\ registry' = registry \cup {V(s)}
  /\ archives' = archives \ {V(s)}
  /\ archive' = [archive EXCEPT ![V(s)] = <<>>]
  /\ Releases(V(s))
  /\ Succeeds(s, task[s].requested, task[s].missing)
  /\ UNCHANGED <<installed, folder, running, launch, cleaning, counts>>
VerifyFails(s) ==
  /\ At(s, "verify") /\ ~Usable(V(s))
  /\ Fails(s)
  /\ UNCHANGED <<archives, archive>>

\* The errors after which the key stays: the directory cannot be made, the
\* registry cannot be saved.
Leaks(s) ==
  /\ Changes
  /\ leaked' = leaked \cup {V(s)}
  /\ Returns(s, task[s].missing)
  /\ UNCHANGED <<disk, downloading, cancelled, profiles, cleaning>>
LeaksUnstarted(s) ==
  /\ At(s, "ask")
  /\ Leaks(s) /\ UNCHANGED registry
LeaksVerified(s) ==
  /\ At(s, "verify") /\ Usable(V(s))
  /\ Leaks(s) /\ registry' = registry \cup {V(s)}

\* cancel_download.
Cancel(v) ==
  /\ v \in downloading \ cancelled
  /\ cancelled' = cancelled \cup {v}
  /\ UNCHANGED <<disk, registry, downloading, leaked, task, profiles, cleaning, counts>>

Advances(s) ==
  \/ EnsuresMissing(s) \/ EnsuresNext(s) \/ Resumes(s) \/ Restarts(s) \/ Receives(s) \/ Stops(s)
  \/ Breaks(s) \/ RetryBreaks(s) \/ Unpacks(s) \/ Unpacked(s) \/ Verifies(s) \/ VerifyFails(s)
  \/ LeaksUnstarted(s) \/ LeaksVerified(s)

-----------------------------------------------------------------------------
(* Updates and clean-ups, which nothing keeps from running at any time, and *)
(* the profiles *)

\* By the tasks that a download and a kill spawn, and by the update that
\* the front end completes (complete_browser_update_with_auto_update).
UpdatesProfiles(v) ==
  /\ version' = AutoUpdated(v)
  /\ UNCHANGED <<disk, registry, keys, task, running, launch, cleaning, counts>>

\* By the same tasks, every twelve hours and when a synchronisation has completed.
CleanUp(c) ==
  /\ ListsUsed(c, version)
  /\ UNCHANGED <<disk, registry, keys, task, profiles, counts>>

\* A profile is created here, or comes from another device.
Create(p, v) ==
  /\ Room
  /\ version[p] = NoVersion
  /\ version' = [version EXCEPT ![p] = v]
  /\ UNCHANGED <<disk, registry, keys, task, running, launch, cleaning, counts>>

\* delete_profile, which cleans up.
Delete(p, c) ==
  /\ p \in Existing \ running
  /\ version' = [version EXCEPT ![p] = NoVersion]
  /\ ListsUsed(c, version')
  /\ UNCHANGED <<disk, registry, keys, task, running, launch, counts>>

\* A launch works on the profile as it was when it began.
Launches(p) ==
  /\ Changes
  /\ p \in Existing \ running /\ launch[p].at = "none"
  /\ launch' = [launch EXCEPT ![p] = [at |-> "read", version |-> version[p]]]
  /\ UNCHANGED <<disk, registry, keys, task, version, running, cleaning>>
Spawns(p) ==
  /\ launch[p].at = "read"
  /\ launch' = [launch EXCEPT ![p] = IF Usable(@.version) THEN [@ EXCEPT !.at = "spawned"]
                                     ELSE NoLaunch]
  /\ UNCHANGED <<disk, registry, keys, task, version, running, cleaning, counts>>
Saves(p) ==
  /\ launch[p].at = "spawned"
  /\ version' = [version EXCEPT ![p] = launch[p].version]
  /\ running' = running \cup {p}
  /\ launch' = [launch EXCEPT ![p] = NoLaunch]
  /\ UNCHANGED <<disk, registry, keys, task, cleaning, counts>>

\* kill_browser_profile, which consolidates.
Kill(p, c) ==
  /\ p \in running
  /\ running' = running \ {p}
  /\ \/ NoneAvailable /\ UNCHANGED cleaning
     \/ ListsOld(c, running', NoSlot)
  /\ UNCHANGED <<disk, registry, keys, task, version, launch, counts>>

\* The browser ends and the status poll sees it.
Exits(p) ==
  /\ p \in running
  /\ running' = running \ {p}
  /\ UNCHANGED <<disk, registry, keys, task, version, launch, cleaning, counts>>

-----------------------------------------------------------------------------
(* Accidents *)

\* Files are removed behind the application's back, while it does not write them.
FilesLost(v) ==
  /\ Changes
  /\ v \in registry \ downloading
  /\ installed' = Without({v})
  /\ folder' = folder \ {v}
  /\ archives' = archives \ {v} /\ archive' = [archive EXCEPT ![v] = <<>>]
  /\ UNCHANGED <<registry, keys, task, profiles, cleaning>>

\* The app ends, with the chunks it has not flushed, and starts again.
Restart ==
  /\ Changes
  /\ \E kept \in [Versions -> 0 .. Chunks] :
       archive' = [v \in Versions |->
         IF \E s \in Slots : At(s, "stream") /\ V(s) = v /\ kept[v] < Len(archive[v])
         THEN SubSeq(archive[v], 1, kept[v]) ELSE archive[v]]
  /\ downloading' = {} /\ cancelled' = {} /\ leaked' = {}
  /\ task' = [s \in Slots |-> Idle]
  /\ launch' = [p \in Profiles |-> NoLaunch]
  /\ cleaning' = [c \in Cleaners |-> NotCleaning]
  /\ UNCHANGED <<installed, archives, folder, registry, version, running>>

Next ==
  \/ \E s \in Slots : Advances(s) \/ EnsureAll(s) \/ \E v \in Versions : Request(s, v)
  \/ \E v \in Versions : Cancel(v) \/ UpdatesProfiles(v) \/ FilesLost(v)
  \/ \E p \in Profiles : \/ Launches(p) \/ Spawns(p) \/ Saves(p) \/ Exits(p)
                         \/ \E v \in Versions : Create(p, v)
  \/ \E c \in Cleaners : \/ CleanUp(c) \/ Removes(c)
                         \/ \E p \in Profiles : Delete(p, c) \/ Kill(p, c) \/ Consolidates(c, p)
  \/ Restart

Spec == Init /\ [][Next]_vars

-----------------------------------------------------------------------------
(* Properties *)

\* What is on disk of an archive has no gap and no repetition, and is complete
\* when it is unpacked, whatever was broken off, cancelled, resumed, begun again
\* or lost with the application before.
InOrder(chunks) == \A i \in 1 .. Len(chunks) : chunks[i].chunk = i
ArchiveIntact ==
  /\ \A v \in Versions : InOrder(archive[v])
  /\ \A s \in Slots : At(s, "unpacking") => Len(archive[V(s)]) = Chunks

\* And all of it is of one file.  Not so: the server may have published a
\* version between a download and the one that resumes it.
ArchiveOfOneFile ==
  \A v \in Versions, i, j \in 1 .. Chunks :
    {i, j} \subseteq 1 .. Len(archive[v]) => archive[v][i].file = archive[v][j].file

\* A download that streams appends to the archive it has opened, to the end of
\* what it has written: no clean-up, consolidation, deletion of a profile,
\* cancellation, other download or loss of files has touched it.
StreamUndisturbed ==
  \A s \in Slots : At(s, "stream") =>
    V(s) \in archives /\ Len(archive[V(s)]) = task[s].next - 1

\* A profile that is stopped and has its browser on disk keeps having one.  Not
\* so: what a clean-up or consolidation has listed is old when it removes it.
StoppedStayLaunchable ==
  [][\A p \in (Existing \ running) \cap (Existing' \ running') :
       Usable(version[p]) => Usable(version[p])' \/ FilesLost(version[p])]_vars

\* A running browser's files are not removed under it, nor those of the version
\* that its profile comes back with.
RunningKeepFiles ==
  [][\A p \in running \cap running' :
       Usable(version[p]) => Usable(version[p])' \/ FilesLost(version[p])]_vars

\* A profile only goes to an older version when its own is not on disk.
NeverDowngraded ==
  [][\A p \in Existing \cap Existing' :
       version'[p] < version[p] => ~Usable(version[p]) \/ Saves(p)]_vars

\* What is registered was unpacked to its end.
RegisteredAreWhole == \A v \in registry : installed[v] # "looks"

Worked == {V(s) : s \in {r \in Slots : Working(r)}}

\* A version is locked by the one download that works on it, or it was left by
\* one that an error of the disk has ended: another one can always begin.
KeysExact ==
  /\ downloading = Worked \cup leaked /\ Worked \cap leaked = {}
  /\ \A r, s \in Slots : Working(r) /\ Working(s) /\ V(r) = V(s) => r = s

\* No download that has ended keeps its version locked.
KeysReleased == downloading \subseteq Worked
=============================================================================
