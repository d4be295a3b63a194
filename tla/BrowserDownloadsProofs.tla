------------------------ MODULE BrowserDownloadsProofs ------------------------
(* Theorems about BrowserDownloads, for any versions, chunks, downloads at *)
(* a time and profiles.                                                    *)
EXTENDS BrowserDownloads, WellFoundedInduction, TLAPS

\* A download that works holds the key of its version, and it alone works on it.
OwnKeys ==
  /\ \A s \in Slots : Working(s) => V(s) \in downloading
  /\ \A r, s \in Slots : Working(r) /\ Working(s) /\ V(r) = V(s) => r = s

\* An archive is in order, and as long as the download that writes it counts.
Beginning(chunks) == InOrder(chunks) /\ Len(chunks) <= Chunks
Beginnings ==
  /\ \A v \in Versions : Beginning(archive[v])
  /\ StreamUndisturbed
  /\ \A s \in Slots : At(s, "unpacking") => Len(archive[V(s)]) = Chunks

Inv == DownloadsTypeOK /\ OwnKeys /\ Beginnings

-----------------------------------------------------------------------------
(* The beginnings of an archive *)

LEMMA NothingBegins ==
  <<>> \in Seq(Pieces) /\ Len(<<>>) = 0 /\ Beginning(<<>>)
  BY BrowserDownloadsAssumption DEF Beginning, InOrder

LEMMA ReceivedBegins ==
  ASSUME NEW chunks \in Seq(Pieces), Beginning(chunks), Len(chunks) < Chunks, NEW file \in Versions
  PROVE  LET more == Append(chunks, [file |-> file, chunk |-> Len(chunks) + 1])
         IN  more \in Seq(Pieces) /\ Len(more) = Len(chunks) + 1 /\ Beginning(more)
<1>. DEFINE piece == [file |-> file, chunk |-> Len(chunks) + 1]
            more == Append(chunks, piece)
<1>1. Len(chunks) \in Nat /\ Len(chunks) + 1 \in 1 .. Chunks
  BY BrowserDownloadsAssumption
<1>2. piece \in Pieces /\ piece.chunk = Len(chunks) + 1
  BY <1>1 DEF Pieces
<1>. HIDE DEF piece
<1>3. more \in Seq(Pieces) /\ Len(more) = Len(chunks) + 1
  BY <1>1, <1>2
<1>4. \A i \in 1 .. Len(chunks) + 1 : more[i].chunk = i
  BY <1>1, <1>2 DEF Beginning, InOrder
<1>5. Len(more) <= Chunks
  BY <1>1, <1>3, BrowserDownloadsAssumption
<1>. QED BY <1>3, <1>4, <1>5 DEF Beginning, InOrder, piece

LEMMA KeptBegins ==
  ASSUME NEW chunks \in Seq(Pieces), Beginning(chunks), NEW k \in Nat, k < Len(chunks)
  PROVE  SubSeq(chunks, 1, k) \in Seq(Pieces) /\ Beginning(SubSeq(chunks, 1, k))
<1>. DEFINE kept == SubSeq(chunks, 1, k)
<1>1. Len(chunks) \in Nat
  OBVIOUS
<1>2. kept \in Seq(Pieces) /\ Len(kept) = k /\ \A i \in 1 .. k : kept[i] = chunks[i]
  BY <1>1
<1>3. k <= Chunks /\ \A i \in 1 .. k : i \in 1 .. Len(chunks)
  BY <1>1, BrowserDownloadsAssumption DEF Beginning
<1>. HIDE DEF kept
<1>4. Beginning(kept)
  BY <1>2, <1>3 DEF Beginning, InOrder
<1>. QED BY <1>2, <1>4 DEF kept

-----------------------------------------------------------------------------
(* The latest version *)

LEMMA Latest ==
  ASSUME NEW S \in SUBSET Versions, S # {}
  PROVE  \E v \in S : \A w \in S : w <= v
<1>. DEFINE R == {ss \in Nat \X Nat : ss[1] < ss[2]}
            T == {MaxVersion - v : v \in S}
<1>1. IsWellFoundedOn(R, Nat)
  BY NatLessThanWellFounded DEF OpToRel
<1>2. MaxVersion \in Nat /\ \A v \in S : v \in Nat /\ MaxVersion - v \in Nat
  BY BrowserDownloadsAssumption DEF Versions
<1>. T \subseteq Nat /\ T # {}
  BY <1>2
<1>3. PICK x \in T : \A y \in T : ~ (<<y, x>> \in R)
  <2>. HIDE DEF R, T
  <2>. QED BY <1>1, WFMin
<1>4. \A y \in T : ~ (y < x)
  BY <1>3
<1>5. PICK v \in S : x = MaxVersion - v
  OBVIOUS
<1>6. \A w \in S : ~ (MaxVersion - w < MaxVersion - v)
  BY <1>4, <1>5
<1>. QED BY <1>2, <1>6

-----------------------------------------------------------------------------
(* What a step writes has the right type *)

\* The other downloads stay as they are.
Only(s) == \A r \in Slots \ {s} : task'[r] = task[r]

LEMMA ReturnsType ==
  ASSUME DownloadsTypeOK, NEW s \in Slots, NEW missing \in SUBSET Versions, Returns(s, missing)
  PROVE  task' \in [Slots -> Tasks] /\ Only(s) /\ task'[s].at \in {"idle", "ensure"}
<1>1. 1 \in Versions /\ 1 \in 1 .. Chunks + 1
  BY BrowserDownloadsAssumption DEF Versions
<1>2. Idle \in Tasks /\ [Idle EXCEPT !.at = "ensure", !.missing = missing] \in Tasks
  BY <1>1 DEF Idle, Tasks, Steps
<1>. QED BY <1>2 DEF Returns, DownloadsTypeOK, Only, Idle

LEMMA GoesType ==
  ASSUME DownloadsTypeOK, NEW s \in Slots, NEW step \in Steps, NEW n \in 1 .. Chunks + 1,
         NEW file \in Versions,
         NEW f \in {[task EXCEPT ![s].at = step], [task EXCEPT ![s].next = n],
                    [task EXCEPT ![s].at = step, ![s].file = file, ![s].next = n]}
  PROVE  f \in [Slots -> Tasks]
<1>1. task \in [Slots -> Tasks] /\ task[s] \in Tasks
  BY DEF DownloadsTypeOK
<1>2. /\ [task[s] EXCEPT !.at = step] \in Tasks
      /\ [task[s] EXCEPT !.next = n] \in Tasks
      /\ [task[s] EXCEPT !.at = step, !.file = file, !.next = n] \in Tasks
  BY <1>1 DEF Tasks
<1>. QED BY <1>1, <1>2

LEMMA UpdatesType ==
  ASSUME DownloadsTypeOK, NEW v \in Versions
  PROVE  /\ AutoUpdated(v) \in [Profiles -> Versions \cup {NoVersion}]
         /\ UpdatedTo(v) \in [Profiles -> Versions \cup {NoVersion}]
  BY DEF DownloadsTypeOK, AutoUpdated, UpdatedTo

LEMMA CleansUpType ==
  ASSUME DownloadsTypeOK, NEW inUse, CleansUp(inUse)
  PROVE  /\ installed' \in [Versions -> Installations]
         /\ registry' \subseteq Versions /\ folder' \subseteq Versions
         /\ UNCHANGED <<archives, archive>>
  BY DEF DownloadsTypeOK, CleansUp, Registered, Without, Installations

\* The latest of the versions that profiles use and that are there.
LEMMA LatestUsed ==
  ASSUME DownloadsTypeOK, {v \in Uses(version) : Usable(v)} # {}
  PROVE  LET latest == CHOOSE v \in {u \in Uses(version) : Usable(u)} :
                         \A w \in {u \in Uses(version) : Usable(u)} : w <= v
         IN  latest \in Versions /\ Usable(latest)
<1>. DEFINE available == {v \in Uses(version) : Usable(v)}
<1>1. available \in SUBSET Versions /\ available # {}
  BY DEF DownloadsTypeOK, Uses
<1>2. \E v \in available : \A w \in available : w <= v
  <2>. HIDE DEF available
  <2>. QED BY <1>1, Latest
<1>. QED BY <1>1, <1>2

\* What a cleaner lists, and what it makes of it later.
LEMMA NotCleaningType == NotCleaning \in Cleanings
  BY BrowserDownloadsAssumption DEF NotCleaning, Cleanings, Versions

LEMMA ListsType ==
  ASSUME DownloadsTypeOK, NEW c \in Cleaners, NEW with \in Cleanings, Lists(c, with)
  PROVE  cleaning' \in [Cleaners -> Cleanings]
  BY DEF DownloadsTypeOK, Lists

LEMMA ListsUsedType ==
  ASSUME DownloadsTypeOK, NEW c \in Cleaners,
         NEW vs \in [Profiles -> Versions \cup {NoVersion}], ListsUsed(c, vs)
  PROVE  cleaning' \in [Cleaners -> Cleanings]
<1>1. Uses(vs) \in SUBSET Versions
  BY DEF Uses
<1>2. [NotCleaning EXCEPT !.at = "remove", !.keep = Uses(vs)] \in Cleanings
  BY <1>1, NotCleaningType DEF Cleanings
<1>. QED BY <1>2, ListsType DEF ListsUsed

LEMMA ListsOldType ==
  ASSUME DownloadsTypeOK, NEW c \in Cleaners, NEW run, NEW slot \in Slots \cup {NoSlot},
         ListsOld(c, run, slot)
  PROVE  cleaning' \in [Cleaners -> Cleanings]
<1>. DEFINE available == {v \in Uses(version) : Usable(v)}
            latest == CHOOSE v \in available : \A w \in available : w <= v
            old == [p \in Profiles |-> IF p \in Existing \ run /\ version[p] # latest
                                       THEN version[p] ELSE NoVersion]
            with == [at |-> "consolidate", keep |-> {}, left |-> Existing, latest |-> latest,
                     slot |-> slot, old |-> old]
<1>1. available # {} /\ Lists(c, with)
  BY DEF ListsOld
<1>2. latest \in Versions
  BY <1>1, LatestUsed
<1>3. old \in [Profiles -> Versions \cup {NoVersion}]
  BY DEF DownloadsTypeOK
<1>4. Existing \in SUBSET Profiles
  BY DEF Existing
<1>. HIDE DEF latest, old
<1>5. with \in Cleanings
  BY <1>2, <1>3, <1>4 DEF Cleanings
<1>. QED BY <1>1, <1>5, ListsType

LEMMA ConsolidatesType ==
  ASSUME DownloadsTypeOK, NEW c \in Cleaners, NEW p \in Profiles, Consolidates(c, p)
  PROVE  DownloadsTypeOK'
<1>. DEFINE cl == cleaning[c]
            left == cl.left \ {p}
            listed == {q \in Profiles \ left : cl.old[q] # NoVersion}
            gone == {cl.old[q] : q \in listed}
            updated == {q \in listed : q \in Existing \ running /\ Usable(cl.latest)}
<1>1. cl \in Cleanings
  BY DEF DownloadsTypeOK
<1>2. PICK failed \in SUBSET updated :
        /\ version' = [q \in Profiles |-> IF q \in updated \ failed THEN cl.latest ELSE version[q]]
        /\ IF failed = {} THEN UNCHANGED counts ELSE Changes
  BY DEF Consolidates
<1>3. /\ installed' = Without(gone \cap registry) /\ registry' = registry \ gone
      /\ Lists(c, IF left = {} THEN NotCleaning ELSE [cl EXCEPT !.left = left])
      /\ UNCHANGED <<archives, archive, folder, keys, task, running, launch>>
  BY DEF Consolidates
<1>4. cl.latest \in Versions /\ [cl EXCEPT !.left = left] \in Cleanings
  BY <1>1 DEF Cleanings
<1>. HIDE DEF cl, left, gone, updated
<1>5. cleaning' \in [Cleaners -> Cleanings]
  BY <1>3, <1>4, NotCleaningType, ListsType
<1>6. version' \in [Profiles -> Versions \cup {NoVersion}]
  BY <1>2, <1>4 DEF DownloadsTypeOK
<1>7. requests' \in 0 .. MaxRequests /\ changes' \in 0 .. MaxChanges
  BY <1>2, BrowserDownloadsAssumption DEF counts, Changes, DownloadsTypeOK
<1>8. installed' \in [Versions -> Installations] /\ registry' \subseteq Versions
  BY <1>3 DEF Without, Installations, DownloadsTypeOK
<1>. QED BY <1>3, <1>5, <1>6, <1>7, <1>8 DEF DownloadsTypeOK, keys

\* What a call of download_browser_full does at once.
LEMMA BeginsType ==
  ASSUME DownloadsTypeOK, NEW s \in Slots, NEW asked \in Versions,
         NEW requested \in Versions \cup {NoVersion}, NEW missing \in SUBSET Versions,
         Begins(s, asked, requested, missing), UNCHANGED changes, requests' \in 0 .. MaxRequests
  PROVE  DownloadsTypeOK' /\ Only(s) /\ UNCHANGED <<archives, archive>>
<1>1. PICK v \in Versions :
        \/ /\ Returns(s, missing)
           /\ UNCHANGED <<version, folder, registry, downloading>>
        \/ /\ Returns(s, missing)
           /\ version' = IF requested = NoVersion THEN version ELSE UpdatedTo(requested)
           /\ UNCHANGED <<folder, registry, downloading>>
        \/ /\ registry' = registry \ {v}
           /\ folder' = folder \cup {v}
           /\ downloading' = downloading \cup {v}
           /\ task' = [task EXCEPT ![s] = [at |-> "ask", version |-> v, file |-> v, next |-> 1,
                                           requested |-> requested, missing |-> missing]]
           /\ UNCHANGED version
  BY BrowserDownloadsAssumption DEF Begins, Succeeds, Newest, Versions
<1>2. UNCHANGED <<installed, archives, archive, cancelled, leaked, running, launch, cleaning>>
  BY DEF Begins
<1>3. task' \in [Slots -> Tasks] /\ Only(s)
  <2>1. CASE Returns(s, missing)
    BY <2>1, ReturnsType
  <2>2. CASE task' = [task EXCEPT ![s] = [at |-> "ask", version |-> v, file |-> v, next |-> 1,
                                          requested |-> requested, missing |-> missing]]
    BY <2>2, BrowserDownloadsAssumption DEF DownloadsTypeOK, Tasks, Steps, Only
  <2>. QED BY <1>1, <2>1, <2>2
<1>4. version' \in [Profiles -> Versions \cup {NoVersion}]
  BY <1>1, UpdatesType DEF DownloadsTypeOK
<1>5. folder' \subseteq Versions /\ registry' \subseteq Versions
      /\ downloading' \subseteq Versions /\ downloading \subseteq downloading'
  BY <1>1 DEF DownloadsTypeOK
<1>. QED BY <1>2, <1>3, <1>4, <1>5 DEF DownloadsTypeOK

\* What is left of the archives when the app ends.
LEMMA KeptType ==
  ASSUME DownloadsTypeOK, Beginnings, Restart, NEW v \in Versions
  PROVE  archive'[v] \in Seq(Pieces) /\ Beginning(archive'[v])
<1>1. PICK kept \in [Versions -> 0 .. Chunks] :
        archive' = [u \in Versions |->
          IF \E s \in Slots : At(s, "stream") /\ V(s) = u /\ kept[u] < Len(archive[u])
          THEN SubSeq(archive[u], 1, kept[u]) ELSE archive[u]]
  BY DEF Restart
<1>2. archive[v] \in Seq(Pieces) /\ Beginning(archive[v]) /\ kept[v] \in Nat
  BY BrowserDownloadsAssumption DEF Beginnings, DownloadsTypeOK
<1>3. CASE archive'[v] = archive[v]
  BY <1>2, <1>3
<1>4. CASE kept[v] < Len(archive[v]) /\ archive'[v] = SubSeq(archive[v], 1, kept[v])
  BY <1>2, <1>4, KeptBegins
<1>. QED BY <1>1, <1>3, <1>4

LEMMA Initially ==
  Idle \in Tasks /\ NoLaunch \in [at : {"none", "read", "spawned"}, version : Versions]
  BY BrowserDownloadsAssumption DEF Idle, NoLaunch, Tasks, Steps, Versions

LEMMA InitType == Init => Inv
<1>1. 1 \in Versions /\ 1 \in 1 .. Chunks + 1 /\ <<>> \in Seq(Pieces)
  BY BrowserDownloadsAssumption, NothingBegins DEF Versions
<1>2. Init => DownloadsTypeOK
  BY <1>1, NotCleaningType, BrowserDownloadsAssumption
  DEF Init, DownloadsTypeOK, Installations, Idle, NoLaunch, Tasks, Steps
<1>3. Init => OwnKeys
  BY DEF Init, OwnKeys, Working, Idle
<1>4. Init => Beginnings
  BY NothingBegins DEF Init, Beginnings, StreamUndisturbed, At, Idle
<1>. QED BY <1>2, <1>3, <1>4 DEF Inv

\* A step of a download.
LEMMA AdvanceType ==
  ASSUME Inv, NEW s \in Slots, Advances(s)
  PROVE  DownloadsTypeOK' /\ Only(s)
<1>. USE DEF DownloadsTypeOK, disk, keys, profiles, counts
<1>0. /\ V(s) \in Versions /\ task[s] \in Tasks /\ task[s].missing \in SUBSET Versions
      /\ task[s].requested \in Versions \cup {NoVersion} /\ DownloadsTypeOK
      /\ <<>> \in Seq(Pieces) /\ archive[V(s)] \in Seq(Pieces)
      /\ 1 \in 1 .. Chunks + 1 /\ {"idle", "ensure", "ask", "stream", "unpacking", "verify"} \subseteq Steps
  BY BrowserDownloadsAssumption DEF Inv, Tasks, V, Steps
<1>1. CASE EnsuresNext(s)
  <2>1. PICK v \in task[s].missing : Begins(s, v, v, task[s].missing \ {v})
    BY <1>1 DEF EnsuresNext
  <2>2. v \in Versions /\ task[s].missing \ {v} \in SUBSET Versions
    BY <1>0
  <2>3. UNCHANGED changes /\ requests' \in 0 .. MaxRequests
    BY <1>0, <1>1 DEF EnsuresNext
  <2>. QED BY <1>0, <2>1, <2>2, <2>3, BeginsType
<1>2. CASE Resumes(s) \/ Restarts(s)
  <2>1. PICK n \in 1 .. Chunks + 1, chunks \in Seq(Pieces) : Opens(s, n, chunks)
    <3>1. CASE Resumes(s)
      <4>1. Size(V(s)) + 1 \in 1 .. Chunks + 1
        BY <3>1, BrowserDownloadsAssumption DEF Resumes
      <4>. QED BY <1>0, <3>1, <4>1 DEF Resumes
    <3>2. CASE Restarts(s)
      BY <1>0, <3>2 DEF Restarts
    <3>. QED BY <1>2, <3>1, <3>2
  <2>2. PICK file \in Files(V(s)) :
          task' = [task EXCEPT ![s].at = "stream", ![s].file = file, ![s].next = n]
    BY <2>1 DEF Opens
  <2>3. file \in Versions
    BY <1>0, BrowserDownloadsAssumption DEF Files, Newest, Versions
  <2>4. task' \in [Slots -> Tasks] /\ Only(s)
    <3>1. task' \in [Slots -> Tasks]
      BY <1>0, <2>2, <2>3, GoesType
    <3>2. Only(s)
      BY <1>0, <2>2 DEF Only
    <3>. QED BY <3>1, <3>2
  <2>5. archives' \subseteq Versions /\ archive' \in [Versions -> Seq(Pieces)]
    BY <1>0, <2>1 DEF Opens
  <2>. QED BY <1>0, <1>2, <2>4, <2>5 DEF Resumes, Restarts
<1>3. CASE Receives(s)
  <2>1. task[s].next \in 1 .. Chunks + 1 /\ task[s].next <= Chunks
    BY <1>0, <1>3 DEF Tasks, Receives
  <2>2. task[s].next + 1 \in 1 .. Chunks + 1 /\ task[s].next \in 1 .. Chunks
    BY <2>1, BrowserDownloadsAssumption
  <2>3. task' \in [Slots -> Tasks] /\ Only(s)
    BY <1>0, <1>3, <2>2, GoesType DEF Receives, Only
  <2>4. Append(archive[V(s)], [file |-> task[s].file, chunk |-> task[s].next]) \in Seq(Pieces)
    <3>1. [file |-> task[s].file, chunk |-> task[s].next] \in Pieces
      BY <1>0, <2>2 DEF Pieces, Tasks
    <3>. QED BY <1>0, <3>1
  <2>. QED BY <1>0, <1>3, <2>3, <2>4 DEF Receives
<1>4. ASSUME Fails(s), archives' \subseteq archives,
             archive' \in {archive, [archive EXCEPT ![V(s)] = <<>>]}
      PROVE  DownloadsTypeOK' /\ Only(s)
  <2>1. task' \in [Slots -> Tasks] /\ Only(s)
    BY <1>0, <1>4, ReturnsType DEF Fails
  <2>. QED BY <1>0, <1>4, <2>1 DEF Fails, Releases
<1>5. CASE Stops(s) \/ Breaks(s) \/ RetryBreaks(s) \/ VerifyFails(s)
  BY <1>4, <1>5 DEF Stops, Breaks, RetryBreaks, VerifyFails
<1>6. CASE Unpacks(s) \/ Unpacked(s)
  <2>0. PICK step \in Steps : task' = [task EXCEPT ![s].at = step]
    BY <1>0, <1>6 DEF Unpacks, Unpacked, Goes
  <2>1. task' \in [Slots -> Tasks] /\ Only(s)
    BY <1>0, <2>0, GoesType DEF Only
  <2>2. installed' \in [Versions -> Installations]
    BY <1>0, <1>6 DEF Unpacks, Unpacked, Installations
  <2>. QED BY <1>0, <1>6, <2>1, <2>2 DEF Unpacks, Unpacked
<1>7. CASE Verifies(s)
  <2>1. task' \in [Slots -> Tasks] /\ Only(s)
    BY <1>0, <1>7, ReturnsType DEF Verifies, Succeeds
  <2>2. version' \in [Profiles -> Versions \cup {NoVersion}]
    BY <1>0, <1>7, UpdatesType DEF Verifies, Succeeds
  <2>. QED BY <1>0, <1>7, <2>1, <2>2 DEF Verifies, Releases
<1>8. CASE LeaksUnstarted(s) \/ LeaksVerified(s)
  <2>0. Leaks(s) /\ registry' \subseteq Versions
    BY <1>0, <1>8 DEF LeaksUnstarted, LeaksVerified
  <2>1. task' \in [Slots -> Tasks] /\ Only(s)
    BY <1>0, <2>0, ReturnsType DEF Leaks
  <2>2. changes' \in 0 .. MaxChanges /\ UNCHANGED requests
    BY <1>0, <2>0, BrowserDownloadsAssumption DEF Leaks, Changes
  <2>. QED BY <1>0, <2>0, <2>1, <2>2 DEF Leaks
<1>9. CASE EnsuresMissing(s)
  <2>1. Missing \in SUBSET Versions
    BY <1>0 DEF Missing, Uses
  <2>2. task' \in [Slots -> Tasks] /\ Only(s)
    BY <1>0, <1>9, <2>1, ReturnsType DEF EnsuresMissing
  <2>. QED BY <1>0, <1>9, <2>2 DEF EnsuresMissing
<1>. QED BY <1>1, <1>2, <1>3, <1>5, <1>6, <1>7, <1>8, <1>9 DEF Advances

LEMMA StepType == Inv /\ [Next]_vars => DownloadsTypeOK'
<1>. SUFFICES ASSUME Inv, DownloadsTypeOK, [Next]_vars PROVE DownloadsTypeOK'
  BY DEF Inv
<1>. USE DEF DownloadsTypeOK, disk, keys, profiles, counts
<1>1. ASSUME NEW s \in Slots, Advances(s) PROVE DownloadsTypeOK'
  BY <1>1, AdvanceType
<1>2. ASSUME NEW s \in Slots, EnsureAll(s) PROVE DownloadsTypeOK'
  <2>1. registry' \subseteq Versions
    BY <1>2 DEF EnsureAll, Verified
  <2>2. cleaning' \in [Cleaners -> Cleanings]
    BY <1>2, ListsOldType DEF EnsureAll
  <2>3. task' \in [Slots -> Tasks]
    <3>1. task[s] \in Tasks /\ "consolidate" \in Steps
      BY DEF Steps
    <3>2. [task[s] EXCEPT !.at = "consolidate"] \in Tasks
      BY <3>1 DEF Tasks
    <3>. QED BY <1>2, <3>2 DEF EnsureAll
  <2>4. requests' \in 0 .. MaxRequests /\ changes' \in 0 .. MaxChanges
    BY <1>2, BrowserDownloadsAssumption DEF EnsureAll, Requests
  <2>. QED BY <1>2, <2>1, <2>2, <2>3, <2>4 DEF EnsureAll
<1>3. ASSUME NEW s \in Slots, NEW v \in Versions, Request(s, v) PROVE DownloadsTypeOK'
  <2>1. UNCHANGED changes /\ requests' \in 0 .. MaxRequests
    BY <1>3, BrowserDownloadsAssumption DEF Request, Requests
  <2>2. Begins(s, v, NoVersion, {}) /\ {} \in SUBSET Versions
    BY <1>3 DEF Request
  <2>. QED BY <2>1, <2>2, BeginsType
<1>4. ASSUME NEW v \in Versions, Cancel(v) PROVE DownloadsTypeOK'
  BY <1>4 DEF Cancel
<1>5. ASSUME NEW v \in Versions, UpdatesProfiles(v) PROVE DownloadsTypeOK'
  <2>1. version' \in [Profiles -> Versions \cup {NoVersion}]
    BY <1>5, UpdatesType DEF UpdatesProfiles
  <2>. QED BY <1>5, <2>1 DEF UpdatesProfiles
<1>6. Changes => changes' \in 0 .. MaxChanges /\ UNCHANGED requests
  BY BrowserDownloadsAssumption DEF Changes
<1>7. ASSUME NEW v \in Versions, FilesLost(v) PROVE DownloadsTypeOK'
  <2>1. installed' \in [Versions -> Installations] /\ archive' \in [Versions -> Seq(Pieces)]
    BY <1>7 DEF FilesLost, Without, Installations
  <2>. QED BY <1>6, <1>7, <2>1 DEF FilesLost
<1>8. ASSUME NEW c \in Cleaners, CleanUp(c) \/ Removes(c) PROVE DownloadsTypeOK'
  <2>1. CASE CleanUp(c)
    <3>1. cleaning' \in [Cleaners -> Cleanings]
      BY <2>1, ListsUsedType DEF CleanUp
    <3>. QED BY <2>1, <3>1 DEF CleanUp
  <2>2. CASE Removes(c)
    <3>1. cleaning' \in [Cleaners -> Cleanings]
      BY <2>2, NotCleaningType, ListsType DEF Removes
    <3>. QED BY <2>2, <3>1, CleansUpType DEF Removes
  <2>. QED BY <1>8, <2>1, <2>2
<1>9. ASSUME NEW c \in Cleaners, NEW p \in Profiles, Delete(p, c) PROVE DownloadsTypeOK'
  <2>1. version' \in [Profiles -> Versions \cup {NoVersion}]
    BY <1>9 DEF Delete
  <2>2. cleaning' \in [Cleaners -> Cleanings]
    BY <1>9, <2>1, ListsUsedType DEF Delete
  <2>. QED BY <1>9, <2>1, <2>2 DEF Delete
<1>10. ASSUME NEW c \in Cleaners, NEW p \in Profiles, Kill(p, c) \/ Consolidates(c, p)
       PROVE  DownloadsTypeOK'
  <2>1. CASE Kill(p, c)
    <3>1. cleaning' \in [Cleaners -> Cleanings]
      BY <2>1, ListsOldType DEF Kill
    <3>. QED BY <2>1, <3>1 DEF Kill
  <2>. QED BY <1>10, <2>1, ConsolidatesType
<1>11. ASSUME NEW p \in Profiles, NEW v \in Versions, Create(p, v) PROVE DownloadsTypeOK'
  BY <1>11 DEF Create
<1>12. ASSUME NEW p \in Profiles, Launches(p) PROVE DownloadsTypeOK'
  <2>1. version[p] \in Versions
    BY <1>12 DEF Launches, Existing
  <2>. QED BY <1>6, <1>12, <2>1 DEF Launches
<1>13. ASSUME NEW p \in Profiles, Spawns(p) \/ Saves(p) \/ Exits(p) PROVE DownloadsTypeOK'
  <2>1. ASSUME Spawns(p) PROVE DownloadsTypeOK'
    <3>1. [launch[p] EXCEPT !.at = "spawned"] \in [at : {"none", "read", "spawned"}, version : Versions]
      OBVIOUS
    <3>2. \/ launch' = [launch EXCEPT ![p] = [launch[p] EXCEPT !.at = "spawned"]]
          \/ launch' = [launch EXCEPT ![p] = NoLaunch]
      BY <2>1 DEF Spawns
    <3>3. launch' \in [Profiles -> [at : {"none", "read", "spawned"}, version : Versions]]
      BY <3>1, <3>2, Initially
    <3>. QED BY <2>1, <3>3 DEF Spawns
  <2>2. Saves(p) => DownloadsTypeOK'
    BY Initially DEF Saves
  <2>3. Exits(p) => DownloadsTypeOK'
    BY DEF Exits
  <2>. QED BY <1>13, <2>1, <2>2, <2>3
<1>14. CASE Restart
  <2>1. archive' \in [Versions -> Seq(Pieces)]
    <3>1. archive' = [v \in Versions |-> archive'[v]]
      BY <1>14 DEF Restart
    <3>. QED BY <1>14, <3>1, KeptType DEF Inv
  <2>2. cleaning' \in [Cleaners -> Cleanings]
    BY <1>14, NotCleaningType DEF Restart
  <2>. QED BY <1>6, <1>14, <2>1, <2>2, Initially DEF Restart
<1>15. CASE UNCHANGED vars
  BY <1>15 DEF vars
<1>. QED BY <1>1, <1>2, <1>3, <1>4, <1>5, <1>7, <1>8, <1>9, <1>10, <1>11, <1>12, <1>13, <1>14,
            <1>15 DEF Next

-----------------------------------------------------------------------------
(* Keys *)

\* A step of one download keeps the keys apart if it leaves the others theirs and
\* takes one that is free, or the one it has.
LEMMA Apart ==
  ASSUME OwnKeys, NEW s \in Slots, Only(s),
         \A r \in Slots \ {s} : Working(r) => V(r) \in downloading',
         Working(s)' => V(s)' \in downloading' /\ \A r \in Slots \ {s} : Working(r) => V(r) # V(s)'
  PROVE  OwnKeys'
<1>1. \A r \in Slots \ {s} : Working(r)' = Working(r) /\ V(r)' = V(r)
  BY DEF Only, Working, V
<1>. QED BY <1>1 DEF OwnKeys

LEMMA BeginsKeys ==
  ASSUME Inv, NEW s \in Slots, ~Working(s), NEW asked \in Versions, NEW requested,
         NEW missing \in SUBSET Versions, Only(s), Begins(s, asked, requested, missing)
  PROVE  OwnKeys'
<1>1. DownloadsTypeOK /\ OwnKeys /\ \A r \in Slots : Working(r) => V(r) \in downloading
  BY DEF Inv, OwnKeys
<1>2. CASE Returns(s, missing) /\ UNCHANGED downloading
  <2>1. ~Working(s)'
    BY <1>1, <1>2, ReturnsType DEF Working
  <2>. QED BY <1>1, <1>2, <2>1, Apart
<1>3. ASSUME NEW v, v \notin downloading, downloading' = downloading \cup {v},
             task' = [task EXCEPT ![s] = [at |-> "ask", version |-> v, file |-> v, next |-> 1,
                                          requested |-> requested, missing |-> missing]]
      PROVE  OwnKeys'
  <2>1. V(s)' = v
    BY <1>1, <1>3 DEF V, DownloadsTypeOK
  <2>. QED BY <1>1, <1>3, <2>1, Apart
<1>. QED BY <1>2, <1>3 DEF Begins, Succeeds

\* A download that goes on does so with its version.
LEMMA KeptVersion ==
  ASSUME DownloadsTypeOK, NEW s \in Slots,
         Resumes(s) \/ Restarts(s) \/ Receives(s) \/ Unpacks(s) \/ Unpacked(s)
  PROVE  V(s)' = V(s) /\ task'[s].at \in {"stream", "unpacking", "verify"}
<1>0. task[s] \in Tasks /\ task \in [Slots -> Tasks]
  BY DEF DownloadsTypeOK
<1>1. ASSUME NEW n, NEW chunks, Opens(s, n, chunks)
      PROVE  V(s)' = V(s) /\ task'[s].at = "stream"
  <2>1. PICK file : task' = [task EXCEPT ![s].at = "stream", ![s].file = file, ![s].next = n]
    BY <1>1 DEF Opens
  <2>. QED BY <1>0, <2>1 DEF V, Tasks
<1>2. Resumes(s) \/ Restarts(s) => V(s)' = V(s) /\ task'[s].at = "stream"
  BY <1>1 DEF Resumes, Restarts
<1>3. Receives(s) => V(s)' = V(s) /\ task'[s].at = "stream"
  BY <1>0 DEF Receives, At, V, Tasks
<1>4. Unpacks(s) => V(s)' = V(s) /\ task'[s].at = "unpacking"
  BY <1>0 DEF Unpacks, Goes, V, Tasks
<1>5. Unpacked(s) => V(s)' = V(s) /\ task'[s].at = "verify"
  BY <1>0 DEF Unpacked, Goes, V, Tasks
<1>. QED BY <1>2, <1>3, <1>4, <1>5

LEMMA AdvanceKeys ==
  ASSUME Inv, NEW s \in Slots, Advances(s)
  PROVE  OwnKeys'
<1>. USE DEF disk, keys, profiles, counts
<1>1. /\ DownloadsTypeOK /\ OwnKeys /\ Only(s) /\ task[s] \in Tasks
      /\ \A r \in Slots : Working(r) => V(r) \in downloading
      /\ \A r \in Slots \ {s} : Working(s) /\ Working(r) => V(r) # V(s)
  BY AdvanceType DEF Inv, OwnKeys, DownloadsTypeOK
<1>2. CASE EnsuresNext(s)
  <2>1. ~Working(s)
    BY <1>2 DEF EnsuresNext, At, Working
  <2>2. PICK v \in task[s].missing : Begins(s, v, v, task[s].missing \ {v})
    BY <1>2 DEF EnsuresNext
  <2>3. v \in Versions /\ task[s].missing \ {v} \in SUBSET Versions
    BY <1>1 DEF Tasks
  <2>. QED BY <1>1, <2>1, <2>2, <2>3, BeginsKeys
\* It goes on with its version.
<1>3. ASSUME Working(s), V(s)' = V(s), UNCHANGED downloading
      PROVE  OwnKeys'
  BY <1>1, <1>3, Apart
<1>4. CASE Resumes(s) \/ Restarts(s) \/ Receives(s) \/ Unpacks(s) \/ Unpacked(s)
  <2>1. Working(s)
    BY <1>4 DEF Resumes, Restarts, Receives, Unpacks, Unpacked, At, Working
  <2>2. V(s)' = V(s)
    BY <1>1, <1>4, KeptVersion
  <2>. QED BY <1>3, <1>4, <2>1, <2>2 DEF Resumes, Restarts, Receives, Unpacks, Unpacked
\* It ends, and gives up its key at most.
<1>5. ASSUME Working(s), Returns(s, task[s].missing), downloading \ {V(s)} \subseteq downloading'
      PROVE  OwnKeys'
  <2>1. task[s].missing \in SUBSET Versions
    BY <1>1 DEF Tasks
  <2>2. ~Working(s)'
    BY <1>1, <1>5, <2>1, ReturnsType DEF Working
  <2>. QED BY <1>1, <1>5, <2>2, Apart
<1>6. CASE Stops(s) \/ Breaks(s) \/ RetryBreaks(s) \/ VerifyFails(s)
  <2>1. Working(s) /\ Fails(s)
    BY <1>6 DEF Stops, Breaks, RetryBreaks, VerifyFails, At, Working
  <2>. QED BY <1>5, <2>1 DEF Fails, Releases
<1>7. CASE Verifies(s) \/ LeaksUnstarted(s) \/ LeaksVerified(s)
  <2>1. Working(s)
    BY <1>7 DEF Verifies, LeaksUnstarted, LeaksVerified, At, Working
  <2>. QED BY <1>5, <1>7, <2>1 DEF Verifies, LeaksUnstarted, LeaksVerified, Leaks, Succeeds, Releases
<1>8. CASE EnsuresMissing(s)
  <2>1. ~Working(s)' /\ UNCHANGED downloading
    <3>1. Missing \in SUBSET Versions
      BY <1>1 DEF Missing, Uses, DownloadsTypeOK
    <3>. QED BY <1>1, <1>8, <3>1, ReturnsType DEF EnsuresMissing, Working
  <2>. QED BY <1>1, <2>1, Apart
<1>. QED BY <1>2, <1>4, <1>6, <1>7, <1>8 DEF Advances

\* The steps that no download takes leave the downloads alone, or end them all.
LEMMA OtherSteps ==
  ASSUME [Next]_vars, \A s \in Slots : ~Advances(s) /\ ~EnsureAll(s),
         \A s \in Slots, v \in Versions : ~Request(s, v), ~Restart
  PROVE  /\ UNCHANGED <<task, downloading, leaked>>
         /\ \/ UNCHANGED <<archives, archive>>
            \/ \E v \in Versions \ downloading : /\ archives' = archives \ {v}
                                                 /\ archive' = [archive EXCEPT ![v] = <<>>]
<1>. USE DEF disk, keys, profiles, counts
<1>1. \A v \in Versions : Cancel(v) \/ UpdatesProfiles(v) =>
        UNCHANGED <<task, downloading, leaked, archives, archive>>
  BY DEF Cancel, UpdatesProfiles
<1>2. \A v \in Versions : FilesLost(v) =>
        /\ UNCHANGED <<task, downloading, leaked>> /\ v \notin downloading
        /\ archives' = archives \ {v} /\ archive' = [archive EXCEPT ![v] = <<>>]
  BY DEF FilesLost
<1>3. \A p \in Profiles : Launches(p) \/ Spawns(p) \/ Saves(p) \/ Exits(p)
        => UNCHANGED <<task, downloading, leaked, archives, archive>>
  BY DEF Launches, Spawns, Saves, Exits
<1>4. \A p \in Profiles, v \in Versions : Create(p, v) => UNCHANGED <<task, downloading, leaked, archives, archive>>
  BY DEF Create
<1>5. \A c \in Cleaners : CleanUp(c) \/ Removes(c) => UNCHANGED <<task, downloading, leaked, archives, archive>>
  BY DEF CleanUp, Removes, CleansUp
<1>6. \A c \in Cleaners, p \in Profiles : Delete(p, c) \/ Kill(p, c) \/ Consolidates(c, p)
        => UNCHANGED <<task, downloading, leaked, archives, archive>>
  BY DEF Delete, Kill, Consolidates
<1>. QED BY <1>1, <1>2, <1>3, <1>4, <1>5, <1>6 DEF Next, vars

\* ensure_all_binaries_exist itself holds no key and writes no archive.
LEMMA EnsureAllTask ==
  ASSUME DownloadsTypeOK, NEW s \in Slots, EnsureAll(s)
  PROVE  /\ ~Working(s) /\ Only(s) /\ UNCHANGED <<downloading, leaked, archives, archive>>
         /\ task'[s].at = "consolidate"
<1>1. ~Working(s)
  BY DEF EnsureAll, At, Working
<1>2. UNCHANGED <<downloading, leaked, archives, archive>>
  BY DEF EnsureAll, keys, disk
<1>3. Only(s) /\ task'[s].at = "consolidate"
  BY DEF EnsureAll, Only, DownloadsTypeOK, Tasks
<1>. QED BY <1>1, <1>2, <1>3

LEMMA RequestTask ==
  ASSUME DownloadsTypeOK, NEW s \in Slots, NEW v \in Versions, Request(s, v)
  PROVE  /\ ~Working(s) /\ Begins(s, v, NoVersion, {}) /\ {} \in SUBSET Versions
         /\ Only(s) /\ UNCHANGED <<archives, archive>>
<1>1. ~Working(s) /\ Begins(s, v, NoVersion, {})
  BY DEF Request, At, Working
<1>2. UNCHANGED changes /\ requests' \in 0 .. MaxRequests
  BY BrowserDownloadsAssumption DEF Request, Requests, DownloadsTypeOK
<1>. QED BY <1>1, <1>2, BeginsType

LEMMA StepKeys == Inv /\ [Next]_vars => OwnKeys'
<1>. SUFFICES ASSUME Inv, [Next]_vars PROVE OwnKeys'
  OBVIOUS
<1>0. DownloadsTypeOK /\ OwnKeys /\ \A r \in Slots : Working(r) => V(r) \in downloading
  BY DEF Inv, OwnKeys
<1>1. ASSUME NEW s \in Slots, Advances(s) PROVE OwnKeys'
  BY <1>1, AdvanceKeys
<1>2. ASSUME NEW s \in Slots, EnsureAll(s) PROVE OwnKeys'
  <2>1. ~Working(s)' /\ Only(s) /\ UNCHANGED downloading
    BY <1>0, <1>2, EnsureAllTask DEF Working
  <2>. QED BY <1>0, <2>1, Apart
<1>3. ASSUME NEW s \in Slots, NEW v \in Versions, Request(s, v) PROVE OwnKeys'
  BY <1>0, <1>3, RequestTask, BeginsKeys
<1>4. CASE Restart
  BY <1>4 DEF Restart, OwnKeys, Working, Idle
<1>5. ASSUME UNCHANGED <<task, downloading>> PROVE OwnKeys'
  BY <1>0, <1>5 DEF OwnKeys, Working, V
<1>. QED BY <1>1, <1>2, <1>3, <1>4, <1>5, OtherSteps

-----------------------------------------------------------------------------
(* Archives *)

\* What the archive that s works on is like.
Counts(s) ==
  /\ At(s, "stream") => V(s) \in archives /\ Len(archive[V(s)]) = task[s].next - 1
  /\ At(s, "unpacking") => Len(archive[V(s)]) = Chunks

\* A step of one download leaves a beginning if it writes one, to no archive that
\* another download works on, and counts right.
LEMMA Undisturbed ==
  ASSUME Inv, NEW s \in Slots, Only(s),
         \A v \in Versions : Beginning(archive'[v]),
         \A r \in Slots \ {s} : Working(r) => /\ archive'[V(r)] = archive[V(r)]
                                              /\ V(r) \in archives => V(r) \in archives',
         Counts(s)'
  PROVE  Beginnings'
<1>1. \A r \in Slots \ {s} : task'[r] = task[r]
  BY DEF Only
<1>2. \A r \in Slots : At(r, "stream") \/ At(r, "unpacking") => Working(r)
  BY DEF At, Working
<1>3. \A r \in Slots : Counts(r)
  BY DEF Inv, Beginnings, StreamUndisturbed, Counts
<1>4. ASSUME NEW r \in Slots \ {s} PROVE Counts(r)'
  <2>1. At(r, "stream")' = At(r, "stream") /\ At(r, "unpacking")' = At(r, "unpacking")
        /\ V(r)' = V(r) /\ task'[r].next = task[r].next
    BY <1>1 DEF At, V
  <2>2. Working(r) => archive'[V(r)'] = archive[V(r)] /\ (V(r) \in archives => V(r)' \in archives')
    BY <2>1
  <2>. QED BY <1>2, <1>3, <2>1, <2>2 DEF Counts
<1>5. \A r \in Slots : Counts(r)'
  BY <1>4
<1>. QED BY <1>5 DEF Beginnings, StreamUndisturbed, Counts, Beginning, InOrder

\* The archive that a download writes.
LEMMA Writes ==
  ASSUME Inv, NEW s \in Slots, Working(s), Only(s), NEW chunks, Beginning(chunks),
         archive' \in {archive, [archive EXCEPT ![V(s)] = chunks]},
         archives \ {V(s)} \subseteq archives', Counts(s)'
  PROVE  Beginnings'
<1>1. DownloadsTypeOK /\ \A r \in Slots : V(r) \in Versions
  BY DEF Inv, DownloadsTypeOK, V, Tasks
<1>2. \A v \in Versions : Beginning(archive[v])
  BY DEF Inv, Beginnings
<1>3. \A v \in Versions : Beginning(archive'[v])
  BY <1>1, <1>2 DEF DownloadsTypeOK
<1>4. \A r \in Slots \ {s} : Working(r) => V(r) # V(s)
  BY DEF Inv, OwnKeys
<1>5. \A r \in Slots \ {s} : Working(r) => /\ archive'[V(r)] = archive[V(r)]
                                           /\ V(r) \in archives => V(r) \in archives'
  BY <1>1, <1>4 DEF DownloadsTypeOK
<1>. QED BY <1>3, <1>5, Undisturbed

LEMMA AdvanceArchive ==
  ASSUME Inv, NEW s \in Slots, Advances(s)
  PROVE  Beginnings'
<1>. USE DEF disk, keys, profiles, counts
<1>. DEFINE chunks == archive[V(s)]
<1>1. /\ DownloadsTypeOK /\ Only(s) /\ task[s] \in Tasks /\ V(s) \in Versions
      /\ task[s].missing \in SUBSET Versions
  BY AdvanceType DEF Inv, DownloadsTypeOK, Tasks, V
<1>2. /\ chunks \in Seq(Pieces) /\ Beginning(chunks) /\ Len(chunks) \in 0 .. Chunks
      /\ Beginning(<<>>) /\ Len(<<>>) = 0
  <2>1. chunks \in Seq(Pieces) /\ Beginning(chunks)
    BY <1>1 DEF Inv, Beginnings, DownloadsTypeOK
  <2>2. Len(chunks) \in 0 .. Chunks
    BY <2>1, BrowserDownloadsAssumption DEF Beginning
  <2>. QED BY <2>1, <2>2, NothingBegins
<1>. HIDE DEF chunks
<1>3. CASE EnsuresNext(s)
  <2>1. PICK w \in task[s].missing : Begins(s, w, w, task[s].missing \ {w})
    BY <1>3 DEF EnsuresNext
  <2>2. UNCHANGED <<archives, archive>> /\ task'[s].at \in {"idle", "ensure", "ask"}
    <3>1. task[s].missing \ {w} \in SUBSET Versions
      BY <1>1
    <3>2. Returns(s, task[s].missing \ {w}) => task'[s].at \in {"idle", "ensure"}
      BY <1>1, <3>1, ReturnsType
    <3>. QED BY <1>1, <2>1, <3>2 DEF Begins, Succeeds, DownloadsTypeOK
  <2>3. \A v \in Versions : Beginning(archive'[v])
    BY <2>2 DEF Inv, Beginnings
  <2>4. Counts(s)'
    BY <2>2 DEF Counts, At
  <2>. QED BY <1>1, <2>2, <2>3, <2>4, Undisturbed
\* The file is opened at the end of what is kept of the archive.
<1>4. ASSUME NEW kept, kept \in {<<>>, chunks}, Opens(s, Len(kept) + 1, kept), At(s, "ask")
      PROVE  Beginnings'
  <2>1. Working(s) /\ Beginning(kept) /\ Len(kept) \in 0 .. Chunks
    BY <1>2, <1>4, BrowserDownloadsAssumption DEF At, Working
  <2>2. /\ archives' = archives \cup {V(s)} /\ archive' = [archive EXCEPT ![V(s)] = kept]
        /\ V(s)' = V(s) /\ task'[s].at = "stream" /\ task'[s].next = Len(kept) + 1
    BY <1>1, <1>4 DEF Opens, V, DownloadsTypeOK, Tasks
  <2>3. V(s)' \in archives' /\ archive'[V(s)'] = kept
    BY <1>1, <2>2 DEF DownloadsTypeOK
  <2>4. Counts(s)'
    BY <2>1, <2>2, <2>3 DEF Counts, At, V
  <2>. QED BY <1>1, <2>1, <2>2, <2>4, Writes
<1>5. CASE Resumes(s) \/ Restarts(s)
  <2>1. CASE Resumes(s)
    <3>1. Size(V(s)) = Len(chunks)
      BY <2>1 DEF Resumes, Size, chunks
    <3>. QED BY <1>4, <2>1, <3>1 DEF Resumes, chunks
  <2>2. CASE Restarts(s)
    <3>1. Opens(s, Len(<<>>) + 1, <<>>) /\ At(s, "ask")
      BY <1>2, <2>2 DEF Restarts
    <3>. QED BY <1>4, <3>1
  <2>. QED BY <1>5, <2>1, <2>2
<1>6. CASE Receives(s)
  <2>1. /\ Working(s) /\ V(s) \in archives /\ task[s].file \in Versions
        /\ Len(chunks) = task[s].next - 1 /\ task[s].next \in 1 .. Chunks
    BY <1>1, <1>6, BrowserDownloadsAssumption
    DEF Receives, At, Working, Inv, Beginnings, StreamUndisturbed, Tasks, chunks
  <2>2. Len(chunks) < Chunks /\ task[s].next = Len(chunks) + 1
    BY <1>2, <2>1, BrowserDownloadsAssumption
  <2>. DEFINE more == Append(chunks, [file |-> task[s].file, chunk |-> Len(chunks) + 1])
  <2>3. Len(more) = Len(chunks) + 1 /\ Beginning(more)
    BY <1>2, <2>1, <2>2, ReceivedBegins
  <2>4. /\ archive' = [archive EXCEPT ![V(s)] = more] /\ archives' = archives
        /\ task' = [task EXCEPT ![s].next = task[s].next + 1]
    BY <1>6, <2>2 DEF Receives, chunks
  <2>. HIDE DEF more
  <2>5. V(s)' = V(s) /\ task'[s].at = "stream" /\ task'[s].next = task[s].next + 1
    BY <1>1, <1>6, <2>4 DEF V, DownloadsTypeOK, Tasks, Receives, At
  <2>6. archive'[V(s)'] = more
    BY <1>1, <2>4, <2>5 DEF DownloadsTypeOK
  <2>7. Counts(s)'
    BY <1>2, <2>1, <2>2, <2>3, <2>4, <2>5, <2>6 DEF Counts, At, V
  <2>. QED BY <1>1, <2>1, <2>3, <2>4, <2>7, Writes
\* A download that ends removes its archive or leaves it.
<1>7. ASSUME Working(s), Returns(s, task[s].missing), archives \ {V(s)} \subseteq archives',
             archive' \in {archive, [archive EXCEPT ![V(s)] = <<>>]}
      PROVE  Beginnings'
  <2>1. task'[s].at \in {"idle", "ensure"}
    BY <1>1, <1>7, ReturnsType
  <2>2. Counts(s)'
    BY <2>1 DEF Counts, At
  <2>. QED BY <1>1, <1>2, <1>7, <2>2, Writes
<1>8. CASE Stops(s) \/ Breaks(s) \/ RetryBreaks(s) \/ VerifyFails(s)
  <2>1. Working(s) /\ Fails(s)
    BY <1>8 DEF Stops, Breaks, RetryBreaks, VerifyFails, At, Working
  <2>. QED BY <1>7, <1>8, <2>1 DEF Stops, Breaks, RetryBreaks, VerifyFails, Fails
<1>9. CASE Unpacks(s)
  <2>1. Working(s) /\ Len(chunks) = Chunks
    <3>1. CASE At(s, "ask") /\ Size(V(s)) = Chunks
      BY <3>1, BrowserDownloadsAssumption DEF Size, At, Working, chunks
    <3>2. CASE At(s, "stream") /\ task[s].next > Chunks
      <4>1. Len(chunks) = task[s].next - 1 /\ task[s].next \in 1 .. Chunks + 1
        BY <1>1, <3>2 DEF Inv, Beginnings, StreamUndisturbed, Tasks, chunks
      <4>. QED BY <3>2, <4>1, BrowserDownloadsAssumption DEF At, Working
    <3>. QED BY <1>9, <3>1, <3>2 DEF Unpacks
  <2>2. V(s)' = V(s) /\ task'[s].at = "unpacking" /\ UNCHANGED <<archives, archive>>
    BY <1>1, <1>9 DEF Unpacks, Goes, V, DownloadsTypeOK, Tasks
  <2>3. Counts(s)'
    BY <2>1, <2>2 DEF Counts, At, V, chunks
  <2>. QED BY <1>1, <1>2, <2>1, <2>2, <2>3, Writes
<1>10. CASE Unpacked(s)
  <2>1. Working(s) /\ task'[s].at = "verify" /\ UNCHANGED <<archives, archive>>
    BY <1>1, <1>10 DEF Unpacked, Goes, At, Working, DownloadsTypeOK, Tasks
  <2>2. Counts(s)'
    BY <2>1 DEF Counts, At
  <2>. QED BY <1>1, <1>2, <2>1, <2>2, Writes
<1>11. CASE Verifies(s) \/ LeaksUnstarted(s) \/ LeaksVerified(s)
  <2>1. Working(s)
    BY <1>11 DEF Verifies, LeaksUnstarted, LeaksVerified, At, Working
  <2>. QED BY <1>7, <1>11, <2>1 DEF Verifies, LeaksUnstarted, LeaksVerified, Leaks, Succeeds
<1>12. CASE EnsuresMissing(s)
  <2>1. UNCHANGED <<archives, archive>> /\ task'[s].at \in {"idle", "ensure"}
    <3>1. Missing \in SUBSET Versions
      BY <1>1 DEF Missing, Uses, DownloadsTypeOK
    <3>. QED BY <1>1, <1>12, <3>1, ReturnsType DEF EnsuresMissing
  <2>2. Counts(s)'
    BY <2>1 DEF Counts, At
  <2>3. \A v \in Versions : Beginning(archive'[v])
    BY <2>1 DEF Inv, Beginnings
  <2>. QED BY <1>1, <2>1, <2>2, <2>3, Undisturbed
<1>. QED BY <1>3, <1>5, <1>6, <1>8, <1>9, <1>10, <1>11, <1>12 DEF Advances

LEMMA StepArchive == Inv /\ [Next]_vars => Beginnings'
<1>. SUFFICES ASSUME Inv, [Next]_vars PROVE Beginnings'
  OBVIOUS
<1>0. /\ DownloadsTypeOK /\ Beginning(<<>>) /\ \A v \in Versions : Beginning(archive[v])
      /\ \A r \in Slots : Counts(r)
      /\ \A r \in Slots : At(r, "stream") \/ At(r, "unpacking") => V(r) \in downloading
  BY NothingBegins DEF Inv, Beginnings, StreamUndisturbed, Counts, OwnKeys, Working, At
<1>1. ASSUME NEW s \in Slots, Advances(s) PROVE Beginnings'
  BY <1>1, AdvanceArchive
<1>2. ASSUME NEW s \in Slots, EnsureAll(s) PROVE Beginnings'
  <2>1. Only(s) /\ UNCHANGED <<archives, archive>> /\ task'[s].at = "consolidate"
    BY <1>0, <1>2, EnsureAllTask
  <2>2. Counts(s)' /\ \A v \in Versions : Beginning(archive'[v])
    BY <1>0, <2>1 DEF Counts, At
  <2>. QED BY <2>1, <2>2, Undisturbed
<1>3. ASSUME NEW s \in Slots, NEW v \in Versions, Request(s, v) PROVE Beginnings'
  <2>1. /\ Only(s) /\ UNCHANGED <<archives, archive>> /\ Begins(s, v, NoVersion, {})
        /\ {} \in SUBSET Versions
    BY <1>0, <1>3, RequestTask
  <2>2. task'[s].at \in {"idle", "ensure", "ask"}
    <3>1. Returns(s, {}) => task'[s].at \in {"idle", "ensure"}
      BY <1>0, <2>1, ReturnsType
    <3>. QED BY <1>0, <2>1, <3>1 DEF Begins, Succeeds, DownloadsTypeOK
  <2>3. Counts(s)' /\ \A u \in Versions : Beginning(archive'[u])
    BY <1>0, <2>1, <2>2 DEF Counts, At
  <2>. QED BY <2>1, <2>3, Undisturbed
<1>4. CASE Restart
  <2>1. \A v \in Versions : Beginning(archive'[v])
    BY <1>0, <1>4, KeptType DEF Inv
  <2>2. \A s \in Slots : ~At(s, "stream")' /\ ~At(s, "unpacking")'
    BY <1>4 DEF Restart, At, Idle
  <2>. QED BY <2>1, <2>2 DEF Beginnings, StreamUndisturbed, Beginning, InOrder, V
\* No archive that a download works on is touched.
<1>5. ASSUME UNCHANGED task, \A v \in Versions : Beginning(archive'[v]),
             \A v \in downloading : /\ archive'[v] = archive[v]
                                    /\ v \in archives => v \in archives'
      PROVE  Beginnings'
  <2>1. ASSUME NEW r \in Slots PROVE Counts(r)'
    <3>1. At(r, "stream")' = At(r, "stream") /\ At(r, "unpacking")' = At(r, "unpacking")
          /\ V(r)' = V(r) /\ task'[r].next = task[r].next
      BY <1>5 DEF At, V
    <3>2. V(r) \in downloading => /\ archive'[V(r)'] = archive[V(r)]
                                  /\ V(r) \in archives => V(r)' \in archives'
      BY <1>5, <3>1
    <3>. QED BY <1>0, <3>1, <3>2 DEF Counts
  <2>. QED BY <1>5, <2>1 DEF Beginnings, StreamUndisturbed, Counts, Beginning, InOrder
<1>6. ASSUME UNCHANGED <<task, archives, archive>> PROVE Beginnings'
  BY <1>0, <1>5, <1>6
<1>7. ASSUME NEW v \in Versions \ downloading, UNCHANGED task, archives' = archives \ {v},
             archive' = [archive EXCEPT ![v] = <<>>]
      PROVE  Beginnings'
  <2>1. downloading \subseteq Versions /\ archive \in [Versions -> Seq(Pieces)]
    BY <1>0 DEF DownloadsTypeOK
  <2>2. \A u \in Versions : Beginning(archive'[u])
    BY <1>0, <1>7, <2>1
  <2>. QED BY <1>5, <1>7, <2>1, <2>2
<1>. QED BY <1>1, <1>2, <1>3, <1>4, <1>6, <1>7, OtherSteps DEF vars, disk

-----------------------------------------------------------------------------
(* The theorems *)

\* What a download, a clean-up, a command or an accident writes has its type.
THEOREM DownloadsTypeCorrect == Spec => []DownloadsTypeOK
<1>1. Inv /\ [Next]_vars => Inv'
  BY StepType, StepKeys, StepArchive DEF Inv
<1>2. Inv => DownloadsTypeOK
  BY DEF Inv
<1>. QED BY <1>1, <1>2, InitType, PTL DEF Spec

\* No archive has a gap or a repetition, and only one of the full length is
\* unpacked (ArchiveIntact: download_browser, cancel_download), because no two
\* downloads write one archive (OwnKeys).
THEOREM ArchivesIntact == Spec => []ArchiveIntact
<1>1. Inv /\ [Next]_vars => Inv'
  BY StepType, StepKeys, StepArchive DEF Inv
<1>2. Inv => ArchiveIntact
  <2>. SUFFICES ASSUME Inv PROVE ArchiveIntact
    OBVIOUS
  <2>1. \A s \in Slots : V(s) \in Versions
    BY DEF Inv, DownloadsTypeOK, V, Tasks
  <2>. QED BY <2>1 DEF Inv, Beginnings, Beginning, ArchiveIntact
<1>. QED BY <1>1, <1>2, InitType, PTL DEF Spec

\* What a download has opened and written stays as it is until the download goes
\* on, whatever is cleaned up, consolidated, deleted, cancelled, requested or
\* lost meanwhile (StreamUndisturbed: download_browser,
\* cleanup_unused_binaries, consolidate_browser_versions).
THEOREM StreamsUndisturbed == Spec => []StreamUndisturbed
<1>1. Inv /\ [Next]_vars => Inv'
  BY StepType, StepKeys, StepArchive DEF Inv
<1>2. Inv => StreamUndisturbed
  BY DEF Inv, Beginnings
<1>. QED BY <1>1, <1>2, InitType, PTL DEF Spec

-----------------------------------------------------------------------------
(* Keys are given back *)

\* A step of one download takes the key of the version it begins with and gives
\* it back when it ends, or leaves it.
LEMMA Exactly ==
  ASSUME KeysExact, OwnKeys', NEW s \in Slots, Only(s),
         \/ /\ Working(s)' /\ Working(s) /\ V(s)' = V(s)
            /\ UNCHANGED <<downloading, leaked>>
         \/ /\ Working(s) /\ ~Working(s)'
            /\ downloading' = downloading \ {V(s)} /\ UNCHANGED leaked
         \/ /\ Working(s) /\ ~Working(s)'
            /\ UNCHANGED downloading /\ leaked' = leaked \cup {V(s)}
         \/ ~Working(s) /\ ~Working(s)' /\ UNCHANGED <<downloading, leaked>>
         \/ /\ ~Working(s) /\ Working(s)' /\ V(s)' \notin downloading
            /\ downloading' = downloading \cup {V(s)'} /\ UNCHANGED leaked
  PROVE  KeysExact'
<1>. DEFINE others == {V(r) : r \in {q \in Slots \ {s} : Working(q)}}
<1>1. \A r \in Slots \ {s} : (Working(r)' <=> Working(r)) /\ V(r)' = V(r)
  BY DEF Only, Working, V
<1>2. Worked = others \cup {v \in {V(s)} : Working(s)}
  BY DEF Worked
<1>3. Working(s) => V(s) \notin others
  BY DEF KeysExact
<1>4. Worked' = others \cup {v \in {V(s)'} : Working(s)'}
  BY <1>1 DEF Worked
<1>5. downloading = Worked \cup leaked /\ Worked \cap leaked = {}
  BY DEF KeysExact
<1>. HIDE DEF others
<1>6. downloading' = Worked' \cup leaked' /\ Worked' \cap leaked' = {}
  BY <1>2, <1>3, <1>4, <1>5
<1>7. \A q, r \in Slots : Working(q)' /\ Working(r)' /\ V(q)' = V(r)' => q = r
  BY DEF OwnKeys
<1>. QED BY <1>6, <1>7 DEF KeysExact

LEMMA BeginsExactly ==
  ASSUME DownloadsTypeOK, KeysExact, OwnKeys', NEW s \in Slots, ~Working(s), NEW asked \in Versions,
         NEW requested, NEW missing \in SUBSET Versions, Only(s),
         Begins(s, asked, requested, missing)
  PROVE  KeysExact'
<1>0. UNCHANGED leaked
  BY DEF Begins
<1>1. CASE Returns(s, missing) /\ UNCHANGED downloading
  <2>1. ~Working(s)'
    BY <1>1, ReturnsType DEF Working
  <2>. QED BY <1>0, <1>1, <2>1, Exactly
<1>2. ASSUME NEW v, v \notin downloading, downloading' = downloading \cup {v},
             task' = [task EXCEPT ![s] = [at |-> "ask", version |-> v, file |-> v, next |-> 1,
                                          requested |-> requested, missing |-> missing]]
      PROVE  KeysExact'
  <2>1. Working(s)' /\ V(s)' = v
    BY <1>2 DEF Working, V, DownloadsTypeOK
  <2>. QED BY <1>0, <1>2, <2>1, Exactly
<1>. QED BY <1>1, <1>2 DEF Begins, Succeeds

LEMMA AdvanceExactly ==
  ASSUME Inv, KeysExact, OwnKeys', NEW s \in Slots, Advances(s)
  PROVE  KeysExact'
<1>. USE DEF disk, keys, profiles, counts
<1>1. /\ DownloadsTypeOK /\ Only(s) /\ task[s] \in Tasks /\ task[s].missing \in SUBSET Versions
  BY AdvanceType DEF Inv, DownloadsTypeOK, Tasks
<1>2. CASE EnsuresNext(s)
  <2>1. PICK v \in task[s].missing : Begins(s, v, v, task[s].missing \ {v})
    BY <1>2 DEF EnsuresNext
  <2>2. ~Working(s) /\ v \in Versions /\ task[s].missing \ {v} \in SUBSET Versions
    BY <1>1, <1>2 DEF EnsuresNext, At, Working
  <2>. QED BY <1>1, <2>1, <2>2, BeginsExactly
<1>3. CASE Resumes(s) \/ Restarts(s) \/ Receives(s) \/ Unpacks(s) \/ Unpacked(s)
  <2>1. Working(s) /\ Working(s)' /\ V(s)' = V(s)
    BY <1>1, <1>3, KeptVersion DEF Resumes, Restarts, Receives, Unpacks, Unpacked, At, Working
  <2>2. UNCHANGED <<downloading, leaked>>
    BY <1>3 DEF Resumes, Restarts, Receives, Unpacks, Unpacked
  <2>. QED BY <1>1, <2>1, <2>2, Exactly
<1>4. CASE Stops(s) \/ Breaks(s) \/ RetryBreaks(s) \/ VerifyFails(s) \/ Verifies(s)
  <2>1. /\ Working(s) /\ Returns(s, task[s].missing)
        /\ downloading' = downloading \ {V(s)} /\ UNCHANGED leaked
    BY <1>4 DEF Stops, Breaks, RetryBreaks, VerifyFails, Verifies, Fails, Releases, Succeeds,
                At, Working
  <2>2. ~Working(s)'
    BY <1>1, <2>1, ReturnsType DEF Working
  <2>. QED BY <1>1, <2>1, <2>2, Exactly
<1>5. CASE LeaksUnstarted(s) \/ LeaksVerified(s)
  <2>1. /\ Working(s) /\ Returns(s, task[s].missing)
        /\ UNCHANGED downloading /\ leaked' = leaked \cup {V(s)}
    BY <1>5 DEF LeaksUnstarted, LeaksVerified, Leaks, At, Working
  <2>2. ~Working(s)'
    BY <1>1, <2>1, ReturnsType DEF Working
  <2>. QED BY <1>1, <2>1, <2>2, Exactly
<1>6. CASE EnsuresMissing(s)
  <2>1. ~Working(s) /\ ~Working(s)' /\ UNCHANGED <<downloading, leaked>>
    <3>1. Missing \in SUBSET Versions
      BY <1>1 DEF Missing, Uses, DownloadsTypeOK
    <3>. QED BY <1>1, <1>6, <3>1, ReturnsType DEF EnsuresMissing, At, Working
  <2>. QED BY <1>1, <2>1, Exactly
<1>. QED BY <1>2, <1>3, <1>4, <1>5, <1>6 DEF Advances

LEMMA StepExactly ==
  ASSUME Inv, Inv', KeysExact, [Next]_vars
  PROVE  KeysExact'
<1>0. DownloadsTypeOK /\ OwnKeys'
  BY DEF Inv
<1>1. ASSUME NEW s \in Slots, Advances(s) PROVE KeysExact'
  BY <1>0, <1>1, AdvanceExactly
<1>2. ASSUME NEW s \in Slots, EnsureAll(s) PROVE KeysExact'
  <2>1. ~Working(s) /\ ~Working(s)' /\ Only(s) /\ UNCHANGED <<downloading, leaked>>
    BY <1>0, <1>2, EnsureAllTask DEF Working
  <2>. QED BY <1>0, <2>1, Exactly
<1>3. ASSUME NEW s \in Slots, NEW v \in Versions, Request(s, v) PROVE KeysExact'
  BY <1>0, <1>3, RequestTask, BeginsExactly
<1>4. CASE Restart
  <2>1. \A s \in Slots : ~Working(s)'
    BY <1>4 DEF Restart, Working, Idle
  <2>2. downloading' = {} /\ leaked' = {}
    BY <1>4 DEF Restart
  <2>. QED BY <2>1, <2>2 DEF KeysExact, Worked
<1>5. ASSUME UNCHANGED <<task, downloading, leaked>> PROVE KeysExact'
  BY <1>5 DEF KeysExact, Worked, Working, V
<1>. QED BY <1>1, <1>2, <1>3, <1>4, <1>5, OtherSteps

\* However a download ends, its version can be downloaded again (KeysExact:
\* download_browser_full), unless an error of the disk has ended it: those two
\* errors return without giving the key back.
THEOREM KeysGivenBack == Spec => []KeysExact
<1>1. Inv /\ [Next]_vars => Inv'
  BY StepType, StepKeys, StepArchive DEF Inv
<1>2. Init => KeysExact
  BY DEF Init, KeysExact, Worked, Working, Idle
<1>3. Inv /\ KeysExact /\ [Next]_vars => KeysExact'
  BY <1>1, StepExactly
<1>. QED BY <1>1, <1>2, <1>3, InitType, PTL DEF Spec
=============================================================================
