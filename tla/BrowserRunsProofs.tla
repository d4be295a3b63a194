-------------------------- MODULE BrowserRunsProofs --------------------------
(* Whose worker carries whose traffic: what BrowserRuns and ProxyWorkers keep
   for any profiles, upstreams, workers, browsers, commands and accidents. *)
EXTENDS BrowserRuns, TLAPS

\* A worker that has been started for the profile, and for that host and port.
ServesProfile(w, p, proc, srv) == w \in Workers /\ proc[w] # "none" /\ srv[w].profile = p
Serves(w, p, u, proc, srv) ==
  ServesProfile(w, p, proc, srv) /\ Endpoint[srv[w].upstream] = Endpoint[u]

\* What a command has found out remains so until it has used it.
CommandFits(c, proc, srv) ==
  /\ c.at # "idle" => c.profile \in Profiles
  /\ c.at \in {"wait_proxy", "prepare", "spawn"} => Serves(c.worker, c.profile, c.clone.proxy, proc, srv)
  /\ c.at \in {"stop_proxy", "stop_proxy_by_id"} => ServesProfile(c.worker, c.profile, proc, srv)
  /\ c.at \in {"register", "verify"} => c.pid \in Pids

BrowserFits(b, proc, srv) == b # NoBrowser => Serves(b.worker, b.profile, b.wants, proc, srv)

CommandsFit == \A s \in Slots : CommandFits(command[s], process, serves)
BrowsersFit == \A b \in Pids : BrowserFits(browser[b], process, serves)

\* Both tables hold workers that have been started, the second one each profile's own.
TablesFit ==
  /\ \A key \in DOMAIN active : process[active[key]] # "none"
  /\ \A p \in Profiles : profileActive[p] # NoWorker => ServesProfile(profileActive[p], p, process, serves)

ProxiesInv == ProxiesTypeOK /\ TablesFit /\ WorkersHaveFiles
RunsInv == RunsTypeOK /\ CommandsFit /\ BrowsersFit /\ TablesFit /\ WorkersHaveFiles

\* A worker that has been started serves what it was started for.
WorkersStay ==
  \A w \in Workers : process[w] # "none" => process'[w] # "none" /\ serves'[w] = serves[w]

LEMMA FitsStay ==
  ASSUME WorkersStay
  PROVE  /\ \A c : CommandFits(c, process, serves) => CommandFits(c, process', serves')
         /\ \A b : BrowserFits(b, process, serves) => BrowserFits(b, process', serves')
         /\ \A w, p : ServesProfile(w, p, process, serves) => ServesProfile(w, p, process', serves')
<1>1. \A w, p : ServesProfile(w, p, process, serves) => ServesProfile(w, p, process', serves')
  BY DEF WorkersStay, ServesProfile
<1>2. \A w, p, u : Serves(w, p, u, process, serves) => Serves(w, p, u, process', serves')
  BY DEF WorkersStay, Serves, ServesProfile
<1> QED BY <1>1, <1>2 DEF CommandFits, BrowserFits

-----------------------------------------------------------------------------
(* What the operators return *)

LEMMA FindsType ==
  ASSUME NEW p \in Profiles, NEW ram, instances \subseteq Pids, NEW look \in Finds(p, ram)
  PROVE  look[1] \in Pids \cup {NoPid} /\ look[2] \subseteq Pids
<1> DEFINE known == instances \cap Under(p, ram)
<1>1. CASE p \in Wayfern /\ known # {}
  <2>1. look \in {IF browser[b].alive THEN <<b, instances>> ELSE <<NoPid, instances \ {b}>> : b \in known}
    BY <1>1 DEF Finds
  <2>2. PICK b \in known : look = IF browser[b].alive THEN <<b, instances>> ELSE <<NoPid, instances \ {b}>>
    BY <2>1
  <2>3. b \in Pids
    BY <2>2
  <2>4. CASE browser[b].alive
    <3>1. look[1] = b /\ look[2] = instances
      BY <2>2, <2>4
    <3> QED BY <2>3, <3>1
  <2>5. CASE ~browser[b].alive
    <3>1. look[1] = NoPid /\ look[2] = instances \ {b}
      BY <2>2, <2>5
    <3> QED BY <3>1
  <2> QED BY <2>4, <2>5
<1>2. CASE ~(p \in Wayfern /\ known # {}) /\ Running(p, ram) = {}
  <2>1. look = <<NoPid, instances>>
    BY <1>2 DEF Finds
  <2>2. look[1] = NoPid /\ look[2] = instances
    BY <2>1
  <2> QED BY <2>2
<1>3. CASE ~(p \in Wayfern /\ known # {}) /\ Running(p, ram) # {}
  <2>1. look \in {<<b, WithInstance(p, b)>> : b \in Running(p, ram)}
    BY <1>3 DEF Finds
  <2>2. PICK b \in Running(p, ram) : look = <<b, WithInstance(p, b)>>
    BY <2>1
  <2>3. look[1] = b /\ look[2] = WithInstance(p, b)
    BY <2>2
  <2>4. b \in Pids
    BY DEF Running, Under
  <2> QED BY <2>3, <2>4 DEF WithInstance
<1> QED BY <1>1, <1>2, <1>3

LEMMA CheckedType ==
  ASSUME meta \in [Profiles -> Metadata], NEW p \in Profiles, NEW found \in Pids \cup {NoPid}
  PROVE  Checked(p, found) \in Metadata
<1>1. meta[p] \in Metadata
  OBVIOUS
<1>2. Merged(meta[p], found) \in Metadata
  BY <1>1 DEF Merged, Metadata, States
<1> QED BY <1>1, <1>2 DEF Checked

LEMMA RamType ==
  ASSUME ramDirs \subseteq Ephemeral, NEW p, NEW found
  PROVE  RamAfter(p, found) \subseteq Ephemeral /\ RamMade(p) \subseteq Ephemeral
  BY DEF RamAfter, RamMade

LEMMA PutDrop ==
  ASSUME ProxiesTypeOK, TablesFit, NEW w \in Workers, process[w] # "none", NEW key \in Pids \cup {TempPid}
  PROVE  /\ DOMAIN Put(active, key, w) \subseteq Pids \cup {TempPid}
         /\ \A k \in DOMAIN Put(active, key, w) :
              Put(active, key, w)[k] \in Workers /\ process[Put(active, key, w)[k]] # "none"
  BY DEF Put, ProxiesTypeOK, TablesFit

LEMMA DropKeeps ==
  ASSUME ProxiesTypeOK, TablesFit, NEW key
  PROVE  /\ DOMAIN Drop(active, key) = DOMAIN active \ {key}
         /\ \A k \in DOMAIN Drop(active, key) : Drop(active, key)[k] = active[k]
  BY DEF Drop, Restrict

LEMMA RekeyedKeeps ==
  ASSUME ProxiesTypeOK, TablesFit, NEW pid \in Pids
  PROVE  /\ DOMAIN Rekeyed(pid) \subseteq Pids \cup {TempPid}
         /\ \A k \in DOMAIN Rekeyed(pid) : Rekeyed(pid)[k] \in Workers /\ process[Rekeyed(pid)[k]] # "none"
<1>1. CASE TempPid \in DOMAIN active
  <2> DEFINE rest == Drop(active, TempPid)
  <2>1. /\ DOMAIN rest = DOMAIN active \ {TempPid}
        /\ \A k \in DOMAIN rest : rest[k] = active[k]
    BY DropKeeps
  <2>2. Rekeyed(pid) = [k \in DOMAIN rest \cup {pid} |-> IF k = pid THEN active[TempPid] ELSE rest[k]]
    BY <1>1 DEF Rekeyed, Put
  <2> HIDE DEF rest
  <2>3. DOMAIN Rekeyed(pid) = DOMAIN rest \cup {pid}
        /\ \A k \in DOMAIN Rekeyed(pid) : Rekeyed(pid)[k] = IF k = pid THEN active[TempPid] ELSE active[k]
    BY <2>1, <2>2
  <2> QED BY <1>1, <2>1, <2>3 DEF ProxiesTypeOK, TablesFit
<1>2. CASE TempPid \notin DOMAIN active
  BY <1>2 DEF Rekeyed, ProxiesTypeOK, TablesFit
<1> QED BY <1>1, <1>2

-----------------------------------------------------------------------------
(* The steps of the proxies *)

\* A step of workers and files that leaves the tables alone.
LEMMA WorkerSteps ==
  ASSUME ProxiesInv, UNCHANGED tables, serves' = serves, unsaved' \subseteq Workers,
         config' \in [Workers -> Files], process' \in [Workers -> Alive \cup {"none", "dead"}],
         \A w \in Workers : process[w] # "none" => process'[w] # "none",
         \A w \in Workers : process'[w] \in Alive => config'[w].exists
  PROVE  ProxiesInv' /\ WorkersStay
<1>1. WorkersStay
  BY DEF WorkersStay
<1>2. ProxiesTypeOK' /\ WorkersHaveFiles'
  BY DEF ProxiesInv, ProxiesTypeOK, WorkersHaveFiles, tables
<1>3. TablesFit'
  <2>1. active' = active /\ profileActive' = profileActive
    BY DEF tables
  <2>2. \A key \in DOMAIN active : process'[active[key]] # "none"
    BY DEF ProxiesInv, ProxiesTypeOK, TablesFit
  <2>3. \A p \in Profiles : profileActive[p] # NoWorker =>
          ServesProfile(profileActive[p], p, process', serves')
    BY <1>1, FitsStay DEF ProxiesInv, TablesFit
  <2> QED BY <2>1, <2>2, <2>3 DEF TablesFit
<1> QED BY <1>1, <1>2, <1>3 DEF ProxiesInv

LEMMA FilesType ==
  /\ NoFile \in Files
  /\ \A pid \in BOOLEAN, url \in BOOLEAN : Written(pid, url) \in Files /\ Written(pid, url).exists
  BY DEF Files, NoFile, Written

LEMMA SaveWithPidStep ==
  ASSUME ProxiesInv, NEW w \in Workers, SaveWithPid(w)
  PROVE  ProxiesInv' /\ WorkersStay
<1>1. /\ unsaved' = unsaved \ {w} /\ config' = [config EXCEPT ![w] = Written(TRUE, FALSE)]
      /\ UNCHANGED <<serves, process>> /\ UNCHANGED tables
  BY DEF SaveWithPid
<1>2. config' \in [Workers -> Files] /\ \A x \in Workers : config'[x].exists = (x = w \/ config[x].exists)
  BY <1>1, FilesType DEF ProxiesInv, ProxiesTypeOK, Files
<1>3. unsaved' \subseteq Workers /\ process' \in [Workers -> Alive \cup {"none", "dead"}]
  BY <1>1 DEF ProxiesInv, ProxiesTypeOK
<1>4. \A x \in Workers : process'[x] \in Alive => config'[x].exists
  BY <1>1, <1>2 DEF ProxiesInv, WorkersHaveFiles
<1> QED BY <1>1, <1>2, <1>3, <1>4, WorkerSteps

\* A worker reads, binds its port or ends.
LEMMA WorkerStep ==
  ASSUME ProxiesInv, NEW w \in Workers, WorkerReads(w) \/ WorkerBinds(w) \/ WorkerEnds(w)
  PROVE  ProxiesInv' /\ WorkersStay
<1>1. /\ serves' = serves /\ unsaved' = unsaved /\ UNCHANGED tables
      /\ \E x \in Alive \cup {"dead"} :
           process' = [process EXCEPT ![w] = x] /\ (x \in Alive => config[w].exists)
  <2>1. CASE WorkerReads(w)
    <3> DEFINE x == IF ~config[w].exists THEN "dead" ELSE IF config[w].pid THEN "read_pid" ELSE "read"
    <3>1. process' = [process EXCEPT ![w] = x] /\ UNCHANGED <<files, tables>>
      BY <2>1 DEF WorkerReads
    <3>2. x \in Alive \cup {"dead"} /\ (x \in Alive => config[w].exists)
      BY DEF Alive
    <3> HIDE DEF x
    <3> QED BY <3>1, <3>2 DEF files
  <2>2. CASE WorkerBinds(w)
    <3> DEFINE x == IF config[w].exists THEN "ready" ELSE "dead"
    <3>1. process' = [process EXCEPT ![w] = x] /\ UNCHANGED <<serves, unsaved, tables>>
      BY <2>2 DEF WorkerBinds
    <3>2. x \in Alive \cup {"dead"} /\ (x \in Alive => config[w].exists)
      BY DEF Alive
    <3> HIDE DEF x
    <3> QED BY <3>1, <3>2
  <2>3. CASE WorkerEnds(w)
    <3>1. process' = [process EXCEPT ![w] = "dead"] /\ UNCHANGED <<files, tables>>
      BY <2>3 DEF WorkerEnds
    <3> QED BY <3>1 DEF Alive, files
  <2> QED BY <2>1, <2>2, <2>3
<1>2. config' \in [Workers -> Files] /\ \A x \in Workers : config[x].exists => config'[x].exists
  <2>1. CASE config' = config
    BY <2>1 DEF ProxiesInv, ProxiesTypeOK
  <2>2. CASE \E pid \in BOOLEAN, url \in BOOLEAN : config' = [config EXCEPT ![w] = Written(pid, url)]
    BY <2>2, FilesType DEF ProxiesInv, ProxiesTypeOK
  <2> QED BY <2>1, <2>2 DEF WorkerReads, WorkerBinds, WorkerEnds, files
<1>3. PICK x \in Alive \cup {"dead"} :
        process' = [process EXCEPT ![w] = x] /\ (x \in Alive => config[w].exists)
  BY <1>1
<1>4. x # "none"
  BY DEF Alive
<1>5. process' \in [Workers -> Alive \cup {"none", "dead"}] /\ unsaved' \subseteq Workers
  BY <1>1, <1>3 DEF ProxiesInv, ProxiesTypeOK
<1>6. \A y \in Workers : process'[y] = IF y = w THEN x ELSE process[y]
  BY <1>3 DEF ProxiesInv, ProxiesTypeOK
<1>7. \A y \in Workers : process[y] # "none" => process'[y] # "none"
  BY <1>4, <1>6
<1>8. \A y \in Workers : process'[y] \in Alive => config'[y].exists
  BY <1>2, <1>3, <1>6 DEF ProxiesInv, WorkersHaveFiles
<1> QED BY <1>1, <1>2, <1>5, <1>7, <1>8, WorkerSteps

\* Only the file of a worker that is dead is removed.
LEMMA CleanupStep ==
  ASSUME ProxiesInv, NEW w \in Workers, NEW starting, CleanupDeadProxies(w, starting)
  PROVE  ProxiesInv' /\ WorkersStay
<1>1. /\ process[w] = "dead" /\ config' = [config EXCEPT ![w] = NoFile]
      /\ UNCHANGED <<serves, unsaved, process>> /\ UNCHANGED tables
  BY DEF CleanupDeadProxies
<1>2. config' \in [Workers -> Files] /\ \A x \in Workers : x # w => config'[x] = config[x]
  BY <1>1, FilesType DEF ProxiesInv, ProxiesTypeOK
<1>3. unsaved' \subseteq Workers /\ process' \in [Workers -> Alive \cup {"none", "dead"}]
  BY <1>1 DEF ProxiesInv, ProxiesTypeOK
<1>4. \A x \in Workers : process'[x] \in Alive => config'[x].exists
  BY <1>1, <1>2 DEF ProxiesInv, WorkersHaveFiles, Alive
<1> QED BY <1>1, <1>2, <1>3, <1>4, WorkerSteps

\* A new worker: until now nothing could know its id.
LEMMA SpawnStep ==
  ASSUME ProxiesInv, NEW w \in Workers, NEW p \in Profiles, NEW u \in Upstreams, SpawnWorker(w, p, u)
  PROVE  ProxiesInv' /\ WorkersStay /\ Serves(w, p, u, process', serves')
<1>1. /\ process[w] = "none"
      /\ config' = [config EXCEPT ![w] = Written(FALSE, FALSE)]
      /\ serves' = [serves EXCEPT ![w] = [profile |-> p, upstream |-> u]]
      /\ unsaved' = unsaved \cup {w}
      /\ process' = [process EXCEPT ![w] = "spawned"]
      /\ active' = active /\ profileActive' = profileActive
  BY DEF SpawnWorker, tables
<1>2. /\ config' \in [Workers -> Files] /\ config'[w].exists
      /\ \A x \in Workers : x # w => config'[x] = config[x]
  BY <1>1, FilesType DEF ProxiesInv, ProxiesTypeOK
<1>3. /\ process' \in [Workers -> Alive \cup {"none", "dead"}] /\ process'[w] = "spawned"
      /\ \A x \in Workers : x # w => process'[x] = process[x]
  BY <1>1 DEF ProxiesInv, ProxiesTypeOK, Alive
<1>4. /\ serves' \in [Workers -> [profile : Profiles \cup {NoProfile}, upstream : Upstreams \cup {NoUpstream}]]
      /\ serves'[w] = [profile |-> p, upstream |-> u]
      /\ \A x \in Workers : x # w => serves'[x] = serves[x]
  BY <1>1 DEF ProxiesInv, ProxiesTypeOK
<1>5. WorkersStay
  BY <1>1, <1>3, <1>4 DEF WorkersStay
<1>6. ProxiesTypeOK'
  BY <1>1, <1>2, <1>3, <1>4 DEF ProxiesInv, ProxiesTypeOK
<1>7. WorkersHaveFiles'
  BY <1>2, <1>3 DEF ProxiesInv, WorkersHaveFiles
<1>8. TablesFit'
  <2>1. \A key \in DOMAIN active : process'[active[key]] # "none"
    BY <1>5 DEF ProxiesInv, ProxiesTypeOK, TablesFit, WorkersStay
  <2>2. \A q \in Profiles : profileActive[q] # NoWorker =>
          ServesProfile(profileActive[q], q, process', serves')
    BY <1>5, FitsStay DEF ProxiesInv, TablesFit
  <2> QED BY <1>1, <2>1, <2>2 DEF TablesFit
<1>9. Serves(w, p, u, process', serves')
  BY <1>3, <1>4 DEF Serves, ServesProfile
<1> QED BY <1>5, <1>6, <1>7, <1>8, <1>9 DEF ProxiesInv

\* A step that changes the tables alone.
LEMMA TableSteps ==
  ASSUME ProxiesInv, UNCHANGED files, process' = process,
         DOMAIN active' \subseteq Pids \cup {TempPid},
         \A key \in DOMAIN active' : active'[key] \in Workers /\ process[active'[key]] # "none",
         profileActive' \in [Profiles -> Workers \cup {NoWorker}],
         \A p \in Profiles : profileActive'[p] # NoWorker =>
           ServesProfile(profileActive'[p], p, process, serves)
  PROVE  ProxiesInv' /\ WorkersStay
<1>1. config' = config /\ serves' = serves /\ unsaved' = unsaved
  BY DEF files
<1>2. ProxiesTypeOK' /\ WorkersHaveFiles'
  BY <1>1 DEF ProxiesInv, ProxiesTypeOK, WorkersHaveFiles
<1>3. TablesFit'
  BY <1>1 DEF TablesFit
<1>4. WorkersStay
  BY <1>1 DEF WorkersStay
<1> QED BY <1>2, <1>3, <1>4 DEF ProxiesInv

LEMMA SameProxies ==
  ASSUME ProxiesInv, UNCHANGED proxies
  PROVE  ProxiesInv' /\ WorkersStay
<1>1. UNCHANGED <<config, serves, unsaved, process, active, profileActive>>
  BY DEF proxies
<1> QED BY <1>1, TableSteps DEF ProxiesInv, ProxiesTypeOK, TablesFit, files

LEMMA TrackStep ==
  ASSUME ProxiesInv, NEW w, NEW p \in Profiles, ServesProfile(w, p, process, serves), Track(w, p)
  PROVE  ProxiesInv' /\ WorkersStay
<1>1. /\ active' = Put(active, TempPid, w) /\ profileActive' = [profileActive EXCEPT ![p] = w]
      /\ UNCHANGED files /\ process' = process
  BY DEF Track
<1>2. w \in Workers /\ process[w] # "none"
  BY DEF ServesProfile
<1>3. /\ DOMAIN active' \subseteq Pids \cup {TempPid}
      /\ \A k \in DOMAIN active' : active'[k] \in Workers /\ process[active'[k]] # "none"
  BY <1>1, <1>2, PutDrop DEF ProxiesInv
<1>4. profileActive' \in [Profiles -> Workers \cup {NoWorker}]
  BY <1>1, <1>2 DEF ProxiesInv, ProxiesTypeOK
<1>5. \A q \in Profiles : profileActive'[q] # NoWorker => ServesProfile(profileActive'[q], q, process, serves)
  BY <1>1 DEF ProxiesInv, ProxiesTypeOK, TablesFit
<1> QED BY <1>1, <1>3, <1>4, <1>5, TableSteps

LEMMA RekeyStep ==
  ASSUME ProxiesInv, NEW pid \in Pids, active' = Rekeyed(pid), UNCHANGED <<files, process, profileActive>>
  PROVE  ProxiesInv' /\ WorkersStay
<1>1. /\ DOMAIN active' \subseteq Pids \cup {TempPid}
      /\ \A k \in DOMAIN active' : active'[k] \in Workers /\ process[active'[k]] # "none"
  BY RekeyedKeeps DEF ProxiesInv
<1> QED BY <1>1, TableSteps DEF ProxiesInv, ProxiesTypeOK, TablesFit

LEMMA DropStep ==
  ASSUME ProxiesInv, NEW key, active' = Drop(active, key), UNCHANGED <<files, process, profileActive>>
  PROVE  ProxiesInv' /\ WorkersStay
<1>1. /\ DOMAIN active' = DOMAIN active \ {key}
      /\ \A k \in DOMAIN active' : active'[k] = active[k]
  BY DropKeeps DEF ProxiesInv
<1> QED BY <1>1, TableSteps DEF ProxiesInv, ProxiesTypeOK, TablesFit

LEMMA ProxiesRestartStep ==
  ASSUME ProxiesInv, ProxiesRestart
  PROVE  ProxiesInv' /\ WorkersStay
<1>1. active' = <<>> /\ profileActive' = [p \in Profiles |-> NoWorker] /\ UNCHANGED <<files, process>>
  BY DEF ProxiesRestart
<1> QED BY <1>1, TableSteps

\* A stop ends the process before its file goes, and forgets the worker.
LEMMA StopStep ==
  ASSUME ProxiesInv, NEW w \in Workers, Stopped(w), UNCHANGED <<serves, unsaved, active>>,
         NEW p, profileActive' \in {profileActive, [profileActive EXCEPT ![p] = NoWorker]}
  PROVE  ProxiesInv' /\ WorkersStay
<1>1. /\ process' \in [Workers -> Alive \cup {"none", "dead"}]
      /\ \A x \in Workers : process'[x] = process[x] \/ process'[x] = "dead"
      /\ config' \in [Workers -> Files]
      /\ \A x \in Workers : config'[x] = config[x] \/ process'[x] = "dead"
  <2>1. CASE process' = process /\ config' = config
    BY <2>1 DEF ProxiesInv, ProxiesTypeOK
  <2>2. CASE process' = [process EXCEPT ![w] = "dead"] /\ config' = [config EXCEPT ![w] = NoFile]
    BY <2>2, FilesType DEF ProxiesInv, ProxiesTypeOK
  <2> QED BY <2>1, <2>2 DEF Stopped
<1>2. WorkersStay
  BY <1>1 DEF WorkersStay
<1>3. /\ profileActive' \in [Profiles -> Workers \cup {NoWorker}]
      /\ \A q \in Profiles : profileActive'[q] \in {profileActive[q], NoWorker}
  BY DEF ProxiesInv, ProxiesTypeOK
<1>4. ProxiesTypeOK' /\ WorkersHaveFiles'
  BY <1>1, <1>3 DEF ProxiesInv, ProxiesTypeOK, WorkersHaveFiles, Alive
<1>5. TablesFit'
  <2>1. \A key \in DOMAIN active : process'[active[key]] # "none"
    BY <1>2 DEF ProxiesInv, ProxiesTypeOK, TablesFit, WorkersStay
  <2>2. \A q \in Profiles : profileActive[q] # NoWorker =>
          ServesProfile(profileActive[q], q, process', serves')
    BY <1>2, FitsStay DEF ProxiesInv, TablesFit
  <2>3. \A q \in Profiles : profileActive'[q] # NoWorker =>
          ServesProfile(profileActive'[q], q, process', serves')
    BY <1>3, <2>2
  <2> QED BY <2>1, <2>3 DEF TablesFit
<1> QED BY <1>2, <1>4, <1>5 DEF ProxiesInv

-----------------------------------------------------------------------------
(* The parts of the invariant that a step of the runs leaves or changes *)

MetaType == meta \in [Profiles -> Metadata] /\ ramDirs \subseteq Ephemeral
RestType ==
  /\ instances \subseteq Pids
  /\ poll \in [Profiles -> [at : {"idle", "found"}, found : Pids \cup {NoPid}]]
  /\ commands \in 0 .. MaxCommands /\ accidents \in 0 .. MaxAccidents
CommandsInv == command \in [Slots -> Commands] /\ CommandsFit
BrowsersInv == browser \in [Pids -> Browsers] /\ BrowsersFit

LEMMA PartsAreAll == RunsInv <=> ProxiesInv /\ MetaType /\ RestType /\ CommandsInv /\ BrowsersInv
  BY DEF RunsInv, RunsTypeOK, ProxiesInv, MetaType, RestType, CommandsInv, BrowsersInv

LEMMA PartsMake ==
  ASSUME ProxiesInv', MetaType', RestType', CommandsInv', BrowsersInv'
  PROVE  RunsInv'
  BY DEF RunsInv, RunsTypeOK, ProxiesInv, MetaType, RestType, CommandsInv, BrowsersInv

LEMMA CommandGoes ==
  ASSUME CommandsInv, WorkersStay, NEW s \in Slots, NEW c \in Commands, Goes(s, c),
         CommandFits(c, process', serves')
  PROVE  CommandsInv'
<1>1. command' \in [Slots -> Commands] /\ \A t \in Slots : command'[t] = IF t = s THEN c ELSE command[t]
  BY DEF Goes, CommandsInv
<1>2. \A t \in Slots : CommandFits(command[t], process', serves')
  BY FitsStay DEF CommandsInv, CommandsFit
<1>3. \A t \in Slots : CommandFits(command'[t], process', serves')
  BY <1>1, <1>2
<1> QED BY <1>1, <1>3 DEF CommandsInv, CommandsFit

LEMMA SameCommands ==
  ASSUME CommandsInv, WorkersStay, command' = command
  PROVE  CommandsInv'
  BY FitsStay DEF CommandsInv, CommandsFit

LEMMA IdleFits ==
  ASSUME NEW proc, NEW srv
  PROVE  Idle \in Commands /\ CommandFits(Idle, proc, srv)
<1>1. Direct \in Upstreams
  BY ProxyWorkersAssumption
<1>2. NewMeta(Direct) \in Metadata
  BY <1>1 DEF NewMeta, Metadata, States
<1>3. Idle \in Commands
  BY <1>2 DEF Idle, Commands, Steps
<1>4. CommandFits(Idle, proc, srv)
  BY DEF Idle, CommandFits
<1> QED BY <1>3, <1>4

LEMMA CommandEnds ==
  ASSUME CommandsInv, WorkersStay, NEW s \in Slots, Ends(s)
  PROVE  CommandsInv'
<1>1. Goes(s, Idle)
  BY DEF Ends
<1>2. Idle \in Commands /\ CommandFits(Idle, process', serves')
  BY IdleFits
<1> QED BY <1>1, <1>2, CommandGoes

LEMMA SameBrowsers ==
  ASSUME BrowsersInv, WorkersStay, browser' = browser
  PROVE  BrowsersInv'
  BY FitsStay DEF BrowsersInv, BrowsersFit

LEMMA BrowserDies ==
  ASSUME BrowsersInv, WorkersStay, NEW b \in Pids, browser' = [browser EXCEPT ![b].alive = FALSE]
  PROVE  BrowsersInv'
<1> DEFINE old == browser[b]
           new == [old EXCEPT !.alive = FALSE]
<1>1. old \in Browsers
  BY DEF BrowsersInv
<1>2. new \in Browsers /\ new.profile = old.profile /\ new.worker = old.worker /\ new.wants = old.wants
      /\ (old = NoBrowser => new = NoBrowser)
  <2>1. new \in Browsers /\ new.profile = old.profile /\ new.worker = old.worker /\ new.wants = old.wants
    BY <1>1 DEF Browsers
  <2>2. ASSUME old = NoBrowser PROVE new = NoBrowser
    <3>1. old.alive = FALSE
      BY <2>2 DEF NoBrowser
    <3>2. new = old
      BY <1>1, <3>1 DEF Browsers
    <3> QED BY <2>2, <3>2
  <2> QED BY <2>1, <2>2
<1>3. BrowserFits(old, process', serves')
  BY FitsStay DEF BrowsersInv, BrowsersFit
<1>4. BrowserFits(new, process', serves')
  BY <1>2, <1>3 DEF BrowserFits
<1>5. browser' = [browser EXCEPT ![b] = new]
  OBVIOUS
<1> HIDE DEF new
<1>6. browser' \in [Pids -> Browsers] /\ \A a \in Pids : browser'[a] = IF a = b THEN new ELSE browser[a]
  BY <1>2, <1>5 DEF BrowsersInv
<1>7. \A a \in Pids : BrowserFits(browser'[a], process', serves')
  BY <1>4, <1>6, FitsStay DEF BrowsersInv, BrowsersFit
<1> QED BY <1>6, <1>7 DEF BrowsersInv, BrowsersFit

LEMMA SameRest ==
  ASSUME RestType, UNCHANGED <<instances, poll, commands, accidents>>
  PROVE  RestType'
  BY DEF RestType

LEMMA SameMeta ==
  ASSUME MetaType, UNCHANGED profiles
  PROVE  MetaType'
  BY DEF MetaType, profiles

\* A profile's metadata is replaced.
LEMMA MetaSaved ==
  ASSUME MetaType, NEW p, NEW m \in Metadata, meta' = [meta EXCEPT ![p] = m], ramDirs' \subseteq Ephemeral
  PROVE  MetaType'
  BY DEF MetaType

-----------------------------------------------------------------------------
(* The poll, the profiles and the rest of the device *)

LEMMA PollFindsStep ==
  ASSUME RunsInv, NEW p \in Profiles, PollFinds(p)
  PROVE  RunsInv'
<1>1. PICK look \in Finds(p, Ram(p)) :
        poll' = [poll EXCEPT ![p] = [at |-> "found", found |-> look[1]]] /\ instances' = look[2]
  BY DEF PollFinds
<1>2. UNCHANGED profiles /\ browser' = browser /\ command' = command /\ UNCHANGED proxies
      /\ commands' = commands /\ accidents' = accidents
  BY DEF PollFinds, counts
<1>3. ProxiesInv /\ MetaType /\ RestType /\ CommandsInv /\ BrowsersInv
  BY PartsAreAll
<1>4. ProxiesInv' /\ WorkersStay
  BY <1>2, <1>3, SameProxies
<1>5. look[1] \in Pids \cup {NoPid} /\ look[2] \subseteq Pids
  BY <1>1, <1>3, FindsType DEF RestType
<1>6. RestType'
  BY <1>1, <1>2, <1>3, <1>5 DEF RestType
<1> QED BY <1>2, <1>3, <1>4, <1>6, SameMeta, SameCommands, SameBrowsers, PartsMake

LEMMA PollSavesStep ==
  ASSUME RunsInv, NEW p \in Profiles, PollSaves(p)
  PROVE  RunsInv'
<1>1. /\ meta' = [meta EXCEPT ![p] = Checked(p, poll[p].found)] /\ ramDirs' = RamAfter(p, poll[p].found)
      /\ poll' = [poll EXCEPT ![p] = NotPolling]
      /\ instances' = instances /\ browser' = browser /\ command' = command /\ UNCHANGED proxies
      /\ commands' = commands /\ accidents' = accidents
  BY DEF PollSaves, counts, browsers
<1>2. ProxiesInv /\ MetaType /\ RestType /\ CommandsInv /\ BrowsersInv
  BY PartsAreAll
<1>3. ProxiesInv' /\ WorkersStay
  BY <1>1, <1>2, SameProxies
<1>4. poll[p].found \in Pids \cup {NoPid}
  BY <1>2 DEF RestType
<1>5. MetaType'
  BY <1>1, <1>2, <1>4, CheckedType, RamType, MetaSaved DEF MetaType
<1>6. RestType'
  BY <1>1, <1>2 DEF RestType, NotPolling
<1> QED BY <1>1, <1>2, <1>3, <1>5, <1>6, SameCommands, SameBrowsers, PartsMake

\* A profile is deleted or given another upstream proxy: what runs is not touched.
LEMMA ProfileStep ==
  ASSUME RunsInv, NEW p \in Profiles, Delete(p) \/ \E u \in Upstreams : UpdateProxy(p, u)
  PROVE  RunsInv'
<1>1. /\ ramDirs' = ramDirs /\ UNCHANGED proxies
      /\ browser' = browser /\ instances' = instances /\ poll' = poll /\ command' = command
      /\ commands < MaxCommands /\ commands' = commands + 1 /\ accidents' = accidents
  BY DEF Delete, UpdateProxy, Counted, browsers
<1>2. ProxiesInv /\ MetaType /\ RestType /\ CommandsInv /\ BrowsersInv
  BY PartsAreAll
<1>3. MetaType'
  <2>1. meta[p] \in Metadata
    BY <1>2 DEF MetaType
  <2>2. CASE Delete(p)
    BY <1>1, <1>2, <2>1, <2>2 DEF Delete, MetaType, Metadata
  <2>3. ASSUME NEW u \in Upstreams, UpdateProxy(p, u)
        PROVE  MetaType'
    BY <1>1, <1>2, <2>1, <2>3 DEF UpdateProxy, MetaType, Metadata
  <2> QED BY <2>2, <2>3
<1>4. RestType'
  BY <1>1, <1>2, BrowserRunsAssumption DEF RestType
<1>5. ProxiesInv' /\ WorkersStay
  BY <1>1, <1>2, SameProxies
<1> QED BY <1>1, <1>2, <1>3, <1>4, <1>5, SameCommands, SameBrowsers, PartsMake

LEMMA BrowserExitsStep ==
  ASSUME RunsInv, NEW b \in Pids, BrowserExits(b)
  PROVE  RunsInv'
<1>1. /\ browser' = [browser EXCEPT ![b].alive = FALSE] /\ UNCHANGED profiles
      /\ instances' = instances /\ poll' = poll /\ command' = command /\ UNCHANGED proxies
      /\ commands' = commands /\ accidents' = accidents
  BY DEF BrowserExits, counts
<1>2. ProxiesInv /\ MetaType /\ RestType /\ CommandsInv /\ BrowsersInv
  BY PartsAreAll
<1>3. ProxiesInv' /\ WorkersStay
  BY <1>1, <1>2, SameProxies
<1> QED BY <1>1, <1>2, <1>3, SameMeta, SameRest, SameCommands, BrowserDies, PartsMake

\* Workers, their sidecars and the clean-up go on beside the commands.
LEMMA BackgroundStep ==
  ASSUME RunsInv, NEW w \in Workers, Worker(w) \/ Sidecar(w) \/ WorkerCrashes(w) \/ Cleanup(w)
  PROVE  RunsInv'
<1>1. /\ UNCHANGED profiles /\ browser' = browser /\ instances' = instances
      /\ poll' = poll /\ command' = command
      /\ commands' = commands /\ accidents' \in {accidents, accidents + 1}
      /\ accidents' = accidents \/ accidents < MaxAccidents
  BY DEF Worker, Sidecar, WorkerCrashes, Cleanup, Unchanged, Accident, browsers, counts
<1>2. ProxiesInv /\ MetaType /\ RestType /\ CommandsInv /\ BrowsersInv
  BY PartsAreAll
<1>3. ProxiesInv' /\ WorkersStay
  BY <1>2, WorkerStep, SaveWithPidStep, CleanupStep DEF Worker, Sidecar, WorkerCrashes, Cleanup
<1>4. RestType'
  BY <1>1, <1>2, BrowserRunsAssumption DEF RestType
<1> QED BY <1>1, <1>2, <1>3, <1>4, SameMeta, SameCommands, SameBrowsers, PartsMake

LEMMA RestartStep ==
  ASSUME RunsInv, Restart
  PROVE  RunsInv'
<1>1. /\ accidents < MaxAccidents /\ accidents' = accidents + 1 /\ commands' = commands
      /\ command' = [s \in Slots |-> Idle] /\ poll' = [p \in Profiles |-> NotPolling]
      /\ instances' = {} /\ ProxiesRestart /\ UNCHANGED profiles /\ browser' = browser
  BY DEF Restart, Accident
<1>2. ProxiesInv /\ MetaType /\ RestType /\ CommandsInv /\ BrowsersInv
  BY PartsAreAll
<1>3. ProxiesInv' /\ WorkersStay
  BY <1>1, <1>2, ProxiesRestartStep
<1>4. RestType'
  BY <1>1, <1>2, BrowserRunsAssumption DEF RestType, NotPolling
<1>5. CommandsInv'
  BY <1>1, IdleFits DEF CommandsInv, CommandsFit
<1> QED BY <1>1, <1>2, <1>3, <1>4, <1>5, SameMeta, SameBrowsers, PartsMake

-----------------------------------------------------------------------------
(* The commands *)

\* What a command that is in progress is known to be.
LEMMA CommandType ==
  ASSUME CommandsInv, NEW s \in Slots
  PROVE  /\ command[s] \in Commands /\ CommandFits(command[s], process, serves)
         /\ command[s].clone \in Metadata /\ command[s].url \in BOOLEAN /\ command[s].ram \in BOOLEAN
         /\ command[s].at # "idle" => command[s].profile \in Profiles
<1>1. command[s] \in Commands /\ CommandFits(command[s], process, serves)
  BY DEF CommandsInv, CommandsFit
<1> QED BY <1>1 DEF Commands, CommandFits

LEMMA RequestStep ==
  ASSUME RunsInv, NEW s \in Slots, NEW p \in Profiles, NEW step \in {"launch", "kill", "park"},
         NEW url \in BOOLEAN, Request(s, p, step, url)
  PROVE  RunsInv'
<1> DEFINE c == [Idle EXCEPT !.at = step, !.profile = p, !.url = url, !.clone = meta[p],
                             !.ram = step = "kill" /\ Ram(p)]
<1>1. /\ Goes(s, c) /\ commands < MaxCommands /\ commands' = commands + 1 /\ accidents' = accidents
      /\ UNCHANGED profiles /\ browser' = browser /\ instances' = instances /\ poll' = poll
      /\ UNCHANGED proxies
  BY DEF Request, Counted, browsers
<1>2. ProxiesInv /\ MetaType /\ RestType /\ CommandsInv /\ BrowsersInv
  BY PartsAreAll
<1>3. ProxiesInv' /\ WorkersStay
  BY <1>1, <1>2, SameProxies
<1>4. c \in Commands /\ c.at = step /\ c.profile = p
  <2>1. Idle \in Commands /\ meta[p] \in Metadata
    BY <1>2, IdleFits DEF MetaType
  <2>2. (step = "kill" /\ Ram(p)) \in BOOLEAN
    OBVIOUS
  <2>3. step \in Steps
    BY DEF Steps
  <2> QED BY <2>1, <2>2, <2>3 DEF Commands
<1> HIDE DEF c
<1>5. CommandFits(c, process', serves')
  BY <1>4 DEF CommandFits
<1>6. CommandsInv'
  BY <1>1, <1>2, <1>3, <1>4, <1>5, CommandGoes
<1>7. RestType'
  BY <1>1, <1>2, BrowserRunsAssumption DEF RestType
<1> QED BY <1>1, <1>2, <1>3, <1>6, <1>7, SameMeta, SameBrowsers, PartsMake

LEMMA LaunchChecksStep ==
  ASSUME RunsInv, NEW s \in Slots, LaunchChecks(s)
  PROVE  RunsInv'
<1> DEFINE c == command[s]
           p == c.profile
<1>1. /\ c.at = "launch" /\ browser' = browser /\ poll' = poll
      /\ commands' = commands /\ accidents' = accidents /\ UNCHANGED proxies
  BY DEF LaunchChecks, At, counts
<1>2. ProxiesInv /\ MetaType /\ RestType /\ CommandsInv /\ BrowsersInv
  BY PartsAreAll
<1>3. ProxiesInv' /\ WorkersStay
  BY <1>1, <1>2, SameProxies
<1>4. c \in Commands /\ c.clone \in Metadata /\ p \in Profiles
  BY <1>1, <1>2, CommandType
<1>5. PICK look \in Finds(p, Ram(p)) :
        LET found == look[1]
            now == Checked(p, found)
            final == IF now.exists THEN now ELSE c.clone
        IN /\ ramDirs' = RamAfter(p, found)
           /\ instances' = look[2]
           /\ IF found # NoPid /\ ~c.url /\ final.state = "Parked"
              THEN /\ meta' = [meta EXCEPT ![p] = [final EXCEPT !.state = "Running"]]
                   /\ Ends(s)
              ELSE /\ meta' = [meta EXCEPT ![p] = now]
                   /\ \/ found # NoPid /\ c.url /\ Ends(s)
                      \/ Goes(s, [c EXCEPT !.at = "start_proxy", !.clone = final])
  BY DEF LaunchChecks
<1>6. look[1] \in Pids \cup {NoPid} /\ look[2] \subseteq Pids
  BY <1>2, <1>4, FindsType DEF RestType
<1> DEFINE now == Checked(p, look[1])
           final == IF now.exists THEN now ELSE c.clone
           resumed == [final EXCEPT !.state = "Running"]
           next == [c EXCEPT !.at = "start_proxy", !.clone = final]
<1>7. now \in Metadata /\ final \in Metadata
  BY <1>2, <1>4, <1>6, CheckedType DEF MetaType
<1>8. resumed \in Metadata
  BY <1>7 DEF Metadata, States
<1>9. next \in Commands /\ next.at = "start_proxy" /\ next.profile = p
  BY <1>4, <1>7 DEF Commands, Steps
<1>10. RestType'
  BY <1>1, <1>2, <1>5, <1>6 DEF RestType
<1>11. \/ meta' = [meta EXCEPT ![p] = resumed] /\ Ends(s)
       \/ meta' = [meta EXCEPT ![p] = now] /\ (Ends(s) \/ Goes(s, next))
  BY <1>5
<1>12. ramDirs' \subseteq Ephemeral
  BY <1>2, <1>5, RamType DEF MetaType
<1> HIDE DEF now, final, resumed, next
<1>13. MetaType'
  BY <1>2, <1>7, <1>8, <1>11, <1>12, MetaSaved
<1>14. CommandFits(next, process', serves')
  BY <1>4, <1>9 DEF CommandFits
<1>15. CommandsInv'
  BY <1>2, <1>3, <1>9, <1>11, <1>14, CommandEnds, CommandGoes
<1> QED BY <1>1, <1>2, <1>3, <1>10, <1>13, <1>15, SameBrowsers, PartsMake

\* A worker that is taken over was started for the same profile, host and port.
LEMMA ReusableServes ==
  ASSUME ProxiesInv, NEW p \in Profiles, NEW u \in Upstreams, NEW w \in Reusable(p, u)
  PROVE  Serves(w, p, u, process, serves)
<1>1. \A key \in DOMAIN active : active[key] \in Workers /\ process[active[key]] # "none"
  BY DEF ProxiesInv, ProxiesTypeOK, TablesFit
<1>2. CASE w \in ReuseOwn(p, u)
  <2>1. w = profileActive[p] /\ w \in Tracked /\ SameUpstream(w, u)
    BY <1>2 DEF ReuseOwn
  <2>2. w \in Workers /\ process[w] # "none"
    BY <1>1, <2>1 DEF Tracked
  <2>3. serves[w].profile = p
    BY <2>1, <2>2, ProxyWorkersAssumption DEF ProxiesInv, TablesFit, ServesProfile
  <2> QED BY <2>1, <2>2, <2>3 DEF Serves, ServesProfile, SameUpstream
<1>3. CASE w \in ReuseUnderPid(p, u)
  <2>1. \E key \in DOMAIN active : w = active[key]
    BY <1>3 DEF ReuseUnderPid
  <2>2. SameUpstream(w, u) /\ serves[w].profile = p
    BY <1>3 DEF ReuseUnderPid
  <2> QED BY <1>1, <2>1, <2>2 DEF Serves, ServesProfile, SameUpstream
<1> QED BY <1>2, <1>3 DEF Reusable

LEMMA ReusesProxyStep ==
  ASSUME RunsInv, NEW s \in Slots, ReusesProxy(s)
  PROVE  RunsInv'
<1> DEFINE c == command[s]
<1>1. /\ c.at = "start_proxy" /\ UNCHANGED profiles /\ browser' = browser /\ instances' = instances
      /\ poll' = poll /\ commands' = commands /\ accidents' = accidents /\ UNCHANGED proxies
  BY DEF ReusesProxy, At, counts, browsers
<1>2. ProxiesInv /\ MetaType /\ RestType /\ CommandsInv /\ BrowsersInv
  BY PartsAreAll
<1>3. ProxiesInv' /\ WorkersStay
  BY <1>1, <1>2, SameProxies
<1>4. c \in Commands /\ c.clone.proxy \in Upstreams /\ c.profile \in Profiles
  BY <1>1, <1>2, CommandType DEF Metadata
<1>5. PICK w \in Reusable(c.profile, c.clone.proxy) :
        Goes(s, [c EXCEPT !.at = "prepare", !.worker = w])
  BY DEF ReusesProxy
<1>6. Serves(w, c.profile, c.clone.proxy, process, serves)
  BY <1>2, <1>4, ReusableServes
<1>7. Serves(w, c.profile, c.clone.proxy, process', serves')
  BY <1>3, <1>6 DEF Serves, ServesProfile, WorkersStay
<1> DEFINE next == [c EXCEPT !.at = "prepare", !.worker = w]
<1>8. /\ next \in Commands /\ next.at = "prepare" /\ next.worker = w
      /\ next.profile = c.profile /\ next.clone = c.clone
  BY <1>4, <1>6 DEF Commands, Steps, Serves, ServesProfile
<1>9. Goes(s, next)
  BY <1>5
<1> HIDE DEF next
<1>10. CommandFits(next, process', serves')
  BY <1>4, <1>7, <1>8 DEF CommandFits
<1>11. CommandsInv'
  BY <1>2, <1>3, <1>8, <1>9, <1>10, CommandGoes
<1> QED BY <1>1, <1>2, <1>3, <1>11, SameMeta, SameRest, SameBrowsers, PartsMake

LEMMA StartsProxyStep ==
  ASSUME RunsInv, NEW s \in Slots, StartsProxy(s)
  PROVE  RunsInv'
<1> DEFINE c == command[s]
           w == CHOOSE new \in Workers : process[new] = "none"
           next == [c EXCEPT !.at = "wait_proxy", !.worker = w]
<1>1. /\ c.at = "start_proxy" /\ UNCHANGED profiles /\ browser' = browser /\ instances' = instances
      /\ poll' = poll /\ commands' = commands /\ accidents' = accidents
      /\ SpawnWorker(w, c.profile, c.clone.proxy) /\ Goes(s, next)
  BY DEF StartsProxy, At, counts, browsers
<1>2. w \in Workers
  BY DEF StartsProxy
<1>3. ProxiesInv /\ MetaType /\ RestType /\ CommandsInv /\ BrowsersInv
  BY PartsAreAll
<1>4. c \in Commands /\ c.clone.proxy \in Upstreams /\ c.profile \in Profiles
  BY <1>1, <1>3, CommandType DEF Metadata
<1> HIDE DEF w
<1>5. ProxiesInv' /\ WorkersStay /\ Serves(w, c.profile, c.clone.proxy, process', serves')
  BY <1>1, <1>2, <1>3, <1>4, SpawnStep
<1>6. /\ next \in Commands /\ next.at = "wait_proxy" /\ next.worker = w
      /\ next.profile = c.profile /\ next.clone = c.clone
  BY <1>2, <1>4 DEF Commands, Steps
<1> HIDE DEF next
<1>7. CommandFits(next, process', serves')
  BY <1>4, <1>5, <1>6 DEF CommandFits
<1>8. CommandsInv'
  BY <1>1, <1>3, <1>5, <1>6, <1>7, CommandGoes
<1> QED BY <1>1, <1>3, <1>5, <1>8, SameMeta, SameRest, SameBrowsers, PartsMake

LEMMA ProxyIsReadyStep ==
  ASSUME RunsInv, NEW s \in Slots, ProxyIsReady(s)
  PROVE  RunsInv'
<1> DEFINE c == command[s]
           next == [c EXCEPT !.at = "prepare"]
<1>1. /\ c.at = "wait_proxy" /\ UNCHANGED profiles /\ browser' = browser /\ instances' = instances
      /\ poll' = poll /\ commands' = commands /\ accidents' = accidents
      /\ Track(c.worker, c.profile) /\ Goes(s, next)
  BY DEF ProxyIsReady, At, counts, browsers
<1>2. ProxiesInv /\ MetaType /\ RestType /\ CommandsInv /\ BrowsersInv
  BY PartsAreAll
<1>3. /\ c \in Commands /\ c.profile \in Profiles
      /\ Serves(c.worker, c.profile, c.clone.proxy, process, serves)
  BY <1>1, <1>2, CommandType DEF CommandFits
<1>4. ServesProfile(c.worker, c.profile, process, serves)
  BY <1>3 DEF Serves, ServesProfile
<1>5. ProxiesInv' /\ WorkersStay
  BY <1>1, <1>2, <1>3, <1>4, TrackStep
<1>6. Serves(c.worker, c.profile, c.clone.proxy, process', serves')
  BY <1>3, <1>5 DEF Serves, ServesProfile, WorkersStay
<1>7. /\ next \in Commands /\ next.at = "prepare" /\ next.worker = c.worker
      /\ next.profile = c.profile /\ next.clone = c.clone
  BY <1>3 DEF Commands, Steps
<1> HIDE DEF next
<1>8. CommandFits(next, process', serves')
  BY <1>3, <1>6, <1>7 DEF CommandFits
<1>9. CommandsInv'
  BY <1>1, <1>2, <1>5, <1>7, <1>8, CommandGoes
<1> QED BY <1>1, <1>2, <1>5, <1>9, SameMeta, SameRest, SameBrowsers, PartsMake

LEMMA FailsStep ==
  ASSUME RunsInv, NEW s \in Slots, LaunchFails(s) \/ KillFails(s)
  PROVE  RunsInv'
<1>1. /\ Ends(s) /\ UNCHANGED profiles /\ browser' = browser /\ instances' = instances
      /\ poll' = poll /\ commands' = commands /\ accidents' = accidents /\ UNCHANGED proxies
  BY DEF LaunchFails, KillFails, counts, browsers
<1>2. ProxiesInv /\ MetaType /\ RestType /\ CommandsInv /\ BrowsersInv
  BY PartsAreAll
<1>3. ProxiesInv' /\ WorkersStay
  BY <1>1, <1>2, SameProxies
<1> QED BY <1>1, <1>2, <1>3, CommandEnds, SameMeta, SameRest, SameBrowsers, PartsMake

LEMMA PreparesStep ==
  ASSUME RunsInv, NEW s \in Slots, Prepares(s)
  PROVE  RunsInv'
<1> DEFINE c == command[s]
           others == IF c.profile \in Wayfern THEN {} ELSE Running(c.profile, c.profile \in RamMade(c.profile))
<1>1. /\ c.at = "prepare" /\ ramDirs' = RamMade(c.profile) /\ meta' = meta /\ instances' = instances
      /\ poll' = poll /\ commands' = commands /\ accidents' = accidents /\ UNCHANGED proxies
  BY DEF Prepares, At, counts
<1>2. \/ \E b \in others : Goes(s, [c EXCEPT !.at = "register", !.pid = b]) /\ browser' = browser
      \/ \E b \in others : browser' = [browser EXCEPT ![b].alive = FALSE] /\ Goes(s, [c EXCEPT !.at = "spawn"])
      \/ Goes(s, [c EXCEPT !.at = "spawn"]) /\ browser' = browser
  BY DEF Prepares
<1>3. others \subseteq Pids
  BY DEF Running, Under
<1>4. ProxiesInv /\ MetaType /\ RestType /\ CommandsInv /\ BrowsersInv
  BY PartsAreAll
<1>5. ProxiesInv' /\ WorkersStay
  BY <1>1, <1>4, SameProxies
<1>6. MetaType'
  BY <1>1, <1>4, RamType DEF MetaType
<1>7. /\ c \in Commands /\ c.profile \in Profiles
      /\ Serves(c.worker, c.profile, c.clone.proxy, process, serves)
  BY <1>1, <1>4, CommandType DEF CommandFits
<1>8. Serves(c.worker, c.profile, c.clone.proxy, process', serves')
  BY <1>5, <1>7 DEF Serves, ServesProfile, WorkersStay
<1> HIDE DEF others
<1>9. ASSUME Goes(s, [c EXCEPT !.at = "spawn"])
      PROVE  CommandsInv'
  <2> DEFINE next == [c EXCEPT !.at = "spawn"]
  <2>1. /\ next \in Commands /\ next.at = "spawn" /\ next.worker = c.worker
        /\ next.profile = c.profile /\ next.clone = c.clone
    BY <1>7 DEF Commands, Steps
  <2>2. Goes(s, next)
    BY <1>9
  <2> HIDE DEF next
  <2>3. CommandFits(next, process', serves')
    BY <1>7, <1>8, <2>1 DEF CommandFits
  <2> QED BY <1>4, <1>5, <2>1, <2>2, <2>3, CommandGoes
<1>10. CASE \E b \in others : Goes(s, [c EXCEPT !.at = "register", !.pid = b]) /\ browser' = browser
  <2>1. PICK b \in Pids : Goes(s, [c EXCEPT !.at = "register", !.pid = b]) /\ browser' = browser
    BY <1>3, <1>10
  <2> DEFINE next == [c EXCEPT !.at = "register", !.pid = b]
  <2>2. next \in Commands /\ next.at = "register" /\ next.pid = b /\ next.profile = c.profile
    BY <1>7 DEF Commands, Steps
  <2>3. Goes(s, next)
    BY <2>1
  <2> HIDE DEF next
  <2>4. CommandFits(next, process', serves')
    BY <1>7, <2>2 DEF CommandFits
  <2>5. CommandsInv'
    BY <1>4, <1>5, <2>2, <2>3, <2>4, CommandGoes
  <2> QED BY <1>1, <1>4, <1>5, <1>6, <2>1, <2>5, SameRest, SameBrowsers, PartsMake
<1>11. CASE \E b \in others : browser' = [browser EXCEPT ![b].alive = FALSE] /\ Goes(s, [c EXCEPT !.at = "spawn"])
  <2>1. BrowsersInv'
    BY <1>3, <1>4, <1>5, <1>11, BrowserDies
  <2> QED BY <1>1, <1>4, <1>5, <1>6, <1>9, <1>11, <2>1, SameRest, PartsMake
<1>12. CASE Goes(s, [c EXCEPT !.at = "spawn"]) /\ browser' = browser
  BY <1>1, <1>4, <1>5, <1>6, <1>9, <1>12, SameRest, SameBrowsers, PartsMake
<1> QED BY <1>2, <1>10, <1>11, <1>12

\* The browser gets the worker that its launch has found or started.
LEMMA SpawnsStep ==
  ASSUME RunsInv, NEW s \in Slots, Spawns(s)
  PROVE  RunsInv'
<1> DEFINE c == command[s]
           b == CHOOSE new \in Pids : browser[new] = NoBrowser
           new == [alive |-> TRUE, profile |-> c.profile, ram |-> c.profile \in Ephemeral,
                   worker |-> c.worker, wants |-> c.clone.proxy]
           next == [c EXCEPT !.at = "register", !.pid = b]
<1>1. /\ c.at = "spawn" /\ UNCHANGED profiles /\ instances' = instances
      /\ poll' = poll /\ commands' = commands /\ accidents' = accidents /\ UNCHANGED proxies
      /\ browser' = [browser EXCEPT ![b] = new] /\ Goes(s, next)
  BY DEF Spawns, At, counts
<1>2. b \in Pids
  BY DEF Spawns
<1>3. ProxiesInv /\ MetaType /\ RestType /\ CommandsInv /\ BrowsersInv
  BY PartsAreAll
<1>4. ProxiesInv' /\ WorkersStay
  BY <1>1, <1>3, SameProxies
<1>5. /\ c \in Commands /\ c.profile \in Profiles /\ c.clone.proxy \in Upstreams
      /\ Serves(c.worker, c.profile, c.clone.proxy, process, serves)
  BY <1>1, <1>3, CommandType DEF CommandFits, Metadata
<1>6. Serves(c.worker, c.profile, c.clone.proxy, process', serves') /\ c.worker \in Workers
  BY <1>4, <1>5 DEF Serves, ServesProfile, WorkersStay
<1>7. (c.profile \in Ephemeral) \in BOOLEAN
  OBVIOUS
<1>8. new \in Browsers /\ new.worker = c.worker /\ new.profile = c.profile /\ new.wants = c.clone.proxy
  BY <1>5, <1>6, <1>7 DEF Browsers
<1>9. next \in Commands /\ next.at = "register" /\ next.pid = b /\ next.profile = c.profile
  BY <1>2, <1>5 DEF Commands, Steps
<1> HIDE DEF b, new, next
<1>10. BrowserFits(new, process', serves')
  BY <1>6, <1>8 DEF BrowserFits
<1>11. BrowsersInv'
  <2>1. browser' \in [Pids -> Browsers] /\ \A a \in Pids : browser'[a] = IF a = b THEN new ELSE browser[a]
    BY <1>1, <1>2, <1>3, <1>8 DEF BrowsersInv
  <2>2. \A a \in Pids : BrowserFits(browser'[a], process', serves')
    BY <1>3, <1>4, <1>10, <2>1, FitsStay DEF BrowsersInv, BrowsersFit
  <2> QED BY <2>1, <2>2 DEF BrowsersInv, BrowsersFit
<1>12. CommandFits(next, process', serves')
  BY <1>2, <1>5, <1>9 DEF CommandFits
<1>13. CommandsInv'
  BY <1>1, <1>3, <1>4, <1>9, <1>12, CommandGoes
<1> QED BY <1>1, <1>3, <1>4, <1>11, <1>13, SameMeta, SameRest, PartsMake

LEMMA RegistersStep ==
  ASSUME RunsInv, NEW s \in Slots, Registers(s)
  PROVE  RunsInv'
<1> DEFINE c == command[s]
           m == [c.clone EXCEPT !.exists = TRUE, !.pid = c.pid, !.state = "Running"]
<1>1. /\ c.at = "register" /\ instances' = WithInstance(c.profile, c.pid) /\ active' = Rekeyed(c.pid)
      /\ meta' = [meta EXCEPT ![c.profile] = m] /\ Ends(s) /\ ramDirs' = ramDirs /\ browser' = browser
      /\ poll' = poll /\ commands' = commands /\ accidents' = accidents
      /\ UNCHANGED <<files, process, profileActive>>
  BY DEF Registers, At, counts
<1>2. ProxiesInv /\ MetaType /\ RestType /\ CommandsInv /\ BrowsersInv
  BY PartsAreAll
<1>3. c \in Commands /\ c.clone \in Metadata /\ c.profile \in Profiles /\ c.pid \in Pids
  BY <1>1, <1>2, CommandType DEF CommandFits
<1>4. ProxiesInv' /\ WorkersStay
  BY <1>1, <1>2, <1>3, RekeyStep
<1>5. m \in Metadata
  BY <1>3 DEF Metadata, States
<1> HIDE DEF m
<1>6. MetaType'
  BY <1>1, <1>2, <1>5, MetaSaved DEF MetaType
<1>7. RestType'
  BY <1>1, <1>2, <1>3 DEF RestType, WithInstance
<1> QED BY <1>1, <1>2, <1>4, <1>6, <1>7, CommandEnds, SameBrowsers, PartsMake

\* A command that looks for the browser next.
LEMMA GoesToFind ==
  ASSUME CommandsInv, WorkersStay, NEW s \in Slots, command[s].at # "idle",
         Goes(s, [command[s] EXCEPT !.at = "find"])
  PROVE  CommandsInv'
<1> DEFINE next == [command[s] EXCEPT !.at = "find"]
<1>1. command[s] \in Commands /\ command[s].profile \in Profiles
  BY CommandType
<1>2. next \in Commands /\ next.at = "find" /\ next.profile = command[s].profile
  BY <1>1 DEF Commands, Steps
<1>3. Goes(s, next)
  OBVIOUS
<1> HIDE DEF next
<1>4. CommandFits(next, process', serves')
  BY <1>1, <1>2 DEF CommandFits
<1> QED BY <1>2, <1>3, <1>4, CommandGoes

\* A kill only ever takes the worker on record for its profile.
LEMMA KillLooksUpProxyStep ==
  ASSUME RunsInv, NEW s \in Slots, KillLooksUpProxy(s)
  PROVE  RunsInv'
<1> DEFINE c == command[s]
           w == profileActive[c.profile]
<1>1. /\ c.at = "kill" /\ UNCHANGED profiles /\ browser' = browser /\ instances' = instances
      /\ poll' = poll /\ commands' = commands /\ accidents' = accidents
      /\ UNCHANGED <<files, process, profileActive>>
  BY DEF KillLooksUpProxy, At, counts, browsers
<1>2. \/ Goes(s, [c EXCEPT !.at = "find"]) /\ active' = active
      \/ /\ w # NoWorker /\ Goes(s, [c EXCEPT !.at = "stop_proxy_by_id", !.worker = w])
         /\ active' = active
      \/ \E key \in KeysOf(w) :
           /\ Goes(s, [c EXCEPT !.at = "stop_proxy", !.worker = active[key]])
           /\ active' = Drop(active, key)
  BY DEF KillLooksUpProxy
<1>3. ProxiesInv /\ MetaType /\ RestType /\ CommandsInv /\ BrowsersInv
  BY PartsAreAll
<1>4. c \in Commands /\ c.profile \in Profiles
  BY <1>1, <1>3, CommandType
<1>5. ProxiesInv' /\ WorkersStay
  <2>1. CASE active' = active
    BY <1>1, <1>3, <2>1, SameProxies DEF proxies, files
  <2>2. CASE \E key \in KeysOf(w) : active' = Drop(active, key)
    BY <1>1, <1>3, <2>2, DropStep
  <2> QED BY <1>2, <2>1, <2>2
<1>6. ASSUME NEW step \in {"stop_proxy", "stop_proxy_by_id"}, w # NoWorker,
             Goes(s, [c EXCEPT !.at = step, !.worker = w])
      PROVE  CommandsInv'
  <2> DEFINE next == [c EXCEPT !.at = step, !.worker = w]
  <2>1. ServesProfile(w, c.profile, process, serves)
    BY <1>3, <1>4, <1>6 DEF ProxiesInv, TablesFit
  <2>2. ServesProfile(w, c.profile, process', serves') /\ w \in Workers
    BY <1>5, <2>1, FitsStay DEF ServesProfile
  <2>3. next \in Commands /\ next.at = step /\ next.worker = w /\ next.profile = c.profile
    BY <1>4, <2>2 DEF Commands, Steps
  <2>4. Goes(s, next)
    BY <1>6
  <2> HIDE DEF next, w
  <2>5. CommandFits(next, process', serves')
    BY <1>4, <2>2, <2>3 DEF CommandFits
  <2> QED BY <1>3, <1>5, <2>3, <2>4, <2>5, CommandGoes
<1>7. CommandsInv'
  <2>1. CASE Goes(s, [c EXCEPT !.at = "find"])
    BY <1>1, <1>3, <1>5, <2>1, GoesToFind
  <2>2. CASE w # NoWorker /\ Goes(s, [c EXCEPT !.at = "stop_proxy_by_id", !.worker = w])
    BY <1>6, <2>2
  <2>3. ASSUME NEW key \in KeysOf(w), Goes(s, [c EXCEPT !.at = "stop_proxy", !.worker = active[key]])
        PROVE  CommandsInv'
    <3>1. key \in DOMAIN active /\ active[key] = w
      BY DEF KeysOf
    <3>2. w # NoWorker
      BY <1>3, <3>1, ProxyWorkersAssumption DEF ProxiesInv, ProxiesTypeOK
    <3> QED BY <1>6, <2>3, <3>1, <3>2
  <2> QED BY <1>2, <2>1, <2>2, <2>3
<1> QED BY <1>1, <1>3, <1>5, <1>7, SameMeta, SameRest, SameBrowsers, PartsMake

LEMMA KillStopsProxyStep ==
  ASSUME RunsInv, NEW s \in Slots, KillStopsProxy(s)
  PROVE  RunsInv'
<1> DEFINE c == command[s]
<1>1. /\ c.at \in {"stop_proxy", "stop_proxy_by_id"} /\ Stopped(c.worker)
      /\ profileActive' \in {profileActive, [profileActive EXCEPT ![c.profile] = NoWorker]}
      /\ Goes(s, [c EXCEPT !.at = "find"])
      /\ UNCHANGED profiles /\ browser' = browser /\ instances' = instances
      /\ poll' = poll /\ commands' = commands /\ accidents' = accidents
      /\ UNCHANGED <<serves, unsaved, active>>
  BY DEF KillStopsProxy, counts, browsers
<1>2. ProxiesInv /\ MetaType /\ RestType /\ CommandsInv /\ BrowsersInv
  BY PartsAreAll
<1>3. c.worker \in Workers
  BY <1>1, <1>2, CommandType DEF CommandFits, ServesProfile
<1>4. ProxiesInv' /\ WorkersStay
  BY <1>1, <1>2, <1>3, StopStep
<1>5. CommandsInv'
  BY <1>1, <1>2, <1>4, GoesToFind
<1> QED BY <1>1, <1>2, <1>4, <1>5, SameMeta, SameRest, SameBrowsers, PartsMake

LEMMA SavesStoppedStep ==
  ASSUME MetaType, CommandsInv, WorkersStay, NEW s \in Slots, SavesStopped(s)
  PROVE  MetaType' /\ CommandsInv'
<1> DEFINE c == command[s]
           m == [c.clone EXCEPT !.exists = TRUE, !.pid = NoPid, !.state = "Stopped"]
<1>1. meta' = [meta EXCEPT ![c.profile] = m] /\ ramDirs' = ramDirs \ {c.profile} /\ Ends(s)
  BY DEF SavesStopped
<1>2. c.clone \in Metadata
  BY CommandType
<1>3. m \in Metadata
  BY <1>2 DEF Metadata, States
<1> HIDE DEF m
<1>4. MetaType'
  BY <1>1, <1>3, MetaSaved DEF MetaType
<1> QED BY <1>1, <1>4, CommandEnds

LEMMA KillFindsStep ==
  ASSUME RunsInv, NEW s \in Slots, KillFinds(s)
  PROVE  RunsInv'
<1> DEFINE c == command[s]
<1>1. /\ c.at = "find" /\ browser' = browser /\ poll' = poll
      /\ commands' = commands /\ accidents' = accidents /\ UNCHANGED proxies
  BY DEF KillFinds, At, counts
<1>2. PICK look \in Finds(c.profile, c.ram) :
        /\ instances' = look[2] \ {look[1]}
        /\ \/ SavesStopped(s)
           \/ /\ look[1] # NoPid /\ Goes(s, [c EXCEPT !.at = "verify", !.pid = look[1]])
              /\ UNCHANGED profiles
  BY DEF KillFinds
<1>3. ProxiesInv /\ MetaType /\ RestType /\ CommandsInv /\ BrowsersInv
  BY PartsAreAll
<1>4. ProxiesInv' /\ WorkersStay
  BY <1>1, <1>3, SameProxies
<1>5. c \in Commands /\ c.profile \in Profiles
  BY <1>1, <1>3, CommandType
<1>6. look[1] \in Pids \cup {NoPid} /\ look[2] \subseteq Pids
  BY <1>2, <1>3, <1>5, FindsType DEF RestType
<1>7. RestType'
  BY <1>1, <1>2, <1>3, <1>6 DEF RestType
<1>8. CASE SavesStopped(s)
  BY <1>1, <1>3, <1>4, <1>7, <1>8, SavesStoppedStep, SameBrowsers, PartsMake
<1>9. CASE look[1] # NoPid /\ Goes(s, [c EXCEPT !.at = "verify", !.pid = look[1]]) /\ UNCHANGED profiles
  <2> DEFINE next == [c EXCEPT !.at = "verify", !.pid = look[1]]
  <2>1. next \in Commands /\ next.at = "verify" /\ next.pid = look[1] /\ next.profile = c.profile
    BY <1>5, <1>6 DEF Commands, Steps
  <2>2. Goes(s, next)
    BY <1>9
  <2> HIDE DEF next
  <2>3. CommandFits(next, process', serves')
    BY <1>5, <1>6, <1>9, <2>1 DEF CommandFits
  <2>4. CommandsInv'
    BY <1>3, <1>4, <2>1, <2>2, <2>3, CommandGoes
  <2> QED BY <1>1, <1>3, <1>4, <1>7, <1>9, <2>4, SameMeta, SameBrowsers, PartsMake
<1> QED BY <1>2, <1>8, <1>9

LEMMA KillSucceedsStep ==
  ASSUME RunsInv, NEW s \in Slots, KillSucceeds(s)
  PROVE  RunsInv'
<1>1. /\ command[s].at = "verify" /\ browser' = [browser EXCEPT ![command[s].pid].alive = FALSE]
      /\ SavesStopped(s) /\ instances' = instances /\ poll' = poll
      /\ commands' = commands /\ accidents' = accidents /\ UNCHANGED proxies
  BY DEF KillSucceeds, At, counts
<1>2. ProxiesInv /\ MetaType /\ RestType /\ CommandsInv /\ BrowsersInv
  BY PartsAreAll
<1>3. ProxiesInv' /\ WorkersStay
  BY <1>1, <1>2, SameProxies
<1>4. command[s].pid \in Pids
  BY <1>1, <1>2, CommandType DEF CommandFits
<1>5. BrowsersInv'
  BY <1>1, <1>2, <1>3, <1>4, BrowserDies
<1> QED BY <1>1, <1>2, <1>3, <1>5, SavesStoppedStep, SameRest, PartsMake

LEMMA ParksStep ==
  ASSUME RunsInv, NEW s \in Slots, Parks(s)
  PROVE  RunsInv'
<1> DEFINE c == command[s]
           p == c.profile
           parked == [c.clone EXCEPT !.exists = TRUE, !.state = "Parked"]
<1>1. /\ c.at = "park" /\ Ends(s) /\ ramDirs' = ramDirs /\ browser' = browser /\ poll' = poll
      /\ commands' = commands /\ accidents' = accidents /\ UNCHANGED proxies
  BY DEF Parks, At, counts
<1>2. PICK look \in Finds(p, Ram(p)) :
        /\ instances' = look[2]
        /\ meta' = [meta EXCEPT ![p] =
             IF look[1] # NoPid \/ c.clone.pid # NoPid \/ c.clone.state = "Running"
             THEN parked ELSE Checked(p, look[1])]
  BY DEF Parks
<1>3. ProxiesInv /\ MetaType /\ RestType /\ CommandsInv /\ BrowsersInv
  BY PartsAreAll
<1>4. ProxiesInv' /\ WorkersStay
  BY <1>1, <1>3, SameProxies
<1>5. c.clone \in Metadata /\ p \in Profiles
  BY <1>1, <1>3, CommandType
<1>6. look[1] \in Pids \cup {NoPid} /\ look[2] \subseteq Pids
  BY <1>2, <1>3, <1>5, FindsType DEF RestType
<1>7. parked \in Metadata /\ Checked(p, look[1]) \in Metadata
  BY <1>3, <1>5, <1>6, CheckedType DEF MetaType, Metadata, States
<1>8. RestType'
  BY <1>1, <1>2, <1>3, <1>6 DEF RestType
<1> HIDE DEF parked
<1>9. MetaType'
  BY <1>1, <1>2, <1>3, <1>7, MetaSaved DEF MetaType
<1> QED BY <1>1, <1>3, <1>4, <1>8, <1>9, CommandEnds, SameBrowsers, PartsMake

-----------------------------------------------------------------------------
(* The invariant *)

LEMMA InitRuns == Init => RunsInv
<1> SUFFICES ASSUME Init PROVE RunsInv
  OBVIOUS
<1>1. ProxiesInit /\ meta = [p \in Profiles |-> NewMeta(Direct)] /\ ramDirs = {}
      /\ browser = [b \in Pids |-> NoBrowser] /\ instances = {} /\ poll = [p \in Profiles |-> NotPolling]
      /\ command = [s \in Slots |-> Idle] /\ commands = 0 /\ accidents = 0
  BY DEF Init
<1>2. ProxiesInv
  <2>1. ProxiesTypeOK
    BY <1>1, FilesType DEF ProxiesInit, ProxiesTypeOK
  <2>2. TablesFit /\ WorkersHaveFiles
    BY <1>1 DEF ProxiesInit, TablesFit, WorkersHaveFiles, Alive
  <2> QED BY <2>1, <2>2 DEF ProxiesInv
<1>3. MetaType
  BY <1>1, ProxyWorkersAssumption DEF MetaType, NewMeta, Metadata, States
<1>4. RestType
  BY <1>1, BrowserRunsAssumption DEF RestType, NotPolling
<1>5. CommandsInv
  BY <1>1, IdleFits DEF CommandsInv, CommandsFit
<1>6. NoBrowser \in Browsers
  BY DEF NoBrowser, Browsers
<1>7. BrowsersInv
  BY <1>1, <1>6 DEF BrowsersInv, BrowsersFit, BrowserFits
<1> QED BY <1>2, <1>3, <1>4, <1>5, <1>7, PartsAreAll

LEMMA NextRuns ==
  ASSUME RunsInv, [Next]_vars
  PROVE  RunsInv'
<1>1. ASSUME NEW s \in Slots, Advances(s)
      PROVE  RunsInv'
  BY <1>1, LaunchChecksStep, ReusesProxyStep, StartsProxyStep, ProxyIsReadyStep, FailsStep,
     PreparesStep, SpawnsStep, RegistersStep, KillLooksUpProxyStep, KillStopsProxyStep,
     KillFindsStep, KillSucceedsStep, ParksStep DEF Advances
<1>2. ASSUME NEW s \in Slots, NEW p \in Profiles, Launch(s, p) \/ Kill(s, p) \/ Park(s, p)
      PROVE  RunsInv'
  BY <1>2, RequestStep DEF Launch, Kill, Park
<1>3. ASSUME NEW p \in Profiles, Delete(p) \/ PollFinds(p) \/ PollSaves(p)
      PROVE  RunsInv'
  BY <1>3, ProfileStep, PollFindsStep, PollSavesStep
<1>4. ASSUME NEW p \in Profiles, NEW u \in Upstreams, UpdateProxy(p, u)
      PROVE  RunsInv'
  BY <1>4, ProfileStep
<1>5. ASSUME NEW b \in Pids, BrowserExits(b)
      PROVE  RunsInv'
  BY <1>5, BrowserExitsStep
<1>6. ASSUME NEW w \in Workers, Worker(w) \/ Sidecar(w) \/ WorkerCrashes(w) \/ Cleanup(w)
      PROVE  RunsInv'
  BY <1>6, BackgroundStep
<1>7. CASE Restart
  BY <1>7, RestartStep
<1>8. CASE UNCHANGED vars
  <2>1. ProxiesInv /\ MetaType /\ RestType /\ CommandsInv /\ BrowsersInv
    BY PartsAreAll
  <2>2. /\ UNCHANGED profiles /\ browser' = browser /\ command' = command /\ UNCHANGED proxies
        /\ UNCHANGED <<instances, poll, commands, accidents>>
    BY <1>8 DEF vars, profiles
  <2>3. ProxiesInv' /\ WorkersStay
    BY <2>1, <2>2, SameProxies
  <2> QED BY <2>1, <2>2, <2>3, SameMeta, SameRest, SameCommands, SameBrowsers, PartsMake
<1> QED BY <1>1, <1>2, <1>3, <1>4, <1>5, <1>6, <1>7, <1>8 DEF Next

\* However commands, polls, workers, accidents and restarts interleave, what a command has
\* found out about a worker holds until it has used it.
THEOREM Runs == Spec => []RunsInv
<1>1. RunsInv /\ [Next]_vars => RunsInv'
  BY NextRuns
<1> QED BY InitRuns, <1>1, PTL DEF Spec

\* Types are kept: of profiles, browsers, commands, workers and tables.
THEOREM RunsTypeCorrect == Spec => []RunsTypeOK
<1>1. RunsInv => RunsTypeOK
  BY DEF RunsInv
<1> QED BY <1>1, Runs, PTL

\* A browser's traffic goes through a worker of its own profile to the host and port its launch
\* resolved, although all launches register under one temporary pid (OwnProxy).
THEOREM TrafficIsOwn == Spec => []OwnProxy
<1>1. RunsInv => OwnProxy
  BY DEF RunsInv, BrowsersFit, BrowserFits, Serves, ServesProfile, SameUpstream, OwnProxy
<1> QED BY <1>1, Runs, PTL

\* Killing a profile's browser never stops the worker of another profile (KillsOwnProxy).
THEOREM KillsAreOwn == Spec => []KillsOwnProxy
<1>1. RunsInv => KillsOwnProxy
  BY DEF RunsInv, CommandsFit, CommandFits, ServesProfile, KillsOwnProxy
<1> QED BY <1>1, Runs, PTL

\* Neither a stop nor the clean-up removes the file of a worker that lives on (WorkersHaveFiles).
THEOREM LivingWorkersHaveFiles == Spec => []WorkersHaveFiles
<1>1. RunsInv => WorkersHaveFiles
  BY DEF RunsInv
<1> QED BY <1>1, Runs, PTL
=============================================================================
