---------------------------- MODULE ProxyWorkers ----------------------------
(***************************************************************************)
(* The local proxies (proxy_manager.rs, proxy_runner.rs, proxy_storage.rs  *)
(* and the worker side of proxy_server.rs).  A worker is a detached        *)
(* process with a config file, proxies/<id>.json, that the sidecar which   *)
(* starts it and the worker itself both write whole.  The app tracks       *)
(* workers in two tables in memory: by the pid of the browser they serve,  *)
(* which is a temporary one until the browser runs, and by profile.        *)
(*                                                                         *)
(* A worker's id is fresh.  What the traffic is, and the port it uses, are *)
(* abstracted to the worker itself.                                        *)
(***************************************************************************)
EXTENDS FiniteSets, Functions

CONSTANTS
  Profiles,
  Upstreams,   \* what a worker is started for: an upstream proxy, its credentials and bypass rules
  Endpoint,    \* type, host and port of each
  Direct,      \* no upstream proxy
  Workers,     \* bound: the workers that are ever started
  Pids,        \* bound: the browser processes that are ever started
  TempPid,     \* the temporary pid of a launch (0)
  NoWorker, NoProfile, NoUpstream

ASSUME ProxyWorkersAssumption ==
  /\ Direct \in Upstreams
  /\ DOMAIN Endpoint = Upstreams
  /\ TempPid \notin Pids
  /\ NoWorker \notin Workers
  /\ NoProfile \notin Profiles
  /\ NoUpstream \notin Upstreams

VARIABLES
  config,         \* the config file of each worker
  serves,         \* profile and upstream of a worker, in its file and its process
  unsaved,        \* workers whose sidecar has not saved their pid yet
  process,        \* each worker's process
  active,         \* ProxyManager.active_proxies: browser pid to worker
  profileActive   \* ProxyManager.profile_active_proxy_ids

files == <<config, serves, unsaved>>
tables == <<active, profileActive>>
proxies == <<config, serves, unsaved, process, active, profileActive>>

Files == [exists : BOOLEAN, pid : BOOLEAN, url : BOOLEAN]
NoFile == [exists |-> FALSE, pid |-> FALSE, url |-> FALSE]
Written(pid, url) == [exists |-> TRUE, pid |-> pid, url |-> url]

\* A worker reads its file, then binds its port and writes the file.
Alive == {"spawned", "read", "read_pid", "ready"}

ProxiesTypeOK ==
  /\ config \in [Workers -> Files]
  /\ serves \in [Workers -> [profile : Profiles \cup {NoProfile}, upstream : Upstreams \cup {NoUpstream}]]
  /\ unsaved \subseteq Workers
  /\ process \in [Workers -> Alive \cup {"none", "dead"}]
  /\ DOMAIN active \subseteq Pids \cup {TempPid}
  /\ \A key \in DOMAIN active : active[key] \in Workers
  /\ profileActive \in [Profiles -> Workers \cup {NoWorker}]

ProxiesInit ==
  /\ config = [w \in Workers |-> NoFile]
  /\ serves = [w \in Workers |-> [profile |-> NoProfile, upstream |-> NoUpstream]]
  /\ unsaved = {}
  /\ process = [w \in Workers |-> "none"]
  /\ active = <<>>
  /\ profileActive = [p \in Profiles |-> NoWorker]

-----------------------------------------------------------------------------
(* start_proxy *)

Tracked == {active[key] : key \in DOMAIN active}
Put(table, key, w) == [k \in DOMAIN table \cup {key} |-> IF k = key THEN w ELSE table[k]]
Drop(table, key) == Restrict(table, DOMAIN table \ {key})

\* is_same_upstream: neither credentials nor bypass rules are compared.
SameUpstream(w, upstream) == Endpoint[serves[w].upstream] = Endpoint[upstream]

\* The worker start_proxy returns without starting one: the profile's own, if
\* its upstream is the wanted one and some worker is under the pid already, or
\* the one under the pid, if both its upstream and its profile match.
ReuseOwn(profile, upstream) ==
  LET own == profileActive[profile]
  IN IF own \in Tracked /\ SameUpstream(own, upstream) /\ TempPid \in DOMAIN active
     THEN {own} ELSE {}
ReuseAnyUnderPid(profile, upstream) ==
  {w \in {active[key] : key \in DOMAIN active \cap {TempPid}} : SameUpstream(w, upstream)}
ReuseUnderPid(profile, upstream) ==
  {w \in {active[key] : key \in DOMAIN active \cap {TempPid}} :
     SameUpstream(w, upstream) /\ serves[w].profile = profile}

Reusable(profile, upstream) ==
  IF ReuseOwn(profile, upstream) # {} THEN ReuseOwn(profile, upstream)
  ELSE ReuseUnderPid(profile, upstream)

\* The sidecar saves the file without a pid, spawns the worker ...
SpawnWorker(w, profile, upstream) ==
  /\ process[w] = "none"
  /\ config' = [config EXCEPT ![w] = Written(FALSE, FALSE)]
  /\ serves' = [serves EXCEPT ![w] = [profile |-> profile, upstream |-> upstream]]
  /\ unsaved' = unsaved \cup {w}
  /\ process' = [process EXCEPT ![w] = "spawned"]
  /\ UNCHANGED tables

\* ... and saves its own copy of the file again, with the pid and without a URL.
SaveWithPid(w) ==
  /\ w \in unsaved
  /\ unsaved' = unsaved \ {w}
  /\ config' = [config EXCEPT ![w] = Written(TRUE, FALSE)]
  /\ UNCHANGED <<serves, process, tables>>

\* What the sidecar and start_proxy wait for before the worker is used.
Serving(w) ==
  w \notin unsaved /\ process[w] = "ready" /\ config[w].exists /\ config[w].url

Track(w, profile) ==
  /\ active' = Put(active, TempPid, w)
  /\ profileActive' = [profileActive EXCEPT ![profile] = w]
  /\ UNCHANGED <<files, process>>

(* update_proxy_pid *)
Rekeyed(pid) ==
  IF TempPid \in DOMAIN active
  THEN Put(Drop(active, TempPid), pid, active[TempPid])
  ELSE active

-----------------------------------------------------------------------------
(* The worker process *)

WorkerReads(w) ==
  /\ process[w] = "spawned"
  /\ process' = [process EXCEPT ![w] =
                   IF ~config[w].exists THEN "dead"
                   ELSE IF config[w].pid THEN "read_pid" ELSE "read"]
  /\ UNCHANGED <<files, tables>>

\* It binds its port, sets the URL in what it has read and replaces the file;
\* it ends if the file is gone.
WorkerBinds(w) ==
  /\ process[w] \in {"read", "read_pid"}
  /\ process' = [process EXCEPT ![w] = IF config[w].exists THEN "ready" ELSE "dead"]
  /\ config' = IF config[w].exists
               THEN [config EXCEPT ![w] = Written(process[w] = "read_pid", TRUE)]
               ELSE config
  /\ UNCHANGED <<serves, unsaved, tables>>

WorkerEnds(w) ==
  /\ process[w] \in Alive
  /\ process' = [process EXCEPT ![w] = "dead"]
  /\ UNCHANGED <<files, tables>>

-----------------------------------------------------------------------------
(* stop_proxy, stop_proxy_by_profile_id and cleanup_dead_proxies *)

\* stop_proxy_process kills only what has its pid in the file.
Stopped(w) ==
  IF config[w].exists /\ config[w].pid
  THEN /\ process' = [process EXCEPT ![w] = "dead"]
       /\ config' = [config EXCEPT ![w] = NoFile]
  ELSE UNCHANGED <<process, config>>

KeysOf(w) == {key \in DOMAIN active : active[key] = w}

\* A file is removed when nothing tracks its worker, the pid in it is dead and
\* its id is two minutes old: no start that is still waiting is.
CleanupWithoutGrace(w, starting) ==
  /\ config[w].exists
  /\ w \notin Tracked
  /\ process[w] \in {"dead", "spawned"}
  /\ config' = [config EXCEPT ![w] = NoFile]
  /\ UNCHANGED <<serves, unsaved, process, tables>>
CleanupDeadProxies(w, starting) ==
  /\ config[w].exists /\ config[w].pid
  /\ w \notin Tracked /\ w \notin starting
  /\ process[w] = "dead"
  /\ config' = [config EXCEPT ![w] = NoFile]
  /\ UNCHANGED <<serves, unsaved, process, tables>>

\* The tables are in memory; the workers outlive the app.
ProxiesRestart ==
  /\ active' = <<>>
  /\ profileActive' = [p \in Profiles |-> NoWorker]
  /\ UNCHANGED <<files, process>>
=============================================================================
