---------------------------- MODULE BrowserRuns -----------------------------
(***************************************************************************)
(* Browsers and profiles on one device: browser_runner.rs with its         *)
(* Camoufox and Wayfern managers, profile/manager.rs, ephemeral_dirs.rs    *)
(* and the status poll of lib.rs and the front end, over the local proxies *)
(* of ProxyWorkers.  A profile's metadata.json is read and written whole;  *)
(* nothing serialises the commands, the poll and the browsers.             *)
(*                                                                         *)
(* A step goes from one await of the code to the next.  A command that     *)
(* opens a URL in a running browser changes nothing and ends.              *)
(***************************************************************************)
EXTENDS Naturals, ProxyWorkers

CONSTANTS
  Slots,         \* bound: commands that are in progress at the same time
  Wayfern,       \* the profiles of the Wayfern browser; the others are Camoufox's
  Ephemeral,     \* the profiles whose data lives in a RAM-backed directory
  MaxCommands,   \* bound: launch, kill, park and delete commands in all
  Polled,        \* bound: the profiles whose status is polled
  MaxAccidents,  \* bound: restarts of the app and workers that end on their own
  NoPid

ASSUME BrowserRunsAssumption ==
  /\ NoPid \notin Pids /\ NoPid # TempPid
  /\ Wayfern \subseteq Profiles /\ Ephemeral \subseteq Profiles
  /\ Polled \subseteq Profiles
  /\ MaxCommands \in Nat /\ MaxAccidents \in Nat

VARIABLES
  meta,       \* metadata.json of each profile
  ramDirs,    \* EPHEMERAL_DIRS: the profiles with a directory in RAM
  browser,    \* every browser process there has been
  instances,  \* the pids in WayfernManager's table of instances
  poll,       \* check_browser_status per profile: what it has found
  command,    \* the launch, kill or park command in each slot
  commands, accidents   \* how many there have been

profiles == <<meta, ramDirs>>
browsers == <<browser, instances>>
counts == <<commands, accidents>>
vars == <<meta, ramDirs, browser, instances, poll, command, commands, accidents, proxies>>

States == {"Running", "Stopped", "Parked", "Crashed"}
Metadata == [exists : BOOLEAN, pid : Pids \cup {NoPid}, state : States, proxy : Upstreams]
Browsers == [alive : BOOLEAN, profile : Profiles \cup {NoProfile}, ram : BOOLEAN,
             worker : Workers \cup {NoWorker}, wants : Upstreams \cup {NoUpstream}]
NoBrowser == [alive |-> FALSE, profile |-> NoProfile, ram |-> FALSE,
              worker |-> NoWorker, wants |-> NoUpstream]

Steps == {"idle", "launch", "start_proxy", "wait_proxy", "prepare", "spawn", "register",
          "kill", "stop_proxy", "stop_proxy_by_id", "find", "verify", "park"}
\* clone is the profile a command works on and, in the end, saves.
Commands == [at : Steps, profile : Profiles \cup {NoProfile}, url : BOOLEAN, clone : Metadata,
             ram : BOOLEAN, worker : Workers \cup {NoWorker}, pid : Pids \cup {NoPid}]

NewMeta(u) == [exists |-> TRUE, pid |-> NoPid, state |-> "Stopped", proxy |-> u]
Idle == [at |-> "idle", profile |-> NoProfile, url |-> FALSE,
         clone |-> NewMeta(Direct), ram |-> FALSE, worker |-> NoWorker, pid |-> NoPid]
NotPolling == [at |-> "idle", found |-> NoPid]

RunsTypeOK ==
  /\ ProxiesTypeOK
  /\ meta \in [Profiles -> Metadata]
  /\ ramDirs \subseteq Ephemeral
  /\ browser \in [Pids -> Browsers]
  /\ instances \subseteq Pids
  /\ poll \in [Profiles -> [at : {"idle", "found"}, found : Pids \cup {NoPid}]]
  /\ command \in [Slots -> Commands]
  /\ commands \in 0 .. MaxCommands /\ accidents \in 0 .. MaxAccidents

Init ==
  /\ ProxiesInit
  /\ meta = [p \in Profiles |-> NewMeta(Direct)]
  /\ ramDirs = {}
  /\ browser = [b \in Pids |-> NoBrowser]
  /\ instances = {}
  /\ poll = [p \in Profiles |-> NotPolling]
  /\ command = [s \in Slots |-> Idle]
  /\ commands = 0 /\ accidents = 0

-----------------------------------------------------------------------------
(* check_browser_status *)

\* get_effective_profile_path: the path browsers are recognised by.
Ram(p) == p \in ramDirs
Under(p, ram) == {b \in Pids : browser[b].profile = p /\ browser[b].ram = ram}
Running(p, ram) == {b \in Under(p, ram) : browser[b].alive}
WithInstance(p, b) == instances \cup (IF p \in Wayfern THEN {b} ELSE {})

\* Camoufox's manager finds a live browser if there is one; Wayfern's gives up,
\* and forgets the instance, when the one it takes from its table has ended.
Finds(p, ram) ==
  LET known == instances \cap Under(p, ram)
  IN IF p \in Wayfern /\ known # {}
     THEN {IF browser[b].alive THEN <<b, instances>> ELSE <<NoPid, instances \ {b}>> : b \in known}
     ELSE IF Running(p, ram) = {} THEN {<<NoPid, instances>>}
     ELSE {<<b, WithInstance(p, b)>> : b \in Running(p, ram)}

\* What the poll makes of the metadata it reads.
MergedOnlyIfFound(m, found) ==
  IF found # NoPid
  THEN [m EXCEPT !.pid = found, !.state = IF @ \in {"Running", "Parked"} THEN @ ELSE "Running"]
  ELSE m
Merged(m, found) ==
  IF found # NoPid
  THEN [m EXCEPT !.pid = found, !.state = IF @ \in {"Running", "Parked"} THEN @ ELSE "Running"]
  ELSE IF m.pid # NoPid \/ m.state \in {"Running", "Parked"}
  THEN [m EXCEPT !.pid = NoPid, !.state = IF @ = "Parked" THEN "Crashed" ELSE "Stopped"]
  ELSE m

Checked(p, found) == IF meta[p].exists THEN Merged(meta[p], found) ELSE meta[p]
RamKept(p, found) == ramDirs
RamAfter(p, found) == IF found = NoPid THEN ramDirs \ {p} ELSE ramDirs

PollFinds(p) ==
  /\ p \in Polled /\ poll[p].at = "idle" /\ meta[p].exists
  /\ \E look \in Finds(p, Ram(p)) :
       /\ poll' = [poll EXCEPT ![p] = [at |-> "found", found |-> look[1]]]
       /\ instances' = look[2]
  /\ UNCHANGED <<profiles, browser, command, counts, proxies>>

PollSaves(p) ==
  /\ poll[p].at = "found"
  /\ meta' = [meta EXCEPT ![p] = Checked(p, poll[p].found)]
  /\ ramDirs' = RamAfter(p, poll[p].found)
  /\ poll' = [poll EXCEPT ![p] = NotPolling]
  /\ UNCHANGED <<browsers, command, counts, proxies>>

-----------------------------------------------------------------------------
(* launch_browser_profile, launch_or_open_url, launch_browser_internal *)

At(s, step) == command[s].at = step
Goes(s, with) == command' = [command EXCEPT ![s] = with]
Ends(s) == Goes(s, Idle)
Counted == commands < MaxCommands /\ commands' = commands + 1 /\ UNCHANGED accidents

\* A command starts with the profile as its caller last saw it.
Request(s, p, step, url) ==
  /\ At(s, "idle")
  /\ Counted
  /\ meta[p].exists
  /\ Goes(s, [Idle EXCEPT !.at = step, !.profile = p, !.url = url, !.clone = meta[p],
                     !.ram = step = "kill" /\ Ram(p)])
  /\ UNCHANGED <<profiles, browsers, poll, proxies>>

Launch(s, p) == \E url \in BOOLEAN : Request(s, p, "launch", url)

\* The status is checked and the profile read again: a parked browser is
\* resumed, a URL opened in one that runs (which may fail), and anything else
\* launched.
LaunchChecks(s) ==
  LET c == command[s]
      p == c.profile
  IN /\ At(s, "launch")
     /\ \E look \in Finds(p, Ram(p)) :
          LET found == look[1]
              now == Checked(p, found)
              final == IF now.exists THEN now ELSE c.clone
          IN /\ ramDirs' = RamAfter(p, found)
             /\ instances' = look[2]
             /\ IF found # NoPid /\ ~c.url /\ final.state = "Parked"
                THEN /\ meta' = [meta EXCEPT ![p] = [final EXCEPT !.state = "Running"]]
                     /\ Ends(s)
                ELSE /\ meta' = [meta EXCEPT ![p] = now]
                     /\ \/ found # NoPid /\ c.url /\ Ends(s)
                        \/ Goes(s, [c EXCEPT !.at = "start_proxy", !.clone = final])
     /\ UNCHANGED <<browser, poll, counts, proxies>>

ReusesProxy(s) ==
  LET c == command[s]
  IN /\ At(s, "start_proxy")
     /\ \E w \in Reusable(c.profile, c.clone.proxy) :
          Goes(s, [c EXCEPT !.at = "prepare", !.worker = w])
     /\ UNCHANGED <<profiles, browsers, poll, counts, proxies>>

StartsProxy(s) ==
  LET c == command[s]
  IN /\ At(s, "start_proxy")
     /\ Reusable(c.profile, c.clone.proxy) = {}
     /\ \E w \in Workers : process[w] = "none"
     /\ LET w == CHOOSE new \in Workers : process[new] = "none"
        IN /\ SpawnWorker(w, c.profile, c.clone.proxy)
           /\ Goes(s, [c EXCEPT !.at = "wait_proxy", !.worker = w])
     /\ UNCHANGED <<profiles, browsers, poll, counts>>

ProxyIsReady(s) ==
  LET c == command[s]
  IN /\ At(s, "wait_proxy") /\ Serving(c.worker)
     /\ Track(c.worker, c.profile)
     /\ Goes(s, [c EXCEPT !.at = "prepare"])
     /\ UNCHANGED <<profiles, browsers, poll, counts>>

\* No sidecar, no worker in time, no fingerprint, no executable: the launch
\* ends and leaves everything as it is.
LaunchFails(s) ==
  /\ command[s].at \in {"start_proxy", "wait_proxy", "prepare", "spawn"}
  /\ Ends(s)
  /\ UNCHANGED <<profiles, browsers, poll, counts, proxies>>

\* create_ephemeral_dir: the directory of an ephemeral profile is made.
RamForAll(p) == ramDirs \cup {p}
RamMade(p) == ramDirs \cup ({p} \cap Ephemeral)

\* Camoufox looks for a browser of the profile, keeps it if there is nothing to
\* open and stops it otherwise.
Prepares(s) ==
  LET c == command[s]
      p == c.profile
      ram == RamMade(p)
      others == IF p \in Wayfern THEN {} ELSE Running(p, p \in ram)
  IN /\ At(s, "prepare")
     /\ ramDirs' = ram
     /\ \/ /\ others # {} /\ ~c.url
           /\ \E b \in others : Goes(s, [c EXCEPT !.at = "register", !.pid = b])
           /\ UNCHANGED browser
        \/ /\ others # {} /\ c.url
           /\ \E b \in others : browser' = [browser EXCEPT ![b].alive = FALSE]
           /\ Goes(s, [c EXCEPT !.at = "spawn"])
        \/ /\ others = {}
           /\ Goes(s, [c EXCEPT !.at = "spawn"])
           /\ UNCHANGED browser
     /\ UNCHANGED <<meta, instances, poll, counts, proxies>>

Spawns(s) ==
  LET c == command[s]
  IN /\ At(s, "spawn")
     /\ \E b \in Pids : browser[b] = NoBrowser
     /\ LET b == CHOOSE new \in Pids : browser[new] = NoBrowser
        IN /\ browser' = [browser EXCEPT ![b] =
                [alive |-> TRUE, profile |-> c.profile, ram |-> c.profile \in Ephemeral,
                 worker |-> c.worker, wants |-> c.clone.proxy]]
           /\ Goes(s, [c EXCEPT !.at = "register", !.pid = b])
     /\ UNCHANGED <<profiles, instances, poll, counts, proxies>>

\* The temporary pid is replaced and the clone of the profile saved.
Registers(s) ==
  LET c == command[s]
  IN /\ At(s, "register")
     /\ instances' = WithInstance(c.profile, c.pid)
     /\ active' = Rekeyed(c.pid)
     /\ meta' = [meta EXCEPT ![c.profile] =
                   [c.clone EXCEPT !.exists = TRUE, !.pid = c.pid, !.state = "Running"]]
     /\ Ends(s)
     /\ UNCHANGED <<ramDirs, browser, poll, counts, files, process, profileActive>>

-----------------------------------------------------------------------------
(* kill_browser_profile, kill_browser_process *)

Kill(s, p) == Request(s, p, "kill", FALSE)

\* stop_proxy_by_profile_id: the worker on record for the profile is stopped
\* and no longer tracked, under whatever pid it is.
KillUnderTempPid(s) ==
  LET c == command[s]
      keys == DOMAIN active \cap {TempPid, meta[c.profile].pid}
  IN /\ At(s, "kill")
     /\ \/ /\ keys = {}
           /\ Goes(s, [c EXCEPT !.at = "find"])
           /\ UNCHANGED active
        \/ \E key \in keys :
             /\ Goes(s, [c EXCEPT !.at = "stop_proxy", !.worker = active[key]])
             /\ active' = Drop(active, key)
     /\ UNCHANGED <<profiles, browsers, poll, counts, files, process, profileActive>>
KillLooksUpProxy(s) ==
  LET c == command[s]
      w == profileActive[c.profile]
  IN /\ At(s, "kill")
     /\ \/ /\ w = NoWorker
           /\ Goes(s, [c EXCEPT !.at = "find"])
           /\ UNCHANGED active
        \/ /\ w # NoWorker /\ KeysOf(w) = {}
           /\ Goes(s, [c EXCEPT !.at = "stop_proxy_by_id", !.worker = w])
           /\ UNCHANGED active
        \/ \E key \in KeysOf(w) :
             /\ Goes(s, [c EXCEPT !.at = "stop_proxy", !.worker = active[key]])
             /\ active' = Drop(active, key)
     /\ UNCHANGED <<profiles, browsers, poll, counts, files, process, profileActive>>

KillStopsProxy(s) ==
  LET c == command[s]
      forgets == At(s, "stop_proxy_by_id") \/ profileActive[c.profile] = c.worker
  IN /\ c.at \in {"stop_proxy", "stop_proxy_by_id"}
     /\ Stopped(c.worker)
     /\ profileActive' = IF forgets THEN [profileActive EXCEPT ![c.profile] = NoWorker]
                         ELSE profileActive
     /\ Goes(s, [c EXCEPT !.at = "find"])
     /\ UNCHANGED <<profiles, browsers, poll, counts, serves, unsaved, active>>

\* The clone is saved as stopped, and the directory of an ephemeral profile removed.
SavesStopped(s) ==
  LET c == command[s]
  IN /\ meta' = [meta EXCEPT ![c.profile] =
                   [c.clone EXCEPT !.exists = TRUE, !.pid = NoPid, !.state = "Stopped"]]
     /\ ramDirs' = ramDirs \ {c.profile}
     /\ Ends(s)

\* When no browser is found, there is nothing to stop; the browser found is signalled.
KillFinds(s) ==
  LET c == command[s]
  IN /\ At(s, "find")
     /\ \E look \in Finds(c.profile, c.ram) :
          /\ instances' = look[2] \ {look[1]}
          /\ \/ /\ look[1] = NoPid
                /\ SavesStopped(s)
             \/ /\ look[1] # NoPid
                /\ Goes(s, [c EXCEPT !.at = "verify", !.pid = look[1]])
                /\ UNCHANGED profiles
     /\ UNCHANGED <<browser, poll, counts, proxies>>

KillSucceeds(s) ==
  /\ At(s, "verify")
  /\ browser' = [browser EXCEPT ![command[s].pid].alive = FALSE]
  /\ SavesStopped(s)
  /\ UNCHANGED <<instances, poll, counts, proxies>>

\* The browser survives the forced kill too: the command fails.
KillFails(s) ==
  /\ At(s, "verify") /\ browser[command[s].pid].alive
  /\ Ends(s)
  /\ UNCHANGED <<profiles, browsers, poll, counts, proxies>>

-----------------------------------------------------------------------------
(* park_browser_profile, delete_profile, update_profile_proxy *)

Park(s, p) == p \notin Ephemeral /\ Request(s, p, "park", FALSE)

\* The clone was read before the status was checked.  It is parked if a browser
\* was found, or if the clone says that there is one.
Parks(s) ==
  LET c == command[s]
      p == c.profile
  IN /\ At(s, "park")
     /\ \E look \in Finds(p, Ram(p)) :
          /\ instances' = look[2]
          /\ meta' = [meta EXCEPT ![p] =
               IF look[1] # NoPid \/ c.clone.pid # NoPid \/ c.clone.state = "Running"
               THEN [c.clone EXCEPT !.exists = TRUE, !.state = "Parked"]
               ELSE Checked(p, look[1])]
     /\ Ends(s)
     /\ UNCHANGED <<ramDirs, browser, poll, counts, proxies>>

Delete(p) ==
  /\ Counted
  /\ meta[p].exists /\ meta[p].pid = NoPid
  /\ meta' = [meta EXCEPT ![p].exists = FALSE]
  /\ UNCHANGED <<ramDirs, browsers, poll, command, proxies>>

UpdateProxy(p, u) ==
  /\ Counted
  /\ meta[p].exists /\ meta[p].proxy # u
  /\ meta' = [meta EXCEPT ![p].proxy = u]
  /\ UNCHANGED <<ramDirs, browsers, poll, command, proxies>>

-----------------------------------------------------------------------------
(* The rest of the device *)

BrowserExits(b) ==
  /\ browser[b].alive
  /\ browser' = [browser EXCEPT ![b].alive = FALSE]
  /\ UNCHANGED <<profiles, instances, poll, command, counts, proxies>>

Accident == accidents < MaxAccidents /\ accidents' = accidents + 1 /\ UNCHANGED commands
Unchanged == UNCHANGED <<profiles, browsers, poll, command, counts>>
Waiting == {command[s].worker : s \in {t \in Slots : At(t, "wait_proxy")}}
Worker(w) == (WorkerReads(w) \/ WorkerBinds(w)) /\ Unchanged
Sidecar(w) == SaveWithPid(w) /\ Unchanged
WorkerCrashes(w) ==
  Accident /\ WorkerEnds(w) /\ UNCHANGED <<profiles, browsers, poll, command>>
Cleanup(w) == CleanupDeadProxies(w, Waiting) /\ Unchanged

\* The app ends and starts again; workers and browsers go on, and the
\* directories in RAM are found again.
Restart ==
  /\ Accident
  /\ command' = [s \in Slots |-> Idle]
  /\ poll' = [p \in Profiles |-> NotPolling]
  /\ instances' = {}
  /\ ProxiesRestart
  /\ UNCHANGED <<profiles, browser>>

Advances(s) ==
  \/ LaunchChecks(s) \/ ReusesProxy(s) \/ StartsProxy(s) \/ ProxyIsReady(s)
  \/ LaunchFails(s) \/ Prepares(s) \/ Spawns(s) \/ Registers(s)
  \/ KillLooksUpProxy(s) \/ KillStopsProxy(s) \/ KillFinds(s) \/ KillSucceeds(s) \/ KillFails(s)
  \/ Parks(s)

Next ==
  \/ \E s \in Slots : Advances(s) \/ \E p \in Profiles : Launch(s, p) \/ Kill(s, p) \/ Park(s, p)
  \/ \E p \in Profiles : Delete(p) \/ PollFinds(p) \/ PollSaves(p)
  \/ \E p \in Profiles, u \in Upstreams : UpdateProxy(p, u)
  \/ \E b \in Pids : BrowserExits(b)
  \/ \E w \in Workers : Worker(w) \/ Sidecar(w) \/ WorkerCrashes(w) \/ Cleanup(w)
  \/ Restart

\* The poll runs every five seconds for every profile; commands run to their end.
Fairness ==
  /\ \A s \in Slots : WF_vars(Advances(s))
  /\ \A p \in Profiles : WF_vars(PollFinds(p)) /\ WF_vars(PollSaves(p))

Spec == Init /\ [][Next]_vars /\ Fairness

-----------------------------------------------------------------------------
(* Properties *)

\* A browser's traffic goes through a worker of its own profile, to the host
\* and port its launch resolved, although all launches register their worker
\* under the same temporary pid and take over one another's entries.
OwnProxy ==
  \A b \in Pids : browser[b] # NoBrowser =>
    /\ serves[browser[b].worker].profile = browser[b].profile
    /\ SameUpstream(browser[b].worker, browser[b].wants)

\* And it does so with the credentials and bypass rules its launch resolved.
\* Not so: start_proxy reuses a worker whatever it was started with.
OwnCredentials ==
  \A b \in Pids : browser[b] # NoBrowser =>
    serves[browser[b].worker].upstream = browser[b].wants

\* Killing a profile's browser never stops the worker of another profile,
\* whatever has happened to the table of active proxies since the launch.
KillsOwnProxy ==
  \A s \in Slots : command[s].at \in {"stop_proxy", "stop_proxy_by_id"} =>
    serves[command[s].worker].profile = command[s].profile

\* A worker that lives can be found: neither the clean-up nor a stop removes the
\* file of one that goes on, starting workers included.
WorkersHaveFiles ==
  \A w \in Workers : process[w] \in Alive => config[w].exists

\* Whatever stale clones the commands have saved, the app's restarts included,
\* the poll makes the metadata agree with the processes in the end.
Agrees(p) ==
  meta[p].exists =>
    /\ meta[p].pid \in (IF Running(p, Ram(p)) = {} THEN {NoPid} ELSE Running(p, Ram(p)))
    /\ (meta[p].state \in {"Running", "Parked"}) <=> (Running(p, Ram(p)) # {})
MetadataSettles == <>[](\A p \in Profiles \ Ephemeral : Agrees(p))

\* The directory in RAM of an ephemeral profile does not outlive its browser.
RamIsFreed ==
  <>[](\A p \in Ephemeral :
         meta[p].exists /\ ~(\E b \in Pids : browser[b].alive /\ browser[b].profile = p)
         => p \notin ramDirs)
=============================================================================
