------------------------------ MODULE TeamLock ------------------------------
(***************************************************************************)
(* team_lock.rs: the locks a team's members take on shared profiles.  The  *)
(* cloud backend owns the locks (external code: what it does is read off   *)
(* the requests and the answers the manager handles); each running app     *)
(* keeps a cache of all the team's locks, renews the ones that belong to   *)
(* its user every 30 seconds and then replaces the cache by the backend's  *)
(* list.  The launch commands acquire the profile's lock and the kill       *)
(* commands release it; two ways to open a browser leave the lock alone.   *)
(*                                                                         *)
(* A period is the 30 seconds the heartbeat loop sleeps; the requests of a  *)
(* heartbeat round, and the answer to an acquired lock, take less.         *)
(***************************************************************************)
EXTENDS Naturals

CONSTANTS
  Apps, Users, Profiles,
  UserOf,         \* the user logged in to each app
  NoUser, NoList,
  Lease,          \* periods without a heartbeat after which a lock lapses
  ConnectEvery,   \* periods between two connects: twenty, ten minutes
  Events          \* which of the events below can happen in each app

AllEvents == {"launch", "overlap", "lost_delete", "lost_renewal", "lost_list",
              "failed_launch", "unlocked", "exit", "logout", "quit"}

ASSUME TeamLockAssumption ==
  /\ UserOf \in [Apps -> Users]
  /\ NoUser \notin Users
  /\ NoList \notin [Profiles -> Users \cup {NoUser}]
  /\ Lease \in Nat \ {0} /\ ConnectEvery \in Nat \ {0}
  /\ Events \in [Apps -> SUBSET AllEvents]

VARIABLES
  holder,     \* the backend's locks
  idle,       \* periods since each lock was taken or renewed
  cache,      \* TeamLockManager.locks of each app
  connected,  \* apps with a connected_team_id
  joining,    \* the list fetched by connect, before it is stored
  since,      \* periods that the loop which connects has slept in each app
  beat,       \* the heartbeat loop of each app
  beaten,     \* apps whose loop has slept and worked in this period
  launch,     \* launch command per app and profile
  release,    \* release_lock per app and profile
  running,    \* profiles whose browser runs and was launched with the lock
  stray       \* profiles whose browser runs and was opened without it

backend == <<holder, idle>>
membership == <<connected, joining, since>>
browsers == <<running, stray>>
commands == <<launch, release, browsers>>
vars == <<holder, idle, cache, connected, joining, since, beat, beaten, launch,
          release, running, stray>>

Locks == [Profiles -> Users \cup {NoUser}]
NoLocks == [p \in Profiles |-> NoUser]
Loop(at) == [at |-> at, todo |-> {}, list |-> NoList]

TypeOK ==
  /\ holder \in Locks
  /\ idle \in [Profiles -> 0 .. Lease]
  /\ cache \in [Apps -> Locks]
  /\ connected \in SUBSET Apps
  /\ joining \in [Apps -> Locks \cup {NoList}]
  /\ since \in [Apps -> 0 .. ConnectEvery]
  /\ beat \in [Apps -> [at : {"off", "sleep", "renew", "apply"},
                        todo : SUBSET Profiles, list : Locks \cup {NoList}]]
  /\ beaten \in SUBSET Apps
  /\ launch \in [Apps -> [Profiles -> {"no", "asked", "granted", "starting"}]]
  /\ release \in [Apps -> [Profiles -> {"no", "asked", "answered"}]]
  /\ running \in [Apps -> SUBSET Profiles]
  /\ stray \in [Apps -> SUBSET Profiles]

Init ==
  /\ holder = NoLocks
  /\ idle = [p \in Profiles |-> 0]
  /\ cache = [a \in Apps |-> NoLocks]
  /\ connected = {}
  /\ joining = [a \in Apps |-> NoList]
  /\ since = [a \in Apps |-> 0]
  /\ beat = [a \in Apps |-> Loop("off")]
  /\ beaten = {}
  /\ launch = [a \in Apps |-> [p \in Profiles |-> "no"]]
  /\ release = [a \in Apps |-> [p \in Profiles |-> "no"]]
  /\ running = [a \in Apps |-> {}]
  /\ stray = [a \in Apps |-> {}]

-----------------------------------------------------------------------------
(* Connecting and disconnecting.                                           *)

\* connect, which the loop that refreshes the tokens calls when it has slept:
\* the team is noted, then the list is requested.
Connect(a) ==
  /\ joining[a] = NoList
  /\ since[a] = ConnectEvery
  /\ since' = [since EXCEPT ![a] = 0]
  /\ connected' = connected \cup {a}
  /\ joining' = [joining EXCEPT ![a] = holder]
  /\ UNCHANGED <<backend, cache, beat, beaten, commands>>

\* The list is stored unless the request failed; the heartbeat loop is
\* started over, which aborts the old one wherever it is.
Connected(a, ok) ==
  /\ joining[a] # NoList
  /\ ok \/ "lost_list" \in Events[a]
  /\ cache' = IF ok THEN [cache EXCEPT ![a] = joining[a]] ELSE cache
  /\ joining' = [joining EXCEPT ![a] = NoList]
  /\ beat' = [beat EXCEPT ![a] = Loop("sleep")]
  /\ beaten' = beaten \cup {a}
  /\ UNCHANGED <<backend, connected, since, commands>>

\* disconnect, by logging out.
Disconnect(a) ==
  /\ "logout" \in Events[a]
  /\ a \in connected
  /\ connected' = connected \ {a}
  /\ cache' = [cache EXCEPT ![a] = NoLocks]
  /\ beat' = [beat EXCEPT ![a] = Loop("off")]
  /\ UNCHANGED <<backend, joining, since, beaten, commands>>

\* The application ends and is opened again; the browsers it has started go
\* on.
Quit(a) ==
  /\ "quit" \in Events[a]
  /\ connected' = connected \ {a}
  /\ cache' = [cache EXCEPT ![a] = NoLocks]
  /\ joining' = [joining EXCEPT ![a] = NoList]
  /\ since' = [since EXCEPT ![a] = 0]
  /\ beat' = [beat EXCEPT ![a] = Loop("off")]
  /\ launch' = [launch EXCEPT ![a] = [p \in Profiles |-> "no"]]
  /\ release' = [release EXCEPT ![a] = [p \in Profiles |-> "no"]]
  /\ UNCHANGED <<backend, beaten, browsers>>

-----------------------------------------------------------------------------
(* Launch: acquire_team_lock_if_needed and launch_browser_profile.         *)

\* The cache does not show another user's lock and the request is sent;
\* without a connected team the launch fails.
Launch(a, p) ==
  /\ "launch" \in Events[a]
  /\ a \in connected
  /\ launch[a][p] = "no"
  /\ "overlap" \in Events[a] \/ release[a][p] = "no"
  /\ cache[a][p] \in {NoUser, UserOf[a]}
  /\ launch' = [launch EXCEPT ![a][p] = "asked"]
  /\ UNCHANGED <<backend, cache, membership, beat, beaten, release, browsers>>

\* Mutant: the backend does not look at the holder.
GrantAnyone(a, p) ==
  /\ launch[a][p] = "asked"
  /\ holder' = [holder EXCEPT ![p] = UserOf[a]]
  /\ idle' = [idle EXCEPT ![p] = 0]
  /\ launch' = [launch EXCEPT ![a][p] = "granted"]
  /\ UNCHANGED <<cache, membership, beat, beaten, release, browsers>>

\* The backend gives the lock to a user who has it already, or to anybody
\* when nobody has it.
Grant(a, p) ==
  /\ launch[a][p] = "asked"
  /\ holder[p] \in {NoUser, UserOf[a]}
  /\ holder' = [holder EXCEPT ![p] = UserOf[a]]
  /\ idle' = [idle EXCEPT ![p] = 0]
  /\ launch' = [launch EXCEPT ![a][p] = "granted"]
  /\ UNCHANGED <<cache, membership, beat, beaten, release, browsers>>

\* Somebody else has the lock: the launch command returns the error.
Refuse(a, p) ==
  /\ launch[a][p] = "asked"
  /\ holder[p] \notin {NoUser, UserOf[a]}
  /\ launch' = [launch EXCEPT ![a][p] = "no"]
  /\ UNCHANGED <<backend, cache, membership, beat, beaten, release, browsers>>

\* acquire_lock stores the lock in the cache.
Acquired(a, p) ==
  /\ launch[a][p] = "granted"
  /\ cache' = [cache EXCEPT ![a][p] = UserOf[a]]
  /\ launch' = [launch EXCEPT ![a][p] = "starting"]
  /\ UNCHANGED <<backend, membership, beat, beaten, release, browsers>>

\* launch_or_open_url: the browser is started, or is there already.
StartBrowser(a, p) ==
  /\ launch[a][p] = "starting"
  /\ launch' = [launch EXCEPT ![a][p] = "no"]
  /\ running' = [running EXCEPT ![a] = @ \cup {p}]
  /\ stray' = [stray EXCEPT ![a] = @ \ {p}]
  /\ UNCHANGED <<backend, cache, membership, beat, beaten, release>>

\* The proxy, the VPN or the browser does not start: the command returns and
\* keeps the lock.
LaunchFails(a, p) ==
  /\ "failed_launch" \in Events[a]
  /\ launch[a][p] = "starting"
  /\ launch' = [launch EXCEPT ![a][p] = "no"]
  /\ UNCHANGED <<backend, cache, membership, beat, beaten, release, browsers>>

\* open_url_with_profile, which asks for no lock, and the launch commands of an
\* app whose user is logged out or has lost the team.
OpenUnlocked(a, p) ==
  /\ "unlocked" \in Events[a]
  /\ p \notin running[a]
  /\ stray' = [stray EXCEPT ![a] = @ \cup {p}]
  /\ UNCHANGED <<backend, cache, membership, beat, beaten, launch, release, running>>

-----------------------------------------------------------------------------
(* Kill: release_team_lock_if_needed.                                      *)

CloseBrowser(a, p) ==
  /\ p \in running[a] \cup stray[a]
  /\ running' = [running EXCEPT ![a] = @ \ {p}]
  /\ stray' = [stray EXCEPT ![a] = @ \ {p}]

\* The browser is gone; release_lock ends at once without a team.
Kill(a, p) ==
  /\ CloseBrowser(a, p)
  /\ release[a][p] = "no"
  /\ "overlap" \in Events[a] \/ launch[a][p] = "no"
  /\ release' = IF a \in connected THEN [release EXCEPT ![a][p] = "asked"] ELSE release
  /\ UNCHANGED <<backend, cache, membership, beat, beaten, launch>>

\* The outcome of the request is not looked at.
Delete(a, p, ok) ==
  /\ release[a][p] = "asked"
  /\ ok \/ "lost_delete" \in Events[a]
  /\ holder' = IF ok /\ holder[p] = UserOf[a] THEN [holder EXCEPT ![p] = NoUser] ELSE holder
  /\ release' = [release EXCEPT ![a][p] = "answered"]
  /\ UNCHANGED <<idle, cache, membership, beat, beaten, launch, browsers>>

Released(a, p) ==
  /\ release[a][p] = "answered"
  /\ cache' = [cache EXCEPT ![a][p] = NoUser]
  /\ release' = [release EXCEPT ![a][p] = "no"]
  /\ UNCHANGED <<backend, membership, beat, beaten, launch, browsers>>

\* The user closes the browser, or it crashes: no command runs.
BrowserExits(a, p) ==
  /\ "exit" \in Events[a]
  /\ CloseBrowser(a, p)
  /\ UNCHANGED <<backend, cache, membership, beat, beaten, launch, release>>

-----------------------------------------------------------------------------
(* The heartbeat loop.                                                     *)

\* Mutant: the loop renews nothing.
WakeUpIdle(a) ==
  /\ beat[a].at = "sleep"
  /\ a \notin beaten
  /\ beat' = [beat EXCEPT ![a] = IF a \in connected THEN Loop("renew") ELSE Loop("off")]
  /\ UNCHANGED <<backend, cache, membership, beaten, commands>>

\* Mutant: the loop does not look whether the team is gone.
WakeUpAlways(a) ==
  /\ beat[a].at = "sleep"
  /\ a \notin beaten
  /\ beat' = [beat EXCEPT ![a] =
       [Loop("renew") EXCEPT !.todo = {p \in Profiles : cache[a][p] = UserOf[a]}]]
  /\ UNCHANGED <<backend, cache, membership, beaten, commands>>

\* The loop wakes up and collects the locks of its user from the cache; it
\* ends when the team is gone.
WakeUp(a) ==
  /\ beat[a].at = "sleep"
  /\ a \notin beaten
  /\ beat' = [beat EXCEPT ![a] =
       IF a \in connected
       THEN [Loop("renew") EXCEPT !.todo = {p \in Profiles : cache[a][p] = UserOf[a]}]
       ELSE Loop("off")]
  /\ UNCHANGED <<backend, cache, membership, beaten, commands>>

\* One heartbeat request; its outcome is not looked at.
Renew(a, p, ok) ==
  /\ beat[a].at = "renew"
  /\ p \in beat[a].todo
  /\ ok \/ "lost_renewal" \in Events[a]
  /\ idle' = IF ok /\ holder[p] = UserOf[a] THEN [idle EXCEPT ![p] = 0] ELSE idle
  /\ beat' = [beat EXCEPT ![a].todo = @ \ {p}]
  /\ UNCHANGED <<holder, cache, membership, beaten, commands>>

\* fetch_initial_locks: the backend answers with its list.
FetchLocks(a) ==
  /\ beat[a].at = "renew"
  /\ beat[a].todo = {}
  /\ beat' = [beat EXCEPT ![a].at = "apply", ![a].list = holder]
  /\ UNCHANGED <<backend, cache, membership, beaten, commands>>

\* Mutant: the list is added to the cache.
AddToCache(a, ok) ==
  /\ beat[a].at = "apply"
  /\ ok \/ "lost_list" \in Events[a]
  /\ cache' = [cache EXCEPT ![a] = [p \in Profiles |->
                 IF beat[a].list[p] # NoUser THEN beat[a].list[p] ELSE cache[a][p]]]
  /\ beat' = [beat EXCEPT ![a] = Loop("sleep")]
  /\ beaten' = beaten \cup {a}
  /\ UNCHANGED <<backend, membership, commands>>

\* The list replaces the cache, unless the request failed; back to sleep.
ReplaceCache(a, ok) ==
  /\ beat[a].at = "apply"
  /\ ok \/ "lost_list" \in Events[a]
  /\ cache' = IF ok THEN [cache EXCEPT ![a] = beat[a].list] ELSE cache
  /\ beat' = [beat EXCEPT ![a] = Loop("sleep")]
  /\ beaten' = beaten \cup {a}
  /\ UNCHANGED <<backend, membership, commands>>

\* Mutant: a lock that is not renewed does not lapse.
PeriodWithoutEnd ==
  /\ \A a \in Apps : beat[a].at = "off" \/ (beat[a].at = "sleep" /\ a \in beaten)
  /\ idle' = [p \in Profiles |-> IF holder[p] = NoUser THEN 0 ELSE idle[p] + 1]
  /\ beaten' = {}
  /\ since' = [a \in Apps |-> IF since[a] < ConnectEvery THEN since[a] + 1 ELSE ConnectEvery]
  /\ UNCHANGED <<holder, cache, connected, joining, beat, commands>>

\* 30 seconds are over and every loop has had its turn.  A lock that has not been renewed for Lease periods lapses.
Period ==
  /\ \A a \in Apps :
       /\ beat[a].at = "off" \/ (beat[a].at = "sleep" /\ a \in beaten)
       /\ joining[a] = NoList
       /\ \A p \in Profiles : launch[a][p] # "granted"
  /\ LET lapsed == {p \in Profiles : holder[p] # NoUser /\ idle[p] = Lease} IN
       /\ holder' = [p \in Profiles |-> IF p \in lapsed THEN NoUser ELSE holder[p]]
       /\ idle' = [p \in Profiles |->
                     IF holder[p] = NoUser \/ p \in lapsed THEN 0 ELSE idle[p] + 1]
  /\ beaten' = {}
  /\ since' = [a \in Apps |-> IF since[a] < ConnectEvery THEN since[a] + 1 ELSE ConnectEvery]
  /\ UNCHANGED <<cache, connected, joining, beat, commands>>

-----------------------------------------------------------------------------
LaunchStep(a, p) ==
  Grant(a, p) \/ Refuse(a, p) \/ Acquired(a, p) \/ StartBrowser(a, p) \/ LaunchFails(a, p)
ReleaseStep(a, p) == (\E ok \in BOOLEAN : Delete(a, p, ok)) \/ Released(a, p)
BeatStep(a) ==
  \/ WakeUp(a) \/ FetchLocks(a)
  \/ \E ok \in BOOLEAN :
       ReplaceCache(a, ok) \/ Connected(a, ok) \/ \E p \in Profiles : Renew(a, p, ok)

Next ==
  \/ Period
  \/ \E a \in Apps :
       \/ Connect(a) \/ Disconnect(a) \/ Quit(a) \/ BeatStep(a)
       \/ \E p \in Profiles :
            \/ Launch(a, p) \/ LaunchStep(a, p) \/ OpenUnlocked(a, p)
            \/ Kill(a, p) \/ ReleaseStep(a, p) \/ BrowserExits(a, p)

Spec == Init /\ [][Next]_vars

\* Requests are answered or fail and spawned tasks run.  Time passes however
\* many commands the users give: strong fairness, for the answer to a command
\* is waited for.
Fairness ==
  /\ SF_vars(Period)
  /\ \A a \in Apps : WF_vars(BeatStep(a))
  /\ \A a \in Apps, p \in Profiles : WF_vars(LaunchStep(a, p)) /\ WF_vars(ReleaseStep(a, p))
FairSpec == Spec /\ Fairness

-----------------------------------------------------------------------------
(* Properties.                                                             *)

\* openspec: "Write lock is required for mutation operations on profile
\* runtime".  Two users never have the same profile's browser open.  (TLC
\* refutes it: a browser opened without the lock is one of the two.)
OneUserAtATime ==
  \A a, b \in Apps : UserOf[a] # UserOf[b] =>
    (running[a] \cup stray[a]) \cap (running[b] \cup stray[b]) = {}

\* The apps in which nothing happens that takes a lock from under a browser:
\* no logging out, no quitting, no failed request of a heartbeat, one command
\* on a profile at a time, and no other app of the same user.
Reliable ==
  {a \in Apps :
     /\ Events[a] \cap {"overlap", "logout", "quit", "lost_renewal", "lost_list"} = {}
     /\ \A b \in Apps \ {a} : UserOf[b] # UserOf[a]}

\* A profile whose browser was launched with the lock and runs, or is being
\* started, in such an app is locked for its user in the backend, whatever
\* happens in other apps: a list that is older than the lock costs at most one
\* renewal.
RunningIsLocked ==
  \A a \in Reliable, p \in Profiles :
    p \in running[a] \/ launch[a][p] = "starting" => holder[p] = UserOf[a]

\* The same, when nobody's app is reliable.  (TLC refutes it: logging out is
\* enough.)
LaunchedIsLocked ==
  \A a \in Apps, p \in Profiles : p \in running[a] => holder[p] = UserOf[a]

\* The specification of an exclusive lock, for the backend's locks and the
\* browsers that reliable apps launched with them: no lock is taken, given back
\* or lapses under such a browser, and none is started without it.
UsersOf(p) == {UserOf[a] : a \in {b \in Reliable : p \in running[b]}}
Use == INSTANCE ExclusiveUse WITH using <- [p \in Profiles |-> UsersOf(p)]
KeepsUseExclusive == Use!Spec

InUse(p) == \E a \in Apps : p \in running[a] \cup stray[a] \/ launch[a][p] # "no"

\* openspec: "No indefinite lock dead state".  A lock that nobody uses is
\* given up some time.  (TLC refutes it.)
UnusedLocksEnd ==
  \A p \in Profiles : (holder[p] # NoUser) ~> (holder[p] = NoUser \/ InUse(p))

\* What the code has of it: whatever a lost release or a failed launch has
\* left, and whatever connecting and logging out at the same time have done, a
\* lock that nobody uses ends, unless some app of its user stays connected.
AbandonedLocksLapse ==
  \A u \in Users, p \in Profiles :
    ~<>[](/\ holder[p] = u /\ ~InUse(p)
          /\ \A a \in Apps : UserOf[a] = u => a \notin connected)

\* openspec: "stale local lock cache must reconcile with server lock truth".
\* Every connected app's cache agrees with the backend again and again.
CacheReconciles ==
  \A a \in Apps, p \in Profiles :
    [](a \in connected => <>(a \notin connected \/ cache[a][p] = holder[p]))
=============================================================================
