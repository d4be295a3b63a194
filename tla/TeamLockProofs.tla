--------------------------- MODULE TeamLockProofs ---------------------------
(* Theorems about TeamLock, for any apps, users, profiles and lease.       *)
EXTENDS TeamLock, TLAPS

Loops == [at : {"off", "sleep", "renew", "apply"},
          todo : SUBSET Profiles, list : Locks \cup {NoList}]

\* A loop that is about to replace the cache has a list to replace it by.
ListReady == \A a \in Apps : beat[a].at = "apply" => beat[a].list # NoList

IInv == TypeOK /\ ListReady

\* A loop that has just been started or ended is a loop.
LEMMA LoopType == ASSUME NEW at \in {"off", "sleep", "renew", "apply"}
                  PROVE  Loop(at) \in Loops
  BY DEF Loop, Loops

\* So is a loop that sends a request or receives the list.
LEMMA LoopChange ==
  ASSUME NEW f \in [Apps -> Loops], NEW a \in Apps
  PROVE  /\ \A p \in Profiles : [f EXCEPT ![a].todo = @ \ {p}] \in [Apps -> Loops]
         /\ \A l \in Locks :
              [f EXCEPT ![a].at = "apply", ![a].list = l] \in [Apps -> Loops]
<1>1. f[a] \in Loops
  OBVIOUS
<1>2. ASSUME NEW p \in Profiles PROVE [f[a] EXCEPT !.todo = @ \ {p}] \in Loops
  BY <1>1 DEF Loops
<1>3. ASSUME NEW l \in Locks PROVE [f[a] EXCEPT !.at = "apply", !.list = l] \in Loops
  BY <1>1 DEF Loops
<1>4. ASSUME NEW p \in Profiles PROVE [f EXCEPT ![a].todo = @ \ {p}] \in [Apps -> Loops]
  <2>1. [f EXCEPT ![a].todo = @ \ {p}] = [f EXCEPT ![a] = [f[a] EXCEPT !.todo = @ \ {p}]]
    OBVIOUS
  <2>. QED BY <1>2, <2>1
<1>5. ASSUME NEW l \in Locks
      PROVE  [f EXCEPT ![a].at = "apply", ![a].list = l] \in [Apps -> Loops]
  <2>1. [f EXCEPT ![a].at = "apply", ![a].list = l]
          = [f EXCEPT ![a] = [f[a] EXCEPT !.at = "apply", !.list = l]]
    BY <1>1 DEF Loops
  <2>. QED BY <1>3, <2>1
<1>. QED BY <1>4, <1>5

\* The lock that a step writes for a user of an app is a lock.
LEMMA LocksType ==
  ASSUME NEW l \in Locks, NEW p \in Profiles, NEW a \in Apps
  PROVE  /\ [l EXCEPT ![p] = UserOf[a]] \in Locks
         /\ [l EXCEPT ![p] = NoUser] \in Locks
         /\ NoLocks \in Locks
  BY TeamLockAssumption DEF Locks, NoLocks

LEMMA InitType == Init => IInv
<1>1. Init => TypeOK
  BY TeamLockAssumption, LoopType DEF Init, TypeOK, Locks, NoLocks, Loops
<1>2. Init => ListReady
  BY DEF Init, ListReady, Loop
<1>. QED BY <1>1, <1>2 DEF IInv

LEMMA StepType == IInv /\ [Next]_vars => TypeOK'
<1>. SUFFICES ASSUME TypeOK, ListReady, [Next]_vars PROVE TypeOK'
  BY DEF IInv
<1>. USE DEF TypeOK, backend, membership, commands, browsers
<1>1. ASSUME NEW a \in Apps, Connect(a) PROVE TypeOK'
  BY <1>1, TeamLockAssumption DEF Connect, Locks
<1>2. ASSUME NEW a \in Apps, NEW ok \in BOOLEAN, Connected(a, ok) PROVE TypeOK'
  <2>1. joining[a] \in Locks
    BY <1>2 DEF Connected
  <2>2. cache' \in [Apps -> Locks]
    BY <1>2, <2>1 DEF Connected
  <2>3. beat' \in [Apps -> Loops]
    BY <1>2, LoopType DEF Connected, Loops
  <2>. QED BY <1>2, <2>2, <2>3 DEF Connected, Loops
<1>3. ASSUME NEW a \in Apps, Disconnect(a) PROVE TypeOK'
  <2>1. beat' \in [Apps -> Loops]
    BY <1>3, LoopType DEF Disconnect, Loops
  <2>. QED BY <1>3, <2>1, TeamLockAssumption DEF Disconnect, Loops, Locks, NoLocks
<1>4. ASSUME NEW a \in Apps, Quit(a) PROVE TypeOK'
  <2>1. beat' \in [Apps -> Loops]
    BY <1>4, LoopType DEF Quit, Loops
  <2>. QED BY <1>4, <2>1, TeamLockAssumption DEF Quit, Loops, Locks, NoLocks
<1>5. ASSUME NEW a \in Apps, NEW p \in Profiles,
             Launch(a, p) \/ Refuse(a, p) \/ StartBrowser(a, p) \/ LaunchFails(a, p)
      PROVE  TypeOK'
  <2>1. Launch(a, p) => TypeOK'
    BY DEF Launch
  <2>2. Refuse(a, p) => TypeOK'
    BY DEF Refuse
  <2>3. StartBrowser(a, p) => TypeOK'
    BY DEF StartBrowser
  <2>4. LaunchFails(a, p) => TypeOK'
    BY DEF LaunchFails
  <2>. QED BY <1>5, <2>1, <2>2, <2>3, <2>4
<1>6. ASSUME NEW a \in Apps, NEW p \in Profiles, Grant(a, p) PROVE TypeOK'
  <2>1. holder' \in Locks
    BY <1>6, LocksType DEF Grant
  <2>. QED BY <1>6, <2>1, TeamLockAssumption DEF Grant
<1>7. ASSUME NEW a \in Apps, NEW p \in Profiles, Acquired(a, p) PROVE TypeOK'
  <2>1. cache' \in [Apps -> Locks]
    BY <1>7, LocksType DEF Acquired
  <2>. QED BY <1>7, <2>1 DEF Acquired
<1>8. ASSUME NEW a \in Apps, NEW p \in Profiles, Kill(a, p) \/ BrowserExits(a, p) \/ OpenUnlocked(a, p)
      PROVE  TypeOK'
  <2>1. Kill(a, p) => TypeOK'
    BY DEF Kill, CloseBrowser
  <2>2. BrowserExits(a, p) => TypeOK'
    BY DEF BrowserExits, CloseBrowser
  <2>3. OpenUnlocked(a, p) => TypeOK'
    BY DEF OpenUnlocked
  <2>. QED BY <1>8, <2>1, <2>2, <2>3
<1>9. ASSUME NEW a \in Apps, NEW p \in Profiles, NEW ok \in BOOLEAN, Delete(a, p, ok)
      PROVE  TypeOK'
  <2>1. holder' \in Locks
    BY <1>9, LocksType DEF Delete
  <2>. QED BY <1>9, <2>1 DEF Delete
<1>10. ASSUME NEW a \in Apps, NEW p \in Profiles, Released(a, p) PROVE TypeOK'
  <2>1. cache' \in [Apps -> Locks]
    BY <1>10, LocksType DEF Released
  <2>. QED BY <1>10, <2>1 DEF Released
<1>11. ASSUME NEW a \in Apps, WakeUp(a) PROVE TypeOK'
  <2>1. [Loop("renew") EXCEPT !.todo = {p \in Profiles : cache[a][p] = UserOf[a]}] \in Loops
    BY DEF Loop, Loops
  <2>2. beat' \in [Apps -> Loops]
    BY <1>11, <2>1, LoopType DEF WakeUp, Loops
  <2>. QED BY <1>11, <2>2 DEF WakeUp, Loops
<1>12. ASSUME NEW a \in Apps, NEW p \in Profiles, NEW ok \in BOOLEAN, Renew(a, p, ok)
       PROVE  TypeOK'
  <2>1. beat' \in [Apps -> Loops]
    BY <1>12, LoopChange DEF Renew, Loops
  <2>2. idle' \in [Profiles -> 0 .. Lease]
    BY <1>12, TeamLockAssumption DEF Renew
  <2>. QED BY <1>12, <2>1, <2>2 DEF Renew, Loops
<1>13. ASSUME NEW a \in Apps, FetchLocks(a) PROVE TypeOK'
  <2>1. beat' \in [Apps -> Loops]
    BY <1>13, LoopChange DEF FetchLocks, Loops
  <2>. QED BY <1>13, <2>1 DEF FetchLocks, Loops
<1>14. ASSUME NEW a \in Apps, NEW ok \in BOOLEAN, ReplaceCache(a, ok) PROVE TypeOK'
  <2>1. beat' \in [Apps -> Loops]
    BY <1>14, LoopType DEF ReplaceCache, Loops
  <2>2. cache' \in [Apps -> Locks]
    BY <1>14 DEF ReplaceCache, ListReady
  <2>. QED BY <1>14, <2>1, <2>2 DEF ReplaceCache, Loops
<1>15. CASE Period
  <2>1. holder' \in Locks
    BY <1>15 DEF Period, Locks
  <2>2. idle' \in [Profiles -> 0 .. Lease]
    <3>1. idle' = [p \in Profiles |-> IF holder[p] = NoUser \/ idle[p] = Lease
                                     THEN 0 ELSE idle[p] + 1]
      BY <1>15 DEF Period
    <3>2. ASSUME NEW p \in Profiles, idle[p] # Lease PROVE idle[p] + 1 \in 0 .. Lease
      <4>1. idle[p] \in 0 .. Lease
        OBVIOUS
      <4>2. Lease \in Nat
        BY TeamLockAssumption
      <4>. HIDE DEF TypeOK
      <4>. QED BY <3>2, <4>1, <4>2
    <3>3. 0 \in 0 .. Lease
      BY TeamLockAssumption
    <3>. QED BY <3>1, <3>2, <3>3
  <2>3. since' \in [Apps -> 0 .. ConnectEvery]
    BY <1>15, TeamLockAssumption DEF Period
  <2>. QED BY <1>15, <2>1, <2>2, <2>3 DEF Period
<1>16. CASE UNCHANGED vars
  BY <1>16 DEF vars
<1>. HIDE DEF TypeOK, backend, membership, commands, browsers
<1>. QED BY <1>1, <1>2, <1>3, <1>4, <1>5, <1>6, <1>7, <1>8, <1>9, <1>10, <1>11, <1>12,
            <1>13, <1>14, <1>15, <1>16
         DEF Next, BeatStep, LaunchStep, ReleaseStep

\* Only FetchLocks sends a loop to "apply", with the backend's list.
LEMMA StepList == IInv /\ [Next]_vars => ListReady'
<1>. SUFFICES ASSUME TypeOK, ListReady, [Next]_vars PROVE ListReady'
  BY DEF IInv
<1>1. CASE \E a \in Apps : FetchLocks(a)
  <2>1. PICK a \in Apps : FetchLocks(a)
    BY <1>1
  <2>2. holder # NoList
    BY TeamLockAssumption DEF TypeOK, Locks
  <2>3. beat[a] \in Loops
    BY DEF TypeOK, Loops
  <2>4. beat' = [beat EXCEPT ![a].at = "apply", ![a].list = holder]
    BY <2>1 DEF FetchLocks
  <2>5. beat'[a].list = holder
    BY <2>3, <2>4 DEF TypeOK, Loops
  <2>6. \A b \in Apps \ {a} : beat'[b] = beat[b]
    BY <2>4 DEF TypeOK
  <2>. QED BY <2>2, <2>5, <2>6 DEF ListReady
<1>2. CASE \E a \in Apps, p \in Profiles, ok \in BOOLEAN : Renew(a, p, ok)
  <2>1. PICK a \in Apps, p \in Profiles, ok \in BOOLEAN : Renew(a, p, ok)
    BY <1>2
  <2>2. beat[a].at = "renew" /\ beat' = [beat EXCEPT ![a].todo = @ \ {p}]
    BY <2>1 DEF Renew
  <2>3. beat'[a].at = "renew"
    BY <2>2 DEF TypeOK
  <2>4. \A b \in Apps \ {a} : beat'[b] = beat[b]
    BY <2>2 DEF TypeOK
  <2>. QED BY <2>3, <2>4 DEF ListReady
<1>3. CASE \E a \in Apps : WakeUp(a)
  <2>1. PICK a \in Apps : WakeUp(a)
    BY <1>3
  <2>2. beat'[a].at # "apply"
    BY <2>1 DEF WakeUp, TypeOK, Loop
  <2>3. \A b \in Apps \ {a} : beat'[b] = beat[b]
    BY <2>1 DEF WakeUp, TypeOK
  <2>. QED BY <2>2, <2>3 DEF ListReady
<1>4. CASE \E a \in Apps : Disconnect(a) \/ Quit(a)
                       \/ \E ok \in BOOLEAN : Connected(a, ok) \/ ReplaceCache(a, ok)
  <2>1. PICK a \in Apps : beat' = [beat EXCEPT ![a] = Loop("off")]
                      \/ beat' = [beat EXCEPT ![a] = Loop("sleep")]
    BY <1>4 DEF Disconnect, Quit, Connected, ReplaceCache
  <2>2. beat'[a].at # "apply"
    BY <2>1 DEF TypeOK, Loop
  <2>3. \A b \in Apps \ {a} : beat'[b] = beat[b]
    BY <2>1 DEF TypeOK
  <2>. QED BY <2>2, <2>3 DEF ListReady
<1>5. CASE UNCHANGED beat
  BY <1>5 DEF ListReady
<1>6. \/ UNCHANGED beat
      \/ \E a \in Apps : FetchLocks(a) \/ WakeUp(a) \/ Disconnect(a) \/ Quit(a)
           \/ \E ok \in BOOLEAN : Connected(a, ok) \/ ReplaceCache(a, ok)
                \/ \E p \in Profiles : Renew(a, p, ok)
  <2>1. ASSUME NEW a \in Apps, NEW p \in Profiles, LaunchStep(a, p) PROVE UNCHANGED beat
    BY <2>1 DEF LaunchStep, Grant, Refuse, Acquired, StartBrowser, LaunchFails
  <2>2. ASSUME NEW a \in Apps, NEW p \in Profiles,
               ReleaseStep(a, p) \/ Kill(a, p) \/ BrowserExits(a, p) \/ OpenUnlocked(a, p) \/ Launch(a, p)
        PROVE  UNCHANGED beat
    BY <2>2 DEF ReleaseStep, Delete, Released, Kill, BrowserExits, OpenUnlocked, CloseBrowser, Launch
  <2>3. ASSUME NEW a \in Apps, Connect(a) PROVE UNCHANGED beat
    BY <2>3 DEF Connect
  <2>4. Period \/ UNCHANGED vars => UNCHANGED beat
    BY DEF Period, vars
  <2>. QED BY <2>1, <2>2, <2>3, <2>4 DEF Next, BeatStep
<1>. QED BY <1>1, <1>2, <1>3, <1>4, <1>5, <1>6

\* Type correctness.
THEOREM TypeCorrect == Spec => []TypeOK
<1>1. Init => IInv
  BY InitType
<1>2. IInv /\ [Next]_vars => IInv'
  BY StepType, StepList DEF IInv
<1>3. IInv => TypeOK
  BY DEF IInv
<1>. QED BY <1>1, <1>2, <1>3, PTL DEF Spec

-----------------------------------------------------------------------------
(* Running profiles are locked.  A browser's lock is renewed by the        *)
(* heartbeats of its own app; what those of other apps do does not matter. *)

\* A lock outlasts three periods, and connect runs in one period of two at most.
LeaseIsLong == Lease > 2 /\ ConnectEvery > 1

Uses(a, p) == p \in running[a] \/ launch[a][p] \in {"granted", "starting"}

\* A profile is not in use while its lock is being released.
OneCommand ==
  \A a \in Reliable, p \in Profiles :
    release[a][p] # "no" => p \notin running[a] /\ launch[a][p] = "no"

\* connect gets its answer in the period in which it runs.
ConnectsInPeriod == \A a \in Apps : joining[a] # NoList => since[a] = 0

\* An app that launches is connected, and a connected app has a heartbeat.
LoopRuns ==
  \A a \in Reliable :
    /\ \A p \in Profiles : launch[a][p] # "no" => a \in connected
    /\ a \in connected /\ joining[a] = NoList => beat[a].at # "off"

\* A lock that was not taken or renewed in this period: the lists on their way
\* show it, and so does the cache when the loop has had its turn.
Listed(a, p) ==
  /\ launch[a][p] # "granted"
  /\ joining[a] # NoList => joining[a][p] = UserOf[a]
  /\ beat[a].at = "apply" => beat[a].list[p] = UserOf[a]
  /\ a \in beaten => cache[a][p] = UserOf[a]

\* A lock that has been passed over once: the next turn of the loop renews it,
\* unless connect starts the loop over, which it does not in the period after.
Due(a, p) ==
  /\ idle[p] <= 3
  /\ idle[p] = 3 => since[a] = 1
  /\ a \in beaten => since[a] = 0
  /\ cache[a][p] = UserOf[a]
  /\ \/ beat[a].at = "sleep"
     \/ beat[a].at = "renew" /\ p \in beat[a].todo

Kept(a, p) ==
  /\ holder[p] = UserOf[a]
  /\ a \in connected
  /\ idle[p] > 0 => Listed(a, p)
  /\ idle[p] > 1 => Due(a, p)

UsedAreKept == \A a \in Reliable, p \in Profiles : Uses(a, p) => Kept(a, p)

Orderly == OneCommand /\ ConnectsInPeriod /\ LoopRuns

LockInv == IInv /\ Orderly /\ UsedAreKept

LEMMA InitLock == Init => Orderly /\ UsedAreKept
  BY DEF Init, Orderly, OneCommand, ConnectsInPeriod, LoopRuns, UsedAreKept, Uses, Reliable

\* What a step of another app leaves to an app that is reliable: all that is
\* its own, and the locks of its user.
LEMMA OthersLeave ==
  ASSUME TypeOK, NEW a \in Reliable, NEW b \in Apps \ {a},
         \/ Connect(b) \/ Disconnect(b) \/ Quit(b) \/ BeatStep(b)
         \/ \E p \in Profiles : \/ Launch(b, p) \/ LaunchStep(b, p)
                               \/ Kill(b, p) \/ ReleaseStep(b, p) \/ BrowserExits(b, p) \/ OpenUnlocked(b, p)
  PROVE  /\ launch'[a] = launch[a] /\ release'[a] = release[a] /\ running'[a] = running[a]
         /\ joining'[a] = joining[a] /\ since'[a] = since[a] /\ cache'[a] = cache[a]
         /\ beat'[a] = beat[a]
         /\ (a \in connected' <=> a \in connected) /\ (a \in beaten' <=> a \in beaten)
         /\ \A p \in Profiles :
              holder[p] = UserOf[a] => holder'[p] = holder[p] /\ idle'[p] = idle[p]
<1>. DEFINE Goal ==
       /\ launch'[a] = launch[a] /\ release'[a] = release[a] /\ running'[a] = running[a]
       /\ joining'[a] = joining[a] /\ since'[a] = since[a] /\ cache'[a] = cache[a]
       /\ beat'[a] = beat[a]
       /\ (a \in connected' <=> a \in connected) /\ (a \in beaten' <=> a \in beaten)
       /\ \A p \in Profiles :
            holder[p] = UserOf[a] => holder'[p] = holder[p] /\ idle'[p] = idle[p]
<1>. USE DEF TypeOK, backend, membership, commands, browsers
<1>0. /\ a \in Apps /\ UserOf[b] # UserOf[a] /\ UserOf[a] # NoUser
  BY TeamLockAssumption DEF Reliable
<1>1. CASE Connect(b) \/ Disconnect(b) \/ Quit(b)
  BY <1>0, <1>1 DEF Connect, Disconnect, Quit
<1>2. ASSUME NEW ok \in BOOLEAN, Connected(b, ok) \/ ReplaceCache(b, ok) PROVE Goal
  BY <1>0, <1>2 DEF Connected, ReplaceCache
<1>3. CASE WakeUp(b) \/ FetchLocks(b)
  BY <1>0, <1>3 DEF WakeUp, FetchLocks
<1>4. ASSUME NEW ok \in BOOLEAN, NEW q \in Profiles, Renew(b, q, ok) PROVE Goal
  BY <1>0, <1>4 DEF Renew
<1>5. ASSUME NEW q \in Profiles,
             \/ Launch(b, q) \/ Refuse(b, q) \/ Acquired(b, q) \/ StartBrowser(b, q)
             \/ LaunchFails(b, q) \/ Kill(b, q) \/ Released(b, q) \/ BrowserExits(b, q) \/ OpenUnlocked(b, q)
      PROVE  Goal
  BY <1>0, <1>5 DEF Launch, Refuse, Acquired, StartBrowser, LaunchFails, Kill, Released,
                    BrowserExits, OpenUnlocked, CloseBrowser
<1>6. ASSUME NEW q \in Profiles, Grant(b, q) PROVE Goal
  BY <1>0, <1>6 DEF Grant
<1>7. ASSUME NEW ok \in BOOLEAN, NEW q \in Profiles, Delete(b, q, ok) PROVE Goal
  BY <1>0, <1>7 DEF Delete
<1>. HIDE DEF TypeOK, Goal
<1>8. Goal
  BY <1>1, <1>2, <1>3, <1>4, <1>5, <1>6, <1>7 DEF BeatStep, LaunchStep, ReleaseStep, Goal
<1>. QED BY <1>8 DEF Goal

\* What connect fetches is stored before the period ends.
LEMMA StepConnects == TypeOK /\ ConnectsInPeriod /\ [Next]_vars => ConnectsInPeriod'
<1>. SUFFICES ASSUME TypeOK, ConnectsInPeriod, [Next]_vars PROVE ConnectsInPeriod'
  OBVIOUS
<1>. USE DEF ConnectsInPeriod, TypeOK, backend, membership, commands, browsers
<1>1. ASSUME NEW a \in Apps, Connect(a) PROVE ConnectsInPeriod'
  BY <1>1 DEF Connect
<1>2. ASSUME NEW a \in Apps, NEW ok \in BOOLEAN, Connected(a, ok) PROVE ConnectsInPeriod'
  BY <1>2 DEF Connected
<1>3. ASSUME NEW a \in Apps, Quit(a) PROVE ConnectsInPeriod'
  BY <1>3 DEF Quit
<1>4. CASE Period
  BY <1>4 DEF Period
<1>5. ASSUME NEW a \in Apps,
             \/ Disconnect(a) \/ WakeUp(a) \/ FetchLocks(a)
             \/ \E ok \in BOOLEAN : ReplaceCache(a, ok) \/ \E p \in Profiles : Renew(a, p, ok)
      PROVE  UNCHANGED <<joining, since>>
  BY <1>5 DEF Disconnect, WakeUp, FetchLocks, ReplaceCache, Renew
<1>6. ASSUME NEW a \in Apps, NEW p \in Profiles,
             \/ Launch(a, p) \/ LaunchStep(a, p) \/ Kill(a, p) \/ BrowserExits(a, p) \/ OpenUnlocked(a, p)
             \/ ReleaseStep(a, p)
      PROVE  UNCHANGED <<joining, since>>
  <2>1. Launch(a, p) \/ LaunchStep(a, p) => UNCHANGED membership
    BY DEF Launch, LaunchStep, Grant, Refuse, Acquired, StartBrowser, LaunchFails
  <2>2. Kill(a, p) \/ BrowserExits(a, p) \/ OpenUnlocked(a, p) \/ ReleaseStep(a, p) => UNCHANGED membership
    BY DEF Kill, BrowserExits, OpenUnlocked, CloseBrowser, ReleaseStep, Delete, Released
  <2>. QED BY <1>6, <2>1, <2>2
<1>7. UNCHANGED <<joining, since>> => ConnectsInPeriod'
  OBVIOUS
<1>8. UNCHANGED vars => UNCHANGED <<joining, since>>
  BY DEF vars
<1>. HIDE DEF ConnectsInPeriod, TypeOK
<1>. QED BY <1>1, <1>2, <1>3, <1>4, <1>5, <1>6, <1>7, <1>8 DEF Next, BeatStep

\* A reliable app keeps to one command per profile, is connected when it
\* launches and has its heartbeat running.
LEMMA StepOrderly == TypeOK /\ Orderly /\ [Next]_vars => Orderly'
<1>. SUFFICES ASSUME TypeOK, Orderly, [Next]_vars PROVE Orderly'
  OBVIOUS
<1>. DEFINE InOrder(a, p) ==
       /\ release[a][p] # "no" => p \notin running[a] /\ launch[a][p] = "no"
       /\ launch[a][p] # "no" => a \in connected
     Running(a) == a \in connected /\ joining[a] = NoList => beat[a].at # "off"
<1>0. \A a \in Reliable : Running(a) /\ \A p \in Profiles : InOrder(a, p)
  BY DEF Orderly, OneCommand, LoopRuns
<1>1. ASSUME NEW a \in Reliable PROVE Running(a)' /\ \A p \in Profiles : InOrder(a, p)'
  <2>. USE DEF TypeOK, backend, membership, commands, browsers
  <2>0. /\ a \in Apps /\ Running(a)
        /\ {"overlap", "logout", "quit", "lost_renewal", "lost_list"} \cap Events[a] = {}
    BY <1>0 DEF Reliable
  <2>p. ASSUME NEW p \in Profiles PROVE InOrder(a, p)
    BY <1>0
  <2>1. CASE Connect(a)
    <3>1. joining'[a] # NoList
      BY <2>0, <2>1, TeamLockAssumption DEF Connect, Locks
    <3>. QED BY <2>0, <2>p, <2>1, <3>1 DEF Connect
  <2>2. ASSUME NEW ok \in BOOLEAN, Connected(a, ok) \/ ReplaceCache(a, ok)
        PROVE  Running(a)' /\ \A p \in Profiles : InOrder(a, p)'
    BY <2>0, <2>p, <2>2 DEF Connected, ReplaceCache, Loop
  <2>3. ~Disconnect(a) /\ ~Quit(a)
    BY <2>0 DEF Disconnect, Quit
  <2>4. CASE WakeUp(a)
    BY <2>0, <2>p, <2>4 DEF WakeUp, Loop
  <2>5. CASE FetchLocks(a)
    BY <2>0, <2>p, <2>5 DEF FetchLocks
  <2>6. ASSUME NEW q \in Profiles, NEW ok \in BOOLEAN, Renew(a, q, ok)
        PROVE  Running(a)' /\ \A p \in Profiles : InOrder(a, p)'
    BY <2>0, <2>p, <2>6 DEF Renew
  <2>7. ASSUME NEW q \in Profiles, NEW p \in Profiles,
               \/ Launch(a, q) \/ LaunchStep(a, q) \/ Kill(a, q) \/ BrowserExits(a, q) \/ OpenUnlocked(a, q)
               \/ ReleaseStep(a, q)
        PROVE  Running(a)' /\ InOrder(a, p)'
    <3>1. InOrder(a, p) /\ InOrder(a, q)
      BY <2>p
    <3>2. Launch(a, q) => Running(a)' /\ InOrder(a, p)'
      BY <2>0, <3>1 DEF Launch
    <3>3. Grant(a, q) \/ Refuse(a, q) \/ Acquired(a, q) => Running(a)' /\ InOrder(a, p)'
      BY <2>0, <3>1 DEF Grant, Refuse, Acquired
    <3>4. StartBrowser(a, q) => Running(a)' /\ InOrder(a, p)'
      BY <2>0, <3>1 DEF StartBrowser
    <3>5. LaunchFails(a, q) => Running(a)' /\ InOrder(a, p)'
      BY <2>0, <3>1 DEF LaunchFails
    <3>6. Kill(a, q) => Running(a)' /\ InOrder(a, p)'
      BY <2>0, <3>1 DEF Kill, CloseBrowser
    <3>7. BrowserExits(a, q) \/ OpenUnlocked(a, q) => Running(a)' /\ InOrder(a, p)'
      BY <2>0, <3>1 DEF BrowserExits, OpenUnlocked, CloseBrowser
    <3>8. ASSUME NEW ok \in BOOLEAN, Delete(a, q, ok) \/ Released(a, q)
          PROVE  Running(a)' /\ InOrder(a, p)'
      BY <2>0, <3>1, <3>8 DEF Delete, Released
    <3>. HIDE DEF InOrder, Running, TypeOK
    <3>. QED BY <2>7, <3>2, <3>3, <3>4, <3>5, <3>6, <3>7, <3>8 DEF LaunchStep, ReleaseStep
  <2>8. CASE Period \/ UNCHANGED vars
    BY <2>0, <2>p, <2>8 DEF Period, vars
  <2>9. ASSUME NEW b \in Apps \ {a},
               \/ Connect(b) \/ Disconnect(b) \/ Quit(b) \/ BeatStep(b)
               \/ \E q \in Profiles : \/ Launch(b, q) \/ LaunchStep(b, q)
                                     \/ Kill(b, q) \/ ReleaseStep(b, q) \/ BrowserExits(b, q) \/ OpenUnlocked(b, q)
        PROVE  Running(a)' /\ \A p \in Profiles : InOrder(a, p)'
    <3>1. /\ launch'[a] = launch[a] /\ release'[a] = release[a] /\ running'[a] = running[a]
          /\ joining'[a] = joining[a] /\ beat'[a] = beat[a]
          /\ (a \in connected' <=> a \in connected)
      BY <2>9, OthersLeave
    <3>. QED BY <2>0, <2>p, <3>1
  <2>. HIDE DEF TypeOK, Running, InOrder
  <2>. QED BY <2>1, <2>2, <2>3, <2>4, <2>5, <2>6, <2>7, <2>8, <2>9 DEF Next, BeatStep
<1>2. ConnectsInPeriod'
  BY StepConnects DEF Orderly
<1>. QED BY <1>1, <1>2 DEF Orderly, OneCommand, LoopRuns, Reliable

\* A lock that is kept is kept by each step of its own app after which the
\* profile is still in use.
LEMMA OwnLeaves ==
  ASSUME LeaseIsLong, TypeOK, Orderly, UsedAreKept, NEW a \in Reliable,
         \/ Connect(a) \/ Disconnect(a) \/ Quit(a) \/ BeatStep(a)
         \/ \E q \in Profiles : \/ Launch(a, q) \/ LaunchStep(a, q)
                               \/ Kill(a, q) \/ ReleaseStep(a, q) \/ BrowserExits(a, q) \/ OpenUnlocked(a, q),
         NEW p \in Profiles, Uses(a, p)'
  PROVE  Kept(a, p)'
<1>. USE DEF TypeOK, backend, membership, commands, browsers
<1>0. /\ a \in Apps /\ idle[p] \in Nat /\ UserOf[a] # NoUser
      /\ {"overlap", "logout", "quit", "lost_renewal", "lost_list"} \cap Events[a] = {}
  BY TeamLockAssumption DEF Reliable
<1>u. Uses(a, p) => Kept(a, p)
  BY DEF UsedAreKept
<1>1. CASE Connect(a)
  <2>1. since[a] > 1 /\ Kept(a, p)
    BY <1>0, <1>1, <1>u DEF Connect, Uses, LeaseIsLong
  <2>2. /\ joining' = [joining EXCEPT ![a] = holder] /\ since' = [since EXCEPT ![a] = 0]
        /\ connected' = connected \cup {a} /\ UNCHANGED <<backend, cache, beat, beaten, commands>>
    BY <1>1 DEF Connect
  <2>. QED BY <1>0, <2>1, <2>2 DEF Kept, Listed, Due
<1>2. ASSUME NEW ok \in BOOLEAN, Connected(a, ok) PROVE Kept(a, p)'
  <2>1. /\ joining[a] # NoList /\ cache' = [cache EXCEPT ![a] = joining[a]]
        /\ joining' = [joining EXCEPT ![a] = NoList]
        /\ beat' = [beat EXCEPT ![a] = Loop("sleep")] /\ beaten' = beaten \cup {a}
        /\ UNCHANGED <<backend, connected, since, commands>>
    BY <1>0, <1>2 DEF Connected
  <2>2. since[a] = 0 /\ Kept(a, p)
    BY <1>0, <2>1, <1>u DEF Uses, Orderly, ConnectsInPeriod
  <2>3. beat'[a].at = "sleep" /\ joining'[a] = NoList /\ cache'[a] = joining[a]
    BY <1>0, <2>1 DEF Loop
  <2>. QED BY <1>0, <2>1, <2>2, <2>3 DEF Kept, Listed, Due
<1>3. ~Disconnect(a) /\ ~Quit(a)
  BY <1>0 DEF Disconnect, Quit
<1>4. CASE WakeUp(a)
  <2>1. Kept(a, p)
    BY <1>4, <1>u DEF WakeUp, Uses
  <2>2. beat' = [beat EXCEPT ![a] =
          [Loop("renew") EXCEPT !.todo = {q \in Profiles : cache[a][q] = UserOf[a]}]]
    BY <1>4, <2>1 DEF WakeUp, Kept
  <2>3. beat'[a].at = "renew" /\ beat'[a].todo = {q \in Profiles : cache[a][q] = UserOf[a]}
    BY <1>0, <2>2 DEF Loop
  <2>. QED BY <1>0, <1>4, <2>1, <2>3 DEF WakeUp, Kept, Listed, Due
<1>5. ASSUME NEW ok \in BOOLEAN, NEW q \in Profiles, Renew(a, q, ok) PROVE Kept(a, p)'
  <2>1. Kept(a, p)
    BY <1>5, <1>u DEF Renew, Uses
  <2>2. /\ beat'[a].at = beat[a].at /\ beat'[a].list = beat[a].list
        /\ beat'[a].todo = beat[a].todo \ {q}
        /\ beat[a].at = "renew"
    BY <1>0, <1>5 DEF Renew
  <2>3. idle'[p] = IF p = q THEN 0 ELSE idle[p]
    BY <1>0, <1>5, <2>1 DEF Renew, Kept
  <2>. QED BY <1>0, <1>5, <2>1, <2>2, <2>3 DEF Renew, Kept, Listed, Due
<1>6. CASE FetchLocks(a)
  <2>1. Kept(a, p)
    BY <1>6, <1>u DEF FetchLocks, Uses
  <2>2. beat[a].at = "renew" /\ beat[a].todo = {} /\ beat'[a].at = "apply" /\ beat'[a].list = holder
    BY <1>0, <1>6 DEF FetchLocks
  <2>. QED BY <1>0, <1>6, <2>1, <2>2 DEF FetchLocks, Kept, Listed, Due
<1>7. ASSUME NEW ok \in BOOLEAN, ReplaceCache(a, ok) PROVE Kept(a, p)'
  <2>1. Kept(a, p)
    BY <1>7, <1>u DEF ReplaceCache, Uses
  <2>2. beat[a].at = "apply" /\ beat'[a].at = "sleep" /\ cache'[a] = beat[a].list
    BY <1>0, <1>7 DEF ReplaceCache, Loop
  <2>. QED BY <1>0, <1>7, <2>1, <2>2 DEF ReplaceCache, Kept, Listed, Due
<1>8. ASSUME NEW q \in Profiles, Launch(a, q) \/ Refuse(a, q) \/ LaunchFails(a, q)
      PROVE  Kept(a, p)'
  <2>1. /\ launch'[a][p] \in {launch[a][p], "no", "asked"}
        /\ UNCHANGED <<backend, cache, membership, beat, beaten, release, running>>
    BY <1>0, <1>8 DEF Launch, Refuse, LaunchFails
  <2>. QED BY <1>0, <2>1, <1>u DEF Uses, Kept, Listed, Due
<1>9. ASSUME NEW q \in Profiles, Grant(a, q) PROVE Kept(a, p)'
  <2>1. CASE q = p
    <3>1. a \in connected /\ holder'[p] = UserOf[a] /\ idle'[p] = 0
      BY <1>0, <1>9, <2>1 DEF Grant, Orderly, LoopRuns, Locks
    <3>. QED BY <1>9, <3>1 DEF Grant, Kept
  <2>2. CASE q # p
    <3>1. /\ launch'[a][p] = launch[a][p] /\ holder'[p] = holder[p] /\ idle'[p] = idle[p]
      BY <1>0, <1>9, <2>2 DEF Grant
    <3>. QED BY <1>0, <1>9, <3>1, <1>u DEF Grant, Uses, Kept, Listed, Due
  <2>. QED BY <2>1, <2>2
<1>10. ASSUME NEW q \in Profiles, Acquired(a, q) PROVE Kept(a, p)'
  <2>1. CASE q = p
    <3>1. Kept(a, p) /\ launch[a][p] = "granted"
      BY <1>10, <2>1, <1>u DEF Acquired, Uses
    <3>2. idle[p] = 0
      BY <1>0, <3>1 DEF Kept, Listed
    <3>. QED BY <1>10, <3>1, <3>2 DEF Acquired, Kept
  <2>2. CASE q # p
    <3>1. launch'[a][p] = launch[a][p] /\ cache'[a][p] = cache[a][p]
      BY <1>0, <1>10, <2>2 DEF Acquired
    <3>. QED BY <1>0, <1>10, <3>1, <1>u DEF Acquired, Uses, Kept, Listed, Due
  <2>. QED BY <2>1, <2>2
<1>11. ASSUME NEW q \in Profiles,
              StartBrowser(a, q) \/ Kill(a, q) \/ BrowserExits(a, q) \/ OpenUnlocked(a, q)
       PROVE  Kept(a, p)'
  <2>1. /\ Uses(a, p) /\ launch'[a][p] \in {launch[a][p], "no"}
        /\ UNCHANGED <<backend, cache, membership, beat, beaten>>
    BY <1>0, <1>11 DEF StartBrowser, Kill, BrowserExits, OpenUnlocked, CloseBrowser, Uses
  <2>. QED BY <1>0, <2>1, <1>u DEF Kept, Listed, Due
<1>12. ASSUME NEW q \in Profiles, NEW ok \in BOOLEAN, Delete(a, q, ok) \/ Released(a, q)
       PROVE  Kept(a, p)'
  <2>1. p # q /\ Kept(a, p)
    BY <1>0, <1>12, <1>u DEF Delete, Released, Uses, Orderly, OneCommand
  <2>2. /\ holder'[p] = holder[p] /\ cache'[a][p] = cache[a][p]
        /\ UNCHANGED <<idle, membership, beat, beaten, launch>>
    BY <1>0, <1>12, <2>1 DEF Delete, Released, Locks
  <2>. QED BY <1>0, <2>1, <2>2 DEF Kept, Listed, Due
<1>. HIDE DEF TypeOK
<1>. QED BY <1>1, <1>2, <1>3, <1>4, <1>5, <1>6, <1>7, <1>8, <1>9, <1>10, <1>11, <1>12
         DEF BeatStep, LaunchStep, ReleaseStep

\* The end of a period: each reliable loop has had its turn, so that no lock in
\* use has been idle for more than three.
LEMMA PeriodLeaves ==
  ASSUME LeaseIsLong, TypeOK, Orderly, UsedAreKept, Period,
         NEW a \in Reliable, NEW p \in Profiles, Uses(a, p)
  PROVE  Kept(a, p)'
<1>1. /\ a \in Apps /\ idle[p] \in Nat /\ UserOf[a] # NoUser /\ Lease \in Nat
      /\ ConnectEvery \in Nat
  BY TeamLockAssumption DEF Reliable, TypeOK
<1>2. Kept(a, p)
  BY DEF UsedAreKept
<1>3. /\ joining[a] = NoList /\ beat[a].at = "sleep" /\ a \in beaten /\ launch[a][p] # "granted"
  BY <1>1, <1>2 DEF Period, Kept, Orderly, LoopRuns
<1>4. idle[p] < 3 /\ (idle[p] = 2 => since[a] = 0)
  BY <1>1, <1>2, <1>3 DEF Kept, Due
<1>5. holder'[p] = holder[p] /\ idle'[p] = idle[p] + 1
  BY <1>1, <1>2, <1>4 DEF Period, Kept, LeaseIsLong
<1>6. a \notin beaten' /\ (since[a] = 0 => since'[a] = 1)
  BY <1>1 DEF Period, LeaseIsLong
<1>7. Listed(a, p)'
  BY <1>3, <1>6 DEF Period, Listed, membership, commands, browsers
<1>8. idle'[p] > 1 => Due(a, p)'
  BY <1>1, <1>2, <1>3, <1>4, <1>5, <1>6 DEF Period, Kept, Listed, Due
<1>. QED BY <1>2, <1>5, <1>7, <1>8 DEF Period, Kept

LEMMA StepKept ==
  ASSUME LeaseIsLong PROVE LockInv /\ [Next]_vars => UsedAreKept'
<1>. SUFFICES ASSUME TypeOK, Orderly, UsedAreKept, [Next]_vars,
                     NEW a \in Reliable, NEW p \in Profiles, Uses(a, p)'
              PROVE  Kept(a, p)'
  BY DEF LockInv, IInv, UsedAreKept, Reliable
<1>1. CASE Period
  <2>1. Uses(a, p)
    BY <1>1 DEF Period, Uses, commands, browsers
  <2>. QED BY <1>1, <2>1, PeriodLeaves
<1>2. CASE UNCHANGED vars
  <2>1. UNCHANGED <<holder, idle, cache, connected, joining, since, beat, beaten, launch, running>>
    BY <1>2 DEF vars
  <2>2. Uses(a, p) = Uses(a, p)'
    BY <2>1 DEF Uses
  <2>3. Kept(a, p)
    BY <2>2 DEF UsedAreKept
  <2>. QED BY <2>1, <2>3 DEF Kept, Listed, Due
<1>3. ASSUME NEW b \in Apps,
             \/ Connect(b) \/ Disconnect(b) \/ Quit(b) \/ BeatStep(b)
             \/ \E q \in Profiles : \/ Launch(b, q) \/ LaunchStep(b, q)
                                   \/ Kill(b, q) \/ ReleaseStep(b, q) \/ BrowserExits(b, q) \/ OpenUnlocked(b, q)
      PROVE  Kept(a, p)'
  <2>1. CASE b = a
    BY <1>3, <2>1, OwnLeaves
  <2>2. CASE b # a
    <3>1. /\ launch'[a] = launch[a] /\ running'[a] = running[a]
          /\ joining'[a] = joining[a] /\ since'[a] = since[a] /\ cache'[a] = cache[a]
          /\ beat'[a] = beat[a]
          /\ (a \in connected' <=> a \in connected) /\ (a \in beaten' <=> a \in beaten)
          /\ holder[p] = UserOf[a] => holder'[p] = holder[p] /\ idle'[p] = idle[p]
      BY <1>3, <2>2, OthersLeave
    <3>2. Kept(a, p)
      BY <3>1 DEF UsedAreKept, Uses
    <3>. QED BY <3>1, <3>2 DEF Kept, Listed, Due
  <2>. QED BY <2>1, <2>2
<1>. QED BY <1>1, <1>2, <1>3 DEF Next

\* A profile whose browser a reliable app launched with the lock, or is starting,
\* is locked for its user in the backend, whatever the other apps do and whatever
\* browsers are opened without the lock, when a lock outlasts three periods and
\* two connects are at least two periods apart.
THEOREM RunningStaysLocked ==
  ASSUME LeaseIsLong PROVE Spec => []RunningIsLocked
<1>1. Init => LockInv
  BY InitType, InitLock DEF LockInv
<1>2. LockInv /\ [Next]_vars => LockInv'
  BY StepType, StepList, StepOrderly, StepKept DEF LockInv, IInv
<1>3. LockInv => RunningIsLocked
  BY DEF LockInv, UsedAreKept, Uses, Kept, RunningIsLocked
<1>. QED BY <1>1, <1>2, <1>3, PTL DEF Spec

-----------------------------------------------------------------------------
(* The exclusive lock.  A step maps to a step of ExclusiveUse, or to a     *)
(* stutter, as long as a running browser's lock is its user's.             *)

\* A step that leaves the locks and the browsers alone.
LEMMA NothingUsed == holder' = holder /\ running' = running => UNCHANGED Use!useVars
  BY DEF Use!useVars, UsersOf

\* Locks that end without a browser: whoever ran one afterwards would have
\* the lock.
LEMMA LocksEnd ==
  ASSUME RunningIsLocked', running' = running, NEW free \in SUBSET Profiles,
         holder' = [p \in Profiles |-> IF p \in free THEN NoUser ELSE holder[p]]
  PROVE  Use!Next
<1>1. \A p \in Profiles : UsersOf(p)' = UsersOf(p)
  BY DEF UsersOf
<1>2. ASSUME NEW p \in free PROVE UsersOf(p) = {}
  <2>1. holder'[p] = NoUser
    OBVIOUS
  <2>2. \A a \in Apps : UserOf[a] # NoUser
    BY TeamLockAssumption
  <2>3. \A a \in Reliable : p \notin running[a]
    BY <2>1, <2>2 DEF RunningIsLocked, Reliable
  <2>. QED BY <2>3 DEF UsersOf
<1>3. Use!GiveUp(free)
  BY <1>1, <1>2 DEF Use!GiveUp
<1>. QED BY <1>3 DEF Use!Next

\* A browser of an app ends: its user has closed the profile, if it counts and
\* the user does not run it in another app as well.
LEMMA BrowserEnds ==
  ASSUME TypeOK, NEW a \in Apps, NEW p \in Profiles, holder' = holder,
         running' = [running EXCEPT ![a] = @ \ {p}]
  PROVE  [Use!Next]_(Use!useVars)
<1>1. /\ running \in [Apps -> SUBSET Profiles]
      /\ UserOf \in [Apps -> Users]
  BY TeamLockAssumption DEF TypeOK
<1>2. /\ \A b \in Apps, q \in Profiles : q \in running'[b] <=> q \in running[b] /\ ~(b = a /\ q = p)
      /\ \A b \in Reliable : b \in Apps
  BY <1>1 DEF Reliable
<1>3. \A q \in Profiles \ {p} : UsersOf(q)' = UsersOf(q)
  BY <1>2 DEF UsersOf
<1>4. CASE UserOf[a] \in UsersOf(p)' \/ p \notin running[a] \/ a \notin Reliable
  <2>1. UsersOf(p)' = UsersOf(p)
    BY <1>2, <1>4 DEF UsersOf
  <2>. QED BY <1>3, <2>1 DEF Use!useVars
<1>5. CASE UserOf[a] \notin UsersOf(p)' /\ p \in running[a] /\ a \in Reliable
  <2>1. UsersOf(p)' = UsersOf(p) \ {UserOf[a]}
    BY <1>2, <1>5 DEF UsersOf
  <2>2. Use!Close(UserOf[a], p)
    BY <1>3, <2>1 DEF Use!Close
  <2>. QED BY <1>1, <2>2 DEF Use!Next
<1>. QED BY <1>4, <1>5

LEMMA StepUse ==
  TypeOK /\ RunningIsLocked /\ RunningIsLocked' /\ [Next]_vars => [Use!Next]_(Use!useVars)
<1>. SUFFICES ASSUME TypeOK, RunningIsLocked, RunningIsLocked', [Next]_vars
              PROVE  [Use!Next]_(Use!useVars)
  OBVIOUS
<1>. USE DEF backend, membership, commands, browsers
<1>1. ASSUME NEW a \in Apps, Connect(a) \/ Disconnect(a) \/ Quit(a) \/ BeatStep(a)
      PROVE  UNCHANGED Use!useVars
  <2>1. holder' = holder /\ running' = running
    BY <1>1 DEF Connect, Disconnect, Quit, BeatStep, WakeUp, FetchLocks, ReplaceCache,
                Connected, Renew
  <2>. QED BY <2>1, NothingUsed
<1>2. ASSUME NEW a \in Apps, NEW p \in Profiles,
             \/ Launch(a, p) \/ Refuse(a, p) \/ Acquired(a, p) \/ LaunchFails(a, p)
             \/ Released(a, p) \/ OpenUnlocked(a, p)
      PROVE  UNCHANGED Use!useVars
  <2>1. holder' = holder /\ running' = running
    BY <1>2 DEF Launch, Refuse, Acquired, LaunchFails, Released, OpenUnlocked
  <2>. QED BY <2>1, NothingUsed
<1>3. ASSUME NEW a \in Apps, NEW p \in Profiles, Grant(a, p)
      PROVE  [Use!Next]_(Use!useVars)
  <2>1. holder \in [Profiles -> Users \cup {NoUser}] /\ UserOf[a] \in Users
    BY TeamLockAssumption DEF TypeOK, Locks
  <2>2. CASE holder[p] = UserOf[a]
    <3>1. holder' = holder /\ running' = running
      BY <1>3, <2>1, <2>2 DEF Grant
    <3>. QED BY <3>1, NothingUsed
  <2>3. CASE holder[p] = NoUser
    <3>1. Use!Take(UserOf[a], p)
      BY <1>3, <2>3 DEF Grant, Use!Take, UsersOf
    <3>. QED BY <2>1, <3>1 DEF Use!Next
  <2>. QED BY <1>3, <2>2, <2>3 DEF Grant
<1>4. ASSUME NEW a \in Apps, NEW p \in Profiles, StartBrowser(a, p)
      PROVE  [Use!Next]_(Use!useVars)
  <2>1. running \in [Apps -> SUBSET Profiles] /\ UserOf \in [Apps -> Users]
    BY TeamLockAssumption DEF TypeOK
  <2>2. a \in Reliable => holder[p] = UserOf[a]
    BY <1>4 DEF StartBrowser, RunningIsLocked
  <2>3. /\ \A b \in Apps, q \in Profiles : q \in running'[b] <=> q \in running[b] \/ (b = a /\ q = p)
        /\ \A b \in Reliable : b \in Apps
    BY <1>4, <2>1 DEF StartBrowser, Reliable
  <2>4. \A q \in Profiles \ {p} : UsersOf(q)' = UsersOf(q)
    BY <2>3 DEF UsersOf
  <2>5. CASE a \in Reliable
    <3>1. UsersOf(p)' = UsersOf(p) \cup {UserOf[a]}
      BY <2>3, <2>5 DEF UsersOf
    <3>2. Use!Open(UserOf[a], p)
      BY <1>4, <2>2, <2>4, <2>5, <3>1 DEF Use!Open, StartBrowser
    <3>. QED BY <2>1, <3>2 DEF Use!Next
  <2>6. CASE a \notin Reliable
    <3>1. UsersOf(p)' = UsersOf(p)
      BY <2>3, <2>6 DEF UsersOf
    <3>. QED BY <1>4, <2>4, <3>1 DEF Use!useVars, StartBrowser
  <2>. QED BY <2>5, <2>6
<1>5. ASSUME NEW a \in Apps, NEW p \in Profiles, Kill(a, p) \/ BrowserExits(a, p)
      PROVE  [Use!Next]_(Use!useVars)
  <2>1. holder' = holder /\ running' = [running EXCEPT ![a] = @ \ {p}]
    BY <1>5 DEF Kill, BrowserExits, CloseBrowser
  <2>. QED BY <2>1, BrowserEnds
<1>6. ASSUME NEW a \in Apps, NEW p \in Profiles, NEW ok \in BOOLEAN, Delete(a, p, ok)
      PROVE  [Use!Next]_(Use!useVars)
  <2>1. holder \in [Profiles -> Users \cup {NoUser}] /\ running' = running
    BY <1>6 DEF TypeOK, Locks, Delete
  <2>2. CASE ok /\ holder[p] = UserOf[a]
    <3>1. holder' = [q \in Profiles |-> IF q \in {p} THEN NoUser ELSE holder[q]]
      BY <1>6, <2>1, <2>2 DEF Delete
    <3>. QED BY <2>1, <3>1, LocksEnd
  <2>3. CASE ~(ok /\ holder[p] = UserOf[a])
    <3>1. holder' = holder
      BY <1>6, <2>3 DEF Delete
    <3>. QED BY <2>1, <3>1, NothingUsed
  <2>. QED BY <2>2, <2>3
<1>7. CASE Period
  <2>1. PICK free \in SUBSET Profiles :
          holder' = [p \in Profiles |-> IF p \in free THEN NoUser ELSE holder[p]]
    BY <1>7 DEF Period
  <2>2. running' = running
    BY <1>7 DEF Period
  <2>. QED BY <2>1, <2>2, LocksEnd
<1>8. CASE UNCHANGED vars
  BY <1>8, NothingUsed DEF vars
<1>. QED BY <1>1, <1>2, <1>3, <1>4, <1>5, <1>6, <1>7, <1>8
     DEF Next, LaunchStep, ReleaseStep

\* TeamLock implements ExclusiveUse as long as a running browser's lock is its
\* user's in the backend, which is the part that depends on the lease, the
\* heartbeats and the order of the answers.
THEOREM LockedUseIsExclusive == Spec /\ []RunningIsLocked => KeepsUseExclusive
<1>1. Init => Use!Init
  <2>1. Init => \A p \in Profiles : UsersOf(p) = {}
    BY DEF Init, UsersOf, Reliable
  <2>. QED BY <2>1 DEF Init, NoLocks, Use!Init
<1>2. Spec => []TypeOK
  BY TypeCorrect
<1>3. TypeOK /\ RunningIsLocked /\ RunningIsLocked' /\ [Next]_vars
        => [Use!Next]_(Use!useVars)
  BY StepUse
<1>. QED BY <1>1, <1>2, <1>3, PTL DEF Spec, KeepsUseExclusive, Use!Spec

\* Two reliable apps, which have two users, do not both run a browser of one
\* profile that they launched with the lock.
LockedUsersApart ==
  \A a, b \in Reliable : a # b => running[a] \cap running[b] = {}

\* An exclusive lock keeps the users of a profile apart.
THEOREM ExclusiveUseSeparates == Spec /\ KeepsUseExclusive => []LockedUsersApart
<1>. DEFINE Held == /\ holder \in [Profiles -> Users \cup {NoUser}]
                    /\ \A p \in Profiles : UsersOf(p) \subseteq {holder[p]}
<1>1. Use!Init => Held
  <2>. SUFFICES ASSUME Use!Init PROVE Held
    OBVIOUS
  <2>1. \A p \in Profiles : [q \in Profiles |-> UsersOf(q)][p] = [q \in Profiles |-> {}][p]
    BY DEF Use!Init
  <2>. QED BY <2>1 DEF Use!Init
<1>2. Held /\ [Use!Next]_(Use!useVars) => Held'
  <2>. SUFFICES ASSUME Held, [Use!Next]_(Use!useVars) PROVE Held'
    OBVIOUS
  <2>. DEFINE using == [p \in Profiles |-> UsersOf(p)]
  <2>0. /\ \A p \in Profiles : using[p] = UsersOf(p)
        /\ \A p \in Profiles : using'[p] = UsersOf(p)'
    OBVIOUS
  <2>. HIDE DEF using
  <2>1. ASSUME NEW u \in Users, NEW p \in Profiles, Use!Take(u, p) PROVE Held'
    <3>1. /\ holder[p] = NoUser
          /\ holder' = [holder EXCEPT ![p] = u]
          /\ using' = using
      BY <2>1 DEF Use!Take, using
    <3>2. \A a \in Reliable : UserOf[a] # NoUser
      BY TeamLockAssumption DEF Reliable
    <3>3. UsersOf(p) = {}
      BY <3>1, <3>2 DEF UsersOf
    <3>. QED BY <2>0, <3>1, <3>3
  <2>2. ASSUME NEW u \in Users, NEW p \in Profiles, Use!Open(u, p) PROVE Held'
    <3>1. /\ holder[p] = u
          /\ using' = [using EXCEPT ![p] = @ \cup {u}]
          /\ holder' = holder
      BY <2>2 DEF Use!Open, using
    <3>2. \A q \in Profiles : using'[q] \subseteq using[q] \cup (IF q = p THEN {u} ELSE {})
      BY <3>1 DEF using
    <3>. QED BY <2>0, <3>1, <3>2
  <2>3. ASSUME NEW u \in Users, NEW p \in Profiles, Use!Close(u, p) PROVE Held'
    <3>1. /\ using' = [using EXCEPT ![p] = @ \ {u}]
          /\ holder' = holder
      BY <2>3 DEF Use!Close, using
    <3>2. \A q \in Profiles : using'[q] \subseteq using[q]
      BY <3>1 DEF using
    <3>. QED BY <2>0, <3>1, <3>2
  <2>4. ASSUME NEW free \in SUBSET Profiles, Use!GiveUp(free) PROVE Held'
    <3>1. /\ \A p \in free : using[p] = {}
          /\ holder' = [p \in Profiles |-> IF p \in free THEN NoUser ELSE holder[p]]
          /\ using' = using
      BY <2>4 DEF Use!GiveUp, using
    <3>. QED BY <2>0, <3>1
  <2>5. CASE UNCHANGED Use!useVars
    <3>1. holder' = holder /\ using' = using
      BY <2>5 DEF Use!useVars, using
    <3>. QED BY <2>0, <3>1
  <2>. QED BY <2>1, <2>2, <2>3, <2>4, <2>5 DEF Use!Next
<1>3. Held /\ TypeOK => LockedUsersApart
  <2>. SUFFICES ASSUME Held, TypeOK, NEW a \in Reliable, NEW b \in Reliable, a # b,
                       NEW p \in Profiles, p \in running[a], p \in running[b]
                PROVE  FALSE
    BY DEF LockedUsersApart, TypeOK, Reliable
  <2>1. UserOf[a] \in UsersOf(p) /\ UserOf[b] \in UsersOf(p)
    BY DEF UsersOf
  <2>2. UserOf[a] # UserOf[b]
    BY DEF Reliable
  <2>. QED BY <2>1, <2>2
<1>. QED BY <1>1, <1>2, <1>3, TypeCorrect, PTL DEF KeepsUseExclusive, Use!Spec

\* The locks and the browsers that reliable apps launched with them implement the
\* exclusive lock, whatever the other apps do.
THEOREM ReliableUseIsExclusive ==
  ASSUME LeaseIsLong PROVE Spec => KeepsUseExclusive
  BY RunningStaysLocked, LockedUseIsExclusive, PTL

\* Two users of reliable apps never both run a browser of one profile that was
\* launched with its lock.
THEOREM ReliableUsersApart ==
  ASSUME LeaseIsLong PROVE Spec => []LockedUsersApart
  BY ReliableUseIsExclusive, ExclusiveUseSeparates, PTL
=============================================================================
