------------------------- MODULE SyncSchedulerProofs -------------------------
(***************************************************************************)
(* For any number of profiles, entities, restarts and concurrent commands: *)
(* type correctness, exactness of the in-flight set and preservation of    *)
(* requested syncs.                                                        *)
(***************************************************************************)
EXTENDS SyncScheduler, TLAPS

USE DEF LoopState

\* Generations are numbered from 1, 0 stands for no scheduler.
LEMMA GenRange == Gen \subseteq 0 .. MaxGen /\ 0 \in 0 .. MaxGen
BY ConstantsAssumption DEF Gen

\* TypeOK is not inductive by itself: the loop indexes the profiles with
\* current[g], which is a profile only where the loop body set it.
CurrentIsProfile ==
  \A g \in Gen : loop[g] \in {"load", "sync"} => current[g] \in Profiles

TypeInv == TypeOK /\ CurrentIsProfile

\* Every variable keeps its type.
LEMMA TypeInvariant == Spec => []TypeInv
<1> USE ConstantsAssumption, GenRange
<1>1. Init => TypeInv
  BY DEF Init, TypeInv, TypeOK, CurrentIsProfile, ProfileRecord, AbsentProfile,
     TaskState, IdleTask, CleanerState
<1>2. TypeInv /\ [Next]_vars => TypeInv'
  <2> SUFFICES ASSUME TypeInv, [Next]_vars PROVE TypeInv'
    OBVIOUS
  <2> TypeOK /\ CurrentIsProfile
    BY DEF TypeInv
  <2>1. ASSUME NEW g \in Gen, LoopHead(g) PROVE TypeInv'
    BY <2>1 DEF TypeInv, TypeOK, CurrentIsProfile, LoopHead
  <2>2. ASSUME NEW g \in Gen, TakeReadyProfiles(g) PROVE TypeInv'
    BY <2>2 DEF TypeInv, TypeOK, CurrentIsProfile, TakeReadyProfiles
  <2>3. ASSUME NEW g \in Gen, NEW p \in Profiles, ClaimProfile(g, p) PROVE TypeInv'
    BY <2>3 DEF TypeInv, TypeOK, CurrentIsProfile, ClaimProfile
  <2>4. ASSUME NEW g \in Gen, BatchDone(g) PROVE TypeInv'
    <3>1. 1 \in Nat \ {0}
      OBVIOUS
    <3>2. kindPos' \in [Gen -> Nat \ {0}]
      BY <2>4, <3>1 DEF TypeOK, BatchDone
    <3>3. loop' \in [Gen -> LoopState] /\ CurrentIsProfile'
      BY <2>4 DEF TypeOK, BatchDone, CurrentIsProfile
    <3> QED
      BY <2>4, <3>2, <3>3 DEF TypeInv, TypeOK, BatchDone
  <2>5. ASSUME NEW g \in Gen, LoadProfile(g) PROVE TypeInv'
    BY <2>5 DEF TypeInv, TypeOK, CurrentIsProfile, LoadProfile
  <2>6. ASSUME NEW g \in Gen, SkipProfile(g) PROVE TypeInv'
    BY <2>6 DEF TypeInv, TypeOK, CurrentIsProfile, SkipProfile
  <2>7. ASSUME NEW g \in Gen, NEW saves \in BOOLEAN, EndSync(g, saves) PROVE TypeInv'
    BY <2>7 DEF TypeInv, TypeOK, CurrentIsProfile, EndSync, AbsentProfile, ProfileRecord
  <2>8. ASSUME NEW g \in Gen, CleanupAfterProfile(g) PROVE TypeInv'
    BY <2>8 DEF TypeInv, TypeOK, CurrentIsProfile, CleanupAfterProfile
  <2>9. ASSUME NEW g \in Gen, NEW configured \in BOOLEAN, DrainKind(g, configured) PROVE TypeInv'
    <3>1. kindPos[g] \in Nat /\ kindPos[g] + 1 \in Nat \ {0}
      BY DEF TypeOK
    <3>2. kindPos' \in [Gen -> Nat \ {0}]
      BY <2>9, <3>1 DEF TypeOK, DrainKind
    <3>3. pendingEntities' \in [Gen -> SUBSET Entities]
      BY <2>9 DEF TypeOK, DrainKind
    <3>4. OfCurrentKind(g) \in SUBSET Entities
      BY DEF TypeOK, OfCurrentKind
    <3>5. entityBatch' \in [Gen -> SUBSET Entities]
      BY <2>9, <3>4 DEF TypeOK, DrainKind
    <3>6. loop' \in [Gen -> LoopState] /\ CurrentIsProfile'
      BY <2>9 DEF TypeOK, DrainKind, CurrentIsProfile
    <3> QED
      BY <2>9, <3>2, <3>3, <3>5, <3>6 DEF TypeInv, TypeOK, DrainKind
  <2>10. ASSUME NEW g \in Gen, KindsDone(g) PROVE TypeInv'
    BY <2>10 DEF TypeInv, TypeOK, CurrentIsProfile, KindsDone
  <2>11. ASSUME NEW g \in Gen, NEW e \in Entities, NEW r \in EntityState, SyncEntity(g, e, r) PROVE TypeInv'
    BY <2>11 DEF TypeInv, TypeOK, CurrentIsProfile, SyncEntity
  <2>12. ASSUME NEW g \in Gen, KindDone(g) PROVE TypeInv'
    <3>1. kindPos[g] \in Nat /\ kindPos[g] + 1 \in Nat \ {0}
      BY DEF TypeOK
    <3>2. kindPos' \in [Gen -> Nat \ {0}]
      BY <2>12, <3>1 DEF TypeOK, KindDone
    <3>3. loop' \in [Gen -> LoopState] /\ CurrentIsProfile'
      BY <2>12 DEF TypeOK, KindDone, CurrentIsProfile
    <3> QED
      BY <2>12, <3>2, <3>3 DEF TypeInv, TypeOK, KindDone
  <2>13. ASSUME NEW g \in Gen, CleanupAfterKind(g) PROVE TypeInv'
    <3>1. kindPos[g] \in Nat /\ kindPos[g] + 1 \in Nat \ {0}
      BY DEF TypeOK
    <3> QED
      BY <2>13, <3>1 DEF TypeInv, TypeOK, CurrentIsProfile, CleanupAfterKind
  <2>14. ASSUME NEW g \in Gen, ProcessTombstones(g) PROVE TypeInv'
    BY <2>14 DEF TypeInv, TypeOK, CurrentIsProfile, ProcessTombstones, ProfileRecord, EntityState, WithMode
  <2>15. ASSUME NEW g \in Gen, ReceiveWork(g) PROVE TypeInv'
    <3>1. Head(channel[g]) \in SseItems /\ Tail(channel[g]) \in Seq(SseItems)
      BY <2>15 DEF TypeOK, ReceiveWork
    <3>2. /\ channel' \in [Gen -> Seq(SseItems)]
          /\ pending' \in [Gen -> SUBSET Profiles]
          /\ owed' \in [Gen -> SUBSET Profiles]
          /\ pendingEntities' \in [Gen -> SUBSET Entities]
          /\ tombstones' \in [Gen -> SUBSET (Profiles \cup Entities)]
      <4>1. CASE Head(channel[g]).type = "profile"
        <5>1. Head(channel[g]).id \in Profiles
          BY <3>1, <4>1
        <5>2. /\ pending' = [pending EXCEPT ![g] = pending[g] \cup {Head(channel[g]).id}]
              /\ owed' = [owed EXCEPT ![g] = owed[g] \cup {Head(channel[g]).id}]
              /\ UNCHANGED <<pendingEntities, tombstones>>
              /\ channel' = [channel EXCEPT ![g] = Tail(channel[g])]
          BY <2>15, <4>1 DEF ReceiveWork, Queue, QueueProfiles
        <5> QED
          BY <3>1, <5>1, <5>2 DEF TypeOK
      <4>2. CASE Head(channel[g]).type = "entity"
        <5>1. Head(channel[g]).id \in Entities
          BY <3>1, <4>2
        <5>2. /\ pendingEntities' = [pendingEntities EXCEPT
                    ![g] = pendingEntities[g] \cup {Head(channel[g]).id}]
              /\ UNCHANGED <<pending, owed, tombstones>>
              /\ channel' = [channel EXCEPT ![g] = Tail(channel[g])]
          BY <2>15, <4>2 DEF ReceiveWork, Queue, QueueEntities
        <5> QED
          BY <3>1, <5>1, <5>2 DEF TypeOK
      <4>3. CASE Head(channel[g]).type = "tombstone"
        <5>1. Head(channel[g]).id \in Profiles \cup Entities
          BY <3>1, <4>3
        <5> QED
          BY <2>15, <3>1, <4>3, <5>1 DEF TypeOK, ReceiveWork, Queue
      <4> QED
        BY <3>1, <4>1, <4>2, <4>3
    <3> QED
      BY <2>15, <3>2 DEF TypeInv, TypeOK, CurrentIsProfile, ReceiveWork
  <2>16. ASSUME NEW g \in Gen, NEW connected \in BOOLEAN, NEW listed \in BOOLEAN,
             CreateScheduler(g, connected, listed) PROVE TypeInv'
    BY <2>16 DEF TypeInv, TypeOK, CurrentIsProfile, CreateScheduler, QueueProfiles, EnabledProfiles
  <2>17. ASSUME NEW g \in Gen, GiveUpRestart(g) PROVE TypeInv'
    BY <2>17 DEF TypeInv, TypeOK, CurrentIsProfile, GiveUpRestart
  <2>18. ASSUME NEW g \in Gen, NEW p \in Profiles, DownloadMissingProfile(g, p) PROVE TypeInv'
    BY <2>18 DEF TypeInv, TypeOK, CurrentIsProfile, DownloadMissingProfile, genVars, ProfileRecord
  <2>19. ASSUME NEW g \in Gen, NEW e \in Entities, DownloadMissingEntity(g, e) PROVE TypeInv'
    BY <2>19 DEF TypeInv, TypeOK, CurrentIsProfile, DownloadMissingEntity, genVars, EntityState
  <2>20. ASSUME NEW g \in Gen, StartScheduler(g) PROVE TypeInv'
    BY <2>20 DEF TypeInv, TypeOK, CurrentIsProfile, StartScheduler
  <2>21. ASSUME NEW t \in Tasks, SetModeSave(t) PROVE TypeInv'
    <3>1. /\ task[t].id \in Profiles
          /\ task[t].clone \in ProfileRecord
          /\ task[t].mode \in {"disabled", "enabled"}
      BY <2>21 DEF TypeOK, SetModeSave, TaskState, IdleTask
    <3>2. WithMode(task[t].clone, task[t].mode) \in ProfileRecord
      BY <3>1 DEF WithMode, ProfileRecord
    <3>3. IdleTask \in TaskState
      BY DEF TaskState
    <3>4. global # 0 => global \in Gen
      BY DEF TypeOK, Gen
    <3>5. profile' \in [Profiles -> ProfileRecord]
      BY <2>21, <3>1, <3>2 DEF TypeOK, SetModeSave
    <3>6. /\ entity' \in [Entities -> EntityState]
          /\ pending' \in [Gen -> SUBSET Profiles]
          /\ owed' \in [Gen -> SUBSET Profiles]
          /\ pendingEntities' \in [Gen -> SUBSET Entities]
      <4> DEFINE attached == {e \in Attached[task[t].id] : entity[e] # "absent"}
      <4>1. attached \subseteq Entities
        BY <3>1
      <4>2. CASE task[t].mode = "enabled" /\ global # 0
        <5>1. global \in Gen
          BY <3>4, <4>2
        <5>2. /\ pending' = [pending EXCEPT ![global] = pending[global] \cup {task[t].id}]
              /\ owed' = [owed EXCEPT ![global] = owed[global] \cup {task[t].id}]
              /\ pendingEntities' = [pendingEntities EXCEPT
                    ![global] = pendingEntities[global] \cup attached]
              /\ entity' = [e \in Entities |->
                               IF e \in attached THEN "synced" ELSE entity[e]]
          BY <2>21, <4>2 DEF SetModeSave, QueueProfiles, QueueEntities
        <5> HIDE DEF attached
        <5> QED
          BY <3>1, <4>1, <5>1, <5>2 DEF TypeOK, EntityState
      <4>3. CASE ~(task[t].mode = "enabled" /\ global # 0)
        BY <2>21, <4>3 DEF TypeOK, SetModeSave
      <4> QED
        BY <4>2, <4>3
    <3> QED
      BY <2>21, <3>3, <3>5, <3>6 DEF TypeInv, TypeOK, CurrentIsProfile, SetModeSave
  <2>22. ASSUME NEW t \in Tasks, NEW saves \in BOOLEAN, EndTriggeredSync(t, saves) PROVE TypeInv'
    <3>1. task[t].id \in Profiles /\ task[t].clone \in ProfileRecord
      BY <2>22 DEF TypeOK, EndTriggeredSync, TaskState, IdleTask
    <3>2. IdleTask \in TaskState
      BY DEF TaskState
    <3> QED
      BY <2>22, <3>1, <3>2 DEF TypeInv, TypeOK, CurrentIsProfile, EndTriggeredSync, genVars
  <2>23. ASSUME InspectInFlight PROVE TypeInv'
    BY <2>23 DEF TypeInv, TypeOK, CurrentIsProfile, InspectInFlight, genVars, CleanerState
  <2>24. ASSUME InspectPending PROVE TypeInv'
    BY <2>24 DEF TypeInv, TypeOK, CurrentIsProfile, InspectPending, genVars, CleanerState
  <2>25. ASSUME PeriodicCleanup PROVE TypeInv'
    BY <2>25 DEF TypeInv, TypeOK, CurrentIsProfile, PeriodicCleanup, genVars, CleanerState
  <2>26. ASSUME NEW g \in Gen, RestartSyncService(g) PROVE TypeInv'
    BY <2>26 DEF TypeInv, TypeOK, CurrentIsProfile, RestartSyncService
  <2>27. ASSUME NEW g \in Gen, NEW item \in SseItems, SseEvent(g, item) PROVE TypeInv'
    <3>1. channel[g] \in Seq(SseItems) /\ Append(channel[g], item) \in Seq(SseItems)
      BY DEF TypeOK
    <3> QED
      BY <2>27, <3>1 DEF TypeInv, TypeOK, CurrentIsProfile, SseEvent
  <2>28. ASSUME NEW p \in Profiles, RequestProfileSync(p) PROVE TypeInv'
    BY <2>28 DEF TypeInv, TypeOK, CurrentIsProfile, RequestProfileSync, QueueProfiles
  <2>29. ASSUME NEW e \in Entities, QueueEntitySync(e) PROVE TypeInv'
    BY <2>29 DEF TypeInv, TypeOK, CurrentIsProfile, QueueEntitySync, QueueEntities
  <2>30. ASSUME NEW p \in Profiles, BrowserLaunched(p) PROVE TypeInv'
    BY <2>30 DEF TypeInv, TypeOK, CurrentIsProfile, BrowserLaunched, genVars, ProfileRecord, WithBrowser
  <2>31. ASSUME NEW p \in Profiles, BrowserStopped(p) PROVE TypeInv'
    BY <2>31 DEF TypeInv, TypeOK, CurrentIsProfile, BrowserStopped, genVars, ProfileRecord, WithBrowser
  <2>32. ASSUME NEW p \in Profiles, DeleteProfile(p) PROVE TypeInv'
    BY <2>32 DEF TypeInv, TypeOK, CurrentIsProfile, DeleteProfile, genVars, ProfileRecord, AbsentProfile
  <2>33. ASSUME NEW t \in Tasks, NEW p \in Profiles, TriggerSync(t, p) PROVE TypeInv'
    BY <2>33 DEF TypeInv, TypeOK, CurrentIsProfile, TriggerSync, genVars, TaskState, IdleTask
  <2>34. ASSUME NEW t \in Tasks, NEW p \in Profiles, NEW m \in {"disabled", "enabled"}, SetModeRead(t, p, m) PROVE TypeInv'
    BY <2>34 DEF TypeInv, TypeOK, CurrentIsProfile, SetModeRead, genVars, TaskState, IdleTask
  <2>35. ASSUME NEW t \in Tasks, SetModeRefused(t) PROVE TypeInv'
    BY <2>35 DEF TypeInv, TypeOK, CurrentIsProfile, SetModeRefused, genVars, TaskState
  <2>36. CASE UNCHANGED vars
    BY <2>36 DEF TypeInv, TypeOK, CurrentIsProfile, vars, genVars
  <2> QED
    BY <2>1, <2>2, <2>3, <2>4, <2>5, <2>6, <2>7, <2>8, <2>9, <2>10, <2>11, <2>12, <2>13, <2>14, <2>15, <2>16, <2>17, <2>18, <2>19, <2>20, <2>21, <2>22, <2>23, <2>24, <2>25, <2>26, <2>27, <2>28, <2>29, <2>30, <2>31, <2>32, <2>33, <2>34, <2>35, <2>36
    DEF Next, LoopStep, LoopProgress, StarterStep, TaskStep, CleanerStep, Environment
<1>3. QED
  BY <1>1, <1>2, PTL DEF Spec

\* Type correctness of the scheduler, for every value of the constants.
THEOREM TypeCorrect == Spec => []TypeOK
BY TypeInvariant, PTL DEF TypeInv

\* What keeps InFlightExact and NoLostRequest going: a scheduler is started
\* once, from a state in which its loop does not exist, and a batch has been
\* worked through when the loop goes on to anything else.
StartedOnce == \A g \in Gen : starter[g] # "started" => loop[g] = "none"
BatchConsumed ==
  \A g \in Gen :
    loop[g] \notin {"claim", "load", "sync", "cleanup_profile"} => batch[g] = {}
QueueInv == StartedOnce /\ BatchConsumed /\ InFlightExact /\ NoLostRequest

LEMMA QueueInvariant == Spec => []QueueInv
<1>1. Init => QueueInv
  BY DEF Init, QueueInv, StartedOnce, BatchConsumed, InFlightExact, NoLostRequest
<1>2. TypeInv /\ QueueInv /\ [Next]_vars => QueueInv'
  <2> SUFFICES ASSUME TypeInv, QueueInv, [Next]_vars PROVE QueueInv'
    OBVIOUS
  <2> USE DEF TypeInv, TypeOK, CurrentIsProfile, QueueInv, StartedOnce,
          BatchConsumed, InFlightExact, NoLostRequest
  <2>1. ASSUME NEW g \in Gen, LoopHead(g) PROVE QueueInv'
    BY <2>1 DEF LoopHead
  <2>2. ASSUME NEW g \in Gen, TakeReadyProfiles(g) PROVE QueueInv'
    BY <2>2 DEF TakeReadyProfiles
  <2>3. ASSUME NEW g \in Gen, NEW p \in Profiles, ClaimProfile(g, p) PROVE QueueInv'
    <3>1. inFlight[g] = {}
      BY <2>3 DEF ClaimProfile
    <3>2. /\ starter' = starter /\ pending' = pending /\ owed' = owed
          /\ batch' = [batch EXCEPT ![g] = batch[g] \ {p}]
          /\ current' = [current EXCEPT ![g] = p]
          /\ inFlight' = [inFlight EXCEPT ![g] = {p}]
          /\ loop[g] = "claim" /\ loop' = [loop EXCEPT ![g] = "load"]
      BY <2>3, <3>1 DEF ClaimProfile
    <3> QED
      BY <3>2
  <2>4. ASSUME NEW g \in Gen, BatchDone(g) PROVE QueueInv'
    BY <2>4 DEF BatchDone
  <2>5. ASSUME NEW g \in Gen, LoadProfile(g) PROVE QueueInv'
    BY <2>5 DEF LoadProfile
  <2>6. ASSUME NEW g \in Gen, SkipProfile(g) PROVE QueueInv'
    <3>1. StartedOnce' /\ BatchConsumed'
      BY <2>6 DEF SkipProfile
    <3>2. InFlightExact'
      <4> SUFFICES ASSUME NEW h \in Gen
                   PROVE inFlight'[h] = IF loop'[h] \in {"load", "sync"}
                                        THEN {current'[h]} ELSE {}
        OBVIOUS
      <4>1. CASE h = g
        BY <2>6, <4>1 DEF SkipProfile
      <4>2. CASE h # g
        BY <2>6, <4>2 DEF SkipProfile
      <4> QED
        BY <4>1, <4>2
    <3>3. NoLostRequest'
      <4> SUFFICES ASSUME NEW h \in Gen
                   PROVE owed'[h] \subseteq pending'[h] \cup batch'[h]
                           \cup (IF loop'[h] = "load" THEN {current'[h]} ELSE {})
        OBVIOUS
      <4>1. CASE h = g
        BY <2>6, <4>1 DEF SkipProfile
      <4>2. CASE h # g
        BY <2>6, <4>2 DEF SkipProfile
      <4> QED
        BY <4>1, <4>2
    <3> QED
      BY <3>1, <3>2, <3>3
  <2>7. ASSUME NEW g \in Gen, NEW saves \in BOOLEAN, EndSync(g, saves) PROVE QueueInv'
    <3>1. StartedOnce' /\ BatchConsumed'
      BY <2>7 DEF EndSync
    <3>2. InFlightExact'
      <4> SUFFICES ASSUME NEW h \in Gen
                   PROVE inFlight'[h] = IF loop'[h] \in {"load", "sync"}
                                        THEN {current'[h]} ELSE {}
        OBVIOUS
      <4>1. CASE h = g
        BY <2>7, <4>1 DEF EndSync
      <4>2. CASE h # g
        BY <2>7, <4>2 DEF EndSync
      <4> QED
        BY <4>1, <4>2
    <3>3. NoLostRequest'
      <4> SUFFICES ASSUME NEW h \in Gen
                   PROVE owed'[h] \subseteq pending'[h] \cup batch'[h]
                           \cup (IF loop'[h] = "load" THEN {current'[h]} ELSE {})
        OBVIOUS
      <4>1. CASE h = g
        BY <2>7, <4>1 DEF EndSync
      <4>2. CASE h # g
        BY <2>7, <4>2 DEF EndSync
      <4> QED
        BY <4>1, <4>2
    <3> QED
      BY <3>1, <3>2, <3>3
  <2>8. ASSUME NEW g \in Gen, CleanupAfterProfile(g) PROVE QueueInv'
    BY <2>8 DEF CleanupAfterProfile
  <2>9. ASSUME NEW g \in Gen, NEW configured \in BOOLEAN, DrainKind(g, configured) PROVE QueueInv'
    <3>1. /\ loop[g] = "drain"
          /\ loop' \in {loop, [loop EXCEPT ![g] = "entities"]}
          /\ UNCHANGED <<starter, batch, current, inFlight, pending, owed>>
      BY <2>9 DEF DrainKind
    <3> QED
      BY <3>1
  <2>10. ASSUME NEW g \in Gen, KindsDone(g) PROVE QueueInv'
    BY <2>10 DEF KindsDone
  <2>11. ASSUME NEW g \in Gen, NEW e \in Entities, NEW r \in EntityState, SyncEntity(g, e, r) PROVE QueueInv'
    BY <2>11 DEF SyncEntity
  <2>12. ASSUME NEW g \in Gen, KindDone(g) PROVE QueueInv'
    <3>1. /\ loop[g] = "entities"
          /\ loop' \in {loop, [loop EXCEPT ![g] = "drain"], [loop EXCEPT ![g] = "cleanup_kind"]}
          /\ UNCHANGED <<starter, batch, current, inFlight, pending, owed>>
      BY <2>12 DEF KindDone
    <3> QED
      BY <3>1
  <2>13. ASSUME NEW g \in Gen, CleanupAfterKind(g) PROVE QueueInv'
    BY <2>13 DEF CleanupAfterKind
  <2>14. ASSUME NEW g \in Gen, ProcessTombstones(g) PROVE QueueInv'
    BY <2>14 DEF ProcessTombstones
  <2>15. ASSUME NEW g \in Gen, ReceiveWork(g) PROVE QueueInv'
    BY <2>15 DEF ReceiveWork, Queue, QueueProfiles, QueueEntities
  <2>16. ASSUME NEW g \in Gen, NEW connected \in BOOLEAN, NEW listed \in BOOLEAN,
             CreateScheduler(g, connected, listed) PROVE QueueInv'
    BY <2>16 DEF CreateScheduler, QueueProfiles, EnabledProfiles
  <2>17. ASSUME NEW g \in Gen, GiveUpRestart(g) PROVE QueueInv'
    BY <2>17 DEF GiveUpRestart
  <2>18. ASSUME NEW g \in Gen, NEW p \in Profiles, DownloadMissingProfile(g, p) PROVE QueueInv'
    BY <2>18 DEF DownloadMissingProfile, genVars
  <2>19. ASSUME NEW g \in Gen, NEW e \in Entities, DownloadMissingEntity(g, e) PROVE QueueInv'
    BY <2>19 DEF DownloadMissingEntity, genVars
  <2>20. ASSUME NEW g \in Gen, StartScheduler(g) PROVE QueueInv'
    BY <2>20 DEF StartScheduler
  <2>21. ASSUME NEW t \in Tasks, SetModeSave(t) PROVE QueueInv'
    <3>1. task[t].id \in Profiles
      BY <2>21 DEF SetModeSave, TaskState, IdleTask
    <3>2. UNCHANGED <<starter, loop, batch, current, inFlight>>
      BY <2>21 DEF SetModeSave
    <3>3. \/ UNCHANGED <<pending, owed>>
          \/ /\ global \in Gen
             /\ pending' = [pending EXCEPT ![global] = pending[global] \cup {task[t].id}]
             /\ owed' = [owed EXCEPT ![global] = owed[global] \cup {task[t].id}]
      BY <2>21 DEF SetModeSave, QueueProfiles, Gen
    <3>4. StartedOnce' /\ BatchConsumed' /\ InFlightExact'
      BY <3>2
    <3>5. CASE UNCHANGED <<pending, owed>>
      BY <3>2, <3>4, <3>5
    <3>6. CASE ~UNCHANGED <<pending, owed>>
      <4>1. PICK q \in Profiles :
                /\ global \in Gen
                /\ pending' = [pending EXCEPT ![global] = pending[global] \cup {q}]
                /\ owed' = [owed EXCEPT ![global] = owed[global] \cup {q}]
        BY <3>1, <3>3, <3>6
      <4>2. ASSUME NEW h \in Gen
            PROVE owed'[h] \subseteq pending'[h] \cup batch'[h]
                    \cup (IF loop'[h] = "load" THEN {current'[h]} ELSE {})
        BY <3>2, <4>1
      <4>3. NoLostRequest'
        BY <4>2
      <4> QED
        BY <3>4, <4>3
    <3> QED
      BY <3>5, <3>6
  <2>22. ASSUME NEW t \in Tasks, NEW saves \in BOOLEAN, EndTriggeredSync(t, saves) PROVE QueueInv'
    BY <2>22 DEF EndTriggeredSync, genVars
  <2>23. ASSUME InspectInFlight PROVE QueueInv'
    BY <2>23 DEF InspectInFlight, genVars
  <2>24. ASSUME InspectPending PROVE QueueInv'
    BY <2>24 DEF InspectPending, genVars
  <2>25. ASSUME PeriodicCleanup PROVE QueueInv'
    BY <2>25 DEF PeriodicCleanup, genVars
  <2>26. ASSUME NEW g \in Gen, RestartSyncService(g) PROVE QueueInv'
    BY <2>26 DEF RestartSyncService
  <2>27. ASSUME NEW g \in Gen, NEW item \in SseItems, SseEvent(g, item) PROVE QueueInv'
    BY <2>27 DEF SseEvent
  <2>28. ASSUME NEW p \in Profiles, RequestProfileSync(p) PROVE QueueInv'
    BY <2>28 DEF RequestProfileSync, QueueProfiles
  <2>29. ASSUME NEW e \in Entities, QueueEntitySync(e) PROVE QueueInv'
    BY <2>29 DEF QueueEntitySync, QueueEntities
  <2>30. ASSUME NEW p \in Profiles, BrowserLaunched(p) PROVE QueueInv'
    BY <2>30 DEF BrowserLaunched, genVars
  <2>31. ASSUME NEW p \in Profiles, BrowserStopped(p) PROVE QueueInv'
    BY <2>31 DEF BrowserStopped, genVars
  <2>32. ASSUME NEW p \in Profiles, DeleteProfile(p) PROVE QueueInv'
    BY <2>32 DEF DeleteProfile, genVars
  <2>33. ASSUME NEW t \in Tasks, NEW p \in Profiles, TriggerSync(t, p) PROVE QueueInv'
    BY <2>33 DEF TriggerSync, genVars
  <2>34. ASSUME NEW t \in Tasks, NEW p \in Profiles, NEW m \in {"disabled", "enabled"}, SetModeRead(t, p, m) PROVE QueueInv'
    BY <2>34 DEF SetModeRead, genVars
  <2>35. ASSUME NEW t \in Tasks, SetModeRefused(t) PROVE QueueInv'
    BY <2>35 DEF SetModeRefused, genVars
  <2>36. CASE UNCHANGED vars
    BY <2>36 DEF vars, genVars
  <2> HIDE DEF TypeInv, TypeOK, CurrentIsProfile, QueueInv, StartedOnce,
           BatchConsumed, InFlightExact, NoLostRequest
  <2> QED
    BY <2>1, <2>2, <2>3, <2>4, <2>5, <2>6, <2>7, <2>8, <2>9, <2>10, <2>11, <2>12, <2>13, <2>14, <2>15, <2>16, <2>17, <2>18, <2>19, <2>20, <2>21, <2>22, <2>23, <2>24, <2>25, <2>26, <2>27, <2>28, <2>29, <2>30, <2>31, <2>32, <2>33, <2>34, <2>35, <2>36
    DEF Next, LoopStep, LoopProgress, StarterStep, TaskStep, CleanerStep, Environment
<1>3. QED
  BY <1>1, <1>2, TypeInvariant, PTL DEF Spec

\* process_pending_profiles never leaks an id into in_flight_profiles, nor
\* releases one early.
THEOREM InFlightExactAlways == Spec => []InFlightExact
BY QueueInvariant, PTL DEF QueueInv

\* No request to sync a profile is ever dropped before the profile is read.
THEOREM NoLostRequestAlways == Spec => []NoLostRequest
BY QueueInvariant, PTL DEF QueueInv
=============================================================================
