---------------------------- MODULE SyncScheduler ----------------------------
(***************************************************************************)
(* The desktop application's sync scheduler (src-tauri/src/sync/           *)
(* scheduler.rs), the start-up and restart tasks that create it (lib.rs,   *)
(* cloud_auth.rs), the Tauri commands that feed it or go round it          *)
(* (sync/engine.rs) and the periodic clean-up of browser binaries that     *)
(* asks it whether a sync is in progress (lib.rs).                         *)
(*                                                                         *)
(* Every scheduler object ever created is a generation g.  Generation 1 is *)
(* created at start-up, the others by restart_sync_service; a restart only *)
(* clears the old generation's `running' flag, so several generations can  *)
(* be at work at once, each with pending sets and an in-flight set of its  *)
(* own.  Tokio runs tasks on several threads: a step of this module is one *)
(* lock scope or one call between two awaits, never a whole function.      *)
(*                                                                         *)
(* The map keys pending_proxies, pending_groups, pending_vpns, ... are one *)
(* set here, partitioned by KindOf; process_pending drains the kinds in    *)
(* KindOrder.  What a profile sync transfers is the subject of             *)
(* ProfileSync; here it is the interval between reading the profile from   *)
(* disk and writing the clone back.                                        *)
(***************************************************************************)
EXTENDS Naturals, Sequences

CONSTANTS
  Profiles,     \* profile ids
  Entities,     \* ids of proxies, groups, VPNs, extensions, extension groups
  KindOf,       \* the kind of each entity
  KindOrder,    \* the order in which process_pending visits the kinds
  Attached,     \* the proxy, group and VPN each profile refers to
  Tasks,        \* concurrent invocations of Tauri commands
  MaxGen,       \* bound: schedulers created by start-up and restarts
  MaxChannel,   \* bound: work items waiting in one subscription's channel
  SseItems,     \* work items the subscription can send
  NoProfile

Gen == 1 .. MaxGen
Kinds == {KindOrder[i] : i \in DOMAIN KindOrder}

ASSUME ConstantsAssumption ==
  /\ MaxGen \in Nat \ {0}
  /\ MaxChannel \in Nat
  /\ NoProfile \notin Profiles
  /\ KindOrder \in Seq(STRING)
  /\ KindOf \in [Entities -> Kinds]
  /\ Attached \in [Profiles -> SUBSET Entities]
  /\ SseItems \subseteq
       [type : {"profile"}, id : Profiles]
       \cup [type : {"entity"}, id : Entities]
       \cup [type : {"tombstone"}, id : Profiles \cup Entities]

VARIABLES
  \* ---- shared
  global,          \* GLOBAL_SCHEDULER: its generation, 0 for None
  profile,         \* metadata.json of each profile
  entity,          \* the stored entities
  \* ---- per generation
  starter,         \* the task that creates and starts the scheduler
  subscribed,      \* its SSE subscription is connected
  channel,         \* work_tx / work_rx
  running,         \* SyncScheduler::running
  loop,            \* where the task spawned by start() is
  kindPos,         \* index into KindOrder while draining entities
  pending,         \* pending_profiles
  batch,           \* profiles_to_sync, taken out of pending_profiles
  current,         \* profile_id of the loop body
  snapshot,        \* the clone of the profile being synced
  inFlight,        \* in_flight_profiles
  pendingEntities, \* pending_proxies, pending_groups, ...
  entityBatch,     \* the drained list being worked through
  tombstones,      \* pending_tombstones
  \* ---- commands and the periodic clean-up
  task,            \* Tauri commands in progress
  cleaner,         \* the 12-hourly clean-up task
  \* ---- history
  owed             \* profiles requested and not looked at since

genVars == <<starter, subscribed, channel, running, loop, kindPos, pending,
             batch, current, snapshot, inFlight, pendingEntities,
             entityBatch, tombstones, owed>>
vars == <<global, profile, entity, genVars, task, cleaner>>

-----------------------------------------------------------------------------
(* The stored records, reduced to the fields the scheduler looks at.       *)

\* BrowserProfile: sync_mode ("absent": no metadata.json) and process_id.
ProfileRecord == [mode : {"absent", "disabled", "enabled"}, browser : BOOLEAN]
AbsentProfile == [mode |-> "absent", browser |-> FALSE]
WithMode(r, m) == [mode |-> m, browser |-> r.browser]
WithBrowser(r, b) == [mode |-> r.mode, browser |-> b]
\* A stored proxy, group, ...: missing, sync_enabled = false or true.
EntityState == {"absent", "local", "synced"}

SyncEnabled(p) == profile[p].mode = "enabled"
EnabledProfiles == {p \in Profiles : SyncEnabled(p)}

IdleTask == [op |-> "idle"]
TaskState ==
  {IdleTask}
  \cup [op : {"set_mode"}, id : Profiles, mode : {"disabled", "enabled"},
        clone : ProfileRecord]
  \cup [op : {"sync_profile"}, id : Profiles, clone : ProfileRecord]
CleanerState == [at : {"idle", "pending", "clean"}, gen : 0 .. MaxGen]

LoopState == {"none", "head", "select", "claim", "load", "sync",
              "cleanup_profile", "drain", "entities", "cleanup_kind",
              "tombstones", "exited"}

TypeOK ==
  /\ global \in 0 .. MaxGen
  /\ profile \in [Profiles -> ProfileRecord]
  /\ entity \in [Entities -> EntityState]
  /\ starter \in [Gen -> {"unused", "subscribing", "checking", "started", "failed"}]
  /\ subscribed \in [Gen -> BOOLEAN]
  /\ channel \in [Gen -> Seq(SseItems)]
  /\ running \in [Gen -> BOOLEAN]
  /\ loop \in [Gen -> LoopState]
  /\ kindPos \in [Gen -> Nat \ {0}]
  /\ pending \in [Gen -> SUBSET Profiles]
  /\ batch \in [Gen -> SUBSET Profiles]
  /\ current \in [Gen -> Profiles \cup {NoProfile}]
  /\ snapshot \in [Gen -> ProfileRecord]
  /\ inFlight \in [Gen -> SUBSET Profiles]
  /\ pendingEntities \in [Gen -> SUBSET Entities]
  /\ entityBatch \in [Gen -> SUBSET Entities]
  /\ tombstones \in [Gen -> SUBSET (Profiles \cup Entities)]
  /\ task \in [Tasks -> TaskState]
  /\ cleaner \in CleanerState
  /\ owed \in [Gen -> SUBSET Profiles]

Init ==
  /\ global = 0
  /\ profile \in [Profiles -> {r \in ProfileRecord :
                                 r.mode = "absent" => ~r.browser}]
  /\ entity \in [Entities -> EntityState]
  /\ starter = [g \in Gen |-> IF g = 1 THEN "subscribing" ELSE "unused"]
  /\ subscribed = [g \in Gen |-> FALSE]
  /\ channel = [g \in Gen |-> <<>>]
  /\ running = [g \in Gen |-> FALSE]
  /\ loop = [g \in Gen |-> "none"]
  /\ kindPos = [g \in Gen |-> 1]
  /\ pending = [g \in Gen |-> {}]
  /\ batch = [g \in Gen |-> {}]
  /\ current = [g \in Gen |-> NoProfile]
  /\ snapshot = [g \in Gen |-> AbsentProfile]
  /\ inFlight = [g \in Gen |-> {}]
  /\ pendingEntities = [g \in Gen |-> {}]
  /\ entityBatch = [g \in Gen |-> {}]
  /\ tombstones = [g \in Gen |-> {}]
  /\ task = [t \in Tasks |-> IdleTask]
  /\ cleaner = [at |-> "idle", gen |-> 0]
  /\ owed = [g \in Gen |-> {}]

-----------------------------------------------------------------------------
(* Queueing.  queue_profile_sync_internal computes whether the profile's   *)
(* browser is running, and both of its branches insert the same `queued'   *)
(* entry: the answer has no effect on what process_pending does with it.   *)

\* Mutant: a profile that is being synced is not queued again.
QueueProfilesNotInFlight(g, ps) ==
  /\ pending' = [pending EXCEPT ![g] = @ \cup (ps \ inFlight[g])]
  /\ owed' = [owed EXCEPT ![g] = @ \cup ps]

QueueProfiles(g, ps) ==
  /\ pending' = [pending EXCEPT ![g] = @ \cup ps]
  /\ owed' = [owed EXCEPT ![g] = @ \cup ps]

QueueEntities(g, es) ==
  pendingEntities' = [pendingEntities EXCEPT ![g] = @ \cup es]

\* The match on SyncWorkItem in the loop of start().
Queue(g, item) ==
  \/ /\ item.type = "profile"
     /\ QueueProfiles(g, {item.id})
     /\ UNCHANGED <<pendingEntities, tombstones>>
  \/ /\ item.type = "entity"
     /\ QueueEntities(g, {item.id})
     /\ UNCHANGED <<pending, owed, tombstones>>
  \/ /\ item.type = "tombstone"
     /\ tombstones' = [tombstones EXCEPT ![g] = @ \cup {item.id}]
     /\ UNCHANGED <<pending, owed, pendingEntities>>

-----------------------------------------------------------------------------
(* Creating a scheduler: the spawned blocks of lib.rs and of               *)
(* restart_sync_service.                                                   *)

\* SubscriptionManager::start returned: the scheduler becomes the global one
\* and every sync-enabled profile is queued, none when list_profiles fails
\* because it meets a metadata.json that save_profile has truncated and not
\* yet written.  With sync not configured the manager starts no subscription
\* and returns Ok.
CreateScheduler(g, connected, listed) ==
  /\ starter[g] = "subscribing"
  /\ starter' = [starter EXCEPT ![g] = "checking"]
  /\ subscribed' = [subscribed EXCEPT ![g] = connected]
  /\ global' = g
  /\ QueueProfiles(g, IF listed THEN EnabledProfiles ELSE {})
  /\ UNCHANGED <<profile, entity, channel, running, loop, kindPos, batch,
                 current, snapshot, inFlight, pendingEntities, entityBatch,
                 tombstones, task, cleaner>>

\* SubscriptionManager::start failed: a restart gives up, while start-up goes
\* on as if the subscription had been left out.
GiveUpRestart(g) ==
  /\ starter[g] = "subscribing"
  /\ g # 1
  /\ starter' = [starter EXCEPT ![g] = "failed"]
  /\ UNCHANGED <<global, profile, entity, subscribed, channel, running, loop,
                 kindPos, pending, batch, current, snapshot, inFlight,
                 pendingEntities, entityBatch, tombstones, task, cleaner, owed>>

\* check_for_missing_synced_profiles downloads a profile that exists remotely
\* and not locally; it is saved with sync on, and is not marked in flight.
DownloadMissingProfile(g, p) ==
  /\ starter[g] = "checking"
  /\ profile[p].mode = "absent"
  /\ profile' = [profile EXCEPT ![p] = [mode |-> "enabled", browser |-> FALSE]]
  /\ UNCHANGED <<global, entity, genVars, task, cleaner>>

\* check_for_missing_synced_entities, likewise.
DownloadMissingEntity(g, e) ==
  /\ starter[g] = "checking"
  /\ entity[e] = "absent"
  /\ entity' = [entity EXCEPT ![e] = "synced"]
  /\ UNCHANGED <<global, profile, genVars, task, cleaner>>

\* SyncScheduler::start.
StartScheduler(g) ==
  /\ starter[g] = "checking"
  /\ starter' = [starter EXCEPT ![g] = "started"]
  /\ running' = [running EXCEPT ![g] = TRUE]
  /\ loop' = [loop EXCEPT ![g] = "head"]
  /\ UNCHANGED <<global, profile, entity, subscribed, channel, kindPos,
                 pending, batch, current, snapshot, inFlight, pendingEntities,
                 entityBatch, tombstones, task, cleaner, owed>>

\* restart_sync_service: stop() on the global scheduler, then spawn the task.
RestartSyncService(g) ==
  /\ starter[g] = "unused"
  /\ \A h \in 1 .. (g - 1) : starter[h] # "unused"
  /\ starter' = [starter EXCEPT ![g] = "subscribing"]
  /\ running' = IF global = 0 THEN running
                ELSE [running EXCEPT ![global] = FALSE]
  /\ UNCHANGED <<global, profile, entity, subscribed, channel, loop, kindPos,
                 pending, batch, current, snapshot, inFlight, pendingEntities,
                 entityBatch, tombstones, task, cleaner, owed>>

\* An event of the SSE stream is turned into a work item.  Nothing ever stops
\* the subscription of an old generation; once the loop has ended the
\* receiver is dropped and the send fails silently.
SseEvent(g, item) ==
  /\ subscribed[g]
  /\ loop[g] # "exited"
  /\ Len(channel[g]) < MaxChannel
  /\ channel' = [channel EXCEPT ![g] = Append(@, item)]
  /\ UNCHANGED <<global, profile, entity, starter, subscribed, running, loop,
                 kindPos, pending, batch, current, snapshot, inFlight,
                 pendingEntities, entityBatch, tombstones, task, cleaner, owed>>

-----------------------------------------------------------------------------
(* The loop spawned by start().                                            *)

\* `while running': the flag is read only here.
LoopHead(g) ==
  /\ loop[g] = "head"
  /\ loop' = [loop EXCEPT ![g] = IF running[g] THEN "select" ELSE "exited"]
  /\ UNCHANGED <<global, profile, entity, starter, subscribed, channel,
                 running, kindPos, pending, batch, current, snapshot,
                 inFlight, pendingEntities, entityBatch, tombstones, task,
                 cleaner, owed>>

\* The recv() branch of select!.
ReceiveWork(g) ==
  /\ loop[g] = "select"
  /\ channel[g] # <<>>
  /\ Queue(g, Head(channel[g]))
  /\ channel' = [channel EXCEPT ![g] = Tail(@)]
  /\ loop' = [loop EXCEPT ![g] = "head"]
  /\ UNCHANGED <<global, profile, entity, starter, subscribed, running,
                 kindPos, batch, current, snapshot, inFlight, entityBatch,
                 task, cleaner>>

\* The sleep branch: process_pending_profiles takes the ready ids out of
\* pending_profiles in one scope that holds all three locks.  Nothing ever
\* inserts into running_profiles, so that filter lets everything through.
TakeReadyProfiles(g) ==
  /\ loop[g] = "select"
  /\ batch' = [batch EXCEPT ![g] = pending[g] \ inFlight[g]]
  /\ pending' = [pending EXCEPT ![g] = @ \cap inFlight[g]]
  /\ loop' = [loop EXCEPT ![g] = "claim"]
  /\ UNCHANGED <<global, profile, entity, starter, subscribed, channel,
                 running, kindPos, current, snapshot, inFlight,
                 pendingEntities, entityBatch, tombstones, task, cleaner, owed>>

\* Mark the next id of the batch in flight.
ClaimProfile(g, p) ==
  /\ loop[g] = "claim"
  /\ p \in batch[g]
  /\ p \notin inFlight[g]
  /\ batch' = [batch EXCEPT ![g] = @ \ {p}]
  /\ current' = [current EXCEPT ![g] = p]
  /\ inFlight' = [inFlight EXCEPT ![g] = @ \cup {p}]
  /\ loop' = [loop EXCEPT ![g] = "load"]
  /\ UNCHANGED <<global, profile, entity, starter, subscribed, channel,
                 running, kindPos, pending, snapshot, pendingEntities,
                 entityBatch, tombstones, task, cleaner, owed>>

\* Mutant: the first kind has index 0.
BatchDoneFromZero(g) ==
  /\ loop[g] = "claim"
  /\ batch[g] = {}
  /\ loop' = [loop EXCEPT ![g] = "drain"]
  /\ kindPos' = [kindPos EXCEPT ![g] = 0]
  /\ UNCHANGED <<global, profile, entity, starter, subscribed, channel,
                 running, pending, batch, current, snapshot, inFlight,
                 pendingEntities, entityBatch, tombstones, task, cleaner, owed>>

\* Mutant: the first kind is skipped.
BatchDoneFromTwo(g) ==
  /\ loop[g] = "claim"
  /\ batch[g] = {}
  /\ loop' = [loop EXCEPT ![g] = "drain"]
  /\ kindPos' = [kindPos EXCEPT ![g] = 2]
  /\ UNCHANGED <<global, profile, entity, starter, subscribed, channel,
                 running, pending, batch, current, snapshot, inFlight,
                 pendingEntities, entityBatch, tombstones, task, cleaner, owed>>

\* The batch is done: go on with the entity kinds.
BatchDone(g) ==
  /\ loop[g] = "claim"
  /\ batch[g] = {}
  /\ loop' = [loop EXCEPT ![g] = "drain"]
  /\ kindPos' = [kindPos EXCEPT ![g] = 1]
  /\ UNCHANGED <<global, profile, entity, starter, subscribed, channel,
                 running, pending, batch, current, snapshot, inFlight,
                 pendingEntities, entityBatch, tombstones, task, cleaner, owed>>

\* Read the profile from disk; start syncing the clone just read.
LoadProfile(g) ==
  /\ loop[g] = "load"
  /\ SyncEnabled(current[g])
  /\ snapshot' = [snapshot EXCEPT ![g] = profile[current[g]]]
  /\ loop' = [loop EXCEPT ![g] = "sync"]
  /\ owed' = [owed EXCEPT ![g] = @ \ {current[g]}]
  /\ UNCHANGED <<global, profile, entity, starter, subscribed, channel,
                 running, kindPos, pending, batch, current, inFlight,
                 pendingEntities, entityBatch, tombstones, task, cleaner>>

\* Mutant: an early `continue' without the removal.
SkipProfileInFlight(g) ==
  /\ loop[g] = "load"
  /\ UNCHANGED inFlight
  /\ current' = [current EXCEPT ![g] = NoProfile]
  /\ loop' = [loop EXCEPT ![g] = "claim"]
  /\ owed' = [owed EXCEPT ![g] = @ \ {current[g]}]
  /\ UNCHANGED <<global, profile, entity, starter, subscribed, channel,
                 running, kindPos, pending, batch, snapshot, pendingEntities,
                 entityBatch, tombstones, task, cleaner>>

\* The profile is gone, its sync is off, or list_profiles failed because of a
\* half-written metadata.json.
SkipProfile(g) ==
  /\ loop[g] = "load"
  /\ inFlight' = [inFlight EXCEPT ![g] = @ \ {current[g]}]
  /\ current' = [current EXCEPT ![g] = NoProfile]
  /\ loop' = [loop EXCEPT ![g] = "claim"]
  /\ owed' = [owed EXCEPT ![g] = @ \ {current[g]}]
  /\ UNCHANGED <<global, profile, entity, starter, subscribed, channel,
                 running, kindPos, pending, batch, snapshot, pendingEntities,
                 entityBatch, tombstones, task, cleaner>>

\* sync_just_completed, computed while in_flight_profiles is locked.
SyncJustCompleted(g) ==
  /\ inFlight[g] \ {current[g]} = {}
  /\ pending[g] = {}
  /\ pendingEntities[g] = {}

\* sync_profile ended.  When it transferred anything it has saved the clone
\* read at its start (with a new last_sync) over the profile on disk; an
\* error and a profile already in sync save nothing.
EndSync(g, saves) ==
  /\ loop[g] = "sync"
  /\ profile' = IF saves THEN [profile EXCEPT ![current[g]] = snapshot[g]]
                ELSE profile
  /\ inFlight' = [inFlight EXCEPT ![g] = @ \ {current[g]}]
  /\ current' = [current EXCEPT ![g] = NoProfile]
  /\ snapshot' = [snapshot EXCEPT ![g] = AbsentProfile]
  /\ loop' = [loop EXCEPT ![g] =
                IF SyncJustCompleted(g) THEN "cleanup_profile" ELSE "claim"]
  /\ UNCHANGED <<global, entity, starter, subscribed, channel, running,
                 kindPos, pending, batch, pendingEntities, entityBatch,
                 tombstones, task, cleaner, owed>>

\* cleanup_unused_binaries after the last profile.
CleanupAfterProfile(g) ==
  /\ loop[g] = "cleanup_profile"
  /\ loop' = [loop EXCEPT ![g] = "claim"]
  /\ UNCHANGED <<global, profile, entity, starter, subscribed, channel,
                 running, kindPos, pending, batch, current, snapshot,
                 inFlight, pendingEntities, entityBatch, tombstones, task,
                 cleaner, owed>>

-----------------------------------------------------------------------------
(* process_pending_proxies, _groups, _vpns, _extensions and                *)
(* _extension_groups: one shape, visited in KindOrder.                     *)

OfCurrentKind(g) ==
  {e \in pendingEntities[g] : KindOf[e] = KindOrder[kindPos[g]]}

\* Drain the kind's set; create_from_settings decides whether the drained
\* ids are worked through or dropped.
DrainKind(g, configured) ==
  /\ loop[g] = "drain"
  /\ kindPos[g] <= Len(KindOrder)
  /\ pendingEntities' = [pendingEntities EXCEPT ![g] = @ \ OfCurrentKind(g)]
  /\ IF configured /\ OfCurrentKind(g) # {}
     THEN /\ entityBatch' = [entityBatch EXCEPT ![g] = OfCurrentKind(g)]
          /\ loop' = [loop EXCEPT ![g] = "entities"]
          /\ UNCHANGED kindPos
     ELSE /\ kindPos' = [kindPos EXCEPT ![g] = @ + 1]
          /\ UNCHANGED <<entityBatch, loop>>
  /\ UNCHANGED <<global, profile, entity, starter, subscribed, channel,
                 running, pending, batch, current, snapshot, inFlight,
                 tombstones, task, cleaner, owed>>

KindsDone(g) ==
  /\ loop[g] = "drain"
  /\ kindPos[g] > Len(KindOrder)
  /\ loop' = [loop EXCEPT ![g] = "tombstones"]
  /\ UNCHANGED <<global, profile, entity, starter, subscribed, channel,
                 running, kindPos, pending, batch, current, snapshot,
                 inFlight, pendingEntities, entityBatch, tombstones, task,
                 cleaner, owed>>

\* sync_proxy and its siblings: a remote copy may replace a missing or local
\* one (its sync_enabled comes with it); a failure is only logged.
SyncEntity(g, e, result) ==
  /\ loop[g] = "entities"
  /\ e \in entityBatch[g]
  /\ result \in {entity[e], "synced"}
  /\ entity' = [entity EXCEPT ![e] = result]
  /\ entityBatch' = [entityBatch EXCEPT ![g] = @ \ {e}]
  /\ UNCHANGED <<global, profile, starter, subscribed, channel, running, loop,
                 kindPos, pending, batch, current, snapshot, inFlight,
                 pendingEntities, tombstones, task, cleaner, owed>>

\* is_sync_in_progress.  The loop that asks is the only task that moves ids
\* between the sets, so for its own question the eight lock scopes are one
\* step; the periodic task's question is InspectInFlight, InspectPending.
IsSyncInProgress(g) ==
  \/ inFlight[g] # {}
  \/ pending[g] # {}
  \/ pendingEntities[g] # {}
  \/ tombstones[g] # {}

KindDone(g) ==
  /\ loop[g] = "entities"
  /\ entityBatch[g] = {}
  /\ IF IsSyncInProgress(g)
     THEN /\ loop' = [loop EXCEPT ![g] = "drain"]
          /\ kindPos' = [kindPos EXCEPT ![g] = @ + 1]
     ELSE /\ loop' = [loop EXCEPT ![g] = "cleanup_kind"]
          /\ UNCHANGED kindPos
  /\ UNCHANGED <<global, profile, entity, starter, subscribed, channel,
                 running, pending, batch, current, snapshot, inFlight,
                 pendingEntities, entityBatch, tombstones, task, cleaner, owed>>

CleanupAfterKind(g) ==
  /\ loop[g] = "cleanup_kind"
  /\ loop' = [loop EXCEPT ![g] = "drain"]
  /\ kindPos' = [kindPos EXCEPT ![g] = @ + 1]
  /\ UNCHANGED <<global, profile, entity, starter, subscribed, channel,
                 running, pending, batch, current, snapshot, inFlight,
                 pendingEntities, entityBatch, tombstones, task, cleaner, owed>>

\* process_pending_tombstones, which awaits nothing but the first lock: a
\* profile keeps its files and loses its sync mode, an entity that is synced
\* is deleted.
ProcessTombstones(g) ==
  /\ loop[g] = "tombstones"
  /\ profile' = [p \in Profiles |->
                   IF p \in tombstones[g] /\ profile[p].mode # "absent"
                   THEN WithMode(profile[p], "disabled")
                   ELSE profile[p]]
  /\ entity' = [e \in Entities |->
                  IF e \in tombstones[g] /\ entity[e] = "synced"
                  THEN "absent" ELSE entity[e]]
  /\ tombstones' = [tombstones EXCEPT ![g] = {}]
  /\ loop' = [loop EXCEPT ![g] = "head"]
  /\ UNCHANGED <<global, starter, subscribed, channel, running, kindPos,
                 pending, batch, current, snapshot, inFlight, pendingEntities,
                 entityBatch, task, cleaner, owed>>

-----------------------------------------------------------------------------
(* Commands and the rest of the application.                               *)

\* request_profile_sync.
RequestProfileSync(p) ==
  /\ SyncEnabled(p)
  /\ global # 0
  /\ QueueProfiles(global, {p})
  /\ UNCHANGED <<global, profile, entity, starter, subscribed, channel,
                 running, loop, kindPos, batch, current, snapshot, inFlight,
                 pendingEntities, entityBatch, tombstones, task, cleaner>>

\* A synced entity was edited: its manager queues it on the global scheduler.
QueueEntitySync(e) ==
  /\ entity[e] = "synced"
  /\ global # 0
  /\ QueueEntities(global, {e})
  /\ UNCHANGED <<global, profile, entity, starter, subscribed, channel,
                 running, loop, kindPos, pending, batch, current, snapshot,
                 inFlight, entityBatch, tombstones, task, cleaner, owed>>

\* set_profile_sync_mode up to its first await: the profile is cloned.
SetModeRead(t, p, mode) ==
  /\ task[t] = IdleTask
  /\ profile[p].mode # "absent"
  /\ task' = [task EXCEPT ![t] = [op |-> "set_mode", id |-> p, mode |-> mode,
                                  clone |-> profile[p]]]
  /\ UNCHANGED <<global, profile, entity, genVars, cleaner>>

\* The rest of it: the clone is saved, and when sync is switched on the
\* profile and what it refers to are queued, the latter made synced first.
SetModeSave(t) ==
  /\ task[t].op = "set_mode"
  /\ LET p == task[t].id
         attached == {e \in Attached[p] : entity[e] # "absent"}
     IN
     /\ profile' = [profile EXCEPT ![p] =
                      WithMode(task[t].clone, task[t].mode)]
     /\ IF task[t].mode = "enabled" /\ global # 0
        THEN /\ QueueProfiles(global, {p})
             /\ QueueEntities(global, attached)
             /\ entity' = [e \in Entities |->
                             IF e \in attached THEN "synced" ELSE entity[e]]
        ELSE UNCHANGED <<pending, owed, pendingEntities, entity>>
  /\ task' = [task EXCEPT ![t] = IdleTask]
  /\ UNCHANGED <<global, starter, subscribed, channel, running, loop, kindPos,
                 batch, current, snapshot, inFlight, entityBatch, tombstones,
                 cleaner>>

\* One of the checks behind an await refuses: no server, no token, no password.
SetModeRefused(t) ==
  /\ task[t].op = "set_mode"
  /\ task' = [task EXCEPT ![t] = IdleTask]
  /\ UNCHANGED <<global, profile, entity, genVars, cleaner>>

\* The sync_profile command calls the engine directly: neither the sync mode
\* nor the in-flight sets are consulted.
TriggerSync(t, p) ==
  /\ task[t] = IdleTask
  /\ profile[p].mode # "absent"
  /\ task' = [task EXCEPT ![t] = [op |-> "sync_profile", id |-> p,
                                  clone |-> profile[p]]]
  /\ UNCHANGED <<global, profile, entity, genVars, cleaner>>

EndTriggeredSync(t, saves) ==
  /\ task[t].op = "sync_profile"
  /\ profile' = IF saves THEN [profile EXCEPT ![task[t].id] = task[t].clone]
                ELSE profile
  /\ task' = [task EXCEPT ![t] = IdleTask]
  /\ UNCHANGED <<global, entity, genVars, cleaner>>

\* A launch has saved process_id = Some(pid); a stopped or vanished browser
\* has been noticed and process_id = None saved.
BrowserLaunched(p) ==
  /\ profile[p].mode # "absent"
  /\ ~profile[p].browser
  /\ profile' = [profile EXCEPT ![p] = WithBrowser(@, TRUE)]
  /\ UNCHANGED <<global, entity, genVars, task, cleaner>>

BrowserStopped(p) ==
  /\ profile[p].browser
  /\ profile' = [profile EXCEPT ![p] = WithBrowser(@, FALSE)]
  /\ UNCHANGED <<global, entity, genVars, task, cleaner>>

\* delete_profile refuses a profile whose browser is running.
DeleteProfile(p) ==
  /\ profile[p].mode # "absent"
  /\ ~profile[p].browser
  /\ profile' = [profile EXCEPT ![p] = AbsentProfile]
  /\ UNCHANGED <<global, entity, genVars, task, cleaner>>

-----------------------------------------------------------------------------
(* The 12-hourly clean-up: is_sync_in_progress locks one set after the     *)
(* other, in-flight first, on the scheduler that was global at the start.  *)

InspectInFlight ==
  /\ cleaner.at = "idle"
  /\ cleaner' = IF global = 0 THEN [at |-> "clean", gen |-> 0]
                ELSE IF inFlight[global] # {} THEN cleaner
                ELSE [at |-> "pending", gen |-> global]
  /\ UNCHANGED <<global, profile, entity, genVars, task>>

InspectPending ==
  /\ cleaner.at = "pending"
  /\ cleaner' = IF \/ pending[cleaner.gen] # {}
                   \/ pendingEntities[cleaner.gen] # {}
                   \/ tombstones[cleaner.gen] # {}
                THEN [at |-> "idle", gen |-> 0]
                ELSE [at |-> "clean", gen |-> cleaner.gen]
  /\ UNCHANGED <<global, profile, entity, genVars, task>>

PeriodicCleanup ==
  /\ cleaner.at = "clean"
  /\ cleaner' = [at |-> "idle", gen |-> 0]
  /\ UNCHANGED <<global, profile, entity, genVars, task>>

-----------------------------------------------------------------------------
LoopProgress(g) ==
  \/ LoopHead(g) \/ TakeReadyProfiles(g)
  \/ \E p \in Profiles : ClaimProfile(g, p)
  \/ BatchDone(g) \/ LoadProfile(g) \/ SkipProfile(g)
  \/ \E saves \in BOOLEAN : EndSync(g, saves)
  \/ CleanupAfterProfile(g)
  \/ \E configured \in BOOLEAN : DrainKind(g, configured)
  \/ KindsDone(g)
  \/ \E e \in Entities, result \in EntityState : SyncEntity(g, e, result)
  \/ KindDone(g) \/ CleanupAfterKind(g) \/ ProcessTombstones(g)

LoopStep(g) == LoopProgress(g) \/ ReceiveWork(g)

StarterStep(g) ==
  \/ \E connected, listed \in BOOLEAN : CreateScheduler(g, connected, listed)
  \/ GiveUpRestart(g)
  \/ \E p \in Profiles : DownloadMissingProfile(g, p)
  \/ \E e \in Entities : DownloadMissingEntity(g, e)
  \/ StartScheduler(g)

TaskStep(t) ==
  \/ SetModeSave(t) \/ SetModeRefused(t)
  \/ \E saves \in BOOLEAN : EndTriggeredSync(t, saves)

CleanerStep == InspectInFlight \/ InspectPending \/ PeriodicCleanup

Environment ==
  \/ \E g \in Gen : RestartSyncService(g) \/ \E item \in SseItems : SseEvent(g, item)
  \/ \E p \in Profiles :
       \/ RequestProfileSync(p) \/ BrowserLaunched(p) \/ BrowserStopped(p)
       \/ DeleteProfile(p)
       \/ \E t \in Tasks : \/ TriggerSync(t, p)
                           \/ \E m \in {"disabled", "enabled"} : SetModeRead(t, p, m)
  \/ \E e \in Entities : QueueEntitySync(e)

Next ==
  \/ \E g \in Gen : LoopStep(g) \/ StarterStep(g)
  \/ \E t \in Tasks : TaskStep(t)
  \/ CleanerStep
  \/ Environment

Spec == Init /\ [][Next]_vars

\* Network calls of the engine return and the runtime polls every task.  Every
\* item that arrives makes select! start its 500 ms sleep again, so a steady
\* stream of items would keep the loop from ever syncing: the second conjunct
\* assumes that the stream pauses for 500 ms again and again.
Fairness ==
  \A g \in Gen : WF_vars(LoopProgress(g)) /\ SF_vars(TakeReadyProfiles(g))

FairSpec == Spec /\ Fairness

-----------------------------------------------------------------------------
(* Properties.                                                             *)

\* in_flight_profiles holds exactly the profile the loop is working on: no
\* early exit of process_pending_profiles leaves an id behind (which would
\* shut that profile out of every later round), and none is removed while
\* its sync is still running.
InFlightExact ==
  \A g \in Gen :
    inFlight[g] = IF loop[g] \in {"load", "sync"} THEN {current[g]} ELSE {}

\* A profile that was asked to be synced is in the pending set, in the batch
\* taken out of it or about to be read from disk: in particular a request
\* that arrives while the same profile is being synced is not absorbed by the
\* sync in flight, which may have read the files already.
NoLostRequest ==
  \A g \in Gen :
    owed[g] \subseteq pending[g] \cup batch[g]
                        \cup (IF loop[g] = "load" THEN {current[g]} ELSE {})

\* A requested profile sync happens or is found pointless, unless the
\* scheduler is stopped.
RequestsServed ==
  \A g \in Gen, p \in Profiles :
    (running[g] /\ p \in owed[g]) ~> (p \notin owed[g] \/ ~running[g])

\* A queued entity is drained in some round, whatever else keeps the loop
\* busy and whichever kind it belongs to, unless the scheduler is stopped.
EntitiesDrained ==
  \A g \in Gen, e \in Entities :
    (running[g] /\ e \in pendingEntities[g])
      ~> (e \notin pendingEntities[g] \/ ~running[g])

-----------------------------------------------------------------------------
(* What comments in the code say, and what the code does otherwise.        *)

\* scheduler.rs: "Profile is running - queue for after it stops".
WaitsForBrowserToStop ==
  [][\A g \in Gen : loop[g] = "load" /\ loop'[g] = "sync"
                     => ~profile[current[g]].browser]_vars

\* cloud_auth.rs: "Stop existing scheduler": once a restart has begun, no earlier
\* scheduler goes on for ever.  One whose creator still looks for missing
\* profiles, or still connects, is started after the restart's stop() all the
\* same: start() sets the flag stop() cleared.
Replaced(g) == \E h \in Gen : h > g /\ starter[h] # "unused"
ReplacedSchedulersEnd ==
  \A g \in Gen : Replaced(g) ~> (loop[g] \in {"none", "exited"})

\* The profiles whose directory some sync is reading and writing right now.
SyncsOf(p) == {g \in Gen : loop[g] = "sync" /\ current[g] = p}

\* scheduler.rs: "Mark as in-flight to prevent duplicate syncs".
NoDuplicateSync ==
  \A p \in Profiles, g, h \in Gen : {g, h} \subseteq SyncsOf(p) => g = h

\* scheduler.rs: "Trigger cleanup after sync completes if this was the last
\* profile".
CleanupOnlyAfterLastProfile ==
  \A g \in Gen : loop[g] = "cleanup_profile" => batch[g] = {}

\* lib.rs, of the periodic clean-up: "Only runs when sync is not in progress".
\* Stated for the scheduler the task consulted.
PeriodicCleanupAvoidsSync ==
  [][cleaner.at = "clean" /\ cleaner'.at = "idle" =>
       \A g \in Gen : g = cleaner.gen => loop[g] \notin {"load", "sync", "entities"}]_vars
=============================================================================
