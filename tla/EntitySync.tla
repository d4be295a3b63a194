----------------------------- MODULE EntitySync -----------------------------
(***************************************************************************)
(* The synchronisation of proxies, groups, VPNs, extensions and extension  *)
(* groups between the devices of one user (sync/engine.rs, the end of      *)
(* sync/scheduler.rs, sync/subscription.rs, subscribe and delete of        *)
(* sync.service.ts, and the managers that keep the entities).  Each entity *)
(* is one object; the later of the object's modification time and the      *)
(* copy's last_sync decides who overwrites whom, and a deletion leaves a   *)
(* tombstone.  Each device has its connection to the server, which reports *)
(* what has changed since its last poll, and its scheduler, which handles  *)
(* the reports one after the other, an entity's before its tombstone.      *)
(*                                                                         *)
(* Steps go from one await to the next.  Clocks are one clock, in seconds. *)
(* The file of an extension, cloud-managed proxies, and the names that two *)
(* entities may not share are left out; profiles are in ProfileSync.       *)
(***************************************************************************)
EXTENDS Naturals

CONSTANTS
  Devices, Entities,
  NewKinds,       \* the kinds the users create
  NoKind, NoCopy, NoOp,
  MaxTime,        \* bound: seconds that pass
  MaxEdits,       \* bound: edits, switches of an entity's sync, deletions
  MaxFaults,      \* bound: how often something of Faults happens
  Faults,         \* what may go wrong
  Failing         \* the prefixes whose listings may fail in one poll

Kinds == {"proxy", "group", "vpn", "extension", "extension_group"}
AllFaults == {"request", "listing", "late", "connection", "restart", "settings"}

\* basePrefixes, profiles left out: no VPNs, extensions or extension groups.
BasePrefixes == {"proxy", "group", "tombstone"}

ASSUME EntitySyncAssumption ==
  /\ NewKinds \subseteq Kinds /\ NoKind \notin Kinds
  /\ NoCopy \notin [content : Nat, enabled : BOOLEAN, synced : Nat]
  /\ NoCopy \notin [content : Nat, enabled : BOOLEAN, mtime : Nat]
  /\ MaxTime \in Nat \ {0} /\ MaxEdits \in Nat /\ MaxFaults \in Nat
  /\ Faults \subseteq AllFaults
  /\ Failing \subseteq SUBSET BasePrefixes

VARIABLES
  kind,       \* of each entity; NoKind before it is created
  disk,       \* the copies of each device, as the managers store them
  mem,        \* ProxyManager.stored_proxies: the proxies as the app sees them
  object,     \* the store: <kind>/<id>.json
  tombstone,  \* the store: when tombstones/<kind>/<id>.json was written, 0: never
  now,
  known,      \* lastKnownState of each device's subscription
  connected,  \* devices with a subscription
  channel,    \* work the subscription has sent during a pass
  pending,    \* the queues of the scheduler
  stage,      \* where process_pending is
  todo,       \* what it has drained and not begun
  op,         \* the entity it works on
  removing,   \* deletions on their way to the server
  deleted,    \* history: entities a user has deleted
  dropped,    \* history: work has been given up after an error
  edits, faults

local == <<disk, mem>>
store == <<object, tombstone>>
subscription == <<known, connected>>
engine == <<stage, todo, op>>
history == <<kind, deleted, edits>>
vars == <<kind, disk, mem, object, tombstone, now, known, connected, channel, pending,
          stage, todo, op, removing, deleted, dropped, edits, faults>>

Times == 0 .. MaxTime
Copies == [content : 0 .. MaxEdits, enabled : BOOLEAN, synced : Times]
Objects == [content : 0 .. MaxEdits, enabled : BOOLEAN, mtime : Times]

Ops == [at : {"stat", "put", "keep", "get", "save"}, id : Entities,
        copy : Copies \cup {NoCopy}]
Op(at, e, copy) == [at |-> at, id |-> e, copy |-> copy]

\* The keys of the store and, as handle_event makes one of the other, the work.
Keys == {"entity", "tombstone"} \X Entities
Entity(e) == <<"entity", e>>
Tombstone(e) == <<"tombstone", e>>

Loop == 0         \* waiting between two passes
Missing == 6      \* in check_for_missing_synced_entities, listed
Starting == 7     \* before it

CopiesOK ==
  /\ disk \in [Devices -> [Entities -> Copies \cup {NoCopy}]]
  /\ mem \in [Devices -> [Entities -> Copies \cup {NoCopy}]]

StoreOK ==
  /\ object \in [Entities -> Objects \cup {NoCopy}]
  /\ tombstone \in [Entities -> Times]
  /\ now \in 1 .. MaxTime
  /\ removing \in [Devices -> [Entities -> {"no", "object", "tombstone"}]]

WorkOK ==
  /\ known \in [Devices -> [Keys -> Times]]
  /\ connected \in SUBSET Devices
  /\ channel \in [Devices -> SUBSET Keys]
  /\ pending \in [Devices -> SUBSET Keys]

EngineOK ==
  /\ stage \in [Devices -> 0 .. 7]
  /\ todo \in [Devices -> SUBSET Entities]
  /\ op \in [Devices -> Ops \cup {NoOp}]

HistoryOK ==
  /\ kind \in [Entities -> Kinds \cup {NoKind}]
  /\ deleted \in SUBSET Entities
  /\ dropped \in BOOLEAN
  /\ edits \in 0 .. MaxEdits
  /\ faults \in 0 .. MaxFaults

TypeOK == CopiesOK /\ StoreOK /\ WorkOK /\ EngineOK /\ HistoryOK

Init ==
  /\ kind = [e \in Entities |-> NoKind]
  /\ disk = [d \in Devices |-> [e \in Entities |-> NoCopy]]
  /\ mem = disk
  /\ object = [e \in Entities |-> NoCopy]
  /\ tombstone = [e \in Entities |-> 0]
  /\ now = 1
  /\ known = [d \in Devices |-> [k \in Keys |-> 0]]
  /\ connected = {}
  /\ channel = [d \in Devices |-> {}] /\ pending = channel
  /\ stage = [d \in Devices |-> Loop]
  /\ todo = [d \in Devices |-> {}]
  /\ op = [d \in Devices |-> NoOp]
  /\ removing = [d \in Devices |-> [e \in Entities |-> "no"]]
  /\ deleted = {} /\ dropped = FALSE /\ edits = 0 /\ faults = 0

Fault(f) ==
  /\ f \in Faults /\ faults < MaxFaults
  /\ faults' = faults + 1

\* What get_stored_proxies, get_all_groups, load_config, get_extension return.
View(d, e) == IF kind[e] = "proxy" THEN mem[d][e] ELSE disk[d][e]

\* The managers write a proxy to memory and to its file.
Write(d, e, copy) ==
  /\ disk' = [disk EXCEPT ![d][e] = copy]
  /\ mem' = IF kind'[e] = "proxy" THEN [mem EXCEPT ![d][e] = copy] ELSE mem

Queue(d, e, enabled) ==
  pending' = IF enabled THEN [pending EXCEPT ![d] = @ \cup {Entity(e)}] ELSE pending

-----------------------------------------------------------------------------
(* The user.                                                               *)

\* create_stored_proxy, create_group, create_vpn_config_manual, add_extension:
\* synchronised from the start where synchronisation is configured.
Create(d, e, k) ==
  /\ kind[e] = NoKind
  /\ kind' = [kind EXCEPT ![e] = k]
  /\ Write(d, e, [content |-> 0, enabled |-> TRUE, synced |-> 0])
  /\ Queue(d, e, TRUE)
  /\ UNCHANGED <<store, now, subscription, channel, engine, removing, deleted, dropped,
                 edits, faults>>

\* update_stored_proxy and its like: last_sync stays as it is.
Edit(d, e) ==
  /\ View(d, e) # NoCopy /\ edits < MaxEdits
  /\ edits' = edits + 1 /\ kind' = kind
  /\ Write(d, e, [View(d, e) EXCEPT !.content = edits + 1])
  /\ Queue(d, e, View(d, e).enabled)
  /\ UNCHANGED <<store, now, subscription, channel, engine, removing, deleted,
                 dropped, faults>>

\* set_proxy_sync_enabled and its like: a proxy's file is written, not memory.
SetSyncEnabled(d, e) ==
  LET copy == View(d, e)
  IN /\ copy # NoCopy /\ edits < MaxEdits
     /\ edits' = edits + 1
     /\ disk' = [disk EXCEPT ![d][e] =
                   [copy EXCEPT !.enabled = ~ @, !.synced = IF copy.enabled THEN 0 ELSE @]]
     /\ Queue(d, e, ~ copy.enabled)
     /\ UNCHANGED <<kind, mem, store, now, subscription, channel, engine, removing,
                    deleted, dropped, faults>>

\* delete_stored_proxy and its like: the remote deletion is a task of its own.
Delete(d, e) ==
  /\ View(d, e) # NoCopy /\ edits < MaxEdits
  /\ edits' = edits + 1 /\ kind' = kind
  /\ Write(d, e, NoCopy)
  /\ deleted' = deleted \cup {e}
  /\ removing' = IF View(d, e).enabled THEN [removing EXCEPT ![d][e] = "object"]
                 ELSE removing
  /\ UNCHANGED <<store, now, subscription, channel, pending, engine, dropped, faults>>

-----------------------------------------------------------------------------
(* The server.                                                             *)

\* delete: the object goes; the tombstone follows, even if the object stayed.
RemoveObject(d, e) ==
  /\ removing[d][e] = "object"
  /\ removing' = [removing EXCEPT ![d][e] = "tombstone"]
  /\ \/ object' = [object EXCEPT ![e] = NoCopy] /\ UNCHANGED faults
     \/ Fault("request") /\ UNCHANGED object
  /\ UNCHANGED <<history, local, tombstone, now, subscription, channel, pending, engine,
                 dropped>>

PutTombstone(d, e) ==
  /\ removing[d][e] = "tombstone"
  /\ removing' = [removing EXCEPT ![d][e] = "no"]
  /\ tombstone' = [tombstone EXCEPT ![e] = now]
  /\ UNCHANGED <<history, local, object, now, subscription, channel, pending, engine,
                 dropped, faults>>

\* The request fails before or between the two; it is only logged.
RemovalFails(d, e) ==
  /\ removing[d][e] # "no"
  /\ Fault("request")
  /\ removing' = [removing EXCEPT ![d][e] = "no"]
  /\ dropped' = TRUE
  /\ UNCHANGED <<history, local, store, now, subscription, channel, pending, engine>>

Prefix(k) == IF k[1] = "tombstone" THEN "tombstone" ELSE kind[k[2]]

LastModified(k) ==
  IF k[1] = "tombstone" THEN tombstone[k[2]]
  ELSE IF object[k[2]] = NoCopy THEN 0 ELSE object[k[2]].mtime

\* Mutant: a new subscription starts from what there is.
ConnectUpToDate(d) ==
  /\ d \notin connected
  /\ connected' = connected \cup {d}
  /\ known' = [known EXCEPT ![d] = [k \in Keys |-> LastModified(k)]]
  /\ UNCHANGED <<history, local, store, now, channel, pending, engine, removing, dropped,
                 faults>>

\* subscribe: a new subscription knows nothing.
Connect(d) ==
  /\ d \notin connected
  /\ connected' = connected \cup {d}
  /\ UNCHANGED <<history, local, store, now, known, channel, pending, engine, removing,
                 dropped, faults>>

Forget(d) ==
  /\ connected' = connected \ {d}
  /\ known' = [known EXCEPT ![d] = [k \in Keys |-> 0]]

Disconnect(d) ==
  /\ d \in connected /\ Fault("connection")
  /\ Forget(d)
  /\ UNCHANGED <<history, local, store, now, channel, pending, engine, removing,
                 dropped>>

\* Mutant: an object that is gone counts as deleted by a user.
HandleEventByType(type, k) == IF type = "delete" THEN Tombstone(k[2]) ELSE k

\* handle_event: the work is read off the key, whatever the event's type.
HandleEvent(type, k) == k

\* The loop of the scheduler receives what is sent while it waits, and turns to
\* a pass after 500 ms without work; what is sent then is received after it.
Send(d, work) ==
  IF stage[d] = Loop THEN /\ pending' = [pending EXCEPT ![d] = @ \cup work]
                          /\ UNCHANGED channel
  ELSE /\ channel' = [channel EXCEPT ![d] = @ \cup work]
       /\ UNCHANGED pending

\* One poll of pollChanges$.  A prefix whose listing fails is missing from the
\* state (listing); the events of a poll that takes longer than the interval
\* are never sent, and its state counts as known (late).
Poll(d, failing, late) ==
  LET current == [k \in Keys |-> IF Prefix(k) \in BasePrefixes \ failing
                                 THEN LastModified(k) ELSE 0]
      changed == {k \in Keys : current[k] \notin {0, known[d][k]}}
      gone == {k \in Keys : known[d][k] # 0 /\ current[k] = 0}
      events == {HandleEvent("change", k) : k \in changed}
                \cup {HandleEvent("delete", k) : k \in gone}
  IN /\ d \in connected
     /\ IF failing # {} THEN Fault("listing") /\ ~ late
        ELSE IF late THEN Fault("late") ELSE UNCHANGED faults
     /\ known' = [known EXCEPT ![d] = current]
     /\ IF late THEN UNCHANGED <<channel, pending>> ELSE Send(d, events)
     /\ dropped' = (dropped \/ (late /\ events # {}))
     /\ UNCHANGED <<history, local, store, now, connected, engine, removing>>

-----------------------------------------------------------------------------
(* The scheduler.                                                          *)

Rank(e) == IF kind[e] = "proxy" THEN 1 ELSE IF kind[e] = "group" THEN 2
           ELSE IF kind[e] = "vpn" THEN 3 ELSE IF kind[e] = "extension" THEN 4 ELSE 5

\* The loop waits again, and receives what has been sent in the meantime.
Wait(d, handled) ==
  /\ stage' = [stage EXCEPT ![d] = Loop]
  /\ pending' = [pending EXCEPT ![d] = (@ \ handled) \cup channel[d]]
  /\ channel' = [channel EXCEPT ![d] = {}]

Queued(d, r) == {e \in Entities : Entity(e) \in pending[d] /\ Rank(e) = r}

BetweenKinds(d) == stage[d] \in 0 .. 5 /\ todo[d] = {} /\ op[d] = NoOp

\* process_pending_proxies to process_pending_extension_groups: the queue of
\* the next kind is drained, and lost if no engine can be created.
Drain(d, r) ==
  /\ BetweenKinds(d)
  /\ r \in stage[d] + 1 .. 5 /\ Queued(d, r) # {}
  /\ \A s \in stage[d] + 1 .. r - 1 : Queued(d, s) = {}
  /\ pending' = [pending EXCEPT ![d] = @ \ {Entity(e) : e \in Queued(d, r)}]
  /\ stage' = [stage EXCEPT ![d] = r]
  /\ \/ todo' = [todo EXCEPT ![d] = Queued(d, r)] /\ UNCHANGED <<dropped, faults>>
     \/ Fault("settings") /\ dropped' = TRUE /\ UNCHANGED todo
  /\ UNCHANGED <<history, local, store, now, subscription, channel, op, removing>>

\* process_pending_tombstones: the pass ends with the entities that were
\* deleted elsewhere and are synchronised here.
ProcessTombstones(d) ==
  LET buried == {e \in Entities : Tombstone(e) \in pending[d]}
      gone == {e \in buried : View(d, e) # NoCopy /\ View(d, e).enabled}
      Without(copies) == [copies EXCEPT ![d] =
                            [e \in Entities |-> IF e \in gone THEN NoCopy ELSE copies[d][e]]]
  IN /\ BetweenKinds(d)
     /\ \A r \in stage[d] + 1 .. 5 : Queued(d, r) = {}
     /\ stage[d] # Loop \/ buried # {}
     /\ disk' = Without(disk) /\ mem' = Without(mem)
     /\ Wait(d, {Tombstone(e) : e \in buried})
     /\ UNCHANGED <<history, store, now, subscription, todo, op, removing, dropped, faults>>

-----------------------------------------------------------------------------
(* The engine.                                                             *)

\* sync_proxy and its like: the copy is read, then the object asked for.
Begin(d, e) ==
  /\ stage[d] \in 1 .. 5 /\ op[d] = NoOp /\ e \in todo[d]
  /\ todo' = [todo EXCEPT ![d] = @ \ {e}]
  /\ op' = [op EXCEPT ![d] = Op("stat", e, View(d, e))]
  /\ UNCHANGED <<history, local, store, now, subscription, channel, pending, stage,
                 removing, dropped, faults>>

\* Which of the two is newer.  What is uploaded has its last_sync set before.
Decide(copy, obj) ==
  IF obj # NoCopy /\ (copy = NoCopy \/ obj.mtime > copy.synced) THEN "get"
  ELSE IF copy # NoCopy /\ (obj = NoCopy \/ copy.synced > obj.mtime) THEN "put"
  ELSE "done"

Stat(d) ==
  LET e == op[d].id
      copy == op[d].copy
      what == Decide(copy, object[e])
  IN /\ op[d] # NoOp /\ op[d].at = "stat"
     /\ op' = [op EXCEPT ![d] =
                 IF what = "put" THEN Op("put", e, [copy EXCEPT !.synced = now])
                 ELSE IF what = "get" THEN Op("get", e, NoCopy) ELSE NoOp]
     /\ UNCHANGED <<history, local, store, now, subscription, channel, pending, stage,
                    todo, removing, dropped, faults>>

Put(d) ==
  LET copy == op[d].copy
  IN /\ op[d] # NoOp /\ op[d].at = "put"
     /\ object' = [object EXCEPT ![op[d].id] =
                     [content |-> copy.content, enabled |-> copy.enabled, mtime |-> now]]
     /\ op' = [op EXCEPT ![d] = Op("keep", op[d].id, copy)]
     /\ UNCHANGED <<history, local, tombstone, now, subscription, channel, pending, stage,
                    todo, removing, dropped, faults>>

\* What an upload leaves of the copy that is there: a proxy's file and an
\* extension's are written, a group is overwritten if there is one, and a VPN
\* gets the two fields.
Kept(k, there, copy) ==
  IF k \in {"proxy", "extension"} THEN copy
  ELSE IF there = NoCopy THEN NoCopy
  ELSE IF k = "vpn" THEN [there EXCEPT !.enabled = copy.enabled, !.synced = copy.synced]
  ELSE copy

Keep(d) ==
  LET e == op[d].id
  IN /\ op[d] # NoOp /\ op[d].at = "keep"
     /\ disk' = [disk EXCEPT ![d][e] = Kept(kind[e], @, op[d].copy)]
     /\ op' = [op EXCEPT ![d] = NoOp]
     /\ UNCHANGED <<history, mem, store, now, subscription, channel, pending, stage, todo,
                    removing, dropped, faults>>

\* Reading an object that has gone is an error.  What is not a proxy or a
\* group is synchronised here as well from now on.
Get(d) ==
  LET e == op[d].id
      obj == object[e]
      copy == [content |-> obj.content, synced |-> 0,
               enabled |-> obj.enabled \/ kind[e] \notin {"proxy", "group"}]
  IN /\ op[d] # NoOp /\ op[d].at = "get"
     /\ op' = [op EXCEPT ![d] = IF obj = NoCopy THEN NoOp ELSE Op("save", e, copy)]
     /\ UNCHANGED <<history, local, store, now, subscription, channel, pending, stage,
                    todo, removing, dropped, faults>>

\* Mutant: last_sync is not set.
SaveAsItCame(d) ==
  /\ op[d] # NoOp /\ op[d].at = "save"
  /\ disk' = [disk EXCEPT ![d][op[d].id] = object[op[d].id]]
  /\ op' = [op EXCEPT ![d] = NoOp]
  /\ UNCHANGED <<history, mem, store, now, subscription, channel, pending, stage, todo,
                 removing, dropped, faults>>

\* A proxy is written to its file, and not to memory.
Save(d) ==
  /\ op[d] # NoOp /\ op[d].at = "save"
  /\ disk' = [disk EXCEPT ![d][op[d].id] = [op[d].copy EXCEPT !.synced = now]]
  /\ op' = [op EXCEPT ![d] = NoOp]
  /\ UNCHANGED <<history, mem, store, now, subscription, channel, pending, stage, todo,
                 removing, dropped, faults>>

\* A request fails: the error is logged and the entity is done with.
RequestFails(d) ==
  /\ op[d] # NoOp /\ op[d].at \in {"stat", "put", "get"}
  /\ Fault("request")
  /\ op' = [op EXCEPT ![d] = NoOp]
  /\ dropped' = TRUE
  /\ UNCHANGED <<history, local, store, now, subscription, channel, pending, stage, todo,
                 removing>>

-----------------------------------------------------------------------------
(* The start of the application.                                           *)

\* It ends and starts again: the queues, the requests under way and the remote
\* deletions are gone, and load_stored_proxies reads the files.
Restart(d) ==
  /\ Fault("restart")
  /\ mem' = [mem EXCEPT ![d] = [e \in Entities |-> IF kind[e] = "proxy" THEN disk[d][e]
                                                   ELSE NoCopy]]
  /\ Forget(d)
  /\ channel' = [channel EXCEPT ![d] = {}]
  /\ pending' = [pending EXCEPT ![d] = {}]
  /\ stage' = [stage EXCEPT ![d] = Starting]
  /\ todo' = [todo EXCEPT ![d] = {}]
  /\ op' = [op EXCEPT ![d] = NoOp]
  /\ removing' = [removing EXCEPT ![d] = [e \in Entities |-> "no"]]
  /\ dropped' = (\/ dropped \/ pending[d] # {} \/ todo[d] # {} \/ op[d] # NoOp
                 \/ \E e \in Entities : removing[d][e] # "no")
  /\ UNCHANGED <<history, disk, store, now>>

\* check_for_missing_synced_entities lists proxies, groups and VPNs.
ListMissing(d) ==
  /\ stage[d] = Starting
  /\ stage' = [stage EXCEPT ![d] = Missing]
  /\ \/ /\ todo' = [todo EXCEPT ![d] = {e \in Entities :
                      object[e] # NoCopy /\ kind[e] \in {"proxy", "group", "vpn"}}]
        /\ UNCHANGED faults
     \/ Fault("request") /\ UNCHANGED todo
  /\ UNCHANGED <<history, local, store, now, subscription, channel, pending, op, removing,
                 dropped>>

\* What is not here is downloaded, unless its tombstone is seen.
CheckMissing(d, e) ==
  /\ stage[d] = Missing /\ op[d] = NoOp /\ e \in todo[d]
  /\ todo' = [todo EXCEPT ![d] = @ \ {e}]
  /\ LET get == [op EXCEPT ![d] = Op("get", e, NoCopy)]
     IN \/ /\ op' = IF View(d, e) = NoCopy /\ tombstone[e] = 0 THEN get ELSE op
           /\ UNCHANGED faults
        \/ View(d, e) = NoCopy /\ Fault("request") /\ op' = get
  /\ UNCHANGED <<history, local, store, now, subscription, channel, pending, stage,
                 removing, dropped>>

\* The scheduler starts when the check is over.
Started(d) ==
  /\ stage[d] = Missing /\ todo[d] = {} /\ op[d] = NoOp
  /\ Wait(d, {})
  /\ UNCHANGED <<history, local, store, now, subscription, todo, op, removing, dropped,
                 faults>>

-----------------------------------------------------------------------------
Tick ==
  /\ now < MaxTime
  /\ now' = now + 1
  /\ UNCHANGED <<history, local, store, subscription, channel, pending, engine, removing,
                 dropped, faults>>

Users(d) == \E e \in Entities : \/ \E k \in NewKinds : Create(d, e, k)
                                \/ Edit(d, e) \/ SetSyncEnabled(d, e) \/ Delete(d, e)

\* A subscription that fails is opened again after six seconds; the server
\* polls every two.
Subscription(d) == Connect(d) \/ Poll(d, {}, FALSE)

Server(d) == \/ \E e \in Entities : RemoveObject(d, e) \/ PutTombstone(d, e)
                                    \/ RemovalFails(d, e)
             \/ Subscription(d) \/ Disconnect(d)
             \/ \E failing \in Failing \ {{}} : Poll(d, failing, FALSE)
             \/ Poll(d, {}, TRUE)

\* What the device's scheduler, engine and start do.
Works(d) ==
  \/ \E r \in 1 .. 5 : Drain(d, r)
  \/ ProcessTombstones(d)
  \/ Stat(d) \/ Put(d) \/ Keep(d) \/ Get(d) \/ Save(d)
  \/ \E e \in Entities : Begin(d, e) \/ CheckMissing(d, e)
  \/ ListMissing(d) \/ Started(d)

Next ==
  \/ \E d \in Devices : Users(d) \/ Server(d) \/ Works(d) \/ RequestFails(d) \/ Restart(d)
  \/ Tick

Spec == Init /\ [][Next]_vars

\* A device's tasks go on, and so does its subscription.
FairSpec ==
  /\ Spec
  /\ \A d \in Devices : /\ WF_vars(Works(d))
                        /\ WF_vars(Subscription(d))

-----------------------------------------------------------------------------
(* Properties.                                                             *)

\* What no user has deleted is lost nowhere: not by a listing that fails, a
\* delete event, a lost connection, a restart or an answer that comes late
\* (handle_event, process_pending_tombstones, the write-backs of the uploads).
Survive ==
  \A e \in Entities \ deleted' :
    /\ object[e] # NoCopy => object'[e] # NoCopy
    /\ \A d \in Devices : disk[d][e] # NoCopy => disk'[d][e] # NoCopy

EntitiesSurvive == [][Survive]_vars

\* A proxy or a group that is created and not deleted reaches every device,
\* however often connections are lost, listings fail and apps restart, as long
\* as no work has been given up (subscribe, connect_and_listen, sync_proxy).
CreatedArrives ==
  \A e \in Entities :
    kind[e] \in {"proxy", "group"} ~>
      \/ dropped \/ e \in deleted
      \/ \A d \in Devices : disk[d][e] # NoCopy

-----------------------------------------------------------------------------
(* What one would expect, and TLC refutes.                                 *)

\* What has been deleted does not come back to the store.
DeletedStaysDeleted ==
  [][\A e \in Entities :
       tombstone[e] # 0 /\ object[e] = NoCopy => object'[e] = NoCopy]_vars

\* A later edit is not overwritten by what was there before it
\* (sync_proxy: "Remote is newer - download").
NothingOlder ==
  [][\A d \in Devices, e \in Entities :
       disk[d][e] # NoCopy /\ disk'[d][e] # NoCopy
         => disk'[d][e].content >= disk[d][e].content]_vars

\* Where the user has switched the synchronisation of an entity off, it stays
\* off until the user switches it on.
OffStaysOff ==
  [][\A d \in Devices, e \in Entities :
       (edits' = edits /\ disk[d][e] # NoCopy /\ disk'[d][e] # NoCopy)
         => (disk'[d][e].enabled => disk[d][e].enabled)]_vars
=============================================================================
