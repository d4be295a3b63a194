-------------------------- MODULE EntitySyncProofs --------------------------
(***************************************************************************)
(* That an entity nobody has deleted is lost nowhere, for any number of    *)
(* devices and entities, and whatever goes wrong.  Copies are taken away   *)
(* for a tombstone and objects for a deletion, so that the invariant says  *)
(* that there is a user's deletion behind each tombstone, wherever it is   *)
(* on its way: in the store, in what a subscription knows, in a channel or *)
(* a queue.  The write-backs need that the engine never carries on without *)
(* a copy.                                                                 *)
(***************************************************************************)
EXTENDS EntitySync, TLAPS

Buried ==
  \A e \in Entities :
    /\ tombstone[e] # 0 => e \in deleted
    /\ \A d \in Devices :
         /\ removing[d][e] # "no" => e \in deleted
         /\ known[d][Tombstone(e)] # 0 => e \in deleted
         /\ Tombstone(e) \in channel[d] => e \in deleted
         /\ Tombstone(e) \in pending[d] => e \in deleted

HasCopy ==
  \A d \in Devices :
    op[d] # NoOp /\ op[d].at \in {"put", "keep", "save"} => op[d].copy # NoCopy

IInv == TypeOK /\ Buried /\ HasCopy

\* What the engine and the managers make of a copy is a copy.
LEMMA CopyFacts ==
  ASSUME NEW c \in Copies
  PROVE  /\ c # NoCopy
         /\ c.content \in 0 .. MaxEdits /\ c.enabled \in BOOLEAN /\ c.synced \in Times
         /\ \A t \in Times : [c EXCEPT !.synced = t] \in Copies
         /\ \A v \in 0 .. MaxEdits : [c EXCEPT !.content = v] \in Copies
         /\ \A b \in BOOLEAN, t \in Times :
              [c EXCEPT !.enabled = b, !.synced = t] \in Copies
<1>1. Times \subseteq Nat /\ 0 .. MaxEdits \subseteq Nat
  BY EntitySyncAssumption DEF Times
<1>2. c \in [content : Nat, enabled : BOOLEAN, synced : Nat]
  BY <1>1 DEF Copies
<1>3. c # NoCopy
  BY <1>2, EntitySyncAssumption
<1>4. c.content \in 0 .. MaxEdits /\ c.enabled \in BOOLEAN /\ c.synced \in Times
  BY DEF Copies
<1>5. \A t \in Times : [c EXCEPT !.synced = t] \in Copies
  BY DEF Copies
<1>6. \A v \in 0 .. MaxEdits : [c EXCEPT !.content = v] \in Copies
  BY DEF Copies
<1>7. \A b \in BOOLEAN, t \in Times : [c EXCEPT !.enabled = b, !.synced = t] \in Copies
  BY DEF Copies
<1> QED
  BY <1>3, <1>4, <1>5, <1>6, <1>7

\* An object is not what stands for none, and has the fields of one.
LEMMA ObjectFacts ==
  ASSUME NEW o \in Objects
  PROVE  /\ o # NoCopy
         /\ o.content \in 0 .. MaxEdits /\ o.enabled \in BOOLEAN /\ o.mtime \in Times
<1>1. Times \subseteq Nat /\ 0 .. MaxEdits \subseteq Nat
  BY EntitySyncAssumption DEF Times
<1>2. o \in [content : Nat, enabled : BOOLEAN, mtime : Nat]
  BY <1>1 DEF Objects
<1>3. o # NoCopy
  BY <1>2, EntitySyncAssumption
<1> QED
  BY <1>3 DEF Objects

\* A fault is counted within its bound.
LEMMA FaultFacts ==
  ASSUME HistoryOK, NEW f, Fault(f)
  PROVE  faults' \in 0 .. MaxFaults
  BY EntitySyncAssumption DEF HistoryOK, Fault

\* Zero and the clock are times, and the clock is never zero: a tombstone has one.
LEMMA TimeFacts ==
  /\ 0 \in Times /\ 0 \in 0 .. MaxEdits
  /\ StoreOK => now \in Times /\ now # 0
  BY EntitySyncAssumption DEF Times, StoreOK

\* An edit is counted within its bound.
LEMMA EditFacts ==
  ASSUME HistoryOK, edits < MaxEdits
  PROVE  edits + 1 \in 0 .. MaxEdits
  BY EntitySyncAssumption DEF HistoryOK

\* What a manager returns is a copy, if there is one.
LEMMA ViewFacts ==
  ASSUME CopiesOK, NEW d \in Devices, NEW e \in Entities
  PROVE  View(d, e) \in Copies \cup {NoCopy}
  BY DEF View, CopiesOK

\* A manager writes one copy, and no other changes.
LEMMA WriteFacts ==
  ASSUME CopiesOK, NEW d \in Devices, NEW e \in Entities, NEW c \in Copies \cup {NoCopy},
         Write(d, e, c)
  PROVE  /\ CopiesOK'
         /\ \A x \in Devices, y \in Entities :
              disk'[x][y] = IF x = d /\ y = e THEN c ELSE disk[x][y]
  BY DEF CopiesOK, Write

\* A manager queues an entity, never a tombstone.
LEMMA QueueFacts ==
  ASSUME WorkOK, NEW d \in Devices, NEW e \in Entities, NEW b, Queue(d, e, b),
         UNCHANGED <<known, connected, channel>>
  PROVE  /\ WorkOK'
         /\ \A x \in Devices, y \in Entities :
              Tombstone(y) \in pending'[x] => Tombstone(y) \in pending[x]
  BY DEF WorkOK, Queue, Entity, Tombstone, Keys

\* A device's scheduler waits again: what was sent meanwhile is queued.
LEMMA WaitFacts ==
  ASSUME WorkOK, EngineOK, NEW d \in Devices, NEW handled, Wait(d, handled),
         UNCHANGED <<known, connected, todo, op>>
  PROVE  /\ WorkOK' /\ EngineOK'
         /\ \A x \in Devices : /\ channel'[x] \subseteq channel[x]
                               /\ pending'[x] \subseteq pending[x] \cup channel[x]
<1> USE DEF Wait, WorkOK, EngineOK
<1>1. WorkOK'
  OBVIOUS
<1>2. EngineOK'
  BY DEF Loop
<1>3. \A x \in Devices : /\ channel'[x] \subseteq channel[x]
                         /\ pending'[x] \subseteq pending[x] \cup channel[x]
  OBVIOUS
<1> QED
  BY <1>1, <1>2, <1>3

\* What a subscription sends is in the channel or in the queue.
LEMMA SendFacts ==
  ASSUME WorkOK, NEW d \in Devices, NEW work \in SUBSET Keys, Send(d, work)
  PROVE  /\ channel' \in [Devices -> SUBSET Keys] /\ pending' \in [Devices -> SUBSET Keys]
         /\ \A x \in Devices : /\ channel'[x] \subseteq channel[x] \cup work
                               /\ pending'[x] \subseteq pending[x] \cup work
<1>1. CASE stage[d] = Loop
  BY <1>1 DEF WorkOK, Send
<1>2. CASE stage[d] # Loop
  BY <1>2 DEF WorkOK, Send
<1> QED
  BY <1>1, <1>2

\* A subscription that ends forgets, and learns nothing.
LEMMA ForgetFacts ==
  ASSUME WorkOK, NEW d \in Devices, Forget(d)
  PROVE  /\ connected' \in SUBSET Devices
         /\ known' \in [Devices -> [Keys -> Times]]
         /\ \A x \in Devices, k \in Keys : known'[x][k] # 0 => known[x][k] # 0
  BY TimeFacts DEF WorkOK, Forget

\* The keys of tombstones are not those of entities.
LEMMA TombstoneKey ==
  ASSUME NEW e \in Entities
  PROVE  /\ Tombstone(e) \in Keys /\ Entity(e) \in Keys
         /\ Tombstone(e)[1] = "tombstone" /\ Tombstone(e)[2] = e
         /\ \A y : Tombstone(e) # Entity(y)
  BY DEF Tombstone, Entity, Keys

\* What the engine works on.
LEMMA OpFacts ==
  ASSUME EngineOK, NEW d \in Devices, op[d] # NoOp
  PROVE  /\ op[d].id \in Entities /\ op[d].copy \in Copies \cup {NoCopy}
  BY DEF EngineOK, Ops

\* What becomes of the engine's work on an entity.
LEMMA StepFacts ==
  ASSUME EngineOK, NEW d \in Devices, NEW o \in Ops \cup {NoOp}, op' = [op EXCEPT ![d] = o],
         UNCHANGED <<stage, todo>>
  PROVE  /\ EngineOK'
         /\ \A x \in Devices : op'[x] = IF x = d THEN o ELSE op[x]
  BY DEF EngineOK

\* The engine's work is well-formed.
LEMMA OpType ==
  ASSUME NEW at \in {"stat", "put", "keep", "get", "save"}, NEW e \in Entities,
         NEW c \in Copies \cup {NoCopy}
  PROVE  /\ Op(at, e, c) \in Ops
         /\ Op(at, e, c).at = at /\ Op(at, e, c).copy = c
  BY DEF Op, Ops

\* At the start nothing is deleted and nothing is stored.
LEMMA InitInv == Init => IInv
<1> SUFFICES ASSUME Init PROVE IInv
  OBVIOUS
<1>1. CopiesOK
  BY DEF Init, CopiesOK
<1>2. StoreOK
  BY EntitySyncAssumption DEF Init, StoreOK, Times
<1>3. WorkOK
  BY EntitySyncAssumption DEF Init, WorkOK, Times
<1>4. EngineOK
  BY DEF Init, EngineOK, Loop
<1>5. HistoryOK
  <2>1. kind \in [Entities -> Kinds \cup {NoKind}]
    BY DEF Init
  <2>2. dropped \in BOOLEAN
    BY DEF Init
  <2>3. edits \in 0 .. MaxEdits /\ faults \in 0 .. MaxFaults /\ deleted \in SUBSET Entities
    BY EntitySyncAssumption DEF Init
  <2> QED
    BY <2>1, <2>2, <2>3 DEF HistoryOK
<1>6. Buried
  BY DEF Init, Buried, Keys, Tombstone
<1>7. HasCopy
  BY DEF Init, HasCopy
<1> QED
  BY <1>1, <1>2, <1>3, <1>4, <1>5, <1>6, <1>7 DEF IInv, TypeOK

-----------------------------------------------------------------------------
(* The user's actions.                                                     *)

\* A new copy, and no tombstone.
LEMMA CreateKeeps ==
  ASSUME IInv, NEW d \in Devices, NEW e \in Entities, NEW k \in Kinds, Create(d, e, k)
  PROVE  IInv' /\ Survive
<1> USE DEF IInv, TypeOK, Create, history, local, store, subscription, engine
<1> DEFINE c == [content |-> 0, enabled |-> TRUE, synced |-> 0]
<1>a. c \in Copies
  BY TimeFacts DEF Copies
<1>c. c # NoCopy
  BY <1>a, CopyFacts
<1> HIDE DEF c
<1>b. Write(d, e, c)
  BY DEF c
<1>w. Queue(d, e, TRUE) /\ UNCHANGED <<known, connected, channel>>
  OBVIOUS
<1>1. CopiesOK'
  BY <1>a, <1>b, WriteFacts
<1>2. StoreOK'
  BY DEF StoreOK
<1>3. WorkOK'
  BY <1>w, QueueFacts
<1>4. EngineOK'
  BY DEF EngineOK
<1>5. HistoryOK'
  BY DEF HistoryOK
<1>6. Buried'
  BY <1>w, QueueFacts DEF Buried
<1>7. HasCopy'
  BY DEF HasCopy
<1>8. Survive
  BY <1>a, <1>b, WriteFacts, <1>c DEF Survive
<1> QED
  BY <1>1, <1>2, <1>3, <1>4, <1>5, <1>6, <1>7, <1>8

\* A copy takes the place of a copy.
LEMMA EditKeeps ==
  ASSUME IInv, NEW d \in Devices, NEW e \in Entities, Edit(d, e)
  PROVE  IInv' /\ Survive
<1> USE DEF IInv, TypeOK, Edit, history, local, store, subscription, engine
<1> DEFINE c == [View(d, e) EXCEPT !.content = edits + 1]
<1>a. c \in Copies
  BY ViewFacts, EditFacts, CopyFacts
<1>c. c # NoCopy
  BY <1>a, CopyFacts
<1> HIDE DEF c
<1>b. Write(d, e, c)
  BY DEF c
<1>w. Queue(d, e, View(d, e).enabled) /\ UNCHANGED <<known, connected, channel>>
  OBVIOUS
<1>1. CopiesOK'
  BY <1>a, <1>b, WriteFacts
<1>2. StoreOK'
  BY DEF StoreOK
<1>3. WorkOK'
  BY <1>w, QueueFacts
<1>4. EngineOK'
  BY DEF EngineOK
<1>5. HistoryOK'
  BY EditFacts DEF HistoryOK
<1>6. Buried'
  BY <1>w, QueueFacts DEF Buried
<1>7. HasCopy'
  BY DEF HasCopy
<1>8. Survive
  BY <1>a, <1>b, WriteFacts, <1>c DEF Survive
<1> QED
  BY <1>1, <1>2, <1>3, <1>4, <1>5, <1>6, <1>7, <1>8

\* A copy takes the place of a copy.
LEMMA SetSyncEnabledKeeps ==
  ASSUME IInv, NEW d \in Devices, NEW e \in Entities, SetSyncEnabled(d, e)
  PROVE  IInv' /\ Survive
<1> USE DEF IInv, TypeOK, SetSyncEnabled, history, local, store, subscription, engine
<1>v. View(d, e) \in Copies
  BY ViewFacts
<1> DEFINE c == [View(d, e) EXCEPT !.enabled = ~ @,
                                   !.synced = IF View(d, e).enabled THEN 0 ELSE @]
<1>a. c \in Copies
  BY <1>v, CopyFacts, TimeFacts
<1>b. disk' = [disk EXCEPT ![d][e] = c]
  OBVIOUS
<1>c. c # NoCopy
  BY <1>a, CopyFacts
<1> HIDE DEF c
<1>w. Queue(d, e, ~ View(d, e).enabled) /\ UNCHANGED <<known, connected, channel>>
  OBVIOUS
<1>1. CopiesOK'
  BY <1>a, <1>b DEF CopiesOK
<1>2. StoreOK'
  BY DEF StoreOK
<1>3. WorkOK'
  BY <1>w, QueueFacts
<1>4. EngineOK'
  BY DEF EngineOK
<1>5. HistoryOK'
  BY EditFacts DEF HistoryOK
<1>6. Buried'
  BY <1>w, QueueFacts DEF Buried
<1>7. HasCopy'
  BY DEF HasCopy
<1>8. Survive
  BY <1>a, <1>b, <1>c DEF Survive, CopiesOK
<1> QED
  BY <1>1, <1>2, <1>3, <1>4, <1>5, <1>6, <1>7, <1>8

\* The copy that goes is a deleted entity's.
LEMMA DeleteKeeps ==
  ASSUME IInv, NEW d \in Devices, NEW e \in Entities, Delete(d, e)
  PROVE  IInv' /\ Survive
<1> USE DEF IInv, TypeOK, Delete, history, local, store, subscription, engine
<1>b. Write(d, e, NoCopy)
  OBVIOUS
<1>1. CopiesOK'
  BY <1>b, WriteFacts
<1>2. StoreOK'
  BY DEF StoreOK
<1>3. WorkOK'
  BY DEF WorkOK
<1>4. EngineOK'
  BY DEF EngineOK
<1>5. HistoryOK'
  BY EditFacts DEF HistoryOK
<1>6. Buried'
  BY DEF Buried
<1>7. HasCopy'
  BY DEF HasCopy
<1>8. Survive
  BY <1>b, WriteFacts DEF Survive
<1> QED
  BY <1>1, <1>2, <1>3, <1>4, <1>5, <1>6, <1>7, <1>8

-----------------------------------------------------------------------------
(* The server's actions.                                                   *)

\* An object goes for a user's deletion only.
LEMMA RemoveObjectKeeps ==
  ASSUME IInv, NEW d \in Devices, NEW e \in Entities, RemoveObject(d, e)
  PROVE  IInv' /\ Survive
<1> USE DEF IInv, TypeOK, RemoveObject, history, local, store, subscription, engine
<1>1. CopiesOK'
  BY DEF CopiesOK
<1>2. StoreOK'
  BY DEF StoreOK
<1>3. WorkOK'
  BY DEF WorkOK
<1>4. EngineOK'
  BY DEF EngineOK
<1>5. HistoryOK'
  BY FaultFacts DEF HistoryOK
<1>6. Buried'
  BY DEF Buried
<1>7. HasCopy'
  BY DEF HasCopy
<1>8. Survive
  BY DEF Survive, CopiesOK, StoreOK, Buried
<1> QED
  BY <1>1, <1>2, <1>3, <1>4, <1>5, <1>6, <1>7, <1>8

\* So does a tombstone come.
LEMMA PutTombstoneKeeps ==
  ASSUME IInv, NEW d \in Devices, NEW e \in Entities, PutTombstone(d, e)
  PROVE  IInv' /\ Survive
<1> USE DEF IInv, TypeOK, PutTombstone, history, local, store, subscription, engine
<1>1. CopiesOK'
  BY DEF CopiesOK
<1>2. StoreOK'
  BY TimeFacts DEF StoreOK
<1>3. WorkOK'
  BY DEF WorkOK
<1>4. EngineOK'
  BY DEF EngineOK
<1>5. HistoryOK'
  BY DEF HistoryOK
<1>6. Buried'
  BY DEF Buried
<1>7. HasCopy'
  BY DEF HasCopy
<1>8. Survive
  BY DEF Survive, CopiesOK, StoreOK
<1> QED
  BY <1>1, <1>2, <1>3, <1>4, <1>5, <1>6, <1>7, <1>8

\* A deletion that fails changes nothing that is stored.
LEMMA RemovalFailsKeeps ==
  ASSUME IInv, NEW d \in Devices, NEW e \in Entities, RemovalFails(d, e)
  PROVE  IInv' /\ Survive
<1> USE DEF IInv, TypeOK, RemovalFails, history, local, store, subscription, engine
<1>1. CopiesOK'
  BY DEF CopiesOK
<1>2. StoreOK'
  BY DEF StoreOK
<1>3. WorkOK'
  BY DEF WorkOK
<1>4. EngineOK'
  BY DEF EngineOK
<1>5. HistoryOK'
  BY FaultFacts DEF HistoryOK
<1>6. Buried'
  BY DEF Buried
<1>7. HasCopy'
  BY DEF HasCopy
<1>8. Survive
  BY DEF Survive, CopiesOK, StoreOK
<1> QED
  BY <1>1, <1>2, <1>3, <1>4, <1>5, <1>6, <1>7, <1>8

\* A subscription begins knowing nothing.
LEMMA ConnectKeeps ==
  ASSUME IInv, NEW d \in Devices, Connect(d)
  PROVE  IInv' /\ Survive
<1> USE DEF IInv, TypeOK, Connect, history, local, store, subscription, engine
<1>1. CopiesOK'
  BY DEF CopiesOK
<1>2. StoreOK'
  BY DEF StoreOK
<1>3. WorkOK'
  BY DEF WorkOK
<1>4. EngineOK'
  BY DEF EngineOK
<1>5. HistoryOK'
  BY DEF HistoryOK
<1>6. Buried'
  BY DEF Buried
<1>7. HasCopy'
  BY DEF HasCopy
<1>8. Survive
  BY DEF Survive, CopiesOK, StoreOK
<1> QED
  BY <1>1, <1>2, <1>3, <1>4, <1>5, <1>6, <1>7, <1>8

\* A subscription that ends forgets.
LEMMA DisconnectKeeps ==
  ASSUME IInv, NEW d \in Devices, Disconnect(d)
  PROVE  IInv' /\ Survive
<1> USE DEF IInv, TypeOK, Disconnect, history, local, store, subscription, engine
<1>1. CopiesOK'
  BY DEF CopiesOK
<1>2. StoreOK'
  BY DEF StoreOK
<1>3. WorkOK'
  BY ForgetFacts DEF WorkOK
<1>4. EngineOK'
  BY DEF EngineOK
<1>5. HistoryOK'
  BY FaultFacts DEF HistoryOK
<1>6. Buried'
  BY ForgetFacts, TombstoneKey DEF Buried
<1>7. HasCopy'
  BY DEF HasCopy
<1>8. Survive
  BY DEF Survive, CopiesOK, StoreOK
<1> QED
  BY <1>1, <1>2, <1>3, <1>4, <1>5, <1>6, <1>7, <1>8

\* A tombstone that is reported is in the store or was known: a user's deletion
\* in either case.  Here it matters that handle_event goes by the key.
LEMMA PollKeeps ==
  ASSUME IInv, NEW d \in Devices, NEW failing, NEW late \in BOOLEAN, Poll(d, failing, late)
  PROVE  IInv' /\ Survive
<1> USE DEF IInv, TypeOK, Poll, history, local, store, subscription, engine
<1> DEFINE current == [k \in Keys |-> IF Prefix(k) \in BasePrefixes \ failing
                                      THEN LastModified(k) ELSE 0]
           changed == {k \in Keys : current[k] \notin {0, known[d][k]}}
           gone == {k \in Keys : known[d][k] # 0 /\ current[k] = 0}
           events == {HandleEvent("change", k) : k \in changed}
                     \cup {HandleEvent("delete", k) : k \in gone}
<1>a. \A k \in Keys : current[k] \in Times
  BY TimeFacts, ObjectFacts DEF LastModified, Keys, StoreOK
<1>b. current \in [Keys -> Times]
  BY <1>a
<1>c. \A y \in Entities : current[Tombstone(y)] # 0 => y \in deleted
  BY TombstoneKey DEF LastModified, Buried
<1>d. events = changed \cup gone
  BY DEF HandleEvent
<1>e. \A y \in Entities : Tombstone(y) \in events => y \in deleted
  BY <1>c, <1>d DEF Buried
<1>f. events \in SUBSET Keys
  BY <1>d
<1>g. known' = [known EXCEPT ![d] = current] /\ UNCHANGED connected
  OBVIOUS
<1>h. (UNCHANGED <<channel, pending>>) \/ Send(d, events)
  OBVIOUS
<1>i. HistoryOK'
  BY FaultFacts DEF HistoryOK
<1> HIDE DEF current, events
<1>1. CopiesOK'
  BY DEF CopiesOK
<1>2. StoreOK'
  BY DEF StoreOK
<1>3. WorkOK'
  BY <1>b, <1>f, <1>g, <1>h, SendFacts DEF WorkOK
<1>4. EngineOK'
  BY DEF EngineOK
<1>5. HistoryOK'
  BY <1>i
<1>6. Buried'
  <2>1. \A x \in Devices, y \in Entities : known'[x][Tombstone(y)] # 0 => y \in deleted
    BY <1>b, <1>c, <1>g, TombstoneKey DEF Buried, WorkOK
  <2>2. \A x \in Devices, y \in Entities :
          Tombstone(y) \in channel'[x] \/ Tombstone(y) \in pending'[x] => y \in deleted
    <3>1. CASE UNCHANGED <<channel, pending>>
      BY <3>1 DEF Buried
    <3>2. CASE Send(d, events)
      BY <3>2, <1>e, <1>f, SendFacts DEF Buried
    <3> QED
      BY <1>h, <3>1, <3>2
  <2> QED
    BY <2>1, <2>2 DEF Buried
<1>7. HasCopy'
  BY DEF HasCopy
<1>8. Survive
  BY DEF Survive, CopiesOK, StoreOK
<1> QED
  BY <1>1, <1>2, <1>3, <1>4, <1>5, <1>6, <1>7, <1>8

-----------------------------------------------------------------------------
(* The scheduler's actions.                                                *)

\* Draining a queue leaves the copies alone.
LEMMA DrainKeeps ==
  ASSUME IInv, NEW d \in Devices, NEW r \in 1 .. 5, Drain(d, r)
  PROVE  IInv' /\ Survive
<1> USE DEF IInv, TypeOK, Drain, history, local, store, subscription, engine
<1>a. Queued(d, r) \in SUBSET Entities /\ r \in 0 .. 7
  BY DEF Queued
<1>1. CopiesOK'
  BY DEF CopiesOK
<1>2. StoreOK'
  BY DEF StoreOK
<1>3. WorkOK'
  BY DEF WorkOK
<1>4. EngineOK'
  BY <1>a DEF EngineOK
<1>5. HistoryOK'
  BY FaultFacts DEF HistoryOK
<1>6. Buried'
  BY DEF Buried
<1>7. HasCopy'
  BY DEF HasCopy
<1>8. Survive
  BY DEF Survive, CopiesOK, StoreOK
<1> QED
  BY <1>1, <1>2, <1>3, <1>4, <1>5, <1>6, <1>7, <1>8

\* The copies that go have a tombstone in the queue.
LEMMA ProcessTombstonesKeeps ==
  ASSUME IInv, NEW d \in Devices, ProcessTombstones(d)
  PROVE  IInv' /\ Survive
<1> USE DEF IInv, TypeOK, ProcessTombstones, history, local, store, subscription, engine
<1> DEFINE buried == {e \in Entities : Tombstone(e) \in pending[d]}
<1>w. Wait(d, {Tombstone(e) : e \in buried}) /\ UNCHANGED <<known, connected, todo, op>>
  OBVIOUS
<1>d. \A x \in Devices, y \in Entities \ buried : disk'[x][y] = disk[x][y]
  BY DEF CopiesOK
<1>1. CopiesOK'
  BY DEF CopiesOK
<1>2. StoreOK'
  BY DEF StoreOK
<1>3. WorkOK'
  BY <1>w, WaitFacts
<1>4. EngineOK'
  BY <1>w, WaitFacts
<1>5. HistoryOK'
  BY DEF HistoryOK
<1>6. Buried'
  BY <1>w, WaitFacts DEF Buried
<1>7. HasCopy'
  BY DEF HasCopy
<1>8. Survive
  BY <1>d DEF Survive, Buried
<1> QED
  BY <1>1, <1>2, <1>3, <1>4, <1>5, <1>6, <1>7, <1>8

-----------------------------------------------------------------------------
(* The engine's actions.                                                   *)

\* The engine starts with what is there.
LEMMA BeginKeeps ==
  ASSUME IInv, NEW d \in Devices, NEW e \in Entities, Begin(d, e)
  PROVE  IInv' /\ Survive
<1> USE DEF IInv, TypeOK, Begin, history, local, store, subscription, engine
<1>a. Op("stat", e, View(d, e)) \in Ops
  BY ViewFacts, OpType
<1>b. todo[d] \ {e} \in SUBSET Entities
  BY DEF EngineOK
<1>1. CopiesOK'
  BY DEF CopiesOK
<1>2. StoreOK'
  BY DEF StoreOK
<1>3. WorkOK'
  BY DEF WorkOK
<1>4. EngineOK'
  BY <1>a, <1>b DEF EngineOK
<1>5. HistoryOK'
  BY DEF HistoryOK
<1>6. Buried'
  BY DEF Buried
<1>7. HasCopy'
  BY ViewFacts, OpType DEF HasCopy, EngineOK
<1>8. Survive
  BY DEF Survive, CopiesOK, StoreOK
<1> QED
  BY <1>1, <1>2, <1>3, <1>4, <1>5, <1>6, <1>7, <1>8

\* Only what there is a copy of is put.
LEMMA StatKeeps ==
  ASSUME IInv, NEW d \in Devices, Stat(d)
  PROVE  IInv' /\ Survive
<1> USE DEF IInv, TypeOK, Stat, history, local, store, subscription, engine
<1> DEFINE e == op[d].id
           c == op[d].copy
           what == Decide(c, object[e])
           o == IF what = "put" THEN Op("put", e, [c EXCEPT !.synced = now])
                ELSE IF what = "get" THEN Op("get", e, NoCopy) ELSE NoOp
<1>a. e \in Entities /\ c \in Copies \cup {NoCopy}
  BY OpFacts
<1>b. what = "put" => c # NoCopy
  BY DEF Decide
<1>c. what = "put" => [c EXCEPT !.synced = now] \in Copies
  BY <1>a, <1>b, CopyFacts, TimeFacts
<1>d. o \in Ops \cup {NoOp}
  BY <1>a, <1>c, OpType
<1>e. o # NoOp /\ o.at \in {"put", "keep", "save"} => o.copy # NoCopy
  <2>1. CASE what = "put"
    <3>1. o = Op("put", e, [c EXCEPT !.synced = now])
      BY <2>1
    <3>2. [c EXCEPT !.synced = now] \in Copies
      BY <1>c, <2>1
    <3>3. [c EXCEPT !.synced = now] # NoCopy
      BY <3>2, CopyFacts
    <3>4. o.copy = [c EXCEPT !.synced = now]
      BY <1>a, <3>1, <3>2, OpType
    <3> QED
      BY <3>3, <3>4
  <2>2. CASE what = "get"
    <3>1. o = Op("get", e, NoCopy)
      BY <2>2
    <3> QED
      BY <1>a, <3>1, OpType
  <2>3. CASE what \notin {"put", "get"}
    BY <2>3
  <2> QED
    BY <2>1, <2>2, <2>3
<1>s. op' = [op EXCEPT ![d] = o] /\ UNCHANGED <<stage, todo>>
  OBVIOUS
<1> HIDE DEF o
<1>1. CopiesOK'
  BY DEF CopiesOK
<1>2. StoreOK'
  BY DEF StoreOK
<1>3. WorkOK'
  BY DEF WorkOK
<1>4. EngineOK'
  BY <1>d, <1>s, StepFacts
<1>5. HistoryOK'
  BY DEF HistoryOK
<1>6. Buried'
  BY DEF Buried
<1>7. HasCopy'
  BY <1>d, <1>e, <1>s, StepFacts DEF HasCopy
<1>8. Survive
  BY DEF Survive, CopiesOK, StoreOK
<1> QED
  BY <1>1, <1>2, <1>3, <1>4, <1>5, <1>6, <1>7, <1>8

\* An object is replaced, never taken away.
LEMMA PutKeeps ==
  ASSUME IInv, NEW d \in Devices, Put(d)
  PROVE  IInv' /\ Survive
<1> USE DEF IInv, TypeOK, Put, history, local, store, subscription, engine
<1> DEFINE c == op[d].copy
           obj == [content |-> c.content, enabled |-> c.enabled, mtime |-> now]
<1>a. op[d].id \in Entities /\ c \in Copies
  BY OpFacts DEF HasCopy
<1>b. obj \in Objects
  BY <1>a, CopyFacts, TimeFacts DEF Objects
<1>c. obj # NoCopy
  BY <1>b, ObjectFacts
<1>d. object' = [object EXCEPT ![op[d].id] = obj]
  OBVIOUS
<1>k. c # NoCopy
  BY <1>a, CopyFacts
<1> DEFINE o == Op("keep", op[d].id, c)
<1>f. o \in Ops /\ o.copy = c
  BY <1>a, OpType
<1>e. op' = [op EXCEPT ![d] = o] /\ UNCHANGED <<stage, todo>>
  OBVIOUS
<1> HIDE DEF o
<1> HIDE DEF obj
<1>1. CopiesOK'
  BY DEF CopiesOK
<1>2. StoreOK'
  BY <1>a, <1>b, <1>d DEF StoreOK
<1>3. WorkOK'
  BY DEF WorkOK
<1>4. EngineOK'
  BY <1>e, <1>f, StepFacts
<1>5. HistoryOK'
  BY DEF HistoryOK
<1>6. Buried'
  BY DEF Buried
<1>7. HasCopy'
  BY <1>e, <1>f, <1>k, StepFacts DEF HasCopy
<1>8. Survive
  BY <1>a, <1>c, <1>d DEF Survive, StoreOK
<1> QED
  BY <1>1, <1>2, <1>3, <1>4, <1>5, <1>6, <1>7, <1>8

\* A write-back never takes a copy away.
LEMMA KeepKeeps ==
  ASSUME IInv, NEW d \in Devices, Keep(d)
  PROVE  IInv' /\ Survive
<1> USE DEF IInv, TypeOK, Keep, history, local, store, subscription, engine
<1> DEFINE e == op[d].id
           kept == Kept(kind[e], disk[d][e], op[d].copy)
<1>a. e \in Entities /\ op[d].copy \in Copies /\ disk[d][e] \in Copies \cup {NoCopy}
  BY OpFacts DEF HasCopy, CopiesOK
<1>b. op[d].copy.enabled \in BOOLEAN /\ op[d].copy.synced \in Times
  BY <1>a, CopyFacts
<1>c. kept \in Copies \cup {NoCopy}
  BY <1>a, <1>b, CopyFacts DEF Kept
<1>d. disk[d][e] # NoCopy => kept \in Copies
  BY <1>a, <1>b, CopyFacts DEF Kept
<1>f. disk[d][e] # NoCopy => kept # NoCopy
  BY <1>d, CopyFacts
<1>e. disk' = [disk EXCEPT ![d][e] = kept]
  OBVIOUS
<1> HIDE DEF kept
<1>1. CopiesOK'
  BY <1>a, <1>c, <1>e DEF CopiesOK
<1>2. StoreOK'
  BY DEF StoreOK
<1>3. WorkOK'
  BY DEF WorkOK
<1>4. EngineOK'
  BY DEF EngineOK
<1>5. HistoryOK'
  BY DEF HistoryOK
<1>6. Buried'
  BY DEF Buried
<1>7. HasCopy'
  BY DEF HasCopy
<1>8. Survive
  BY <1>a, <1>e, <1>f DEF Survive, CopiesOK
<1> QED
  BY <1>1, <1>2, <1>3, <1>4, <1>5, <1>6, <1>7, <1>8

\* What is saved was there.
LEMMA GetKeeps ==
  ASSUME IInv, NEW d \in Devices, Get(d)
  PROVE  IInv' /\ Survive
<1> USE DEF IInv, TypeOK, Get, history, local, store, subscription, engine
<1> DEFINE e == op[d].id
           c == [content |-> object[e].content, synced |-> 0,
                 enabled |-> object[e].enabled \/ kind[e] \notin {"proxy", "group"}]
           o == IF object[e] = NoCopy THEN NoOp ELSE Op("save", e, c)
<1>a. e \in Entities /\ object[e] \in Objects \cup {NoCopy}
  BY OpFacts DEF StoreOK
<1>b. object[e] # NoCopy => c \in Copies
  BY <1>a, ObjectFacts, TimeFacts DEF Copies
<1>d. o \in Ops \cup {NoOp}
  BY <1>a, <1>b, OpType
<1>e. o # NoOp => o.copy # NoCopy
  <2>1. CASE object[e] = NoCopy
    BY <2>1
  <2>2. CASE object[e] # NoCopy
    <3>1. c \in Copies /\ c # NoCopy
      BY <1>b, <2>2, CopyFacts
    <3>2. o = Op("save", e, c)
      BY <2>2
    <3>3. o.copy = c
      <4> HIDE DEF c
      <4> QED
        BY <1>a, <3>1, <3>2, OpType
    <3> QED
      BY <3>1, <3>3
  <2> QED
    BY <2>1, <2>2
<1>s. op' = [op EXCEPT ![d] = o] /\ UNCHANGED <<stage, todo>>
  OBVIOUS
<1> HIDE DEF o
<1>1. CopiesOK'
  BY DEF CopiesOK
<1>2. StoreOK'
  BY DEF StoreOK
<1>3. WorkOK'
  BY DEF WorkOK
<1>4. EngineOK'
  BY <1>d, <1>s, StepFacts
<1>5. HistoryOK'
  BY DEF HistoryOK
<1>6. Buried'
  BY DEF Buried
<1>7. HasCopy'
  BY <1>d, <1>e, <1>s, StepFacts DEF HasCopy
<1>8. Survive
  BY DEF Survive, CopiesOK, StoreOK
<1> QED
  BY <1>1, <1>2, <1>3, <1>4, <1>5, <1>6, <1>7, <1>8

\* A download is a copy.
LEMMA SaveKeeps ==
  ASSUME IInv, NEW d \in Devices, Save(d)
  PROVE  IInv' /\ Survive
<1> USE DEF IInv, TypeOK, Save, history, local, store, subscription, engine
<1> DEFINE e == op[d].id
           c == [op[d].copy EXCEPT !.synced = now]
<1>a. e \in Entities /\ op[d].copy \in Copies
  BY OpFacts DEF HasCopy
<1>b. c \in Copies
  BY <1>a, CopyFacts, TimeFacts
<1>c. c # NoCopy
  BY <1>b, CopyFacts
<1>d. disk' = [disk EXCEPT ![d][e] = c]
  OBVIOUS
<1> HIDE DEF c
<1>1. CopiesOK'
  BY <1>a, <1>b, <1>d DEF CopiesOK
<1>2. StoreOK'
  BY DEF StoreOK
<1>3. WorkOK'
  BY DEF WorkOK
<1>4. EngineOK'
  BY DEF EngineOK
<1>5. HistoryOK'
  BY DEF HistoryOK
<1>6. Buried'
  BY DEF Buried
<1>7. HasCopy'
  BY DEF HasCopy
<1>8. Survive
  BY <1>a, <1>c, <1>d DEF Survive, CopiesOK
<1> QED
  BY <1>1, <1>2, <1>3, <1>4, <1>5, <1>6, <1>7, <1>8

\* A request that fails changes nothing that is stored.
LEMMA RequestFailsKeeps ==
  ASSUME IInv, NEW d \in Devices, RequestFails(d)
  PROVE  IInv' /\ Survive
<1> USE DEF IInv, TypeOK, RequestFails, history, local, store, subscription, engine
<1>1. CopiesOK'
  BY DEF CopiesOK
<1>2. StoreOK'
  BY DEF StoreOK
<1>3. WorkOK'
  BY DEF WorkOK
<1>4. EngineOK'
  BY DEF EngineOK
<1>5. HistoryOK'
  BY FaultFacts DEF HistoryOK
<1>6. Buried'
  BY DEF Buried
<1>7. HasCopy'
  BY DEF HasCopy
<1>8. Survive
  BY DEF Survive, CopiesOK, StoreOK
<1> QED
  BY <1>1, <1>2, <1>3, <1>4, <1>5, <1>6, <1>7, <1>8

-----------------------------------------------------------------------------
(* The start of the application.                                           *)

\* A restart leaves the files.
LEMMA RestartKeeps ==
  ASSUME IInv, NEW d \in Devices, Restart(d)
  PROVE  IInv' /\ Survive
<1> USE DEF IInv, TypeOK, Restart, history, local, store, subscription, engine
<1>1. CopiesOK'
  BY DEF CopiesOK
<1>2. StoreOK'
  BY DEF StoreOK
<1>3. WorkOK'
  BY ForgetFacts DEF WorkOK
<1>4. EngineOK'
  BY DEF EngineOK, Starting
<1>5. HistoryOK'
  BY FaultFacts DEF HistoryOK
<1>6. Buried'
  BY ForgetFacts, TombstoneKey DEF Buried, StoreOK, WorkOK
<1>7. HasCopy'
  BY DEF HasCopy
<1>8. Survive
  BY DEF Survive, CopiesOK, StoreOK
<1> QED
  BY <1>1, <1>2, <1>3, <1>4, <1>5, <1>6, <1>7, <1>8

\* A listing changes nothing that is stored.
LEMMA ListMissingKeeps ==
  ASSUME IInv, NEW d \in Devices, ListMissing(d)
  PROVE  IInv' /\ Survive
<1> USE DEF IInv, TypeOK, ListMissing, history, local, store, subscription, engine
<1>1. CopiesOK'
  BY DEF CopiesOK
<1>2. StoreOK'
  BY DEF StoreOK
<1>3. WorkOK'
  BY DEF WorkOK
<1>4. EngineOK'
  BY DEF EngineOK, Missing
<1>5. HistoryOK'
  BY FaultFacts DEF HistoryOK
<1>6. Buried'
  BY DEF Buried
<1>7. HasCopy'
  BY DEF HasCopy
<1>8. Survive
  BY DEF Survive, CopiesOK, StoreOK
<1> QED
  BY <1>1, <1>2, <1>3, <1>4, <1>5, <1>6, <1>7, <1>8

\* Nor does the look for a tombstone.
LEMMA CheckMissingKeeps ==
  ASSUME IInv, NEW d \in Devices, NEW e \in Entities, CheckMissing(d, e)
  PROVE  IInv' /\ Survive
<1> USE DEF IInv, TypeOK, CheckMissing, history, local, store, subscription, engine
<1> DEFINE get == Op("get", e, NoCopy)
<1>a. get \in Ops /\ get.at = "get"
  BY OpType
<1>b. op' = op \/ op' = [op EXCEPT ![d] = get]
  OBVIOUS
<1>c. \A x \in Devices : op'[x] = op[x] \/ op'[x] = get
  BY <1>b DEF EngineOK
<1> HIDE DEF get
<1>1. CopiesOK'
  BY DEF CopiesOK
<1>2. StoreOK'
  BY DEF StoreOK
<1>3. WorkOK'
  BY DEF WorkOK
<1>4. EngineOK'
  BY <1>a, <1>b DEF EngineOK
<1>5. HistoryOK'
  BY FaultFacts DEF HistoryOK
<1>6. Buried'
  BY DEF Buried
<1>7. HasCopy'
  BY <1>a, <1>c DEF HasCopy
<1>8. Survive
  BY DEF Survive, CopiesOK, StoreOK
<1> QED
  BY <1>1, <1>2, <1>3, <1>4, <1>5, <1>6, <1>7, <1>8

\* What waited in the channel is queued.
LEMMA StartedKeeps ==
  ASSUME IInv, NEW d \in Devices, Started(d)
  PROVE  IInv' /\ Survive
<1> USE DEF IInv, TypeOK, Started, history, local, store, subscription, engine
<1>w. Wait(d, {}) /\ UNCHANGED <<known, connected, todo, op>>
  OBVIOUS
<1>1. CopiesOK'
  BY DEF CopiesOK
<1>2. StoreOK'
  BY DEF StoreOK
<1>3. WorkOK'
  BY <1>w, WaitFacts
<1>4. EngineOK'
  BY <1>w, WaitFacts
<1>5. HistoryOK'
  BY DEF HistoryOK
<1>6. Buried'
  BY <1>w, WaitFacts DEF Buried
<1>7. HasCopy'
  BY DEF HasCopy
<1>8. Survive
  BY DEF Survive, CopiesOK, StoreOK
<1> QED
  BY <1>1, <1>2, <1>3, <1>4, <1>5, <1>6, <1>7, <1>8

-----------------------------------------------------------------------------
(* The clock, a stuttering step, and all of them.                          *)

LEMMA TickKeeps ==
  ASSUME IInv, Tick
  PROVE  IInv' /\ Survive
<1> USE DEF IInv, TypeOK, Tick, history, local, store, subscription, engine
<1>1. CopiesOK'
  BY DEF CopiesOK
<1>2. StoreOK'
  BY EntitySyncAssumption DEF StoreOK
<1>3. WorkOK'
  BY DEF WorkOK
<1>4. EngineOK'
  BY DEF EngineOK
<1>5. HistoryOK'
  BY DEF HistoryOK
<1>6. Buried'
  BY DEF Buried
<1>7. HasCopy'
  BY DEF HasCopy
<1>8. Survive
  BY DEF Survive, CopiesOK, StoreOK
<1> QED
  BY <1>1, <1>2, <1>3, <1>4, <1>5, <1>6, <1>7, <1>8

LEMMA NothingKeeps ==
  ASSUME IInv, UNCHANGED vars
  PROVE  IInv' /\ Survive
<1> USE DEF vars, history, local, store, subscription, engine
<1>1. TypeOK'
  BY DEF IInv, TypeOK, CopiesOK, StoreOK, WorkOK, EngineOK, HistoryOK
<1>2. Buried' /\ HasCopy'
  BY DEF IInv, Buried, HasCopy
<1>3. Survive
  BY DEF Survive
<1> QED
  BY <1>1, <1>2, <1>3 DEF IInv

\* Every step keeps the invariant, and what nobody has deleted.
LEMMA StepKeeps ==
  ASSUME IInv, [Next]_vars
  PROVE  IInv' /\ Survive
<1>1. ASSUME NEW d \in Devices, NEW e \in Entities, NEW k \in NewKinds, Create(d, e, k)
      PROVE  IInv' /\ Survive
  BY <1>1, CreateKeeps, EntitySyncAssumption
<1>2. ASSUME NEW d \in Devices, NEW e \in Entities, Edit(d, e)
      PROVE  IInv' /\ Survive
  BY <1>2, EditKeeps
<1>3. ASSUME NEW d \in Devices, NEW e \in Entities, SetSyncEnabled(d, e)
      PROVE  IInv' /\ Survive
  BY <1>3, SetSyncEnabledKeeps
<1>4. ASSUME NEW d \in Devices, NEW e \in Entities, Delete(d, e)
      PROVE  IInv' /\ Survive
  BY <1>4, DeleteKeeps
<1>5. ASSUME NEW d \in Devices, NEW e \in Entities, RemoveObject(d, e)
      PROVE  IInv' /\ Survive
  BY <1>5, RemoveObjectKeeps
<1>6. ASSUME NEW d \in Devices, NEW e \in Entities, PutTombstone(d, e)
      PROVE  IInv' /\ Survive
  BY <1>6, PutTombstoneKeeps
<1>7. ASSUME NEW d \in Devices, NEW e \in Entities, RemovalFails(d, e)
      PROVE  IInv' /\ Survive
  BY <1>7, RemovalFailsKeeps
<1>8. ASSUME NEW d \in Devices, Connect(d)
      PROVE  IInv' /\ Survive
  BY <1>8, ConnectKeeps
<1>9. ASSUME NEW d \in Devices, Disconnect(d)
      PROVE  IInv' /\ Survive
  BY <1>9, DisconnectKeeps
<1>10. ASSUME NEW d \in Devices, NEW failing, NEW late \in BOOLEAN, Poll(d, failing, late)
       PROVE  IInv' /\ Survive
  BY <1>10, PollKeeps
<1>11. ASSUME NEW d \in Devices, NEW r \in 1 .. 5, Drain(d, r)
       PROVE  IInv' /\ Survive
  BY <1>11, DrainKeeps
<1>12. ASSUME NEW d \in Devices, ProcessTombstones(d)
       PROVE  IInv' /\ Survive
  BY <1>12, ProcessTombstonesKeeps
<1>13. ASSUME NEW d \in Devices, NEW e \in Entities, Begin(d, e)
       PROVE  IInv' /\ Survive
  BY <1>13, BeginKeeps
<1>14. ASSUME NEW d \in Devices, Stat(d)
       PROVE  IInv' /\ Survive
  BY <1>14, StatKeeps
<1>15. ASSUME NEW d \in Devices, Put(d)
       PROVE  IInv' /\ Survive
  BY <1>15, PutKeeps
<1>16. ASSUME NEW d \in Devices, Keep(d)
       PROVE  IInv' /\ Survive
  BY <1>16, KeepKeeps
<1>17. ASSUME NEW d \in Devices, Get(d)
       PROVE  IInv' /\ Survive
  BY <1>17, GetKeeps
<1>18. ASSUME NEW d \in Devices, Save(d)
       PROVE  IInv' /\ Survive
  BY <1>18, SaveKeeps
<1>19. ASSUME NEW d \in Devices, RequestFails(d)
       PROVE  IInv' /\ Survive
  BY <1>19, RequestFailsKeeps
<1>20. ASSUME NEW d \in Devices, Restart(d)
       PROVE  IInv' /\ Survive
  BY <1>20, RestartKeeps
<1>21. ASSUME NEW d \in Devices, ListMissing(d)
       PROVE  IInv' /\ Survive
  BY <1>21, ListMissingKeeps
<1>22. ASSUME NEW d \in Devices, NEW e \in Entities, CheckMissing(d, e)
       PROVE  IInv' /\ Survive
  BY <1>22, CheckMissingKeeps
<1>23. ASSUME NEW d \in Devices, Started(d)
       PROVE  IInv' /\ Survive
  BY <1>23, StartedKeeps
<1>24. CASE Tick
  BY <1>24, TickKeeps
<1>25. CASE UNCHANGED vars
  BY <1>25, NothingKeeps
<1>26. ASSUME NEW d \in Devices, Users(d)
      PROVE  IInv' /\ Survive
  BY <1>26, <1>1, <1>2, <1>3, <1>4 DEF Users
<1>27. ASSUME NEW d \in Devices, Server(d)
      PROVE  IInv' /\ Survive
  BY <1>27, <1>5, <1>6, <1>7, <1>8, <1>9, <1>10 DEF Server, Subscription
<1>28. ASSUME NEW d \in Devices, Works(d)
      PROVE  IInv' /\ Survive
  BY <1>28, <1>11, <1>12, <1>13, <1>14, <1>15, <1>16, <1>17, <1>18,
     <1>21, <1>22, <1>23 DEF Works
<1> QED
  BY <1>19, <1>20, <1>24, <1>25, <1>26, <1>27, <1>28 DEF Next

\* The invariant holds however many devices, entities, edits and faults there are.
THEOREM EntitySyncInv == Spec => []IInv
<1>1. Init => IInv
  BY InitInv
<1>2. IInv /\ [Next]_vars => IInv'
  BY StepKeeps
<1> QED
  BY <1>1, <1>2, PTL DEF Spec

\* Types are kept: the shape of the copies, the store, the work and the engine.
THEOREM EntitySyncTypeCorrect == Spec => []TypeOK
<1>1. IInv => TypeOK
  BY DEF IInv
<1> QED
  BY <1>1, EntitySyncInv, PTL

\* What no user has deleted is lost nowhere: no listing that fails, delete
\* event, lost connection, restart or late answer takes away an object or a
\* device's copy (handle_event, process_pending_tombstones, the write-backs).
THEOREM Survives == Spec => EntitiesSurvive
<1>1. IInv /\ [Next]_vars => [Survive]_vars
  BY StepKeeps
<1> QED
  BY <1>1, EntitySyncInv, PTL DEF Spec, EntitiesSurvive
=============================================================================
