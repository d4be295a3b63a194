--------------------------- MODULE MCSyncScheduler ---------------------------
(* Small instances of SyncScheduler. *)
EXTENDS SyncScheduler

CONSTANTS p1, p2, proxy1, group1

OneKind == <<"proxy">>
TwoKinds == <<"proxy", "group">>
KindOfOne == [e \in {proxy1} |-> "proxy"]
KindOfTwo == [e \in {proxy1, group1} |-> IF e = proxy1 THEN "proxy" ELSE "group"]
NoKind == [e \in {} |-> "proxy"]
NothingAttached == [p \in Profiles |-> {}]
AllAttached == [p \in Profiles |-> Entities]
AllItems ==
  [type : {"profile"}, id : Profiles]
  \cup [type : {"entity"}, id : Entities]
  \cup [type : {"tombstone"}, id : Profiles \cup Entities]
NoItems == {}
EntityItems == [type : {"entity"}, id : Entities]

\* Every profile is enabled and idle at start-up, every entity synced.
InitAllEnabled ==
  /\ Init
  /\ \A p \in Profiles : profile[p] = [mode |-> "enabled", browser |-> FALSE]
  /\ \A e \in Entities : entity[e] = "synced"
SpecAllEnabled == InitAllEnabled /\ [][Next]_vars

\* For liveness: schedulers, restarts and requests.  The steps left out write
\* none of the variables a loop waits for.
NextLive ==
  \/ \E g \in Gen : LoopStep(g) \/ StarterStep(g) \/ RestartSyncService(g)
  \/ \E p \in Profiles : RequestProfileSync(p)
  \/ \E e \in Entities : QueueEntitySync(e)
  \/ \E item \in SseItems : SseEvent(1, item)
FairSpecLive == InitAllEnabled /\ [][NextLive]_vars /\ Fairness
=============================================================================
