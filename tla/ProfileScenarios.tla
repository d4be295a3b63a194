-------------------------- MODULE ProfileScenarios --------------------------
(* Two scenarios of ProfileSync: a device alone, whose browser runs during
   the syncs; and devices that take turns.  In both a sync may fail. *)
EXTENDS ProfileSync

CONSTANTS
  Single,   \* the device that is alone
  ExitsIn   \* the scenarios where the application may end during a sync

ASSUME ScenariosAssumption ==
  /\ Single \in Devices
  /\ ExitsIn \subseteq {"alone", "turns"}

VARIABLE scenario
Alone == scenario = "alone"
TakeTurns == ~Alone

\* The devices take turns: one is edited when it has what the store has, and
\* synchronises, again when that is reported as an error, before it is edited
\* further or another one does anything.
MyTurn(d) == \A e \in Devices \ {d} : sync[e].at = "idle" /\ unsynced[e] = {}
UpToDate(d) == \A p \in DataPaths \ unsynced[d] :
  IF disk[d][p] = Absent THEN remote[p] = Absent ELSE remote[p] = disk[d][p].data

Acts(d) == IF Alone THEN d = Single ELSE MyTurn(d)

Syncs(d) == Acts(d) /\ SyncStep(d)

\* (Fewer edits when the devices take turns.)
Edits(d) ==
  /\ Acts(d)
  /\ Alone \/ (sync[d].at = "idle" /\ UpToDate(d) /\ version < MaxVersion - 1)
  /\ Edit(d)

Fails(d) == Acts(d) /\ (Abort(d) \/ (scenario \in ExitsIn /\ Exit(d)))

ScenariosInit ==
  /\ Init
  /\ scenario \in {"alone", "turns"}
  /\ Alone => HasProfile(Single)
ScenariosNext ==
  /\ Tick \/ \E d \in Devices : Syncs(d) \/ Edits(d) \/ Fails(d)
  /\ UNCHANGED scenario
Scenarios ==
  /\ ScenariosInit /\ [][ScenariosNext]_<<vars, scenario>>
  /\ WF_vars(Tick) /\ \A d \in Devices : WF_vars(Syncs(d))

\* The store ends up with every file as it is on a device that is alone, once
\* nothing fails any more, whatever the syncs that ended half-way have left.
\* (Where the upload of one file may fail, TLC refutes it.  The turns end with
\* the bounded time, and with some sync unfinished.)
AloneCatchesUp == Alone => StoreCatchesUp
=============================================================================
