----------------------------- MODULE MCTeamLock -----------------------------
(* Small instances of TeamLock. *)
EXTENDS TeamLock, TLC

CONSTANTS a, b, ann, bob

OneEach == a :> ann @@ b :> bob
Both(events) == a :> events @@ b :> events
\* Ann's app is reliable; Bob's heartbeats may be lost and his app may end.
Mixed == a :> {"launch", "exit", "lost_delete", "unlocked"}
         @@ b :> {"launch", "lost_renewal", "quit"}
\* Bob looks on.
Gone == a :> {"launch", "failed_launch", "lost_delete", "lost_renewal", "logout", "quit"}
        @@ b :> {"logout", "quit"}
Refuting == Both({"launch", "logout", "unlocked"})
Exit == Both({"launch", "exit", "lost_delete"})
=============================================================================
