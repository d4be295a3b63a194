---------------------------- MODULE ExclusiveUse ----------------------------
(***************************************************************************)
(* What the team lock promises: a profile has at most one holder, it is    *)
(* used by its holder alone, and it changes hands only when nobody uses it. *)
(***************************************************************************)
CONSTANTS Profiles, Users, NoUser

VARIABLES
  holder,  \* who has each profile's lock
  using    \* who has each profile's browser open

useVars == <<holder, using>>

Init ==
  /\ holder = [p \in Profiles |-> NoUser]
  /\ using = [p \in Profiles |-> {}]

Take(u, p) ==
  /\ holder[p] = NoUser
  /\ holder' = [holder EXCEPT ![p] = u]
  /\ UNCHANGED using

Open(u, p) ==
  /\ holder[p] = u
  /\ using' = [using EXCEPT ![p] = @ \cup {u}]
  /\ UNCHANGED holder

Close(u, p) ==
  /\ using' = [using EXCEPT ![p] = @ \ {u}]
  /\ UNCHANGED holder

\* Given back, or lapsed; several may lapse at once.
GiveUp(free) ==
  /\ \A p \in free : using[p] = {}
  /\ holder' = [p \in Profiles |-> IF p \in free THEN NoUser ELSE holder[p]]
  /\ UNCHANGED using

Next ==
  \/ \E u \in Users, p \in Profiles : Take(u, p) \/ Open(u, p) \/ Close(u, p)
  \/ \E free \in SUBSET Profiles : GiveUp(free)

Spec == Init /\ [][Next]_useVars
=============================================================================
