------------------------- MODULE MCControlMembership -------------------------
(* Small instances of ControlMembership. *)
EXTENDS ControlMembership, TLC

CONSTANTS ann, bob

Nobody == {}
OnlyAnn == {ann}
OnlyBob == {bob}
Everybody == {ann, bob}
Slots == Permutations(InviteIds)
=============================================================================
