-------------------------- MODULE MCControlBilling --------------------------
(* A small instance of ControlBilling: two plans, one of which costs little
   enough for a discount to round it, and one licence for each. *)
EXTENDS ControlBilling, TLC

CONSTANTS ann, bob, w1, w2, k1, l1

Prices == [plan \in {1, 2} |-> IF plan = 1 THEN 1 ELSE 4]
LicencePlans == [l \in {l1} |-> 1]
OneManages == {<<ann, w1>>}
Symmetry == Permutations({w1, w2})
BothManage == {<<ann, w1>>, <<ann, w2>>}
=============================================================================
