--------------------------- MODULE MCBrowserRuns ----------------------------
(* Small instances of BrowserRuns. *)
EXTENDS BrowserRuns, TLC

CONSTANTS cam, way, b1, b2, w1, w2, direct, other, changed, s1, s2

\* The second proxy has two settings: its password changes.
Hosts == [u \in Upstreams |-> IF u = direct THEN direct ELSE other]

\* The commands are alike.
Alike == Permutations(Slots)
=============================================================================
