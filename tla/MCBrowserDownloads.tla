-------------------------- MODULE MCBrowserDownloads --------------------------
(* Small instances of BrowserDownloads. *)
EXTENDS BrowserDownloads, TLC

CONSTANTS s1, s2, p, q, r, c

Alike == Permutations(Slots) \cup Permutations(Profiles)
=============================================================================
