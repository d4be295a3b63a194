---------------------------- MODULE MCProfileSync ----------------------------
(* Small instances of ProfileSync. *)
EXTENDS ProfileSync

Nothing == {}
Ends == {"exit", "quit"}
=============================================================================
