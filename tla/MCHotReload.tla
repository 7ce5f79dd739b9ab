---------------------------- MODULE MCHotReload ----------------------------
(* HotReload for TLC; the constants get their values in the .cfg files.    *)
EXTENDS HotReload

=============================================================================
