---------------------------- MODULE MCLifecycle ----------------------------
(* Lifecycle for TLC; the constants get their values in the .cfg files.    *)
EXTENDS Lifecycle

=============================================================================
