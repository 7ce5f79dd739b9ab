----------------------------- MODULE MCGoRelay -----------------------------
(* GoRelay for TLC; the constants get their values in the .cfg files.      *)
EXTENDS GoRelay

=============================================================================
