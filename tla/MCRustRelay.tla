---------------------------- MODULE MCRustRelay ----------------------------
(* RustRelay for TLC; the constants get their values in the .cfg files.    *)
EXTENDS RustRelay

=============================================================================
