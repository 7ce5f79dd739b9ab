--------------------------- MODULE MCEitherRelay ---------------------------
(* EitherRelay for TLC; the constants get their values in the .cfg file.   *)
EXTENDS EitherRelay

=============================================================================
