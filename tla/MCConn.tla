------------------------------- MODULE MCConn -------------------------------
(* Conn for TLC; the constants get their values in the .cfg files.         *)
EXTENDS Conn

=============================================================================
