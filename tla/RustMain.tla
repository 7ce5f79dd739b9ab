------------------------------ MODULE RustMain ------------------------------
(***************************************************************************)
(* run() of rust/src/main.rs, with wait_ready() and terminate() of         *)
(* rust/src/tailcat.rs.  Signals are latched from the start and received   *)
(* only in the select at the end: nothing interrupts the wait for the      *)
(* child, and nothing watches the child after it.                          *)
(***************************************************************************)
EXTENDS TailcatChild

Install ==
    /\ Goto("start", "launch")
    /\ UNCHANGED <<code, latched, handler, reaped, acceptVars, childVars, timeVars, outside>>

\* The file, the flags and the listener are fine, or it is the end; with
\* --no-autolaunch there is no child.
Launch ==
    /\ at = "launch"
    /\ \/ at' = "exited" /\ code' = 1
       \/ at' \in {"spawn", "select"} /\ UNCHANGED code
    /\ UNCHANGED <<latched, handler, reaped, acceptVars, childVars, timeVars, outside>>

Spawn ==
    /\ at = "spawn"
    /\ \/ at' = "exited" /\ code' = 1 /\ UNCHANGED child
       \/ at' = "wait" /\ child' = "starting" /\ UNCHANGED code
    /\ UNCHANGED <<latched, handler, reaped, acceptVars, squatter, timeVars, outside>>

Ready ==
    /\ WaitSucceeds
    /\ at' = "select"
    /\ UNCHANGED <<code, latched, handler, reaped, acceptVars, childVars, timeVars, outside>>

NotReady ==
    /\ WaitFails
    /\ at' = "reap" /\ code' = 1
    /\ UNCHANGED <<latched, handler, reaped, acceptVars, childVars, timeVars, outside>>

\* A signal was received, or serve ended.
Select ==
    /\ at = "select" /\ (latched \/ serving = "ended")
    /\ at' = IF child = "none" THEN "exited" ELSE "reap"
    /\ UNCHANGED <<code, latched, handler, reaped, acceptVars, childVars, timeVars, outside>>

\* terminate(): the SIGTERM, a wait with a timeout, a SIGKILL and a wait without.
Terminate ==
    /\ Goto("reap", "reaping")
    /\ IF Alive THEN SendTerm ELSE UNCHANGED timeVars
    /\ UNCHANGED <<code, latched, handler, reaped, acceptVars, childVars, outside>>

Reap ==
    /\ Died /\ Goto("reaping", "exited")
    /\ UNCHANGED <<code, latched, handler, reaped, acceptVars, childVars, timeVars, outside>>

Kill ==
    /\ at = "reaping" /\ grace = 0 /\ Alive
    /\ SendKill
    /\ UNCHANGED <<mainVars, outside>>

\* serve() returned the error of an accept, whichever it was.
AcceptFails ==
    /\ at = "select" /\ serving = "accepting"
    /\ serving' = "ended" /\ broken' \in BOOLEAN
    /\ UNCHANGED <<at, code, latched, handler, reaped, childVars, timeVars, outside>>

Signal(kind) ==
    /\ at \notin Over
    /\ IF at = "start" THEN at' = "dropped" /\ UNCHANGED latched
                       ELSE latched' = TRUE /\ UNCHANGED at
    /\ UNCHANGED <<code, handler, reaped, acceptVars, childVars, timeVars>>

Run ==
    \/ Install \/ Launch \/ Spawn \/ Ready \/ NotReady \/ Select \/ Terminate \/ Reap \/ Kill

Quiet ==
    \/ WaitsOn
    \/ at = "select" /\ ~latched /\ serving # "ended"
    \/ at = "reaping" /\ Alive

=============================================================================
