------------------------------- MODULE GoMain -------------------------------
(***************************************************************************)
(* run() of go/main.go, with spawnTailcatSocks() and waitReady(): the main *)
(* goroutine, the goroutine that waits for the child and closes childDone, *)
(* and the one os/exec runs to signal the child when the context ends.     *)
(***************************************************************************)
EXTENDS TailcatChild

\* The handler comes before everything else.
Install ==
    /\ Goto("start", "launch")
    /\ UNCHANGED <<code, latched, handler, reaped, acceptVars, childVars, timeVars, outside>>

\* The file, the flags and the listener are fine, or it is the end; with
\* --no-autolaunch there is no child.
Launch ==
    /\ at = "launch"
    /\ \/ at' = "exited" /\ code' = 1
       \/ at' \in {"spawn", "precheck"} /\ UNCHANGED code
    /\ UNCHANGED <<latched, handler, reaped, acceptVars, childVars, timeVars, outside>>

\* exec refuses to start a child for a context that is over.
Spawn ==
    /\ at = "spawn"
    /\ \/ latched /\ at' = "exited" /\ code' = 0 /\ UNCHANGED child
       \/ ~latched /\ at' = "exited" /\ code' = 1 /\ UNCHANGED child
       \/ ~latched /\ at' = "wait" /\ child' = "starting" /\ UNCHANGED code
    /\ UNCHANGED <<latched, handler, reaped, acceptVars, squatter, timeVars, outside>>

Ready ==
    /\ WaitSucceeds /\ ~latched
    /\ at' = "precheck"
    /\ UNCHANGED <<code, latched, handler, reaped, acceptVars, childVars, timeVars, outside>>

\* Faulty variant: whatever ended the wait, the exit status says nothing.
NotReadyQuiet ==
    /\ (at = "wait" /\ latched) \/ WaitFails
    /\ at' = "reap" /\ code' = 0 /\ latched' = TRUE
    /\ UNCHANGED <<handler, reaped, acceptVars, childVars, timeVars, outside>>

\* The context ended the wait, or the time for it has run out: cancel().
NotReady ==
    /\ (at = "wait" /\ latched) \/ WaitFails
    /\ at' = "reap" /\ latched' = TRUE
    /\ code' = IF latched THEN 0 ELSE 1
    /\ UNCHANGED <<handler, reaped, acceptVars, childVars, timeVars, outside>>

\* The select with a default: a child that is gone by now decides.
Precheck ==
    /\ at = "precheck"
    /\ IF reaped THEN at' = "stop" /\ code' = 1 ELSE at' = "select" /\ UNCHANGED code
    /\ UNCHANGED <<latched, handler, reaped, acceptVars, childVars, timeVars, outside>>

\* The select without: any case that is ready, or none is.
Select ==
    /\ at = "select"
    /\ \/ (latched \/ serving = "ended") /\ at' = "stop" /\ code' = 0
       \/ reaped /\ at' = "stop" /\ code' = 1
       \/ ~latched /\ serving # "ended" /\ ~reaped /\ at' = "parked" /\ UNCHANGED code
    /\ UNCHANGED <<latched, handler, reaped, acceptVars, childVars, timeVars, outside>>

\* cancel() and srv.Close().
Stop ==
    /\ at = "stop"
    /\ at' = IF child = "none" THEN "exited" ELSE "reap"
    /\ latched' = TRUE
    /\ UNCHANGED <<code, handler, reaped, acceptVars, childVars, timeVars, outside>>

\* Faulty variant: run returns without waiting for childDone.
ReapNot ==
    /\ Goto("reap", "exited")
    /\ UNCHANGED <<code, latched, handler, reaped, acceptVars, childVars, timeVars, outside>>

Reap ==
    /\ reaped /\ Goto("reap", "exited")
    /\ UNCHANGED <<code, latched, handler, reaped, acceptVars, childVars, timeVars, outside>>

-----------------------------------------------------------------------------
(* What wakes a parked select: the first case that becomes ready.          *)

\* Faulty variant: the select does not have the case.
WakesNot(status) == UNCHANGED <<at, code>>

Wakes(status) ==
    IF at = "parked" THEN at' = "stop" /\ code' = status ELSE UNCHANGED <<at, code>>

\* cmd.Wait() returned: childDone is closed.
Monitor ==
    /\ Died /\ ~reaped
    /\ reaped' = TRUE
    /\ Wakes(1)
    /\ UNCHANGED <<latched, handler, acceptVars, childVars, timeVars, outside>>

\* Faulty variant: every error of accept ends Serve(), as in Rust and Python.
AcceptFailsAlways ==
    /\ at \in {"precheck", "select", "parked"} /\ serving = "accepting"
    /\ serving' = "ended" /\ broken' \in BOOLEAN
    /\ Wakes(0)
    /\ UNCHANGED <<latched, handler, reaped, childVars, timeVars, outside>>

\* Serve(): an aborted connection and a lack of descriptors pass, and the loop backs
\* off; any other error ends it, and is received in the select.
AcceptFails ==
    /\ at \in {"precheck", "select", "parked"} /\ serving = "accepting"
    /\ \/ serving' = "backoff" /\ UNCHANGED <<broken, at, code>>
       \/ serving' = "ended" /\ broken' = TRUE /\ Wakes(0)
    /\ UNCHANGED <<latched, handler, reaped, childVars, timeVars, outside>>

\* The delay, a second at most, is over.
AcceptAgain ==
    /\ serving = "backoff" /\ at \notin Over
    /\ serving' = "accepting"
    /\ UNCHANGED <<at, code, latched, handler, reaped, broken, childVars, timeVars, outside>>

\* notifyCtx; before the handler is there, the signal kills, and later it is swallowed.
Signal(kind) ==
    /\ at \notin Over
    /\ IF at = "start" THEN at' = "dropped" /\ UNCHANGED <<code, latched>>
                       ELSE latched' = TRUE /\ Wakes(0)
    /\ UNCHANGED <<handler, reaped, acceptVars, childVars, timeVars>>

\* cmd.Cancel when the context ends, and the kill after cmd.WaitDelay.
Cancel ==
    /\ latched /\ Alive /\ ~termed /\ at \notin Over
    /\ SendTerm
    /\ UNCHANGED <<mainVars, childVars, outside>>

Kill ==
    /\ grace = 0 /\ Alive /\ at \notin Over
    /\ SendKill
    /\ UNCHANGED <<mainVars, outside>>

Run ==
    \/ Install \/ Launch \/ Spawn \/ Ready \/ NotReady \/ Precheck \/ Select \/ Stop \/ Reap
    \/ Monitor \/ Cancel \/ Kill

\* Nothing to do but to wait for the child, a signal or a client.
Quiet ==
    /\ ~(Died /\ ~reaped) /\ ~(latched /\ Alive /\ ~termed)
    /\ \/ WaitsOn /\ ~latched
       \/ at = "parked"
       \/ at = "reap" /\ ~reaped

=============================================================================
