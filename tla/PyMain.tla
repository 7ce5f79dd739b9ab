------------------------------- MODULE PyMain -------------------------------
(***************************************************************************)
(* main() of python/tailcat_socks.py, with _wait_ready() and _terminate(). *)
(* SIGINT raises KeyboardInterrupt in the main thread at all times, and    *)
(* SIGTERM once its handler is installed, which comes after the wait for   *)
(* the child; before, it kills the process.  _terminate runs in the        *)
(* finally of main() and once more as an atexit function.                  *)
(***************************************************************************)
EXTENDS TailcatChild

Install ==
    /\ Goto("start", "launch")
    /\ UNCHANGED <<code, latched, handler, reaped, acceptVars, childVars, timeVars, outside>>

\* The file, the flags and the listener are fine, or an exception ends it; with
\* --no-autolaunch there is no child.
Launch ==
    /\ at = "launch"
    /\ \/ at' = "exited" /\ code' = 1
       \/ at' \in {"spawn", "install"} /\ UNCHANGED code
    /\ UNCHANGED <<latched, handler, reaped, acceptVars, childVars, timeVars, outside>>

Spawn ==
    /\ at = "spawn"
    /\ \/ at' = "exited" /\ code' = 1 /\ UNCHANGED child
       \/ at' = "register" /\ child' = "starting" /\ UNCHANGED code
    /\ UNCHANGED <<latched, handler, reaped, acceptVars, squatter, timeVars, outside>>

\* atexit.register.
Register ==
    /\ Goto("register", "wait")
    /\ UNCHANGED <<code, latched, handler, reaped, acceptVars, childVars, timeVars, outside>>

Ready ==
    /\ WaitSucceeds
    /\ at' = "install"
    /\ UNCHANGED <<code, latched, handler, reaped, acceptVars, childVars, timeVars, outside>>

NotReady ==
    /\ WaitFails
    /\ at' = "reap" /\ code' = 1
    /\ UNCHANGED <<latched, handler, reaped, acceptVars, childVars, timeVars, outside>>

InstallHandler ==
    /\ Goto("install", "announce")
    /\ handler' = TRUE
    /\ UNCHANGED <<code, latched, reaped, acceptVars, childVars, timeVars, outside>>

\* The watch thread and the messages, before the try that catches the interrupt.
Announce ==
    /\ Goto("announce", "serve")
    /\ UNCHANGED <<code, latched, handler, reaped, acceptVars, childVars, timeVars, outside>>

\* serve_forever() returns at any error of accept.
AcceptFails ==
    /\ Goto("serve", "reap")
    /\ serving' = "ended" /\ broken' \in BOOLEAN
    /\ UNCHANGED <<code, latched, handler, reaped, childVars, timeVars, outside>>

\* _terminate(), in main() and then at exit.
Terminate(here, there, after) ==
    /\ at = here
    /\ IF Alive THEN at' = there /\ SendTerm ELSE at' = after /\ UNCHANGED timeVars
    /\ UNCHANGED <<code, latched, handler, reaped, acceptVars, childVars, outside>>

Waited(there, after) ==
    /\ Died /\ Goto(there, after)
    /\ UNCHANGED <<code, latched, handler, reaped, acceptVars, childVars, timeVars, outside>>

Kill(there, after) ==
    /\ grace = 0 /\ Alive /\ Goto(there, after)
    /\ SendKill
    /\ UNCHANGED <<code, latched, handler, reaped, acceptVars, outside>>

Reap ==
    \/ Terminate("reap", "reaping", "atexit")
    \/ Waited("reaping", "atexit") \/ Kill("reaping", "atexit")
    \/ Terminate("atexit", "atexiting", "exited")
    \/ Waited("atexiting", "exited") \/ Kill("atexiting", "exited")

\* KeyboardInterrupt: the finally of main(), the function at exit, or the end.
Raise ==
    IF at = "serve" THEN at' = "reap" /\ UNCHANGED code
    ELSE IF at \in {"wait", "install", "announce", "reap", "reaping"} THEN at' = "atexit" /\ code' = 1
    ELSE at' = "exited" /\ code' = 1

Signal(kind) ==
    /\ at \notin Over
    /\ IF kind = "term" /\ ~handler THEN at' = "dropped" /\ UNCHANGED code ELSE Raise
    /\ UNCHANGED <<latched, handler, reaped, acceptVars, childVars, timeVars>>

Run ==
    \/ Install \/ Launch \/ Spawn \/ Register \/ Ready \/ NotReady
    \/ InstallHandler \/ Announce \/ Reap

Quiet ==
    \/ WaitsOn
    \/ at = "serve"
    \/ at \in {"reaping", "atexiting"} /\ Alive

=============================================================================
