---------------------------- MODULE TailcatChild ----------------------------
(***************************************************************************)
(* What the life of the proxy process is about: the `tailcat socks' child  *)
(* it launches, the signals it is sent, bin/stop.sh, and time in seconds.  *)
(* The state the three implementations keep from their start to their end  *)
(* is declared here too, so that Lifecycle can run any of them.            *)
(***************************************************************************)
EXTENDS Integers

CONSTANTS
    ReadyTimeout,   \* the wait for the child to listen
    Overrun,        \* how far its last attempt and sleep can go past that
    Grace,          \* from SIGTERM to SIGKILL of the child
    StopWindow,     \* from the SIGTERM to the SIGKILL of bin/stop.sh
    MaxSignals      \* signals sent to the proxy (bounds the model)

ASSUME LifecycleAssumption ==
    /\ {ReadyTimeout, Overrun, Grace, StopWindow, MaxSignals} \subseteq Nat
    /\ Grace > 0 /\ 2 * Grace < StopWindow

\* The window "covers the proxy's two longest exit paths" (bin/stop.sh:43-45): a wait
\* for the port that cannot be interrupted, and the escalation that may follow it.
ASSUME WindowAssumption ==
    /\ ReadyTimeout + Overrun < StopWindow
    /\ ReadyTimeout + Grace <= StopWindow

VARIABLES
    at,         \* where the main thread of the proxy is
    code,       \* the exit status it has decided on
    latched,    \* Go: the context is cancelled; Rust: a signal waits to be received
    handler,    \* Python: the handler of SIGTERM is installed
    reaped,     \* Go: childDone is closed
    serving,    \* what the accept loop does, once it runs
    broken,     \* history: accept failed with an error that does not pass
    child,      \* the child process
    squatter,   \* another process listens on the address meant for the child
    termed,     \* the child was sent a SIGTERM
    grace,      \* time left before the child is killed, or Off
    waited,     \* time spent waiting for the child to listen
    signals,    \* signals the proxy was sent
    stopsh      \* time left in the window of bin/stop.sh, or where else it is

acceptVars == <<serving, broken>>
mainVars == <<at, code, latched, handler, reaped, serving, broken>>
childVars == <<child, squatter>>
timeVars == <<termed, grace, waited>>
outside == <<signals, stopsh>>
procVars == <<mainVars, childVars, timeVars, outside>>

Off == -1
NotRun == -2
Over == {"exited", "dropped", "forced"}     \* returned, killed by default, by stop.sh
Alive == child \in {"starting", "ready"}
Died == child \in {"died", "stopped"}       \* by itself, or sent a signal

Places ==
    Over \cup {"start", "launch", "spawn", "wait", "precheck", "select", "parked", "stop",
               "reap", "reaping", "register", "install", "announce", "serve",
               "atexit", "atexiting"}

ProcTypeOK ==
    /\ at \in Places /\ code \in {0, 1}
    /\ serving \in {"accepting", "backoff", "ended"}
    /\ {latched, handler, reaped, broken, squatter, termed} \subseteq BOOLEAN
    /\ child \in {"none", "starting", "ready", "died", "stopped"}
    /\ grace \in Off..Grace
    /\ waited \in 0..(ReadyTimeout + Overrun)
    /\ signals \in 0..MaxSignals
    /\ stopsh \in {NotRun, Off} \cup 0..StopWindow

\* The process is there, and has run nothing.
Started ==
    /\ at = "start" /\ code = 0
    /\ latched = FALSE /\ handler = FALSE /\ reaped = FALSE
    /\ serving = "accepting" /\ broken = FALSE
    /\ child = "none" /\ squatter \in BOOLEAN
    /\ termed = FALSE /\ grace = Off /\ waited = 0
    /\ signals = 0 /\ stopsh = NotRun

-----------------------------------------------------------------------------
(* The child, which is external.                                           *)

ChildListens ==
    /\ child = "starting" /\ ~squatter
    /\ child' = "ready" /\ UNCHANGED grace

ChildDies == Alive /\ child' = "died" /\ grace' = Off

ChildObeys ==
    /\ Alive /\ termed
    /\ child' = "stopped" /\ grace' = Off

Tailcat ==
    /\ ChildListens \/ ChildDies \/ ChildObeys
    /\ UNCHANGED <<mainVars, squatter, termed, waited, outside>>

\* What a connect to the upstream address finds.
Connects == child = "ready" \/ squatter

-----------------------------------------------------------------------------
(* bin/stop.sh, once it has sent the SIGTERM, and time.                    *)

\* kill -0: the proxy is gone.
StopSees ==
    /\ stopsh >= 0 /\ at \in Over
    /\ stopsh' = Off
    /\ UNCHANGED <<mainVars, childVars, timeVars, signals>>

StopKills ==
    /\ stopsh = 0 /\ at \notin Over
    /\ at' = "forced" /\ stopsh' = Off
    /\ UNCHANGED <<code, latched, handler, reaped, acceptVars, childVars, timeVars, signals>>

Less(t) == IF t > 0 THEN t - 1 ELSE t

\* A second of waiting; quiet says that the proxy has nothing else to do.
Second(quiet) ==
    /\ quiet /\ at \notin Over
    /\ grace # 0 /\ stopsh # 0
    /\ at = "wait" \/ grace > 0 \/ stopsh > 0
    /\ waited' = IF at = "wait" THEN waited + 1 ELSE waited
    /\ grace' = Less(grace) /\ stopsh' = Less(stopsh)
    /\ UNCHANGED <<mainVars, childVars, termed, signals>>

-----------------------------------------------------------------------------
(* Parts the steps of the implementations are made of.                     *)

Goto(here, there) == at = here /\ at' = there

\* Faulty variant: nothing follows the SIGTERM.
TermOnly == termed' = TRUE /\ UNCHANGED <<grace, waited>>

\* The child gets a SIGTERM and its time to obey.
SendTerm == termed' = TRUE /\ grace' = Grace /\ UNCHANGED waited

\* The child gets a SIGKILL.
SendKill == child' = "stopped" /\ grace' = Off /\ UNCHANGED <<squatter, termed, waited>>

\* The poll for the port: it connected; it gave up.
WaitSucceeds == at = "wait" /\ Connects /\ waited < ReadyTimeout + Overrun
WaitFails == at = "wait" /\ waited >= ReadyTimeout

\* Faulty variant: the poll never gives up.
WaitsForEver == at = "wait" /\ ~Connects
WaitsOn == at = "wait" /\ ~Connects /\ waited < ReadyTimeout + Overrun

=============================================================================
