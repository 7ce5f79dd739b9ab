-------------------------- MODULE Lifecycle_proofs --------------------------
(***************************************************************************)
(* What becomes of the child and of bin/stop.sh's window, proved for every *)
(* length of the waits and every number of signals.                        *)
(***************************************************************************)
EXTENDS Lifecycle, TLAPS

-----------------------------------------------------------------------------
(* The inductive invariant, as named parts.                                *)

\* What the escalation still needs.
Rest == IF grace = Off THEN 0 ELSE grace

\* Before the launch there is no child; a child that was told to end and has not is
\* on the clock of the escalation, and nobody else is.
Child ==
    /\ at \in {"start", "launch", "spawn"} => child = "none"
    /\ child = "none" => ~termed
    /\ grace # Off => Alive /\ termed
    /\ Alive /\ termed => grace # Off

Stopping == stopsh >= 0 /\ at \notin Over

\* Go: whoever stops it finds the context cancelled, and no more than the escalation
\* between that and the end; before it cancels itself, a signal did; nothing but a
\* signal or a broken listener leaves the exit status at 0.
GoInv ==
    /\ at \in {"start", "launch", "spawn", "wait", "precheck", "select", "parked", "stop",
               "reap", "exited", "dropped"}
    /\ at \in Over => ~Alive
    /\ at \in {"wait", "reap"} => child # "none"
    /\ at = "parked" => ~latched /\ ~reaped /\ serving # "ended"
    /\ serving = "ended" => broken
    /\ reaped => Died
    /\ latched /\ at \notin {"stop", "reap", "exited"} => signals > 0
    /\ at \in {"stop", "reap", "exited"} /\ code = 0 => signals > 0 \/ serving = "ended"
    /\ Stopping =>
        /\ latched
        /\ stopsh + Grace >= StopWindow + Rest
        /\ termed \/ stopsh = StopWindow

\* Rust: the wait for the port spends the window, and then the escalation does.
RustInv ==
    /\ at \in Over \cup {"start", "launch", "spawn", "wait", "select", "reap", "reaping"}
    /\ at \in {"exited", "dropped"} => ~Alive
    /\ at \in {"wait", "reap", "reaping"} => child # "none"
    /\ at \notin Over \cup {"reaping"} => ~termed
    /\ at = "reaping" /\ ~termed => ~Alive
    /\ at = "forced" => waited >= ReadyTimeout /\ termed
    /\ latched => signals > 0
    /\ at \in {"reap", "reaping", "exited"} /\ code = 0 => signals > 0 \/ serving = "ended"
    /\ Stopping =>
        /\ latched
        /\ at # "reaping" \/ ~termed => stopsh + waited >= StopWindow
        /\ stopsh + waited + Grace >= StopWindow + Rest

\* Python: once the handler is installed, a SIGTERM leads to the clean-up of main() or
\* to the one at exit, each with an escalation of its own.
PyInv ==
    /\ at \in {"start", "launch", "spawn", "register", "wait", "install", "announce", "serve",
               "reap", "reaping", "atexit", "atexiting", "exited", "dropped"}
    /\ at \in {"start", "launch", "spawn", "register", "wait", "install"} => ~handler
    /\ at \in {"reaping", "atexiting"} => termed
    /\ at \in {"atexit", "atexiting"} /\ Alive /\ handler => signals > 0
    /\ at \in Over /\ Alive => ~handler \/ signals > 1
    /\ at \in {"reap", "reaping", "atexit", "atexiting", "exited"} /\ code = 0 =>
          signals > 0 \/ serving = "ended"
    /\ Stopping =>
        /\ handler
        /\ at \in {"reap", "reaping", "atexit", "atexiting"}
        /\ at = "reap" => stopsh = StopWindow
        /\ at = "reaping" => stopsh + Grace >= StopWindow + Rest
        /\ at = "atexit" => stopsh + Grace >= StopWindow
        /\ at = "atexiting" => stopsh + 2 * Grace >= StopWindow + Rest

IInv ==
    /\ TypeOK
    /\ impl \in {"go", "rust", "python"}
    /\ Child
    /\ impl = "go" => GoInv
    /\ impl = "rust" => RustInv
    /\ impl = "python" => PyInv

\* The types, one by one.
LEMMA Types ==
    ASSUME IInv
    PROVE  /\ at \in Places /\ code \in {0, 1}
           /\ latched \in BOOLEAN /\ handler \in BOOLEAN /\ reaped \in BOOLEAN
           /\ serving \in {"accepting", "backoff", "ended"} /\ broken \in BOOLEAN /\ squatter \in BOOLEAN /\ termed \in BOOLEAN
           /\ grace \in Int /\ -1 <= grace /\ grace <= Grace
           /\ waited \in Nat /\ waited <= ReadyTimeout + Overrun
           /\ signals \in Nat /\ signals <= MaxSignals
           /\ stopsh \in Int /\ stopsh <= StopWindow
           /\ Grace \in Nat /\ StopWindow \in Nat /\ ReadyTimeout \in Nat /\ Overrun \in Nat /\ MaxSignals \in Nat
           /\ 0 < Grace /\ 2 * Grace < StopWindow
BY LifecycleAssumption DEF IInv, TypeOK, ProcTypeOK, Off, NotRun

-----------------------------------------------------------------------------
(* Go.                                                                     *)

LEMMA GoRuns ==
    ASSUME IInv, impl = "go", UNCHANGED impl, Go!Run
    PROVE  IInv'
<1> USE LifecycleAssumption DEF IInv, TypeOK, ProcTypeOK, Places, Over, Off, NotRun, Child, Alive, Died,
        GoInv, Stopping, Rest,
        Go!Goto, Go!Off, Go!NotRun, Go!Over, Go!Alive, Go!Died,
        Go!acceptVars, Go!mainVars, Go!childVars, Go!timeVars, Go!outside
<1>1. CASE Go!Install
    BY <1>1 DEF Go!Install
<1>2. CASE Go!Launch
    BY <1>2 DEF Go!Launch
<1>3. CASE Go!Spawn
    BY <1>3 DEF Go!Spawn
<1>4. CASE Go!Ready
    BY <1>4 DEF Go!Ready, Go!WaitSucceeds
<1>5. CASE Go!NotReady
    BY <1>5 DEF Go!NotReady, Go!WaitFails
<1>6. CASE Go!Precheck
    BY <1>6 DEF Go!Precheck
<1>7. CASE Go!Select
    BY <1>7 DEF Go!Select
<1>8. CASE Go!Stop
    BY <1>8 DEF Go!Stop
<1>9. CASE Go!Reap
    BY <1>9 DEF Go!Reap
<1>10. CASE Go!Monitor
    BY <1>10 DEF Go!Monitor, Go!Wakes
<1>11. CASE Go!Cancel
    BY <1>11 DEF Go!Cancel, Go!SendTerm
<1>12. CASE Go!Kill
    BY <1>12 DEF Go!Kill, Go!SendKill
<1> QED BY <1>1, <1>2, <1>3, <1>4, <1>5, <1>6, <1>7, <1>8, <1>9, <1>10, <1>11, <1>12 DEF Go!Run

\* A signal cancels the context; an accept that failed for good wakes the select.
LEMMA GoHears ==
    ASSUME IInv, impl = "go", UNCHANGED impl,
           \/ Go!AcceptFails \/ Go!AcceptAgain
           \/ \E kind \in {"term", "int"} :
                /\ signals < MaxSignals /\ signals' = signals + 1 /\ Go!Signal(kind)
                /\ UNCHANGED stopsh \/ (stopsh = NotRun /\ kind = "term" /\ stopsh' = StopWindow)
    PROVE  IInv'
<1> USE LifecycleAssumption DEF IInv, TypeOK, ProcTypeOK, Places, Over, Off, NotRun, Child, Alive, Died,
        GoInv, Stopping, Rest,
        Go!Over, Go!acceptVars, Go!mainVars, Go!childVars, Go!timeVars, Go!outside, Go!Wakes
<1>1. CASE Go!AcceptFails \/ Go!AcceptAgain
    <2>1. CASE Go!AcceptFails /\ at = "parked"
        BY <2>1 DEF Go!AcceptFails
    <2>2. CASE Go!AcceptFails /\ at # "parked"
        <3>1. /\ at \in {"precheck", "select"} /\ serving = "accepting"
              /\ UNCHANGED <<at, code, latched, handler, reaped, childVars, timeVars, outside>>
            BY <2>2 DEF Go!AcceptFails, childVars, timeVars, outside
        <3>2. \/ serving' = "backoff" /\ UNCHANGED broken
              \/ serving' = "ended" /\ broken' = TRUE
            BY <2>2 DEF Go!AcceptFails
        <3>3. CASE serving' = "backoff" /\ UNCHANGED broken
            BY <3>1, <3>3 DEF childVars, timeVars, outside
        <3>4. CASE serving' = "ended" /\ broken' = TRUE
            BY <3>1, <3>4 DEF childVars, timeVars, outside
        <3> QED BY <3>2, <3>3, <3>4
    <2>3. CASE Go!AcceptAgain
        BY <2>3 DEF Go!AcceptAgain
    <2> QED BY <1>1, <2>1, <2>2, <2>3
<1>2. ASSUME NEW kind \in {"term", "int"}, signals < MaxSignals, signals' = signals + 1, Go!Signal(kind),
             UNCHANGED stopsh \/ (stopsh = NotRun /\ stopsh' = StopWindow)
      PROVE  IInv'
    <2>1. CASE at = "start"
        BY <1>2, <2>1 DEF Go!Signal
    <2>2. CASE at # "start"
        BY <1>2, <2>2 DEF Go!Signal
    <2> QED BY <2>1, <2>2
<1> QED BY <1>1, <1>2

\* A cancelled context leaves nothing to wait for but the child's escalation.
LEMMA GoSecond ==
    ASSUME IInv, impl = "go", UNCHANGED impl, Second(Go!Quiet)
    PROVE  IInv'
BY LifecycleAssumption DEF IInv, TypeOK, ProcTypeOK, Places, Over, Off, NotRun, Child, Alive, Died,
   GoInv, Stopping, Rest, Second, Less, mainVars, childVars, Go!Quiet, Go!Alive, Go!Died,
   Go!WaitsOn, Go!Connects

-----------------------------------------------------------------------------
(* Rust.                                                                   *)

LEMMA RustRuns ==
    ASSUME IInv, impl = "rust", UNCHANGED impl, Rust!Run
    PROVE  IInv'
<1> USE LifecycleAssumption DEF IInv, TypeOK, ProcTypeOK, Places, Over, Off, NotRun, Child, Alive, Died,
        RustInv, Stopping, Rest,
        Rust!Goto, Rust!Off, Rust!NotRun, Rust!Over, Rust!Alive, Rust!Died,
        Rust!acceptVars, Rust!mainVars, Rust!childVars, Rust!timeVars, Rust!outside
<1>1. CASE Rust!Install
    BY <1>1 DEF Rust!Install
<1>2. CASE Rust!Launch
    BY <1>2 DEF Rust!Launch
<1>3. CASE Rust!Spawn
    BY <1>3 DEF Rust!Spawn
<1>4. CASE Rust!Ready
    BY <1>4 DEF Rust!Ready, Rust!WaitSucceeds
<1>5. CASE Rust!NotReady
    BY <1>5 DEF Rust!NotReady, Rust!WaitFails
<1>6. CASE Rust!Select
    BY <1>6 DEF Rust!Select
<1>7. CASE Rust!Terminate
    <2>1. CASE Alive
        BY <1>7, <2>1 DEF Rust!Terminate, Rust!SendTerm
    <2>2. CASE ~Alive
        BY <1>7, <2>2 DEF Rust!Terminate
    <2> QED BY <2>1, <2>2
<1>8. CASE Rust!Reap
    BY <1>8 DEF Rust!Reap
<1>9. CASE Rust!Kill
    BY <1>9 DEF Rust!Kill, Rust!SendKill
<1> QED BY <1>1, <1>2, <1>3, <1>4, <1>5, <1>6, <1>7, <1>8, <1>9 DEF Rust!Run

\* A signal is latched, wherever the process is.
LEMMA RustHears ==
    ASSUME IInv, impl = "rust", UNCHANGED impl,
           \/ Rust!AcceptFails
           \/ \E kind \in {"term", "int"} :
                /\ signals < MaxSignals /\ signals' = signals + 1 /\ Rust!Signal(kind)
                /\ UNCHANGED stopsh \/ (stopsh = NotRun /\ kind = "term" /\ stopsh' = StopWindow)
    PROVE  IInv'
<1> USE LifecycleAssumption DEF IInv, TypeOK, ProcTypeOK, Places, Over, Off, NotRun, Child, Alive, Died,
        RustInv, Stopping, Rest,
        Rust!Over, Rust!acceptVars, Rust!mainVars, Rust!childVars, Rust!timeVars, Rust!outside
<1>1. CASE Rust!AcceptFails
    BY <1>1 DEF Rust!AcceptFails
<1>2. ASSUME NEW kind \in {"term", "int"}, signals < MaxSignals, signals' = signals + 1, Rust!Signal(kind),
             UNCHANGED stopsh \/ (stopsh = NotRun /\ stopsh' = StopWindow)
      PROVE  IInv'
    <2>1. CASE at = "start"
        BY <1>2, <2>1 DEF Rust!Signal
    <2>2. CASE at # "start"
        BY <1>2, <2>2 DEF Rust!Signal
    <2> QED BY <2>1, <2>2
<1> QED BY <1>1, <1>2

\* A second of the window is one of the wait, or one of the escalation.
LEMMA RustSecond ==
    ASSUME IInv, impl = "rust", UNCHANGED impl, Second(Rust!Quiet)
    PROVE  IInv'
BY LifecycleAssumption DEF IInv, TypeOK, ProcTypeOK, Places, Over, Off, NotRun, Child, Alive, Died,
   RustInv, Stopping, Rest, Second, Less, mainVars, childVars, Rust!Quiet, Rust!Alive, Rust!Died,
   Rust!WaitsOn, Rust!Connects

-----------------------------------------------------------------------------
(* Python.                                                                 *)

LEMMA PyRuns ==
    ASSUME IInv, impl = "python", UNCHANGED impl, Py!Run
    PROVE  IInv'
<1> USE LifecycleAssumption DEF IInv, TypeOK, ProcTypeOK, Places, Over, Off, NotRun, Child, Alive, Died,
        PyInv, Stopping, Rest,
        Py!Goto, Py!Off, Py!NotRun, Py!Over, Py!Alive, Py!Died,
        Py!acceptVars, Py!mainVars, Py!childVars, Py!timeVars, Py!outside
<1>1. CASE Py!Install
    BY <1>1 DEF Py!Install
<1>2. CASE Py!Launch
    BY <1>2 DEF Py!Launch
<1>3. CASE Py!Spawn
    BY <1>3 DEF Py!Spawn
<1>4. CASE Py!Register
    BY <1>4 DEF Py!Register
<1>5. CASE Py!Ready
    BY <1>5 DEF Py!Ready, Py!WaitSucceeds
<1>6. CASE Py!NotReady
    BY <1>6 DEF Py!NotReady, Py!WaitFails
<1>7. CASE Py!InstallHandler
    BY <1>7 DEF Py!InstallHandler
<1>8. CASE Py!Announce
    BY <1>8 DEF Py!Announce
<1>9. CASE Py!Terminate("reap", "reaping", "atexit")
    <2>1. CASE Alive
        BY <1>9, <2>1 DEF Py!Terminate, Py!SendTerm
    <2>2. CASE ~Alive
        BY <1>9, <2>2 DEF Py!Terminate
    <2> QED BY <2>1, <2>2
<1>10. CASE Py!Waited("reaping", "atexit") \/ Py!Waited("atexiting", "exited")
    BY <1>10 DEF Py!Waited
<1>11. CASE Py!Kill("reaping", "atexit") \/ Py!Kill("atexiting", "exited")
    BY <1>11 DEF Py!Kill, Py!SendKill
<1>12. CASE Py!Terminate("atexit", "atexiting", "exited")
    <2>1. CASE Alive
        BY <1>12, <2>1 DEF Py!Terminate, Py!SendTerm
    <2>2. CASE ~Alive
        BY <1>12, <2>2 DEF Py!Terminate
    <2> QED BY <2>1, <2>2
<1> QED BY <1>1, <1>2, <1>3, <1>4, <1>5, <1>6, <1>7, <1>8, <1>9, <1>10, <1>11, <1>12
        DEF Py!Run, Py!Reap

\* The interrupt of a signal leads to the clean-up of main(), to the one at exit, or
\* out of it.
LEMMA PyHears ==
    ASSUME IInv, impl = "python", UNCHANGED impl,
           \/ Py!AcceptFails
           \/ \E kind \in {"term", "int"} :
                /\ signals < MaxSignals /\ signals' = signals + 1 /\ Py!Signal(kind)
                /\ UNCHANGED stopsh \/ (stopsh = NotRun /\ kind = "term" /\ stopsh' = StopWindow)
    PROVE  IInv'
<1> USE LifecycleAssumption DEF IInv, TypeOK, ProcTypeOK, Places, Over, Off, NotRun, Child, Alive, Died,
        PyInv, Stopping, Rest,
        Py!Goto, Py!Over, Py!acceptVars, Py!mainVars, Py!childVars, Py!timeVars, Py!outside
<1>1. CASE Py!AcceptFails
    BY <1>1 DEF Py!AcceptFails
<1>2. ASSUME NEW kind \in {"term", "int"}, signals < MaxSignals, signals' = signals + 1, Py!Signal(kind),
             UNCHANGED stopsh \/ (stopsh = NotRun /\ kind = "term" /\ stopsh' = StopWindow)
      PROVE  IInv'
    BY <1>2 DEF Py!Signal, Py!Raise
<1> QED BY <1>1, <1>2

LEMMA PySecond ==
    ASSUME IInv, impl = "python", UNCHANGED impl, Second(Py!Quiet)
    PROVE  IInv'
BY LifecycleAssumption DEF IInv, TypeOK, ProcTypeOK, Places, Over, Off, NotRun, Child, Alive, Died,
   PyInv, Stopping, Rest, Second, Less, mainVars, childVars, Py!Quiet, Py!Alive, Py!Died,
   Py!WaitsOn, Py!Connects

-----------------------------------------------------------------------------
(* The child and bin/stop.sh, whichever implementation runs.               *)

LEMMA ChildInv ==
    ASSUME IInv, UNCHANGED impl, Tailcat
    PROVE  IInv'
BY LifecycleAssumption DEF IInv, TypeOK, ProcTypeOK, Places, Over, Off, NotRun, Child, Alive, Died,
   GoInv, RustInv, PyInv, Stopping, Rest, Tailcat, ChildListens, ChildDies, ChildObeys, mainVars, outside

\* The window runs out on nothing but a Rust proxy, after its wait and in its escalation.
LEMMA StopScriptInv ==
    ASSUME IInv, UNCHANGED impl, StopSees \/ StopKills
    PROVE  IInv'
<1> USE LifecycleAssumption, WindowAssumption
        DEF IInv, TypeOK, ProcTypeOK, Places, Over, Off, NotRun, Child, Alive, Died,
        GoInv, RustInv, PyInv, Stopping, Rest, acceptVars, childVars, timeVars, mainVars
<1>1. CASE StopSees
    BY <1>1 DEF StopSees
<1>2. CASE StopKills
    BY <1>2 DEF StopKills
<1> QED BY <1>1, <1>2

LEMMA InitInv == ASSUME Init PROVE IInv
<1> USE LifecycleAssumption, ImplsAssumption DEF Init, Started, Off, NotRun
<1>1. TypeOK /\ impl \in {"go", "rust", "python"}
    <2>1. {latched, handler, reaped, broken, squatter, termed} \subseteq BOOLEAN
        BY Zenon
    <2>2. grace \in Off..Grace /\ waited \in 0..(ReadyTimeout + Overrun) /\ signals \in 0..MaxSignals
        BY LifecycleAssumption
    <2> QED BY <2>1, <2>2 DEF TypeOK, ProcTypeOK, Places
<1>2. Child
    BY DEF Child, Alive
<1>3. GoInv /\ RustInv /\ PyInv
    BY DEF GoInv, RustInv, PyInv, Stopping, Over, Alive, Died
<1> QED BY <1>1, <1>2, <1>3 DEF IInv

LEMMA StepInv ==
    ASSUME IInv, [Next]_vars
    PROVE  IInv'
<1>1. impl \in {"go", "rust", "python"}
    BY DEF IInv
<1>2. CASE UNCHANGED vars
    BY <1>2 DEF IInv, TypeOK, ProcTypeOK, Child, Alive, Died, GoInv, RustInv, PyInv, Stopping, Rest,
       vars, procVars, mainVars, childVars, timeVars, outside
<1>3. CASE Run /\ UNCHANGED impl
    BY <1>1, <1>3, GoRuns, RustRuns, PyRuns DEF Run
<1>4. CASE Tick /\ UNCHANGED impl
    <2>1. CASE impl = "go"
        BY <1>4, <2>1, GoSecond DEF Tick, Quiet, Second
    <2>2. CASE impl = "rust"
        BY <1>4, <2>2, RustSecond DEF Tick, Quiet, Second
    <2>3. CASE impl = "python"
        BY <1>4, <2>3, PySecond DEF Tick, Quiet, Second
    <2> QED BY <1>1, <2>1, <2>2, <2>3
<1>5. CASE (AcceptFails \/ AcceptAgain) /\ UNCHANGED impl
    BY <1>1, <1>5, GoHears, RustHears, PyHears DEF AcceptFails, AcceptAgain
<1>6. CASE (Interrupt \/ StopBegins) /\ UNCHANGED impl
    <2>1. PICK kind \in {"term", "int"} :
            /\ Signal(kind)
            /\ UNCHANGED stopsh \/ (stopsh = NotRun /\ kind = "term" /\ stopsh' = StopWindow)
        BY <1>6 DEF Interrupt, StopBegins
    <2> QED BY <1>1, <1>6, <2>1, GoHears, RustHears, PyHears DEF Signal
<1>7. CASE (StopSees \/ StopKills \/ Tailcat) /\ UNCHANGED impl
    BY <1>7, StopScriptInv, ChildInv
<1> QED BY <1>2, <1>3, <1>4, <1>5, <1>6, <1>7 DEF Next, Work, Environment

-----------------------------------------------------------------------------
(* The theorems.                                                           *)

\* The inductive invariant of the three, from which the theorems below follow.
THEOREM Invariant == Spec => []IInv
BY InitInv, StepInv, PTL DEF Spec

\* Every variable stays in its type: no clock runs past its limit.
THEOREM TypeCorrect == Spec => []TypeOK
<1>1. IInv => TypeOK
    BY DEF IInv
<1> QED BY <1>1, Invariant, PTL

\* Nobody leaves the child behind but a Rust proxy that was killed, and a Python one
\* that is signalled before its handler is installed or a second time.
THEOREM OrphansHaveACause == Spec => []OrphanNeedsCause
<1>1. IInv => OrphanNeedsCause
    BY DEF IInv, GoInv, RustInv, PyInv, OrphanNeedsCause, Over
<1> QED BY <1>1, Invariant, PTL

\* The window of bin/stop.sh is long enough for each of them, but for a Rust proxy
\* that spends it on the wait for its child and then on the end of it.
THEOREM WindowIsEnough == Spec => []StopSuffices
<1>1. IInv => StopSuffices
    BY DEF IInv, GoInv, RustInv, PyInv, StopSuffices
<1> QED BY <1>1, Invariant, PTL

\* An exit status of 0 means that somebody stopped the proxy or its accept loop ended,
\* in Go by an error that does not pass.
THEOREM QuietExitHasACause == Spec => []QuietExitNeedsCause
<1>1. IInv => QuietExitNeedsCause
    BY DEF IInv, GoInv, RustInv, PyInv, QuietExitNeedsCause
<1> QED BY <1>1, Invariant, PTL


-----------------------------------------------------------------------------
(* That a signal ends the proxy takes fairness; the rest of it does not:   *)
(* a proxy that was sent one, or the Go proxy without its child, can go on *)
(* or waits for a clock, and no step brings it further from its end.       *)

\* What the code can do next, whatever the child, the clients and the operator do.
PortDecides == at = "wait" /\ (Connects \/ waited >= ReadyTimeout)
GoGoes ==
    \/ at \in {"start", "launch", "spawn", "precheck", "select", "stop"}
    \/ PortDecides \/ (at = "wait" /\ latched)
    \/ at = "reap" /\ reaped
    \/ Died /\ ~reaped
    \/ Alive /\ (grace = 0 \/ (latched /\ ~termed))
RustGoes ==
    \/ at \in {"start", "launch", "spawn", "reap"}
    \/ PortDecides
    \/ at = "select" /\ (latched \/ serving = "ended")
    \/ at = "reaping" /\ (Died \/ (Alive /\ grace = 0))
PyGoes ==
    \/ at \in {"start", "launch", "spawn", "register", "install", "announce", "reap", "atexit"}
    \/ PortDecides
    \/ at \in {"reaping", "atexiting"} /\ (Died \/ (Alive /\ grace = 0))

\* A second passes while it waits; bin/stop.sh kills it.
TimePasses ==
    /\ Quiet /\ grace # 0 /\ stopsh # 0
    /\ at = "wait" \/ grace > 0 \/ stopsh > 0

CanGo ==
    \/ impl = "go" /\ GoGoes
    \/ impl = "rust" /\ RustGoes
    \/ impl = "python" /\ PyGoes
    \/ TimePasses \/ stopsh = 0

\* A proxy that serves may have nothing to do.
Serves == at \in {"parked", "select", "serve"}

NeverStuck ==
    at \notin Over => CanGo \/ (Serves /\ signals = 0 /\ (impl = "go" => ~Died))

\* Who was sent a signal knows, or is cleaning up; who cleans up has told the others.
Heard ==
    /\ signals > 0 /\ at \notin Over =>
        IF impl = "python" THEN at \in {"reap", "reaping", "atexit", "atexiting"} ELSE latched
    /\ impl = "go" /\ at = "reap" => latched
    /\ impl = "python" /\ termed => at \in Over \cup {"reaping", "atexit", "atexiting"}

\* What is left: places until the end, changes of the child, what happens once, time.
PlacesLeft ==
    CASE at = "start" -> 16
      [] at = "launch" -> 15
      [] at = "spawn" -> 14
      [] at = "register" -> 13
      [] at = "wait" -> 12
      [] at = "install" -> 11
      [] at = "announce" -> 10
      [] at = "serve" -> 9
      [] at = "precheck" -> 8
      [] at = "select" -> 7
      [] at = "parked" -> 6
      [] at = "stop" -> 5
      [] at = "reap" -> 4
      [] at = "reaping" -> 3
      [] at = "atexit" -> 2
      [] at = "atexiting" -> 1
      [] OTHER -> 0
ChildLeft == CASE child = "starting" -> 2 [] child = "ready" -> 1 [] OTHER -> 0
OnceLeft ==
    (IF reaped THEN 0 ELSE 1) + (IF termed THEN 0 ELSE 1) + (IF stopsh = NotRun THEN 1 ELSE 0)
TimeLeft == (ReadyTimeout + Overrun - waited) + (grace + 1) + (stopsh + 2)

Measured == PlacesLeft \in Nat /\ ChildLeft \in Nat /\ OnceLeft \in Nat /\ TimeLeft \in Nat

Closer ==
    \/ PlacesLeft' < PlacesLeft
    \/ PlacesLeft' = PlacesLeft /\ ChildLeft' < ChildLeft
    \/ PlacesLeft' = PlacesLeft /\ ChildLeft' = ChildLeft /\ OnceLeft' < OnceLeft
    \/ PlacesLeft' = PlacesLeft /\ ChildLeft' = ChildLeft /\ OnceLeft' = OnceLeft /\ TimeLeft' < TimeLeft

\* A signal that is one of several, or an accept that failed, changes nothing of it.
Neutral ==
    /\ Interrupt \/ AcceptFails \/ AcceptAgain
    /\ UNCHANGED <<PlacesLeft, ChildLeft, OnceLeft, TimeLeft>>


LEMMA HeardStep ==
    ASSUME IInv, Heard, [Next]_vars
    PROVE  Heard'
<1> USE LifecycleAssumption DEF Heard, Over, Off, NotRun
<1>t. /\ impl \in {"go", "rust", "python"} /\ signals \in Nat
      /\ impl = "go" => GoInv
      /\ impl = "rust" => RustInv
      /\ impl = "python" => PyInv
    BY Types DEF IInv
<1>1. CASE UNCHANGED vars
    BY <1>1 DEF vars, procVars, mainVars, timeVars, outside
<1>2. ASSUME impl = "go", UNCHANGED impl, Go!Run
      PROVE  Heard'
    <2> USE <1>2 DEF Go!Goto, Go!acceptVars, Go!mainVars, Go!childVars, Go!timeVars, Go!outside, Go!Over
    <2>1. CASE Go!Install \/ Go!Launch \/ Go!Spawn \/ Go!Precheck \/ Go!Select \/ Go!Stop \/ Go!Reap
        BY <2>1 DEF Go!Install, Go!Launch, Go!Spawn, Go!Precheck, Go!Select, Go!Stop, Go!Reap
    <2>2. CASE Go!Ready \/ Go!NotReady
        BY <2>2 DEF Go!Ready, Go!NotReady, Go!WaitSucceeds, Go!WaitFails
    <2>3. CASE Go!Monitor
        BY <2>3 DEF Go!Monitor, Go!Wakes
    <2>4. CASE Go!Cancel \/ Go!Kill
        BY <2>4 DEF Go!Cancel, Go!Kill, Go!SendTerm, Go!SendKill
    <2> QED BY <2>1, <2>2, <2>3, <2>4 DEF Go!Run
<1>3. ASSUME impl = "rust", UNCHANGED impl, Rust!Run
      PROVE  Heard'
    <2> USE <1>3 DEF Rust!Goto, Rust!acceptVars, Rust!mainVars, Rust!childVars, Rust!timeVars, Rust!outside, Rust!Over
    <2>1. at \notin Over
        BY DEF Rust!Run, Rust!Install, Rust!Launch, Rust!Spawn, Rust!Ready, Rust!NotReady, Rust!Select,
               Rust!Terminate, Rust!Reap, Rust!Kill, Rust!WaitSucceeds, Rust!WaitFails
    <2>2. UNCHANGED <<latched, signals>>
        BY DEF Rust!Run, Rust!Install, Rust!Launch, Rust!Spawn, Rust!Ready, Rust!NotReady, Rust!Select,
               Rust!Terminate, Rust!Reap, Rust!Kill
    <2> QED BY <2>1, <2>2
<1>4. ASSUME impl = "python", UNCHANGED impl, Py!Run
      PROVE  Heard'
    <2> USE <1>4 DEF Py!Goto, Py!acceptVars, Py!mainVars, Py!childVars, Py!timeVars, Py!outside, Py!Over
    <2>1. CASE Py!Install \/ Py!Launch \/ Py!Spawn \/ Py!Register \/ Py!Ready \/ Py!NotReady \/ Py!InstallHandler \/ Py!Announce
        BY <2>1 DEF Py!Install, Py!Launch, Py!Spawn, Py!Register, Py!Ready, Py!NotReady, Py!WaitSucceeds, Py!WaitFails, Py!InstallHandler, Py!Announce
    <2>2. CASE Py!Reap
        <3>1. CASE Py!Terminate("reap", "reaping", "atexit") \/ Py!Terminate("atexit", "atexiting", "exited")
            BY <3>1 DEF Py!Terminate, Py!SendTerm
        <3>2. CASE \/ Py!Waited("reaping", "atexit") \/ Py!Kill("reaping", "atexit")
                   \/ Py!Waited("atexiting", "exited") \/ Py!Kill("atexiting", "exited")
            BY <3>2 DEF Py!Waited, Py!Kill, Py!SendKill
        <3> QED BY <2>2, <3>1, <3>2 DEF Py!Reap
    <2> QED BY <2>1, <2>2 DEF Py!Run
<1>5. CASE (AcceptFails \/ AcceptAgain) /\ UNCHANGED impl
    <2>1. CASE Go!AcceptFails /\ impl = "go"
        BY <1>5, <2>1 DEF Go!AcceptFails, Go!Wakes, Go!childVars, Go!timeVars, Go!outside
    <2>2. CASE Rust!AcceptFails /\ impl = "rust"
        BY <1>5, <2>2 DEF Rust!AcceptFails, Rust!childVars, Rust!timeVars, Rust!outside
    <2>3. CASE Py!AcceptFails /\ impl = "python"
        BY <1>5, <2>3 DEF Py!AcceptFails, Py!Goto, Py!childVars, Py!timeVars, Py!outside
    <2>4. CASE Go!AcceptAgain /\ impl = "go"
        BY <1>5, <2>4 DEF Go!AcceptAgain, Go!childVars, Go!timeVars, Go!outside
    <2> QED BY <1>5, <2>1, <2>2, <2>3, <2>4 DEF AcceptFails, AcceptAgain
<1>6. CASE (Interrupt \/ StopBegins) /\ UNCHANGED impl
    <2>1. PICK kind \in {"term", "int"} : Signal(kind)
        BY <1>6 DEF Interrupt, StopBegins
    <2>2. CASE impl = "go" /\ Go!Signal(kind)
        BY <1>6, <2>2 DEF Go!Signal, Go!Wakes, Go!Over, Go!acceptVars, Go!childVars, Go!timeVars
    <2>3. CASE impl = "rust" /\ Rust!Signal(kind)
        BY <1>6, <2>3 DEF Rust!Signal, Rust!Over, Rust!acceptVars, Rust!childVars, Rust!timeVars
    <2>4. CASE impl = "python" /\ Py!Signal(kind)
        BY <1>6, <1>t, <2>4 DEF PyInv, Py!Signal, Py!Raise, Py!Over, Py!acceptVars, Py!childVars, Py!timeVars
    <2> QED BY <2>1, <2>2, <2>3, <2>4 DEF Signal
<1>7. CASE (Tick \/ StopSees \/ StopKills \/ Tailcat) /\ UNCHANGED impl
    <2>1. UNCHANGED <<latched, termed, signals>> /\ (at' = at \/ at' \in Over)
        BY <1>7 DEF Tick, Second, StopSees, StopKills, Tailcat, mainVars, childVars, timeVars, outside
    <2> QED BY <1>7, <2>1
<1> QED BY <1>t, <1>1, <1>2, <1>3, <1>4, <1>5, <1>6, <1>7 DEF Next, Work, Environment, Run

\* A proxy that was sent a signal, a Go proxy whose child ended, and every proxy that
\* does not serve, have a step of their own or wait for a clock.
THEOREM ProxyNeverStuck == Spec => []NeverStuck
<1>1. Init => Heard
    BY LifecycleAssumption DEF Init, Started, Heard
<1>2. IInv /\ Heard => NeverStuck
    <2> SUFFICES ASSUME IInv, Heard, at \notin Over, stopsh # 0, ~CanGo
                 PROVE  Serves /\ signals = 0 /\ (impl = "go" => ~Died)
        BY DEF NeverStuck, CanGo
    <2>t. Child /\ at \in Places /\ grace \in Int /\ -1 <= grace /\ 0 < Grace /\ Grace \in Nat
          /\ waited \in Nat /\ ReadyTimeout \in Nat /\ Overrun \in Nat /\ signals \in Nat
          /\ impl \in {"go", "rust", "python"}
          /\ child \in {"none", "starting", "ready", "died", "stopped"}
        BY Types DEF IInv, TypeOK, ProcTypeOK
    <2>1. ASSUME impl = "go"
          PROVE  Serves /\ signals = 0 /\ ~Died
        <3>1. GoInv /\ ~GoGoes /\ ~TimePasses
            BY <2>1 DEF IInv, CanGo
        <3>2. at \in {"wait", "parked", "reap"}
            BY <3>1 DEF GoInv, GoGoes, Over
        <3>3. ~(Died /\ ~reaped) /\ ~(latched /\ Alive /\ ~termed) /\ grace # 0
            BY <3>1, <2>t DEF GoGoes, Child, Off
        <3>4. at # "wait"
            BY <2>t, <2>1, <3>1, <3>3 DEF GoGoes, PortDecides, TimePasses, Quiet, Go!Quiet, Go!WaitsOn,
               Go!Connects, Go!Died, Go!Alive, Connects, Died, Alive
        <3>5. at # "reap"
            BY <2>t, <2>1, <3>1, <3>3 DEF GoInv, GoGoes, TimePasses, Quiet, Go!Quiet, Heard, Child,
               Go!Died, Go!Alive, Died, Alive, Off
        <3> QED BY <2>t, <2>1, <3>1, <3>2, <3>3, <3>4, <3>5 DEF GoInv, Serves, Heard
    <2>2. ASSUME impl = "rust"
          PROVE  Serves /\ signals = 0
        <3>1. RustInv /\ ~RustGoes /\ ~TimePasses
            BY <2>2 DEF IInv, CanGo
        <3>2. at \in {"wait", "select", "reaping"}
            BY <3>1 DEF RustInv, RustGoes, Over
        <3>3. at # "wait"
            BY <2>t, <2>2, <3>1 DEF RustInv, RustGoes, PortDecides, TimePasses, Quiet, Rust!Quiet,
               Rust!WaitsOn, Rust!Connects, Connects, Child, Over, Off
        <3>4. at # "reaping"
            BY <2>t, <2>2, <3>1 DEF RustInv, RustGoes, TimePasses, Quiet, Rust!Quiet, Rust!Alive,
               Child, Alive, Died, Off
        <3> QED BY <2>t, <2>2, <3>1, <3>2, <3>3, <3>4 DEF RustGoes, Serves, Heard
    <2>3. ASSUME impl = "python"
          PROVE  Serves /\ signals = 0
        <3>1. PyInv /\ ~PyGoes /\ ~TimePasses
            BY <2>3 DEF IInv, CanGo
        <3>2. at \in {"wait", "serve", "reaping", "atexiting"}
            BY <3>1 DEF PyInv, PyGoes, Over
        <3>3. at # "wait"
            BY <2>t, <2>3, <3>1 DEF PyGoes, PortDecides, TimePasses, Quiet, Py!Quiet, Heard,
               Py!WaitsOn, Py!Connects, Connects, Child, Over, Off
        <3>4. at \notin {"reaping", "atexiting"}
            BY <2>t, <2>3, <3>1 DEF PyInv, PyGoes, TimePasses, Quiet, Py!Quiet, Py!Alive,
               Child, Alive, Died, Off
        <3> QED BY <2>t, <2>3, <3>2, <3>3, <3>4 DEF Serves, Heard
    <2> QED BY <2>t, <2>1, <2>2, <2>3
<1> QED BY <1>1, <1>2, InitInv, StepInv, HeardStep, PTL DEF Spec


LEMMA InMeasure ==
    ASSUME IInv
    PROVE  Measured
<1>1. PlacesLeft \in Nat /\ ChildLeft \in Nat
    BY DEF PlacesLeft, ChildLeft
<1>2. OnceLeft \in Nat
    BY DEF OnceLeft
<1>3. TimeLeft \in Nat
    <2>1. stopsh \in Int /\ -2 <= stopsh
        BY LifecycleAssumption DEF IInv, TypeOK, ProcTypeOK, Off, NotRun
    <2> QED BY <2>1, Types DEF TimeLeft
<1> QED BY <1>1, <1>2, <1>3 DEF Measured

LEMMA GoCloser ==
    ASSUME IInv, impl = "go", UNCHANGED impl, Go!Run
    PROVE  Closer
<1> USE DEF Go!Goto, Go!acceptVars, Go!mainVars, Go!childVars, Go!timeVars, Go!outside, Go!Over
<1>1. CASE Go!Install \/ Go!Launch \/ Go!Spawn \/ Go!Ready \/ Go!NotReady \/ Go!Precheck
    BY <1>1 DEF Go!Install, Go!Launch, Go!Spawn, Go!Ready, Go!NotReady, Go!Precheck,
       Go!WaitSucceeds, Go!WaitFails, PlacesLeft, Closer
<1>2. CASE Go!Select \/ Go!Stop \/ Go!Reap
    BY <1>2 DEF Go!Select, Go!Stop, Go!Reap, PlacesLeft, Closer
<1>3. CASE Go!Monitor
    <2>1. CASE at = "parked"
        BY <1>3, <2>1 DEF Go!Monitor, Go!Wakes, PlacesLeft, Closer
    <2>2. CASE at # "parked"
        <3>1. /\ ~reaped /\ reaped' = TRUE /\ UNCHANGED <<at, child, termed, stopsh>>
            BY <1>3, <2>2 DEF Go!Monitor, Go!Wakes
        <3>2. UNCHANGED <<PlacesLeft, ChildLeft>>
            BY <3>1 DEF PlacesLeft, ChildLeft
        <3>3. OnceLeft' < OnceLeft
            BY <3>1 DEF OnceLeft
        <3> QED BY <3>2, <3>3 DEF Closer
    <2> QED BY <2>1, <2>2
<1>4. CASE Go!Cancel
    <2>1. /\ ~termed /\ termed' = TRUE /\ UNCHANGED <<at, child, reaped, stopsh>>
        BY <1>4 DEF Go!Cancel, Go!SendTerm
    <2>2. UNCHANGED <<PlacesLeft, ChildLeft>>
        BY <2>1 DEF PlacesLeft, ChildLeft
    <2>3. OnceLeft' < OnceLeft
        BY <2>1 DEF OnceLeft
    <2> QED BY <2>2, <2>3 DEF Closer
<1>5. CASE Go!Kill
    <2>1. child \in {"starting", "ready"} /\ child' = "stopped" /\ UNCHANGED at
        BY <1>5 DEF Go!Kill, Go!SendKill, Go!Alive
    <2> QED BY <2>1 DEF PlacesLeft, ChildLeft, Closer
<1> QED BY <1>1, <1>2, <1>3, <1>4, <1>5 DEF Go!Run

LEMMA RustCloser ==
    ASSUME IInv, impl = "rust", UNCHANGED impl, Rust!Run
    PROVE  Closer
<1> USE DEF Rust!Goto, Rust!acceptVars, Rust!mainVars, Rust!childVars, Rust!timeVars, Rust!outside
<1>1. CASE Rust!Install \/ Rust!Launch \/ Rust!Spawn \/ Rust!Ready \/ Rust!NotReady
    BY <1>1 DEF Rust!Install, Rust!Launch, Rust!Spawn, Rust!Ready, Rust!NotReady,
       Rust!WaitSucceeds, Rust!WaitFails, PlacesLeft, Closer
<1>2. CASE Rust!Select \/ Rust!Terminate \/ Rust!Reap
    BY <1>2 DEF Rust!Select, Rust!Terminate, Rust!Reap, PlacesLeft, Closer
<1>3. CASE Rust!Kill
    <2>1. child \in {"starting", "ready"} /\ child' = "stopped" /\ UNCHANGED at
        BY <1>3 DEF Rust!Kill, Rust!SendKill, Rust!Alive
    <2> QED BY <2>1 DEF PlacesLeft, ChildLeft, Closer
<1> QED BY <1>1, <1>2, <1>3 DEF Rust!Run

LEMMA PyCloser ==
    ASSUME IInv, impl = "python", UNCHANGED impl, Py!Run
    PROVE  Closer
<1> USE DEF Py!Goto, PlacesLeft, Closer
<1>1. CASE Py!Install \/ Py!Launch \/ Py!Spawn \/ Py!Register \/ Py!Ready \/ Py!NotReady
    BY <1>1 DEF Py!Install, Py!Launch, Py!Spawn, Py!Register, Py!Ready, Py!NotReady,
       Py!WaitSucceeds, Py!WaitFails
<1>2. CASE Py!InstallHandler \/ Py!Announce
    BY <1>2 DEF Py!InstallHandler, Py!Announce
<1>3. CASE Py!Terminate("reap", "reaping", "atexit") \/ Py!Terminate("atexit", "atexiting", "exited")
    BY <1>3 DEF Py!Terminate
<1>4. CASE \/ Py!Waited("reaping", "atexit") \/ Py!Kill("reaping", "atexit")
           \/ Py!Waited("atexiting", "exited") \/ Py!Kill("atexiting", "exited")
    BY <1>4 DEF Py!Waited, Py!Kill
<1> QED BY <1>1, <1>2, <1>3, <1>4 DEF Py!Run, Py!Reap

\* A second is one less of a clock that runs, and of no other.
LEMMA TickCloser ==
    ASSUME IInv, Tick
    PROVE  Closer
<1>1. /\ UNCHANGED <<at, child, reaped, termed>>
      /\ stopsh # 0 /\ grace # 0 /\ (at = "wait" \/ grace > 0 \/ stopsh > 0)
      /\ waited' = IF at = "wait" THEN waited + 1 ELSE waited
      /\ grace' = Less(grace) /\ stopsh' = Less(stopsh)
    BY DEF Tick, Second, mainVars, childVars
<1>2. UNCHANGED <<PlacesLeft, ChildLeft>>
    BY <1>1 DEF PlacesLeft, ChildLeft
<1>3. UNCHANGED OnceLeft
    BY <1>1, Types DEF OnceLeft, NotRun, Less
<1>4. TimeLeft' < TimeLeft
    BY <1>1, Types DEF TimeLeft, Less
<1> QED BY <1>2, <1>3, <1>4 DEF Closer

LEMMA StopCloser ==
    ASSUME IInv, StopSees \/ StopKills
    PROVE  Closer
<1>1. CASE StopKills
    BY <1>1, Types DEF StopKills, PlacesLeft, Closer, Places, Over
<1>2. CASE StopSees
    <2>1. /\ UNCHANGED <<at, child, reaped, termed, waited, grace>>
          /\ 0 <= stopsh /\ stopsh' = -1
        BY <1>2 DEF StopSees, mainVars, childVars, timeVars, Off
    <2>2. UNCHANGED <<PlacesLeft, ChildLeft>>
        BY <2>1 DEF PlacesLeft, ChildLeft
    <2>3. UNCHANGED OnceLeft
        BY <2>1, Types DEF OnceLeft, NotRun
    <2>4. TimeLeft' < TimeLeft
        BY <2>1, Types DEF TimeLeft
    <2> QED BY <2>2, <2>3, <2>4 DEF Closer
<1> QED BY <1>1, <1>2

LEMMA TailcatCloser ==
    ASSUME IInv, Tailcat
    PROVE  Closer
BY DEF Tailcat, ChildListens, ChildDies, ChildObeys, Alive, mainVars, PlacesLeft, ChildLeft, Closer

\* A signal, or an accept that failed, moves the main thread on or is nothing to it.
LEMMA OthersCloser ==
    ASSUME IInv, AcceptFails \/ AcceptAgain \/ \E kind \in {"term", "int"} : Signal(kind)
    PROVE  /\ PlacesLeft' < PlacesLeft \/ UNCHANGED at
           /\ UNCHANGED <<child, reaped, termed, grace, waited>>
<1>t. /\ at \in Places
      /\ impl = "python" => PyInv
    BY Types DEF IInv
<1>1. CASE AcceptFails \/ AcceptAgain
    BY <1>1 DEF AcceptFails, AcceptAgain, Go!AcceptFails, Go!Wakes, Go!AcceptAgain, Rust!AcceptFails, Py!AcceptFails, Py!Goto,
       Go!childVars, Go!timeVars, Rust!childVars, Rust!timeVars, Py!childVars, Py!timeVars, PlacesLeft
<1>2. ASSUME NEW kind \in {"term", "int"}, Signal(kind)
      PROVE  /\ PlacesLeft' < PlacesLeft \/ UNCHANGED at
             /\ UNCHANGED <<child, reaped, termed, grace, waited>>
    <2>1. CASE impl = "go" /\ Go!Signal(kind)
        BY <2>1 DEF Go!Signal, Go!Wakes, Go!childVars, Go!timeVars, PlacesLeft
    <2>2. CASE impl = "rust" /\ Rust!Signal(kind)
        BY <2>2 DEF Rust!Signal, Rust!childVars, Rust!timeVars, PlacesLeft
    <2>3. CASE impl = "python" /\ Py!Signal(kind)
        <3>1. at \notin Over /\ UNCHANGED <<child, reaped, termed, grace, waited>>
            BY <2>3 DEF Py!Signal, Py!childVars, Py!timeVars, Over, Py!Over
        <3>2. at' \in {"dropped", "exited"} \/ (at = "serve" /\ at' = "reap")
              \/ (at \in {"wait", "install", "announce", "reap", "reaping"} /\ at' = "atexit")
            BY <2>3 DEF Py!Signal, Py!Raise
        <3> QED BY <1>t, <3>1, <3>2 DEF PlacesLeft, Places, Over
    <2> QED BY <1>2, <2>1, <2>2, <2>3 DEF Signal
<1> QED BY <1>1, <1>2

\* No step leads back: each brings the end of the process nearer, in its places, its
\* child or its clocks, but for signals, of which MaxSignals come, and failed accepts,
\* which may change nothing of it.
THEOREM StepsRunOut == Spec => []Measured /\ [][Closer \/ Neutral]_vars
<1>1. ASSUME IInv, Next
      PROVE  Closer \/ Neutral
    <2>1. CASE Run /\ UNCHANGED impl
        BY <1>1, <2>1, GoCloser, RustCloser, PyCloser DEF Run
    <2>2. CASE Tick \/ StopSees \/ StopKills \/ Tailcat
        BY <1>1, <2>2, TickCloser, StopCloser, TailcatCloser
    <2>3. CASE AcceptFails \/ AcceptAgain \/ Interrupt
        <3>1. UNCHANGED stopsh
            BY <2>3 DEF AcceptFails, AcceptAgain, Interrupt, Go!AcceptFails, Go!AcceptAgain, Rust!AcceptFails, Py!AcceptFails,
               Go!outside, Rust!outside, Py!outside
        <3>2. /\ PlacesLeft' < PlacesLeft \/ UNCHANGED at
              /\ UNCHANGED <<child, reaped, termed, grace, waited>>
            BY <1>1, <2>3, OthersCloser DEF Interrupt
        <3>3. UNCHANGED at => UNCHANGED <<PlacesLeft, ChildLeft, OnceLeft, TimeLeft>>
            BY <3>1, <3>2 DEF PlacesLeft, ChildLeft, OnceLeft, TimeLeft
        <3> QED BY <2>3, <3>2, <3>3 DEF Closer, Neutral
    <2>4. CASE StopBegins
        <3>1. stopsh = NotRun /\ stopsh' = StopWindow
            BY <2>4 DEF StopBegins
        <3>2. /\ PlacesLeft' < PlacesLeft \/ UNCHANGED at
              /\ UNCHANGED <<child, reaped, termed, grace, waited>>
            BY <1>1, <2>4, OthersCloser DEF StopBegins
        <3>3. UNCHANGED at => UNCHANGED <<PlacesLeft, ChildLeft>> /\ OnceLeft' < OnceLeft
            BY <1>1, <3>1, <3>2, Types DEF PlacesLeft, ChildLeft, OnceLeft, NotRun
        <3> QED BY <3>2, <3>3 DEF Closer
    <2> QED BY <1>1, <2>1, <2>2, <2>3, <2>4 DEF Next, Work, Environment
<1>2. IInv /\ [Next]_vars => [Closer \/ Neutral]_vars
    BY <1>1
<1> QED BY <1>2, Invariant, InMeasure, PTL DEF Spec

=============================================================================
