----------------------------- MODULE Lifecycle -----------------------------
(***************************************************************************)
(* The proxy process from its start to its end, as any one of the three    *)
(* implementations, with its child, the signals of an operator, and        *)
(* bin/stop.sh: what becomes of the child.                                 *)
(***************************************************************************)
EXTENDS TailcatChild

CONSTANT Impls      \* the implementations a run looks at
ASSUME ImplsAssumption == Impls \subseteq {"go", "rust", "python"}

VARIABLE impl       \* the one that runs

vars == <<procVars, impl>>

Go == INSTANCE GoMain
Rust == INSTANCE RustMain
Py == INSTANCE PyMain

Init == impl \in Impls /\ Started

Run ==
    \/ impl = "go" /\ Go!Run
    \/ impl = "rust" /\ Rust!Run
    \/ impl = "python" /\ Py!Run

AcceptFails ==
    \/ impl = "go" /\ Go!AcceptFails
    \/ impl = "rust" /\ Rust!AcceptFails
    \/ impl = "python" /\ Py!AcceptFails

\* A goroutine of its own in Go; the other two do not back off.
AcceptAgain == impl = "go" /\ Go!AcceptAgain

Signal(kind) ==
    /\ signals < MaxSignals /\ signals' = signals + 1
    /\ \/ impl = "go" /\ Go!Signal(kind)
       \/ impl = "rust" /\ Rust!Signal(kind)
       \/ impl = "python" /\ Py!Signal(kind)

\* An operator; bin/stop.sh is run once.
Interrupt == \E kind \in {"term", "int"} : Signal(kind) /\ UNCHANGED stopsh
StopBegins == stopsh = NotRun /\ Signal("term") /\ stopsh' = StopWindow

Quiet ==
    \/ impl = "go" /\ Go!Quiet
    \/ impl = "rust" /\ Rust!Quiet
    \/ impl = "python" /\ Py!Quiet

Tick == Second(Quiet)

Work == (Run \/ AcceptAgain \/ Tick \/ StopSees \/ StopKills) /\ UNCHANGED impl
Environment == (AcceptFails \/ Tailcat \/ Interrupt \/ StopBegins) /\ UNCHANGED impl
Next == Work \/ Environment

\* The process runs, and so does bin/stop.sh; child, clients and operator owe nothing.
Spec == Init /\ [][Next]_vars
FairSpec ==
    /\ Spec
    /\ WF_procVars(Run) /\ WF_procVars(AcceptAgain)
    /\ WF_procVars(Tick) /\ WF_procVars(StopSees \/ StopKills)

-----------------------------------------------------------------------------
(* Properties.                                                             *)

TypeOK == ProcTypeOK /\ impl \in Impls

\* "No orphan is left": the child is collected on SIGINT, SIGTERM and exit
\* (README.md:26).
NoOrphan == at \in Over => ~Alive

\* No proxy that served and then got one signal leaves its child behind, nor does
\* the Go proxy ever; Rust leaves it to nothing but the SIGKILL of bin/stop.sh.
OrphanNeedsCause ==
    at \in Over /\ Alive =>
        \/ impl = "rust" /\ at = "forced"
        \/ impl = "python" /\ (~handler \/ signals > 1)

\* "Only a proxy that truly ignores TERM waits out the full window"
\* (bin/stop.sh:45-46): none is killed but a Rust proxy that spent the window on
\* the wait for its child, and then on the end of it.
StopSuffices == at = "forced" => impl = "rust" /\ waited >= ReadyTimeout /\ termed

\* A proxy that ends without a signal or the end of its accept loop, because of its
\* child or before it has one, says so in its exit status; and what ends the loop of
\* Go is an error that does not pass, where the others end at any (go/proxy.go, Serve:
\* "transient accept errors back off instead of ending the loop").
QuietExitNeedsCause ==
    at = "exited" /\ code = 0 =>
        signals > 0 \/ (serving = "ended" /\ (impl = "go" => broken))

\* Go ends when its child does: "without an upstream we are useless" (go/main.go,
\* run).  The others serve on.
DeathIsNoticed == impl = "go" /\ child = "died" ~> at \in Over

\* A signal ends the proxy, whatever it is doing, and however often it comes.
SignalEnds == signals > 0 ~> at \in Over

=============================================================================
