---------------------------- MODULE EitherRelay ----------------------------
(***************************************************************************)
(* A session relayed by Rust or by Python.  Unlike Go they end both        *)
(* directions when one ends, and they do it in very different ways: two    *)
(* pumps, shared clock and deadlines in one task, and one thread that      *)
(* serves both directions in turn.  What they promise is stated here once. *)
(***************************************************************************)
EXTENDS TcpLegs, Sequences

CONSTANTS
    Idle,       \* ticks of the idle window
    SendTimeout \* ticks of the timeout of Python's upstream socket

ASSUME TimesAssumption == Idle \in Nat \ {0} /\ SendTimeout \in Nat \ {0}

VARIABLES
    impl,                               \* the implementation that relays
    pump, left, moved, quiet, phase,    \* the state of RustRelay
    at, ready, timeout, why, silent     \* the state of PyRelay

rustVars == <<pump, left, moved, quiet, phase>>
pyVars == <<at, ready, timeout, why, silent>>
stateVars == <<legVars, rustVars, pyVars>>
vars == <<stateVars, impl>>

Rust == INSTANCE RustRelay
Py == INSTANCE PyRelay

NoRust == pump = <<>> /\ left = <<>> /\ moved = <<>> /\ quiet = 0 /\ phase = "none"
NoPy == at = "none" /\ ready = <<>> /\ timeout = 0 /\ why = "" /\ silent = 0

Init ==
    \/ impl = "rust" /\ Rust!Init /\ NoPy
    \/ impl = "python" /\ Py!Init /\ NoRust

\* A step of the one relay leaves alone what is the other's.
RustDoes(A) == impl = "rust" /\ A /\ UNCHANGED <<pyVars, impl>>
PyDoes(A) == impl = "python" /\ A /\ UNCHANGED <<rustVars, impl>>

Next ==
    \/ Peers /\ UNCHANGED <<rustVars, pyVars, impl>>
    \/ \E s \in Sides : RustDoes(Rust!Pump(s))
    \/ RustDoes(Rust!Tick) \/ RustDoes(Rust!TearDown)
    \/ PyDoes(Py!Thread) \/ PyDoes(Py!Tick)

\* The tokio runtime polls a woken task and fires its timers; the thread runs and
\* its timeouts expire.
Fairness ==
    /\ \A s \in Sides : WF_vars(RustDoes(Rust!Pump(s)))
    /\ WF_vars(RustDoes(Rust!Tick)) /\ WF_vars(RustDoes(Rust!TearDown))
    /\ WF_vars(PyDoes(Py!Thread)) /\ WF_vars(PyDoes(Py!Tick))

Spec == Init /\ [][Next]_vars
FairSpec == Spec /\ Fairness

-----------------------------------------------------------------------------
(* Properties.                                                             *)

TypeOK ==
    \/ impl = "rust" /\ Rust!TypeOK /\ NoPy
    \/ impl = "python" /\ Py!TypeOK /\ NoRust

\* The direction whose end ends the session was forwarded to its last byte before
\* anything is torn down, though the two directions share a task, or a thread and
\* its buffer; what the other one still held may be lost.
EndIsComplete ==
    LET Complete(s) == over[s] /\ put[s] = sent[s]
    IN  /\ impl = "rust" => \A s \in Sides : pump[s] = "eof" => Complete(s)
        /\ impl = "python" /\ why = "end" => \E s \in Sides : gone[s] \/ Complete(s)

\* Only what a peer sends after the teardown earns it an RST from the Rust relay:
\* the FIN queued on both legs turns both drops into an orderly end.
RelayNeverResets ==
    [][impl = "rust" =>
        \A s \in Sides : reset'[s] /\ ~reset[s] => sent'[s] # sent[s]]_vars

\* Nobody calls a session idle that is not silent: a pump of Rust only if neither
\* direction read a byte for a whole window, although a blocked read cannot see the
\* clock move; the select of Python only after a whole window without a byte, and with
\* every byte of both peers passed on, although its window starts with each call.
IdleOnlyAfterSilence ==
    [][/\ impl = "rust" /\ phase = "select" =>
            ((\E s \in Sides : pump'[s] = "idle") => quiet = Idle)
       /\ impl = "python" /\ why = "" /\ why' = "idle" =>
            silent = Idle /\ \A s \in Sides : put[s] = taken[s] /\ taken[s] = sent[s]]_vars

\* Once no more bytes flow the session ends, unless peers that do not read pin it:
\* both of them the pumps of Rust, which have no deadline on their writes; the
\* client alone the thread of Python, since sends to the upstream time out.
Released ==
    \/ <>(phase = "dropped" \/ at = "closed")
    \/ <>[](impl = "rust" /\ \A s \in Sides : pump[s] = "write")
    \/ <>[](impl = "python" /\ at = "send" /\ Head(ready) = "upstream")

\* What the peers see: the end and the bytes that reach them, and the teardown.  Of
\* the two only Python gives up on a receiver, the upstream, that is slow to take its
\* bytes: a send timeout ends a session that need not be silent.
EitherEnds == INSTANCE DuplexStream WITH
    Streams <- Sides,
    EitherEndTears <- TRUE,
    eof <- [s \in Sides |-> fin[Other(s)] /\ got[s] = put[s]],
    idle <- IF impl = "rust" THEN \E s \in Sides : pump[s] = "idle" ELSE why = "idle",
    stalled <- why = "stalled",
    torn <- IF impl = "rust" THEN phase # "select" ELSE why # ""

\* Either relay is the duplex stream in which one ended direction ends both.
DuplexSpec == EitherEnds!StreamSpec

=============================================================================
