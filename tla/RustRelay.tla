----------------------------- MODULE RustRelay -----------------------------
(***************************************************************************)
(* relay() and pump() of rust/src/proxy.rs: one task that selects over two *)
(* pumps, one per direction, sharing an idle clock.  The first pump that   *)
(* returns ends the select, which drops the other one wherever it is       *)
(* suspended.  A step is what the task does between two suspensions.       *)
(*                                                                         *)
(* Times are relative: `quiet' is now - clock, and a pump's timeout is the *)
(* ticks left until the deadline it computed at the head of its loop.      *)
(***************************************************************************)
EXTENDS TcpLegs

CONSTANT Idle   \* ticks of the relay_idle window

VARIABLES
    pump,       \* where the pump that copies from s is, or how it returned
    left,       \* ticks left of the timeout around the read of pump s
    moved,      \* the clock moved since pump s computed its deadline
    quiet,      \* ticks since the clock was stored
    phase       \* where relay and its caller are

rustVars == <<pump, left, moved, quiet, phase>>
vars == <<sent, over, gone, got, taken, put, fin, shut, closed, reset,
          pump, left, moved, quiet, phase>>

Running == {"read", "write"}
Returned == {"eof", "error", "idle"}

TypeOK ==
    /\ LegsTypeOK
    /\ pump \in [Sides -> Running \cup Returned]
    /\ left \in [Sides -> 0..Idle]
    /\ moved \in [Sides -> BOOLEAN]
    /\ quiet \in 0..Idle
    /\ phase \in {"select", "shutClient", "shutUpstream", "dropUpstream", "dropClient", "dropped"}
    /\ phase = "select" <=> \A s \in Sides : pump[s] \in Running

Init ==
    /\ LegsInit
    /\ pump = [s \in Sides |-> "read"]
    /\ left = [s \in Sides |-> Idle]
    /\ moved = [s \in Sides |-> FALSE]
    /\ quiet = 0
    /\ phase = "select"

-----------------------------------------------------------------------------
(* pump from s.                                                            *)

\* The head of the loop: deadline = clock + idle, wait = deadline - now.
LoopHead(s) ==
    /\ pump' = [pump EXCEPT ![s] = "read"]
    /\ left' = [left EXCEPT ![s] = Idle - quiet]
    /\ moved' = [moved EXCEPT ![s] = FALSE]

\* Faulty variant: join! in the place of select!.
PumpReturnsAlone(s, how) ==
    /\ pump' = [pump EXCEPT ![s] = how]
    /\ UNCHANGED <<left, moved, quiet, phase>>

\* A pump returns, and with it the select.
PumpReturns(s, how) ==
    /\ pump' = [pump EXCEPT ![s] = how]
    /\ phase' = "shutClient"
    /\ UNCHANGED <<left, moved, quiet>>

\* clock.store(now): the other pump's deadline is now out of date, unless the
\* clock already showed this instant.
StoreClock(s) ==
    /\ quiet' = 0
    /\ moved' = [moved EXCEPT ![Other(s)] = @ \/ quiet > 0]

ReadData(s) ==
    /\ phase = "select" /\ pump[s] = "read" /\ Take(s)
    /\ StoreClock(s)
    /\ pump' = [pump EXCEPT ![s] = "write"]
    /\ UNCHANGED <<left, phase>>

ReadEof(s) ==
    /\ phase = "select" /\ pump[s] = "read" /\ EofReady(s)
    /\ PumpReturns(s, "eof") /\ UNCHANGED legVars

ReadError(s) ==
    /\ phase = "select" /\ pump[s] = "read" /\ ErrReady(s)
    /\ PumpReturns(s, "error") /\ UNCHANGED legVars

\* The timeout polls the read first, so it elapses only with nothing to read.
Elapses(s) ==
    /\ phase = "select" /\ pump[s] = "read" /\ left[s] = 0
    /\ ~DataReady(s) /\ ~EofReady(s) /\ ~ErrReady(s)

\* Faulty variants: the clock is not looked at again when the timeout elapses;
\* an elapsed timeout always starts another one.
NeverExtended(s) == FALSE
AlwaysExtended(s) == TRUE

Extended(s) == moved[s]     \* new_deadline > deadline

TimeoutExtended(s) ==
    /\ Elapses(s) /\ Extended(s)
    /\ LoopHead(s) /\ UNCHANGED <<legVars, quiet, phase>>

TimeoutIdle(s) ==
    /\ Elapses(s) /\ ~Extended(s)
    /\ PumpReturns(s, "idle") /\ UNCHANGED legVars

\* Faulty variant: write in the place of write_all.
WriteOnce(s) ==
    /\ phase = "select" /\ pump[s] = "write" /\ Put(s)
    /\ LoopHead(s)
    /\ UNCHANGED <<quiet, phase>>

\* write_all: back to the head of the loop when the whole chunk is written.
WriteData(s) ==
    /\ phase = "select" /\ pump[s] = "write" /\ Put(s)
    /\ IF put'[s] = taken[s] THEN LoopHead(s) ELSE UNCHANGED <<pump, left, moved>>
    /\ UNCHANGED <<quiet, phase>>

\* Faulty variant: try_write, for which a full send queue is an error.
WriteWouldBlock(s) ==
    /\ phase = "select" /\ pump[s] = "write" /\ (WriteFails(Other(s)) \/ Room(Other(s)) = 0)
    /\ PumpReturns(s, "error") /\ UNCHANGED legVars

WriteError(s) ==
    /\ phase = "select" /\ pump[s] = "write" /\ WriteFails(Other(s))
    /\ PumpReturns(s, "error") /\ UNCHANGED legVars

Pump(s) ==
    \/ ReadData(s) \/ ReadEof(s) \/ ReadError(s)
    \/ TimeoutExtended(s) \/ TimeoutIdle(s)
    \/ WriteData(s) \/ WriteError(s)

\* Reads are under a timeout, writes are not.
Timed(s) == phase = "select" /\ pump[s] = "read" /\ left[s] > 0

Tick ==
    /\ phase = "select"
    /\ quiet' = IF quiet < Idle THEN quiet + 1 ELSE Idle
    /\ left' = [s \in Sides |-> IF Timed(s) THEN left[s] - 1 ELSE left[s]]
    /\ UNCHANGED <<legVars, pump, moved, phase>>

-----------------------------------------------------------------------------
(* After the select: shut down both legs, then serve_conn drops them.      *)

Then(this, next) == phase = this /\ phase' = next /\ UNCHANGED <<pump, left, moved, quiet>>

ShutClient == Then("shutClient", "shutUpstream") /\ ShutWrite("client")
\* Faulty variant: the upstream leg is dropped without a shutdown.
SkipShutUpstream == Then("shutUpstream", "dropUpstream") /\ UNCHANGED legVars

ShutUpstream == Then("shutUpstream", "dropUpstream") /\ ShutWrite("upstream")
DropUpstream == Then("dropUpstream", "dropClient") /\ CloseLeg("upstream")
DropClient == Then("dropClient", "dropped") /\ CloseLeg("client")

TearDown == ShutClient \/ ShutUpstream \/ DropUpstream \/ DropClient

Next ==
    \/ Peers /\ UNCHANGED rustVars
    \/ \E s \in Sides : Pump(s)
    \/ Tick
    \/ TearDown

\* The tokio runtime polls a woken task and fires its timers.
Fairness == (\A s \in Sides : WF_vars(Pump(s))) /\ WF_vars(Tick) /\ WF_vars(TearDown)

Spec == Init /\ [][Next]_vars
FairSpec == Spec /\ Fairness

-----------------------------------------------------------------------------
(* Properties; those of both relays that end with either direction are in  *)
(* EitherRelay.                                                            *)

\* "The relay breaks after 300s with no data in either direction"
\* (rust/src/proxy.rs, comment of RELAY_IDLE_TIMEOUT).
BreaksWhenIdle == <>(phase = "dropped")

=============================================================================
