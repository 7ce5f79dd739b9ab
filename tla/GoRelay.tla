------------------------------ MODULE GoRelay ------------------------------
(***************************************************************************)
(* relay() of go/proxy.go: two copy goroutines, one shared idle timer and  *)
(* a teardown run once, by the timer's goroutine or by relay itself.       *)
(* A step is what happens between two points where another goroutine, the  *)
(* timer or a peer can intervene: one system call, or one call of the      *)
(* timer or of the sync package.                                           *)
(***************************************************************************)
EXTENDS TcpLegs

CONSTANT Idle   \* ticks of the relayIdle window

ASSUME IdleAssumption == Idle \in Nat \ {0}

VARIABLES
    copy,       \* where the goroutine that copies from s is
    left,       \* ticks until idleTimer fires; 0: not armed
    fired,      \* a goroutine started by idleTimer has not entered once.Do
    stopper,    \* who runs stop under once.Do
    stopAt,     \* steps of stop done
    main,       \* where relay itself is
    quiet       \* history: ticks since the last read of bytes from s; 0 from the
                \* beginning of the teardown on

goVars == <<copy, left, fired, stopper, stopAt, main, quiet>>
vars == <<sent, over, gone, got, taken, put, fin, shut, closed, reset,
          copy, left, fired, stopper, stopAt, main, quiet>>

StopSteps == 6

\* Faulty variant: stop that closes the descriptors before the half-closes.
StopOrderCloseFirst(s, op) ==
    CASE op = "close" -> IF s = "client" THEN 0 ELSE 1
      [] op = "fin"   -> IF s = "client" THEN 2 ELSE 4
      [] op = "shut"  -> IF s = "client" THEN 3 ELSE 5

\* stop: halfClose(client), halfClose(upstream), client.Close(), upstream.Close(),
\* where halfClose is CloseWrite then CloseRead.  The number of steps before each.
StopOrder(s, op) ==
    CASE op = "fin"   -> IF s = "client" THEN 0 ELSE 2
      [] op = "shut"  -> IF s = "client" THEN 1 ELSE 3
      [] op = "close" -> IF s = "client" THEN 4 ELSE 5

TypeOK ==
    /\ LegsTypeOK
    /\ copy \in [Sides -> {"read", "wake", "write", "eof", "done"}]
    /\ left \in 0..Idle
    /\ fired \in BOOLEAN
    /\ stopper \in {"none", "timer", "main"}
    /\ stopAt \in 0..StopSteps
    /\ main \in {"wait", "once", "returned"}
    /\ quiet \in [Sides -> 0..Idle]

Init ==
    /\ LegsInit
    /\ copy = [s \in Sides |-> "read"]
    /\ left = Idle
    /\ fired = FALSE
    /\ stopper = "none"
    /\ stopAt = 0
    /\ main = "wait"
    /\ quiet = [s \in Sides |-> 0]

-----------------------------------------------------------------------------
(* The copy goroutine of source s: io.Copy(Other(s), s), then closeWrite.  *)

\* The read of an idleConn delivers bytes, and n > 0 leads to wake().
ReadData(s) ==
    /\ copy[s] = "read" /\ Take(s)
    /\ quiet' = [quiet EXCEPT ![s] = 0]
    /\ copy' = [copy EXCEPT ![s] = "wake"]
    /\ UNCHANGED <<left, fired, stopper, stopAt, main>>

\* Faulty variants: only the client leg is wrapped in an idleConn; the window
\* is extended instead of restarted.
WakeClientOnly(s) ==
    /\ copy[s] = "wake"
    /\ left' = IF s = "client" THEN Idle ELSE left
    /\ copy' = [copy EXCEPT ![s] = "write"]
    /\ UNCHANGED <<legVars, fired, stopper, stopAt, main, quiet>>

WakeExtends(s) ==
    /\ copy[s] = "wake"
    /\ left' = left + Idle
    /\ copy' = [copy EXCEPT ![s] = "write"]
    /\ UNCHANGED <<legVars, fired, stopper, stopAt, main, quiet>>

\* wake() re-arms the one timer both legs share: also one that has fired by now,
\* whose goroutine it does not call back.
Wake(s) ==
    /\ copy[s] = "wake"
    /\ left' = Idle
    /\ copy' = [copy EXCEPT ![s] = "write"]
    /\ UNCHANGED <<legVars, fired, stopper, stopAt, main, quiet>>

\* io.Copy returns nil at EOF and the error otherwise; only nil leads to closeWrite.
AfterEof == "eof"
\* Faulty variant: closeWrite whatever io.Copy returned.
AfterErrorCloses == "eof"

AfterError == "done"

ReadEof(s) ==
    /\ copy[s] = "read" /\ EofReady(s)
    /\ copy' = [copy EXCEPT ![s] = AfterEof]
    /\ UNCHANGED <<legVars, left, fired, stopper, stopAt, main, quiet>>

ReadError(s) ==
    /\ copy[s] = "read" /\ ErrReady(s)
    /\ copy' = [copy EXCEPT ![s] = AfterError]
    /\ UNCHANGED <<legVars, left, fired, stopper, stopAt, main, quiet>>

\* Faulty variant: a short write ends the write.
WriteDataShort(s) ==
    /\ copy[s] = "write" /\ Put(s)
    /\ copy' = [copy EXCEPT ![s] = "read"]
    /\ UNCHANGED <<left, fired, stopper, stopAt, main, quiet>>

WriteData(s) ==
    /\ copy[s] = "write" /\ Put(s)
    /\ copy' = [copy EXCEPT ![s] = IF put'[s] = taken[s] THEN "read" ELSE "write"]
    /\ UNCHANGED <<left, fired, stopper, stopAt, main, quiet>>

WriteError(s) ==
    /\ copy[s] = "write" /\ WriteFails(Other(s))
    /\ copy' = [copy EXCEPT ![s] = AfterError]
    /\ UNCHANGED <<legVars, left, fired, stopper, stopAt, main, quiet>>

\* Faulty variant: halfClose in the place of closeWrite.
CloseWriteAndRead(s) ==
    /\ copy[s] = "eof"
    /\ fin' = [fin EXCEPT ![Other(s)] = TRUE] /\ shut' = [shut EXCEPT ![Other(s)] = TRUE]
    /\ copy' = [copy EXCEPT ![s] = "done"]
    /\ UNCHANGED <<peerVars, taken, put, closed, reset,
                   left, fired, stopper, stopAt, main, quiet>>

CloseWrite(s) ==
    /\ copy[s] = "eof" /\ ShutWrite(Other(s))
    /\ copy' = [copy EXCEPT ![s] = "done"]
    /\ UNCHANGED <<left, fired, stopper, stopAt, main, quiet>>

Copier(s) ==
    \/ ReadData(s) \/ Wake(s) \/ ReadEof(s) \/ ReadError(s)
    \/ WriteData(s) \/ WriteError(s) \/ CloseWrite(s)

-----------------------------------------------------------------------------
(* The timer and the teardown.                                             *)

\* Time passes; at zero the runtime starts a goroutine for the timer's function.
Tick ==
    /\ left > 0
    /\ left' = left - 1
    /\ fired' = (fired \/ left = 1)
    /\ quiet' = [s \in Sides |-> IF stopper = "none" /\ quiet[s] < Idle THEN quiet[s] + 1 ELSE quiet[s]]
    /\ UNCHANGED <<legVars, copy, stopper, stopAt, main>>

\* The first call of once.Do.
Begins(who) == stopper = "none" /\ stopper' = who /\ quiet' = [s \in Sides |-> 0]

\* Faulty variant: the deadline is on the reads, so it cannot reach a goroutine
\* that is blocked in a write.
ReaderTimesOut ==
    /\ fired /\ \E s \in Sides : copy[s] = "read"
    /\ Begins("timer") /\ fired' = FALSE
    /\ UNCHANGED <<legVars, copy, left, stopAt, main>>

\* once.Do(stop) in the timer's goroutine.  A later call finds stop run or
\* running and changes nothing.
TimerStops ==
    /\ fired /\ Begins("timer") /\ fired' = FALSE
    /\ UNCHANGED <<legVars, copy, left, stopAt, main>>

StopTurn(s, op) == stopper # "none" /\ stopAt = StopOrder(s, op)

StopFin(s) ==
    /\ StopTurn(s, "fin") /\ ShutWrite(s)
    /\ stopAt' = stopAt + 1
    /\ UNCHANGED <<copy, left, fired, stopper, main, quiet>>

StopShut(s) ==
    /\ StopTurn(s, "shut") /\ ShutRead(s)
    /\ stopAt' = stopAt + 1
    /\ UNCHANGED <<copy, left, fired, stopper, main, quiet>>

StopClose(s) ==
    /\ StopTurn(s, "close") /\ CloseLeg(s)
    /\ stopAt' = stopAt + 1
    /\ UNCHANGED <<copy, left, fired, stopper, main, quiet>>

Stop == \E s \in Sides : StopFin(s) \/ StopShut(s) \/ StopClose(s)

-----------------------------------------------------------------------------
(* relay itself.                                                           *)

\* Faulty variant: the first direction that ends, ends both.
FirstCopierDone == \E s \in Sides : copy[s] = "done"

CopiersDone == \A s \in Sides : copy[s] = "done"

\* wg.Wait()
Waited ==
    /\ main = "wait" /\ CopiersDone
    /\ main' = "once"
    /\ UNCHANGED <<legVars, copy, left, fired, stopper, stopAt, quiet>>

\* once.Do(stop): runs stop unless the timer's goroutine does, ...
MainStops ==
    /\ main = "once" /\ Begins("main")
    /\ UNCHANGED <<legVars, copy, left, fired, stopAt, main>>

\* Faulty variant: a flag in the place of sync.Once, which does not wait for the
\* goroutine that is running stop.
ReturnAtOnce ==
    /\ main = "once" /\ stopper # "none"
    /\ main' = "returned" /\ left' = 0
    /\ UNCHANGED <<legVars, copy, fired, stopper, stopAt, quiet>>

\* ... and returns when stop has run to its end, whoever ran it; then the
\* deferred idleTimer.Stop().
Return ==
    /\ main = "once" /\ stopAt = StopSteps
    /\ main' = "returned" /\ left' = 0
    /\ UNCHANGED <<legVars, copy, fired, stopper, stopAt, quiet>>

Relay == (\E s \in Sides : Copier(s)) \/ TimerStops \/ Stop \/ Waited \/ MainStops \/ Return

Next == (Peers /\ UNCHANGED goVars) \/ Relay \/ Tick

\* The Go runtime runs every runnable goroutine and fires armed timers; the
\* peers owe nothing.
Fairness ==
    /\ \A s \in Sides : WF_vars(Copier(s))
    /\ WF_vars(TimerStops) /\ WF_vars(Stop)
    /\ WF_vars(Waited) /\ WF_vars(MainStops) /\ WF_vars(Return)
    /\ WF_vars(Tick)

Spec == Init /\ [][Next]_vars
FairSpec == Spec /\ Fairness

-----------------------------------------------------------------------------
(* Properties.                                                             *)

\* Until a teardown begins, a FIN towards a peer ends a complete stream: the
\* other peer ended it and every byte of it was written before the FIN.  A
\* stream cut by an error must not look like one that ended (go/proxy.go, the
\* `err == nil' before closeWrite).
EofIsComplete ==
    \A s \in Sides :
        stopper = "none" /\ fin[Other(s)] => over[s] /\ put[s] = sent[s]

\* relay tears down without the timer only after losing nothing: if no peer
\* aborted, both streams were ended and forwarded to their last byte.
NoLossWithoutCause ==
    stopper = "main" /\ (\A s \in Sides : ~gone[s]) =>
        \A s \in Sides : over[s] /\ put[s] = sent[s]

\* The direction that survives keeps everything it needs: while no teardown
\* began, what one goroutine does when its direction ends takes neither the
\* input nor the output of the other one away.
HalfCloseIsolated ==
    \A s \in Sides :
        stopper = "none" /\ copy[s] # "done" =>
            ~closed[s] /\ ~shut[s] /\ ~fin[Other(s)]

\* relay returns after the goroutines ended and both descriptors are closed,
\* also when the timer's goroutine is the one that runs stop.
ReturnMeansReleased ==
    main = "returned" =>
        \A s \in Sides : copy[s] = "done" /\ closed[s]

\* No step of the relay resets a peer: the FIN queued first turns every Close
\* into an orderly end.  Only a byte a peer sends afterwards earns it an RST.
RelayNeverResets ==
    [][\A s \in Sides : reset'[s] /\ ~reset[s] => sent'[s] # sent[s]]_vars

\* "A healthy one-way transfer is never killed as idle" (comment of relay): the timer
\* fires only when neither leg has delivered a byte for a whole window.  What it can
\* miss are the bytes of a goroutine that is between its read and its wake() just when
\* the window runs out; every byte whose wake() is done holds it off.
FiresOnlyAfterSilence ==
    [][stopper = "none" /\ fired' /\ ~fired =>
        \A s \in Sides : copy[s] # "wake" => quiet'[s] = Idle]_vars

\* A relay is always released, whatever its peers do or stop doing: also when
\* both goroutines are blocked writing to peers that do not read.
AlwaysReleased == <>(main = "returned")

\* What the peers see is a duplex stream that is torn down only when its window ran
\* out, a peer aborted, or both directions ended; a receiver that is slow to take its
\* bytes is never a reason.
Duplex == INSTANCE DuplexStream WITH
    Streams <- Sides,
    EitherEndTears <- FALSE,
    eof <- [s \in Sides |-> fin[Other(s)] /\ got[s] = put[s]],
    idle <- fired \/ stopper = "timer",
    stalled <- FALSE,
    torn <- stopper # "none"

DuplexSpec == Duplex!StreamSpec

=============================================================================
