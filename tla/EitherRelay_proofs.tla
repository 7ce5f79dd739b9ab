------------------------- MODULE EitherRelay_proofs -------------------------
(***************************************************************************)
(* The relays of Rust and Python, for every size of the buffers, every     *)
(* number of bytes and every window: their safety, and that they implement *)
(* the duplex stream of which one ended direction ends both.               *)
(***************************************************************************)
EXTENDS EitherRelay, TcpLegs_proofs, SequenceTheorems

Complete(s) == over[s] /\ put[s] = sent[s]

\* Before the teardown nothing was done to the sockets but reads and writes.
Open == \A s \in Sides : ~closed[s] /\ ~shut[s] /\ ~fin[s] /\ ~reset[s]

\* A pump that reads has written all it took; one that saw the end, the whole stream.
PumpsForward ==
    \A s \in Sides :
        /\ pump[s] = "read" => put[s] = taken[s]
        /\ pump[s] = "eof" => Complete(s)

\* A pump that computed its deadline from the clock as it is knows how quiet it was.
Deadlines ==
    \A s \in Sides : phase = "select" /\ pump[s] = "read" /\ ~moved[s] => left[s] + quiet = Idle

\* How far relay and its caller are: the FIN of each leg is queued before either drop.
RustTearsDown ==
    /\ phase = "select" => Open
    /\ \A s \in Sides : ~shut[s]
    /\ phase \notin {"select", "shutClient"} => fin["client"]
    /\ phase \in {"dropUpstream", "dropClient", "dropped"} => fin["upstream"]
    /\ closed["upstream"] <=> phase \in {"dropClient", "dropped"}
    /\ closed["client"] <=> phase = "dropped"

\* What the thread took it has written, but for the chunk it sends.
Serving == at \in {"select", "recv", "send"}
ThreadForwards ==
    Serving => \A s \in Sides : at # "send" \/ s # Head(ready) => put[s] = taken[s]

PyTearsDown ==
    /\ Serving => Open
    /\ Serving <=> why = ""
    /\ closed["upstream"] <=> at \in {"closeClient", "closed"}
    /\ closed["client"] <=> at = "closed"

EndWasSeen == why = "end" => \E s \in Sides : gone[s] \/ Complete(s)

\* A select whose timeout is over was silent for the whole window; a send still has
\* something to write.
PyWaits ==
    /\ at = "select" => timeout + silent >= Idle
    /\ at = "send" => put[Head(ready)] < taken[Head(ready)]

\* Nothing was read for a whole window, and all that was sent is passed on.
SilentNow == silent = Idle /\ \A s \in Sides : put[s] = taken[s] /\ taken[s] = sent[s]

SomeIdle == \E s \in Sides : pump[s] = "idle"

RustInv == impl = "rust" /\ Rust!TypeOK /\ NoPy /\ PumpsForward /\ Deadlines /\ RustTearsDown
PyInv == impl = "python" /\ Py!TypeOK /\ NoRust /\ ThreadForwards /\ PyTearsDown /\ EndWasSeen /\ PyWaits

IInv == RustInv \/ PyInv

-----------------------------------------------------------------------------

\* Both relays work on the legs of this module.
LEMMA SameLegs ==
    /\ (Rust!LegsTypeOK <=> LegsTypeOK) /\ (Py!LegsTypeOK <=> LegsTypeOK)
    /\ (Rust!LegsTypeOK' <=> LegsTypeOK') /\ (Py!LegsTypeOK' <=> LegsTypeOK')
    /\ (Rust!LegsInit <=> LegsInit) /\ (Py!LegsInit <=> LegsInit)
    /\ Rust!Sides = Sides /\ Py!Sides = Sides
    /\ \A s : Rust!Other(s) = Other(s) /\ Py!Other(s) = Other(s)
    /\ Rust!legVars = legVars /\ Py!legVars = legVars
<1>1. Rust!Sides = Sides /\ Py!Sides = Sides
    BY DEF Sides, Rust!Sides, Py!Sides
<1>2. /\ (Rust!LegsTypeOK <=> LegsTypeOK) /\ (Py!LegsTypeOK <=> LegsTypeOK)
      /\ (Rust!LegsInit <=> LegsInit) /\ (Py!LegsInit <=> LegsInit)
    BY <1>1 DEF LegsTypeOK, Rust!LegsTypeOK, Py!LegsTypeOK, LegsInit, Rust!LegsInit, Py!LegsInit
<1>3. (Rust!LegsTypeOK' <=> LegsTypeOK') /\ (Py!LegsTypeOK' <=> LegsTypeOK')
    BY <1>1 DEF LegsTypeOK, Rust!LegsTypeOK, Py!LegsTypeOK
<1>4. \A s : Rust!Other(s) = Other(s) /\ Py!Other(s) = Other(s)
    BY DEF Other, Rust!Other, Py!Other
<1>5. Rust!legVars = legVars /\ Py!legVars = legVars
    BY DEF legVars, Rust!legVars, Py!legVars
<1> QED BY <1>1, <1>2, <1>3, <1>4, <1>5

\* And make the same calls on them.
LEMMA SameCalls ==
    ASSUME NEW s \in Sides
    PROVE  /\ (Rust!DataReady(s) <=> DataReady(s)) /\ (Py!DataReady(s) <=> DataReady(s))
           /\ (Rust!EofReady(s) <=> EofReady(s)) /\ (Py!EofReady(s) <=> EofReady(s))
           /\ (Rust!ErrReady(s) <=> ErrReady(s)) /\ (Py!ErrReady(s) <=> ErrReady(s))
           /\ (Rust!WriteFails(s) <=> WriteFails(s)) /\ (Py!WriteFails(s) <=> WriteFails(s))
           /\ (Rust!Take(s) <=> Take(s)) /\ (Py!Take(s) <=> Take(s))
           /\ (Rust!Put(s) <=> Put(s)) /\ (Py!Put(s) <=> Put(s))
           /\ (Rust!ShutWrite(s) <=> ShutWrite(s))
           /\ (Rust!CloseLeg(s) <=> CloseLeg(s)) /\ (Py!CloseLeg(s) <=> CloseLeg(s))
<1> USE SameLegs
<1>1. /\ (Rust!DataReady(s) <=> DataReady(s)) /\ (Py!DataReady(s) <=> DataReady(s))
      /\ (Rust!EofReady(s) <=> EofReady(s)) /\ (Py!EofReady(s) <=> EofReady(s))
    BY DEF DataReady, Rust!DataReady, Py!DataReady, EofReady, Rust!EofReady, Py!EofReady
<1>2. /\ (Rust!ErrReady(s) <=> ErrReady(s)) /\ (Py!ErrReady(s) <=> ErrReady(s))
    BY DEF Alive, Rust!Alive, Py!Alive, ErrReady, Rust!ErrReady, Py!ErrReady
<1>3. \A t : (Rust!WriteFails(t) <=> WriteFails(t)) /\ (Py!WriteFails(t) <=> WriteFails(t))
    BY DEF Alive, Rust!Alive, Py!Alive, WriteFails, Rust!WriteFails, Py!WriteFails
<1>4. (Rust!Take(s) <=> Take(s)) /\ (Py!Take(s) <=> Take(s))
    BY <1>1 DEF Take, Rust!Take, Py!Take, peerVars, Rust!peerVars, Py!peerVars
<1>5. (Rust!Put(s) <=> Put(s)) /\ (Py!Put(s) <=> Put(s))
    BY <1>3 DEF Put, Rust!Put, Py!Put, peerVars, Rust!peerVars, Py!peerVars, Room, Rust!Room, Py!Room
<1>6. Rust!ShutWrite(s) <=> ShutWrite(s)
    BY DEF ShutWrite, Rust!ShutWrite, peerVars, Rust!peerVars
<1>7. (Rust!CloseLeg(s) <=> CloseLeg(s)) /\ (Py!CloseLeg(s) <=> CloseLeg(s))
    BY DEF CloseLeg, Rust!CloseLeg, Py!CloseLeg, peerVars, Rust!peerVars, Py!peerVars
<1> QED BY <1>1, <1>2, <1>3, <1>4, <1>5, <1>6, <1>7

\* No step of a peer undoes a stream that was forwarded, or touches open sockets.
LEMMA PeersKeep ==
    ASSUME LegsTypeOK, Peers
    PROVE  /\ LegsTypeOK' /\ UNCHANGED <<taken, put, fin, shut, closed>>
           /\ \A s \in Sides : (Complete(s) => Complete(s)') /\ (gone[s] => gone'[s])
           /\ Open => Open'
<1>1. PICK s \in Sides : PeerSend(s) \/ PeerFin(s) \/ PeerAbort(s) \/ PeerRead(s)
    BY DEF Peers
<1>2. UNCHANGED <<taken, put, fin, shut, closed>>
    BY <1>1 DEF PeerSend, PeerFin, PeerAbort, PeerRead, sockVars
<1>3. \A t \in Sides : (over[t] => over'[t] /\ sent'[t] = sent[t]) /\ (gone[t] => gone'[t])
    BY <1>1 DEF PeerSend, PeerFin, PeerAbort, PeerRead, LegsTypeOK
<1>4. \A t \in Sides : ~shut[t] /\ ~closed[t] /\ ~reset[t] => ~reset'[t]
    BY <1>1 DEF PeerSend, PeerFin, PeerAbort, PeerRead, sockVars, LegsTypeOK
<1> QED BY <1>2, <1>3, <1>4, PeersType DEF Complete, Open

LEMMA PeersInv ==
    ASSUME IInv, Peers, UNCHANGED <<rustVars, pyVars, impl>>
    PROVE  IInv'
<1>1. LegsTypeOK
    BY SameLegs DEF IInv, RustInv, PyInv, Rust!TypeOK, Py!TypeOK
<1>2. /\ LegsTypeOK' /\ UNCHANGED <<taken, put, fin, shut, closed>>
      /\ \A s \in Sides : (Complete(s) => Complete(s)') /\ (gone[s] => gone'[s])
      /\ Open => Open'
    BY <1>1, PeersKeep
<1>3. CASE RustInv
    <2>1. Rust!TypeOK'
        BY <1>2, <1>3, SameLegs DEF RustInv, Rust!TypeOK, rustVars
    <2> QED BY <1>2, <1>3, <2>1 DEF IInv, RustInv, NoPy, PumpsForward, Deadlines, RustTearsDown, rustVars, pyVars
<1>4. CASE PyInv
    <2>1. Py!TypeOK'
        BY <1>2, <1>4, SameLegs DEF PyInv, Py!TypeOK, pyVars
    <2> QED BY <1>2, <1>4, <2>1 DEF IInv, PyInv, NoRust, ThreadForwards, Serving, PyTearsDown, EndWasSeen, PyWaits, rustVars, pyVars
<1> QED BY <1>3, <1>4 DEF IInv

-----------------------------------------------------------------------------
(* Rust.                                                                   *)

\* What a pump of the running session finds.
LEMMA RustRunning ==
    ASSUME RustInv, phase = "select", NEW s \in Sides
    PROVE  /\ LegsTypeOK /\ Open /\ NoPy /\ ~SomeIdle
           /\ pump \in [Sides -> {"read", "write"}] /\ moved \in [Sides -> BOOLEAN]
           /\ left \in [Sides -> 0..Idle] /\ quiet \in 0..Idle /\ Idle \in Nat
           /\ Other(s) \in Sides /\ Other(s) # s /\ \A t \in Sides : t = s \/ t = Other(s)
<1>1. /\ LegsTypeOK /\ pump \in [Sides -> {"read", "write", "eof", "error", "idle"}]
      /\ \A t \in Sides : pump[t] \in {"read", "write"}
      /\ moved \in [Sides -> BOOLEAN] /\ left \in [Sides -> 0..Idle] /\ quiet \in 0..Idle
    BY SameLegs DEF RustInv, Rust!TypeOK, Rust!Running, Rust!Returned
<1> QED BY <1>1, OtherSide, TimesAssumption DEF RustInv, RustTearsDown, SomeIdle

\* A pump that goes on.
LEMMA PumpGoesOn ==
    ASSUME RustInv, NEW s \in Sides, UNCHANGED <<pyVars, impl>>,
           Rust!ReadData(s) \/ Rust!TimeoutExtended(s) \/ Rust!WriteData(s)
    PROVE  RustInv'
<1>1. phase = "select" /\ phase' = "select"
    BY DEF Rust!ReadData, Rust!TimeoutExtended, Rust!WriteData, Rust!Elapses, Rust!LoopHead
<1>2. /\ LegsTypeOK /\ Open /\ NoPy
      /\ pump \in [Sides -> {"read", "write"}] /\ moved \in [Sides -> BOOLEAN]
      /\ left \in [Sides -> 0..Idle] /\ quiet \in 0..Idle /\ Idle \in Nat
      /\ Other(s) \in Sides /\ Other(s) # s /\ \A t \in Sides : t = s \/ t = Other(s)
    BY <1>1, RustRunning
<1>3. /\ LegsTypeOK' /\ Open' /\ UNCHANGED <<sent, over>>
      /\ \A t \in Sides : pump'[t] = "read" => put'[t] = taken'[t]
      /\ \A t \in Sides : pump'[t] \in {"read", "write"}
      /\ Deadlines'
      /\ pump' \in [Sides -> {"read", "write"}] /\ moved' \in [Sides -> BOOLEAN]
      /\ left' \in [Sides -> 0..Idle] /\ quiet' \in 0..Idle
    <2>1. CASE Rust!ReadData(s)
        <3>1. /\ pump[s] = "read" /\ Take(s) /\ pump' = [pump EXCEPT ![s] = "write"]
              /\ quiet' = 0 /\ moved' = [moved EXCEPT ![Other(s)] = moved[Other(s)] \/ quiet > 0]
              /\ UNCHANGED left
            BY <2>1, SameLegs, SameCalls DEF Rust!ReadData, Rust!StoreClock
        <3>2. LegsTypeOK' /\ UNCHANGED <<sent, over, put, fin, shut, closed, reset>>
            BY <1>2, <3>1, CallsType DEF Take, peerVars
        <3>3. taken'[Other(s)] = taken[Other(s)]
            BY <1>2, <3>1 DEF Take, LegsTypeOK
        <3>4. Deadlines'
            <4>1. pump'[s] = "write" /\ pump'[Other(s)] = pump[Other(s)] /\ moved' \in [Sides -> BOOLEAN]
                BY <1>2, <3>1
            <4>2. quiet > 0 => moved'[Other(s)]
                BY <1>2, <3>1
            <4>3. ~(quiet > 0) => quiet = 0
                BY <1>2
            <4>4. moved[Other(s)] => moved'[Other(s)]
                BY <1>2, <3>1
            <4>5. ~moved'[Other(s)] => ~moved[Other(s)] /\ quiet = 0
                BY <4>2, <4>3, <4>4
            <4> QED BY <1>1, <1>2, <3>1, <4>1, <4>5 DEF RustInv, Deadlines
        <3> QED BY <1>2, <3>1, <3>2, <3>3, <3>4 DEF Open, RustInv, PumpsForward
    <2>2. CASE Rust!TimeoutExtended(s)
        <3>1. /\ pump[s] = "read" /\ UNCHANGED legVars /\ pump' = [pump EXCEPT ![s] = "read"]
              /\ left' = [left EXCEPT ![s] = Idle - quiet] /\ moved' = [moved EXCEPT ![s] = FALSE]
              /\ UNCHANGED quiet
            BY <2>2 DEF Rust!TimeoutExtended, Rust!Elapses, Rust!LoopHead, legVars, Rust!legVars
        <3>2. LegsTypeOK' /\ UNCHANGED <<sent, over, taken, put, fin, shut, closed, reset>>
            BY <1>2, <3>1, UntouchedLegsType DEF legVars
        <3>3. Deadlines'
            BY <1>1, <1>2, <3>1 DEF RustInv, Deadlines
        <3> QED BY <1>2, <3>1, <3>2, <3>3 DEF Open, RustInv, PumpsForward
    <2>3. CASE Rust!WriteData(s)
        <3>1. /\ pump[s] = "write" /\ Put(s) /\ UNCHANGED quiet
              /\ \/ UNCHANGED <<pump, left, moved>>
                 \/ /\ put'[s] = taken[s] /\ pump' = [pump EXCEPT ![s] = "read"]
                    /\ left' = [left EXCEPT ![s] = Idle - quiet] /\ moved' = [moved EXCEPT ![s] = FALSE]
            BY <2>3, SameCalls DEF Rust!WriteData, Rust!LoopHead
        <3>2. LegsTypeOK' /\ UNCHANGED <<sent, over, taken, fin, shut, closed, reset>>
            BY <1>2, <3>1, CallsType DEF Put, peerVars
        <3>3. put'[Other(s)] = put[Other(s)]
            BY <1>2, <3>1 DEF Put, LegsTypeOK
        <3>4. CASE UNCHANGED <<pump, left, moved>>
            <4>1. Deadlines'
                BY <1>1, <3>1, <3>4 DEF RustInv, Deadlines
            <4>2. \A t \in Sides : pump'[t] = "read" => t = Other(s)
                BY <1>2, <3>1, <3>4
            <4> QED BY <1>2, <3>1, <3>2, <3>3, <3>4, <4>1, <4>2 DEF Open, RustInv, PumpsForward
        <3>5. CASE /\ put'[s] = taken[s] /\ pump' = [pump EXCEPT ![s] = "read"]
                   /\ left' = [left EXCEPT ![s] = Idle - quiet] /\ moved' = [moved EXCEPT ![s] = FALSE]
            <4>1. /\ put'[s] = taken[s] /\ left'[s] = Idle - quiet
                  /\ pump' \in [Sides -> {"read", "write"}] /\ moved' \in [Sides -> BOOLEAN]
                  /\ left' \in [Sides -> 0..Idle]
                BY <1>2, <3>5
            <4>2. /\ left'[Other(s)] = left[Other(s)] /\ pump'[Other(s)] = pump[Other(s)]
                  /\ moved'[Other(s)] = moved[Other(s)]
                BY <1>2, <3>5
            <4>3. Deadlines'
                BY <1>1, <1>2, <3>1, <4>1, <4>2 DEF RustInv, Deadlines
            <4>4. \A t \in Sides : put'[t] = taken'[t] \/ (t = Other(s) /\ pump[t] = "write")
                BY <1>2, <3>2, <3>3, <4>1 DEF RustInv, PumpsForward
            <4> QED BY <1>2, <3>1, <3>2, <4>1, <4>2, <4>3, <4>4 DEF Open
        <3> QED BY <3>1, <3>4, <3>5
    <2> QED BY <2>1, <2>2, <2>3
<1>4. Rust!TypeOK'
    <2>1. Rust!LegsTypeOK' /\ Rust!Sides = Sides
        BY <1>3, SameLegs
    <2> QED BY <1>1, <1>3, <2>1 DEF Rust!TypeOK, Rust!Running, Rust!Returned
<1> QED BY <1>1, <1>2, <1>3, <1>4 DEF RustInv, NoPy, PumpsForward, RustTearsDown, Complete, Open, Sides, pyVars

\* A pump that returns ends the session, the direction of an end of stream complete.
LEMMA PumpReturn ==
    ASSUME RustInv, NEW s \in Sides, UNCHANGED <<pyVars, impl>>,
           Rust!ReadEof(s) \/ Rust!ReadError(s) \/ Rust!TimeoutIdle(s) \/ Rust!WriteError(s)
    PROVE  /\ RustInv' /\ phase = "select" /\ phase' = "shutClient" /\ UNCHANGED legVars
           /\ \/ pump'[s] = "eof" /\ Complete(s)
              \/ pump'[s] = "error" /\ \E t \in Sides : gone[t]
              \/ pump'[s] = "idle" /\ quiet = Idle
           /\ pump'[Other(s)] = pump[Other(s)]
<1>1. /\ phase = "select" /\ phase' = "shutClient" /\ UNCHANGED <<legVars, left, moved, quiet>>
      /\ \E how \in {"eof", "error", "idle"} : pump' = [pump EXCEPT ![s] = how]
    BY DEF Rust!ReadEof, Rust!ReadError, Rust!TimeoutIdle, Rust!WriteError, Rust!Elapses,
           Rust!PumpReturns, legVars, Rust!legVars
<1>2. /\ LegsTypeOK /\ Open /\ NoPy
      /\ pump \in [Sides -> {"read", "write"}] /\ moved \in [Sides -> BOOLEAN]
      /\ left \in [Sides -> 0..Idle] /\ quiet \in 0..Idle /\ Idle \in Nat
      /\ Other(s) \in Sides /\ Other(s) # s /\ \A t \in Sides : t = s \/ t = Other(s)
    BY <1>1, RustRunning
<1>3. \/ pump'[s] = "eof" /\ Complete(s)
      \/ pump'[s] = "error" /\ \E t \in Sides : gone[t]
      \/ pump'[s] = "idle" /\ quiet = Idle
    <2>1. CASE Rust!ReadEof(s)
        <3>1. pump[s] = "read" /\ EofReady(s) /\ pump' = [pump EXCEPT ![s] = "eof"]
            BY <2>1, SameCalls DEF Rust!ReadEof, Rust!PumpReturns
        <3> QED BY <1>2, <3>1 DEF EofReady, Open, RustInv, PumpsForward, Complete
    <2>2. CASE Rust!ReadError(s)
        <3>1. ErrReady(s) /\ pump' = [pump EXCEPT ![s] = "error"]
            BY <2>2, SameCalls DEF Rust!ReadError, Rust!PumpReturns
        <3> QED BY <1>2, <3>1 DEF ErrReady, Alive, Open
    <2>3. CASE Rust!TimeoutIdle(s)
        <3>1. pump[s] = "read" /\ left[s] = 0 /\ ~moved[s] /\ pump' = [pump EXCEPT ![s] = "idle"]
            BY <2>3 DEF Rust!TimeoutIdle, Rust!Elapses, Rust!Extended, Rust!PumpReturns
        <3> QED BY <1>1, <1>2, <3>1 DEF RustInv, Deadlines
    <2>4. CASE Rust!WriteError(s)
        <3>1. WriteFails(Other(s)) /\ pump' = [pump EXCEPT ![s] = "error"]
            BY <2>4, <1>2, SameLegs, SameCalls DEF Rust!WriteError, Rust!PumpReturns
        <3> QED BY <1>2, <3>1 DEF WriteFails, Alive, Open
    <2> QED BY <2>1, <2>2, <2>3, <2>4
<1>4. pump'[Other(s)] = pump[Other(s)] /\ pump' \in [Sides -> {"read", "write", "eof", "error", "idle"}]
    BY <1>1, <1>2
<1>5. LegsTypeOK' /\ UNCHANGED <<sent, over, taken, put, fin, shut, closed, reset>>
    BY <1>1, <1>2, UntouchedLegsType DEF legVars
<1>6. Rust!TypeOK'
    BY <1>1, <1>2, <1>3, <1>4, <1>5, SameLegs DEF Rust!TypeOK, Rust!Running, Rust!Returned
<1>7. PumpsForward' /\ Deadlines' /\ RustTearsDown'
    BY <1>1, <1>2, <1>3, <1>4, <1>5 DEF RustInv, PumpsForward, Deadlines, RustTearsDown, Complete, Open
<1> QED BY <1>1, <1>2, <1>3, <1>4, <1>6, <1>7 DEF RustInv, NoPy, pyVars

LEMMA RustTickInv ==
    ASSUME RustInv, Rust!Tick, UNCHANGED <<pyVars, impl>>
    PROVE  RustInv' /\ phase = "select" /\ UNCHANGED <<legVars, pump, phase>>
<1>1. /\ phase = "select" /\ UNCHANGED <<legVars, pump, moved, phase>>
      /\ quiet' = (IF quiet < Idle THEN quiet + 1 ELSE Idle)
      /\ left' = [s \in Sides |-> IF Rust!Timed(s) THEN left[s] - 1 ELSE left[s]]
    BY SameLegs DEF Rust!Tick, legVars, Rust!legVars
<1>2. /\ LegsTypeOK /\ Open /\ NoPy
      /\ pump \in [Sides -> {"read", "write"}] /\ moved \in [Sides -> BOOLEAN]
      /\ left \in [Sides -> 0..Idle] /\ quiet \in 0..Idle /\ Idle \in Nat
    BY <1>1, RustRunning DEF Sides
<1>3. /\ left' \in [Sides -> 0..Idle] /\ quiet' \in 0..Idle
      /\ \A s \in Sides : pump[s] = "read" =>
            left'[s] = (IF left[s] > 0 THEN left[s] - 1 ELSE left[s])
    BY <1>1, <1>2 DEF Rust!Timed
<1>4. Deadlines'
    BY <1>1, <1>2, <1>3 DEF RustInv, Deadlines
<1>5. LegsTypeOK' /\ UNCHANGED <<sent, over, taken, put, fin, shut, closed, reset>>
    BY <1>1, <1>2, UntouchedLegsType DEF legVars
<1>6. Rust!TypeOK'
    BY <1>1, <1>2, <1>3, <1>5, SameLegs DEF RustInv, Rust!TypeOK, Rust!Running, Rust!Returned
<1> QED BY <1>1, <1>2, <1>4, <1>5, <1>6
        DEF RustInv, NoPy, PumpsForward, RustTearsDown, Complete, Open, pyVars

\* The shutdowns and drops: the first of them finds both legs open, and each leg that
\* is dropped has its FIN.
LEMMA RustTearDownInv ==
    ASSUME RustInv, Rust!TearDown, UNCHANGED <<pyVars, impl>>
    PROVE  /\ RustInv' /\ phase # "select" /\ phase' # "select"
           /\ UNCHANGED <<peerVars, taken, put, reset, pump>>
           /\ \/ UNCHANGED fin
              \/ \E s \in Sides : fin' = [fin EXCEPT ![s] = TRUE]
<1>1. /\ LegsTypeOK /\ {"client", "upstream"} = Sides /\ "client" # "upstream"
      /\ fin \in [Sides -> BOOLEAN] /\ closed \in [Sides -> BOOLEAN] /\ reset \in [Sides -> BOOLEAN]
    BY SameLegs DEF RustInv, Rust!TypeOK, LegsTypeOK, Sides
<1>2. UNCHANGED <<pump, left, moved, quiet>> /\ phase # "select" /\ phase' # "select"
    BY DEF Rust!TearDown, Rust!ShutClient, Rust!ShutUpstream, Rust!DropUpstream, Rust!DropClient, Rust!Then
<1>3. /\ LegsTypeOK' /\ RustTearsDown' /\ UNCHANGED <<peerVars, taken, put, reset>>
      /\ phase' \in {"shutUpstream", "dropUpstream", "dropClient", "dropped"}
      /\ \/ UNCHANGED fin
         \/ \E s \in Sides : fin' = [fin EXCEPT ![s] = TRUE]
    <2>1. CASE Rust!ShutClient
        <3>1. phase = "shutClient" /\ phase' = "shutUpstream" /\ ShutWrite("client")
            BY <1>1, <2>1, SameCalls DEF Rust!ShutClient, Rust!Then
        <3>2. LegsTypeOK'
            BY <1>1, <3>1, CallsType
        <3>3. ~closed["client"] /\ fin' = [fin EXCEPT !["client"] = TRUE]
            BY <3>1 DEF RustInv, RustTearsDown, ShutWrite
        <3> QED BY <1>1, <3>1, <3>2, <3>3 DEF RustInv, RustTearsDown, ShutWrite
    <2>2. CASE Rust!ShutUpstream
        <3>1. phase = "shutUpstream" /\ phase' = "dropUpstream" /\ ShutWrite("upstream")
            BY <1>1, <2>2, SameCalls DEF Rust!ShutUpstream, Rust!Then
        <3>2. LegsTypeOK'
            BY <1>1, <3>1, CallsType
        <3>3. ~closed["upstream"] /\ fin' = [fin EXCEPT !["upstream"] = TRUE]
            BY <3>1 DEF RustInv, RustTearsDown, ShutWrite
        <3> QED BY <1>1, <3>1, <3>2, <3>3 DEF RustInv, RustTearsDown, ShutWrite
    <2>3. CASE Rust!DropUpstream
        <3>1. phase = "dropUpstream" /\ phase' = "dropClient" /\ CloseLeg("upstream")
            BY <1>1, <2>3, SameCalls DEF Rust!DropUpstream, Rust!Then
        <3>2. LegsTypeOK'
            BY <1>1, <3>1, CallsType
        <3>3. /\ fin["client"] /\ fin["upstream"] /\ UNCHANGED <<fin, reset, shut, peerVars, taken, put>>
              /\ closed' = [closed EXCEPT !["upstream"] = TRUE]
            BY <1>1, <3>1 DEF RustInv, RustTearsDown, CloseLeg
        <3> QED BY <1>1, <3>1, <3>2, <3>3 DEF RustInv, RustTearsDown
    <2>4. CASE Rust!DropClient
        <3>1. phase = "dropClient" /\ phase' = "dropped" /\ CloseLeg("client")
            BY <1>1, <2>4, SameCalls DEF Rust!DropClient, Rust!Then
        <3>2. LegsTypeOK'
            BY <1>1, <3>1, CallsType
        <3>3. /\ fin["client"] /\ fin["upstream"] /\ UNCHANGED <<fin, reset, shut, peerVars, taken, put>>
              /\ closed' = [closed EXCEPT !["client"] = TRUE]
            BY <1>1, <3>1 DEF RustInv, RustTearsDown, CloseLeg
        <3> QED BY <1>1, <3>1, <3>2, <3>3 DEF RustInv, RustTearsDown
    <2> QED BY <2>1, <2>2, <2>3, <2>4 DEF Rust!TearDown
<1>4. Rust!TypeOK'
    BY <1>2, <1>3, SameLegs DEF RustInv, Rust!TypeOK
<1>5. PumpsForward' /\ Deadlines'
    BY <1>2, <1>3 DEF RustInv, PumpsForward, Deadlines, Complete, peerVars
<1> QED BY <1>2, <1>3, <1>4, <1>5 DEF RustInv, NoPy, pyVars

-----------------------------------------------------------------------------
(* Python.                                                                 *)

\* What select can return, and what is left of it.
ReadySides == {<<>>, <<"client">>, <<"upstream">>, <<"client", "upstream">>}

LEMMA ReadySequences ==
    /\ <<"client">> \o <<"upstream">> = <<"client", "upstream">>
    /\ <<"client">> \o <<>> = <<"client">> /\ <<>> \o <<"upstream">> = <<"upstream">>
    /\ <<"client">> # <<>> /\ <<"upstream">> # <<>> /\ <<"client", "upstream">> # <<>>
    /\ \A q \in ReadySides : q # <<>> => Head(q) \in Sides /\ Tail(q) \in ReadySides
<1>1. <<"client">> \in Seq({"client"}) /\ <<"upstream">> \in Seq({"upstream"})
    OBVIOUS
<1>2. <<"client">> \o <<>> = <<"client">> /\ <<>> \o <<"upstream">> = <<"upstream">>
    BY <1>1, ConcatEmptySeq
<1>3. <<"client">> \o <<"upstream">> = <<"client", "upstream">>
    <2> DEFINE T == {"client", "upstream"}
               q == <<"client">> \o <<"upstream">>
               r == <<"client", "upstream">>
    <2>1. <<"client">> \in Seq(T) /\ <<"upstream">> \in Seq(T)
        OBVIOUS
    <2>2. q \in Seq(T) /\ Len(q) = 2 /\ q[1] = "client" /\ q[2] = "upstream"
        BY <2>1, ConcatProperties
    <2>3. r \in Seq(T) /\ Len(r) = 2 /\ r[1] = "client" /\ r[2] = "upstream"
        OBVIOUS
    <2> HIDE DEF q, r, T
    <2>4. q = r
        BY <2>2, <2>3, SeqEqual
    <2> QED BY <2>4 DEF q, r
<1>4. Head(<<"client">>) \in Sides /\ Head(<<"upstream">>) \in Sides /\ Head(<<"client", "upstream">>) \in Sides
    BY DEF Sides
<1>5. /\ Tail(<<"client">>) = <<>> /\ Tail(<<"upstream">>) = <<>>
      /\ Tail(<<"client", "upstream">>) = <<"upstream">>
    OBVIOUS
<1> QED BY <1>2, <1>3, <1>4, <1>5 DEF ReadySides

\* What the thread that serves finds.
LEMMA PyServing ==
    ASSUME PyInv, Serving
    PROVE  /\ LegsTypeOK /\ Open /\ NoRust /\ why = ""
           /\ at # "select" => /\ ready # <<>> /\ Tail(ready) \in ReadySides
                               /\ Head(ready) \in Sides /\ Other(Head(ready)) \in Sides
           /\ timeout \in 0..(Idle + SendTimeout) /\ Idle \in Nat /\ SendTimeout \in Nat
<1>1. LegsTypeOK /\ NoRust /\ why = "" /\ timeout \in 0..(Idle + SendTimeout) /\ Open
    BY SameLegs DEF PyInv, Py!TypeOK, PyTearsDown
<1>2. ready \in ReadySides /\ (at # "select" => ready # <<>>)
    BY DEF PyInv, Py!TypeOK, Serving, ReadySides
<1>3. ready # <<>> => Head(ready) \in Sides /\ Tail(ready) \in ReadySides
    BY <1>2, ReadySequences
<1> QED BY <1>1, <1>2, <1>3, OtherSide, TimesAssumption

\* The thread goes on to the next call of its loop.
LEMMA ThreadGoesOn ==
    ASSUME PyInv, UNCHANGED <<rustVars, impl>>, Py!Select \/ Py!Recv \/ Py!Send
    PROVE  /\ PyInv' /\ Serving /\ UNCHANGED <<peerVars, fin, why>>
<1>0. silent \in 0..Idle /\ silent' \in 0..Idle
    <2>1. silent' = silent \/ silent' = 0
        BY DEF Py!Select, Py!Recv, Py!Send, Py!pyVars
    <2>2. silent \in 0..Idle
        BY DEF PyInv, Py!TypeOK
    <2>3. 0 \in 0..Idle
        BY TimesAssumption
    <2> QED BY <2>1, <2>2, <2>3
<1>1. Serving /\ Serving' /\ UNCHANGED why
    BY DEF Py!Select, Py!Recv, Py!Send, Serving, Py!pyVars
<1>2. LegsTypeOK /\ Open /\ NoRust /\ why = ""
    BY <1>1, PyServing
<1>3. {timeout, 0, Idle, SendTimeout} \subseteq 0..(Idle + SendTimeout)
    <2>1. timeout \in 0..(Idle + SendTimeout)
        BY <1>1, PyServing
    <2> QED BY <2>1, TimesAssumption
<1>4. at # "select" => /\ ready # <<>> /\ Tail(ready) \in ReadySides
                       /\ Head(ready) \in Sides /\ Other(Head(ready)) \in Sides
    BY <1>1, PyServing
<1>5. /\ ready' \in ReadySides /\ (at' \in {"recv", "send"} => ready' # <<>>)
      /\ timeout' \in 0..(Idle + SendTimeout)
    <2>1. CASE Py!Select
        <3>1. /\ timeout' = 0 /\ \E s \in Sides : Py!Readable(s)
              /\ ready' = (IF Py!Readable("client") THEN <<"client">> ELSE <<>>)
                          \o (IF Py!Readable("upstream") THEN <<"upstream">> ELSE <<>>)
            BY <2>1, SameLegs DEF Py!Select
        <3>2. Py!Readable("client") \/ Py!Readable("upstream")
            BY <3>1 DEF Sides
        <3>3. ready' \in {<<"client">>, <<"upstream">>, <<"client", "upstream">>}
            BY <3>1, <3>2, ReadySequences
        <3>4. timeout' \in 0..(Idle + SendTimeout)
            BY <1>3, <3>1
        <3>5. ready' \in ReadySides /\ ready' # <<>>
            BY <3>3, ReadySequences DEF ReadySides
        <3> QED BY <3>4, <3>5
    <2>2. CASE Py!Recv
        <3>1. at = "recv" /\ UNCHANGED ready /\ timeout' \in {0, SendTimeout}
            BY <2>2 DEF Py!Recv
        <3>2. ready \in ReadySides
            BY DEF PyInv, Py!TypeOK, ReadySides
        <3>3. timeout' \in 0..(Idle + SendTimeout)
            BY <1>3, <3>1
        <3> QED BY <1>4, <3>1, <3>2, <3>3
    <2>3. CASE Py!Send
        <3>1. at = "send" /\ ready \in ReadySides
            BY <2>3 DEF Py!Send, PyInv, Py!TypeOK, ReadySides
        <3>2. CASE UNCHANGED <<at, ready, timeout>>
            BY <1>4, <1>3, <3>1, <3>2
        <3>3. CASE /\ ready' = Tail(ready)
                   /\ at' = (IF Tail(ready) = <<>> THEN "select" ELSE "recv")
                   /\ timeout' = (IF Tail(ready) = <<>> THEN Idle ELSE 0)
            <4>1. timeout' \in {0, Idle}
                BY <3>3
            <4>2. timeout' \in 0..(Idle + SendTimeout)
                BY <1>3, <4>1
            <4>3. ready' \in ReadySides /\ (ready' = <<>> => at' = "select")
                BY <1>4, <3>1, <3>3
            <4> QED BY <4>2, <4>3
        <3> QED BY <2>3, <3>2, <3>3 DEF Py!Send, Py!pyVars
    <2> QED BY <2>1, <2>2, <2>3
<1>6. LegsTypeOK' /\ UNCHANGED <<peerVars, fin, shut, closed, reset>> /\ ThreadForwards'
    <2>1. CASE Py!Select
        <3>1. at = "select" /\ at' = "recv" /\ UNCHANGED legVars
            BY <2>1 DEF Py!Select, legVars, Py!legVars
        <3>2. LegsTypeOK' /\ UNCHANGED <<peerVars, taken, put, fin, shut, closed, reset>>
            BY <1>2, <3>1, UntouchedLegsType DEF legVars, peerVars
        <3> QED BY <3>1, <3>2 DEF PyInv, ThreadForwards, Serving
    <2>2. CASE Py!Recv \/ Py!Send
        <3>1. PICK h \in Sides : h = Head(ready)
            BY <1>4, <2>2 DEF Py!Recv, Py!Send
        <3>2. \A s \in Sides : at # "send" \/ s # h => put[s] = taken[s]
            BY <1>1, <3>1 DEF PyInv, ThreadForwards
        <3>3. CASE Py!Recv
            <4>1. at = "recv" /\ at' = "send" /\ UNCHANGED ready /\ Take(h)
                BY <3>1, <3>3, SameCalls DEF Py!Recv
            <4>2. LegsTypeOK' /\ UNCHANGED <<peerVars, put, fin, shut, closed, reset>>
                BY <1>2, <4>1, CallsType DEF Take
            <4>3. \A s \in Sides : s # h => taken'[s] = taken[s]
                BY <1>2, <4>1 DEF Take, LegsTypeOK
            <4>4. \A s \in Sides : s # h => put'[s] = taken'[s]
                BY <3>2, <4>1, <4>2, <4>3
            <4>5. Head(ready') = h
                BY <3>1, <4>1
            <4> QED BY <4>1, <4>2, <4>4, <4>5 DEF ThreadForwards
        <3>4. CASE Py!Send
            <4>1. at = "send" /\ Put(h)
                BY <3>1, <3>4, SameCalls DEF Py!Send
            <4>2. LegsTypeOK' /\ UNCHANGED <<peerVars, taken, fin, shut, closed, reset>>
                BY <1>2, <4>1, CallsType DEF Put
            <4>3. \A s \in Sides : s # h => put'[s] = put[s]
                BY <1>2, <4>1 DEF Put, LegsTypeOK
            <4>4. \A s \in Sides : s # h => put'[s] = taken'[s]
                BY <3>2, <4>2, <4>3
            <4>5. CASE UNCHANGED <<at, ready>>
                <5>1. Head(ready') = h
                    BY <3>1, <4>5
                <5> QED BY <4>1, <4>2, <4>4, <4>5, <5>1 DEF ThreadForwards
            <4>6. CASE ~(put'[h] < taken[h])
                <5>1. put'[h] = taken'[h]
                    BY <4>2, <4>6 DEF LegsTypeOK
                <5> QED BY <4>2, <4>4, <5>1 DEF ThreadForwards
            <4> QED BY <3>1, <3>4, <4>5, <4>6 DEF Py!Send, Py!pyVars
        <3> QED BY <2>2, <3>3, <3>4
    <2> QED BY <2>1, <2>2
<1>7. Py!TypeOK'
    <2>1. Py!LegsTypeOK'
        BY <1>6, SameLegs
    <2>2. at' \in {"select", "recv", "send"} /\ why' = ""
        BY <1>1, <1>2 DEF Serving
    <2> QED BY <1>0, <1>5, <2>1, <2>2 DEF Py!TypeOK, ReadySides
<1>8. PyTearsDown'
    <2>1. Open'
        BY <1>2, <1>6 DEF Open
    <2> QED BY <1>1, <1>6, <2>1 DEF PyInv, PyTearsDown, Serving
<1>9. EndWasSeen'
    BY <1>1, <1>2 DEF EndWasSeen
<1>10. PyWaits'
    <2>1. CASE Py!Select
        BY <2>1 DEF Py!Select, PyWaits
    <2>2. CASE Py!Recv
        <3>1. at = "recv" /\ at' = "send" /\ UNCHANGED ready
            BY <2>2 DEF Py!Recv
        <3>2. PICK h \in Sides : h = Head(ready)
            BY <1>4, <3>1
        <3>3. Take(h) /\ put[h] = taken[h]
            BY <1>1, <2>2, <3>1, <3>2, SameCalls DEF Py!Recv, PyInv, ThreadForwards
        <3>4. taken[h] \in Nat /\ taken \in [Sides -> Nat] /\ put'[h] = put[h]
            BY <1>2, <3>3 DEF Take, LegsTypeOK
        <3>5. PICK n \in 1..Chunk : taken' = [taken EXCEPT ![h] = taken[h] + n]
            BY <3>3 DEF Take
        <3>6. taken'[h] = taken[h] + n
            BY <3>4, <3>5
        <3>7. put'[h] < taken'[h]
            BY <3>3, <3>4, <3>5, <3>6, LegsAssumption
        <3> QED BY <3>1, <3>2, <3>7 DEF PyWaits
    <2>3. CASE Py!Send
        <3>1. at = "send" /\ Put(Head(ready))
            BY <1>4, <2>3, SameCalls DEF Py!Send
        <3>2. CASE put'[Head(ready)] < taken[Head(ready)] /\ UNCHANGED <<at, ready>>
            BY <3>1, <3>2 DEF Put, PyWaits
        <3>3. CASE at' = "recv"
            BY <3>3 DEF PyWaits
        <3>4. CASE at' = "select" /\ timeout' = Idle
            <4>1. silent' \in Nat /\ Idle \in Nat
                BY <1>0, TimesAssumption
            <4>2. \A a, b \in Nat : a + b >= a
                OBVIOUS
            <4>3. Idle + silent' >= Idle
                BY <4>1, <4>2
            <4> QED BY <3>4, <4>3 DEF PyWaits
        <3> QED BY <2>3, <3>2, <3>3, <3>4 DEF Py!Send, Py!pyVars
    <2> QED BY <2>1, <2>2, <2>3
<1> QED BY <1>1, <1>2, <1>6, <1>7, <1>8, <1>9, <1>10 DEF PyInv, NoRust, rustVars

\* The thread leaves the loop for a reason.
LEMMA ThreadLeaves ==
    ASSUME PyInv, UNCHANGED <<rustVars, impl>>, Py!SelectTimeout \/ Py!RecvEnd \/ Py!SendError
    PROVE  /\ PyInv' /\ Serving /\ why = "" /\ UNCHANGED legVars
           /\ \/ why' = "end" /\ \E s \in Sides : gone[s] \/ Complete(s)
              \/ why' = "idle" /\ SilentNow
              \/ why' = "stalled" /\ \E s \in Sides : got[s] < sent[s]
              \/ why' = "error" /\ \E s \in Sides : gone[s]
<1>1. /\ Serving /\ UNCHANGED legVars /\ ready' = <<>> /\ timeout' = 0
      /\ at' \in {"closeUpstream", "shutClient"}
    BY DEF Py!SelectTimeout, Py!RecvEnd, Py!SendError, Py!Leave, Py!Goto, Serving, legVars, Py!legVars
<1>2. /\ LegsTypeOK /\ Open /\ NoRust /\ why = ""
      /\ at # "select" => Head(ready) \in Sides /\ Other(Head(ready)) \in Sides
    BY <1>1, PyServing
<1>3. \/ why' = "end" /\ \E s \in Sides : gone[s] \/ Complete(s)
      \/ why' = "idle" /\ SilentNow
      \/ why' = "stalled" /\ \E s \in Sides : got[s] < sent[s]
      \/ why' = "error" /\ \E s \in Sides : gone[s]
    <2>1. CASE Py!SelectTimeout
        <3>1. at = "select" /\ timeout = 0 /\ why' = "idle" /\ \A s \in Sides : ~DataReady(s)
            BY <2>1, SameLegs, SameCalls DEF Py!SelectTimeout, Py!Leave, Py!Readable
        <3>2. \A s \in Sides : put[s] = taken[s]
            BY <1>1, <3>1 DEF PyInv, ThreadForwards
        <3>3. \A s \in Sides : taken[s] = sent[s]
            <4>1. \A s \in Sides : ~(taken[s] < sent[s])
                BY <1>2, <3>1 DEF DataReady, Open
            <4>2. LegsTypeOK
                BY <1>2
            <4> QED BY <4>1, <4>2 DEF LegsTypeOK
        <3>4. silent = Idle
            <4>1. silent \in 0..Idle /\ timeout + silent >= Idle
                BY <3>1 DEF PyInv, Py!TypeOK, PyWaits
            <4> QED BY <3>1, <4>1, TimesAssumption
        <3> QED BY <3>1, <3>2, <3>3, <3>4 DEF SilentNow
    <2>2. CASE Py!RecvEnd
        <3>1. at = "recv" /\ why' = "end" /\ (EofReady(Head(ready)) \/ ErrReady(Head(ready)))
            BY <1>2, <2>2, SameCalls DEF Py!RecvEnd, Py!Leave
        <3>2. gone[Head(ready)] \/ Complete(Head(ready))
            BY <1>2, <3>1 DEF EofReady, ErrReady, Alive, Open, Complete, PyInv, ThreadForwards, Serving
        <3> QED BY <1>2, <3>1, <3>2
    <2>3. CASE Py!SendError
        <3>1. at = "send" /\ (why' = "stalled" \/ (why' = "error" /\ WriteFails(Other(Head(ready)))))
            BY <1>2, <2>3, SameLegs, SameCalls DEF Py!SendError, Py!Leave
        <3>2. PICK h \in Sides : h = Head(ready)
            BY <1>2, <3>1
        <3>3. got[h] < sent[h]
            <4>1. put[h] < taken[h]
                BY <3>1, <3>2 DEF PyInv, PyWaits
            <4>2. /\ got[h] \in Nat /\ put[h] \in Nat /\ taken[h] \in Nat
                  /\ sent[h] \in 0..MaxBytes /\ got[h] <= put[h] /\ taken[h] <= sent[h]
                BY <1>2 DEF LegsTypeOK
            <4>3. sent[h] \in Nat
                BY <4>2, LegsAssumption
            <4> QED BY <4>1, <4>2, <4>3
        <3> QED BY <1>2, <3>1, <3>3 DEF WriteFails, Alive, Open
    <2> QED BY <2>1, <2>2, <2>3
<1>4. LegsTypeOK' /\ UNCHANGED <<peerVars, taken, put, fin, shut, closed, reset>>
    BY <1>1, <1>2, UntouchedLegsType DEF legVars, peerVars
<1>5. Py!TypeOK'
    <2>1. Py!LegsTypeOK'
        BY <1>4, SameLegs
    <2>2. why' \in {"end", "idle", "stalled", "error"}
        BY <1>3
    <2>3. 0 \in 0..(Idle + SendTimeout)
        BY TimesAssumption
    <2>4. silent' \in 0..Idle
        BY DEF PyInv, Py!TypeOK, Py!SelectTimeout, Py!RecvEnd, Py!SendError, Py!Leave
    <2> QED BY <1>1, <2>1, <2>2, <2>3, <2>4 DEF Py!TypeOK
<1>6. ThreadForwards' /\ PyTearsDown' /\ EndWasSeen' /\ PyWaits'
    BY <1>1, <1>2, <1>3, <1>4 DEF ThreadForwards, PyTearsDown, EndWasSeen, PyWaits, Complete, Serving, Open, peerVars, PyInv, Sides
<1> QED BY <1>1, <1>2, <1>3, <1>5, <1>6 DEF PyInv, NoRust, rustVars

LEMMA PyTickInv ==
    ASSUME PyInv, Py!Tick, UNCHANGED <<rustVars, impl>>
    PROVE  PyInv' /\ UNCHANGED <<legVars, at, why>>
<1>1. /\ timeout > 0 /\ timeout' = timeout - 1 /\ UNCHANGED <<legVars, at, ready, why>>
      /\ silent' = IF silent < Idle THEN silent + 1 ELSE silent
    BY DEF Py!Tick, legVars, Py!legVars
<1>2. LegsTypeOK /\ timeout \in 0..(Idle + SendTimeout) /\ Idle \in Nat /\ SendTimeout \in Nat
    BY SameLegs, TimesAssumption DEF PyInv, Py!TypeOK
<1>3. LegsTypeOK' /\ UNCHANGED <<peerVars, taken, put, fin, shut, closed, reset>>
    BY <1>1, <1>2, UntouchedLegsType DEF legVars, peerVars
<1>4. /\ silent \in 0..Idle /\ silent' \in 0..Idle
      /\ timeout' \in 0..(Idle + SendTimeout)
      /\ timeout + silent >= Idle => timeout' + silent' >= Idle
    <2>1. silent \in 0..Idle
        BY DEF PyInv, Py!TypeOK
    <2> QED BY <1>1, <1>2, <2>1
<1>5. Py!TypeOK'
    BY <1>1, <1>3, <1>4, SameLegs DEF PyInv, Py!TypeOK
<1>6. PyWaits'
    BY <1>1, <1>3, <1>4 DEF PyInv, PyWaits
<1> QED BY <1>1, <1>3, <1>5, <1>6
        DEF PyInv, NoRust, rustVars, ThreadForwards, PyTearsDown, EndWasSeen, Complete, Serving, Open, peerVars

\* shutdown of both sockets, or of none, and the two closes.
LEMMA PyTearDownInv ==
    ASSUME PyInv, UNCHANGED <<rustVars, impl>>,
           Py!ShutClient \/ Py!ShutUpstream \/ Py!CloseUpstream \/ Py!CloseClient
    PROVE  /\ PyInv' /\ why # "" /\ UNCHANGED <<peerVars, taken, put, why>>
           /\ \/ UNCHANGED fin
              \/ \E s \in Sides : fin' = [fin EXCEPT ![s] = TRUE]
<1>1. /\ LegsTypeOK /\ {"client", "upstream"} = Sides /\ "client" # "upstream"
      /\ fin \in [Sides -> BOOLEAN] /\ closed \in [Sides -> BOOLEAN] /\ shut \in [Sides -> BOOLEAN]
    BY SameLegs DEF PyInv, Py!TypeOK, LegsTypeOK, Sides
<1>2. /\ ~Serving /\ ~Serving' /\ UNCHANGED why /\ why # "" /\ ready' = <<>> /\ timeout' = 0
      /\ UNCHANGED silent
      /\ at' \in {"shutUpstream", "closeUpstream", "closeClient", "closed"}
    BY DEF Py!ShutClient, Py!ShutUpstream, Py!CloseUpstream, Py!CloseClient, Py!Goto, Serving,
           PyInv, PyTearsDown
<1>3. /\ LegsTypeOK' /\ UNCHANGED <<peerVars, taken, put>>
      /\ \/ UNCHANGED fin
         \/ \E s \in Sides : fin' = [fin EXCEPT ![s] = TRUE]
      /\ closed'["upstream"] <=> at' \in {"closeClient", "closed"}
      /\ closed'["client"] <=> at' = "closed"
    <2>1. ASSUME NEW s \in Sides, Py!ShutBoth(s)
          PROVE  /\ LegsTypeOK' /\ UNCHANGED <<peerVars, taken, put, closed>>
                 /\ fin' = [fin EXCEPT ![s] = TRUE]
        <3>1. /\ UNCHANGED <<peerVars, taken, put, closed, reset>>
              /\ fin' = [fin EXCEPT ![s] = TRUE] /\ shut' = [shut EXCEPT ![s] = TRUE]
            BY <2>1 DEF Py!ShutBoth, peerVars, Py!peerVars
        <3> QED BY <1>1, <3>1 DEF LegsTypeOK, peerVars
    <2>2. ASSUME NEW s \in Sides, CloseLeg(s)
          PROVE  /\ LegsTypeOK' /\ UNCHANGED <<peerVars, taken, put>>
                 /\ closed' = [closed EXCEPT ![s] = TRUE]
                 /\ UNCHANGED fin \/ fin' = [fin EXCEPT ![s] = TRUE]
        <3>1. LegsTypeOK'
            BY <1>1, <2>2, CallsType
        <3>2. UNCHANGED fin \/ fin' = [fin EXCEPT ![s] = TRUE]
            BY <1>1, <2>2 DEF CloseLeg
        <3> QED BY <2>2, <3>1, <3>2 DEF CloseLeg
    <2>3. CASE Py!ShutClient
        BY <1>1, <2>1, <2>3 DEF Py!ShutClient, Py!Goto, PyInv, PyTearsDown
    <2>4. CASE Py!ShutUpstream
        BY <1>1, <2>1, <2>4 DEF Py!ShutUpstream, Py!Goto, PyInv, PyTearsDown
    <2>5. CASE Py!CloseUpstream
        BY <1>1, <2>2, <2>5, SameCalls DEF Py!CloseUpstream, Py!Goto, PyInv, PyTearsDown
    <2>6. CASE Py!CloseClient
        BY <1>1, <2>2, <2>6, SameCalls DEF Py!CloseClient, Py!Goto, PyInv, PyTearsDown
    <2> QED BY <2>3, <2>4, <2>5, <2>6
<1>4. Py!TypeOK'
    <2>1. Py!LegsTypeOK' /\ 0 \in 0..(Idle + SendTimeout)
        BY <1>3, SameLegs, TimesAssumption
    <2>2. why' \in {"", "end", "idle", "stalled", "error"} /\ silent' \in 0..Idle
        BY <1>2 DEF PyInv, Py!TypeOK
    <2> QED BY <1>2, <2>1, <2>2 DEF Py!TypeOK
<1>5. PyWaits'
    BY <1>2 DEF PyWaits
<1> QED BY <1>2, <1>3, <1>4, <1>5
        DEF PyInv, NoRust, rustVars, ThreadForwards, PyTearsDown, EndWasSeen, Complete, peerVars

-----------------------------------------------------------------------------
(* What the steps do to the duplex stream they implement.                  *)

Eof == [s \in Sides |-> fin[Other(s)] /\ got[s] = put[s]]
Expired == IF impl = "rust" THEN SomeIdle ELSE why = "idle"
Stalled == why = "stalled"
Reasons == <<Expired, Stalled>>
Torn == IF impl = "rust" THEN phase # "select" ELSE why # ""

Implements == [EitherEnds!StreamNext]_(EitherEnds!streamVars)

\* The sockets of a session that is not torn down are open.
LEMMA Mapped ==
    ASSUME IInv
    PROVE  LegsTypeOK /\ (Torn \/ Open) /\ Eof \in [Sides -> BOOLEAN] /\ Expired \in BOOLEAN /\ Torn \in BOOLEAN
<1>1. LegsTypeOK /\ (Torn \/ Open)
    BY SameLegs DEF IInv, RustInv, PyInv, Rust!TypeOK, Py!TypeOK, RustTearsDown, PyTearsDown, Torn, Serving
<1> QED BY <1>1 DEF Eof, Reasons, Expired, Stalled, SomeIdle, Torn

LEMMA Stutters ==
    ASSUME UNCHANGED <<sent, over, gone, got>>, Eof' = Eof, Reasons' = Reasons, Torn' = Torn
    PROVE  Implements
BY DEF Implements, EitherEnds!streamVars, Eof, Reasons, Expired, Stalled, SomeIdle, Torn

LEMMA TearsDown ==
    ASSUME UNCHANGED <<sent, over, gone, got>>, Eof' = Eof, ~Torn, Torn', Expired \in BOOLEAN,
           \/ Expired' /\ Stalled' = Stalled
           \/ Stalled' /\ Expired' = Expired /\ \E s \in Sides : got[s] < sent[s]
           \/ Reasons' = Reasons /\ \E s \in Sides : gone[s] \/ over[s]
    PROVE  Implements
<1>1. EitherEnds!TearDown
    BY DEF EitherEnds!TearDown, EitherEnds!Ended, EitherEnds!Outstanding, Eof, Reasons, Expired, Stalled, SomeIdle, Torn
<1> QED BY <1>1 DEF Implements, EitherEnds!StreamNext

LEMMA ShowsEnd ==
    ASSUME NEW s \in Sides, UNCHANGED <<sent, over, gone, got>>, ~Eof[s], Eof' = [Eof EXCEPT ![s] = TRUE],
           Torn, Torn' = Torn, Reasons' = Reasons
    PROVE  Implements
<1>1. EitherEnds!ShowEnd(s)
    BY DEF EitherEnds!ShowEnd, EitherEnds!EndAllowed, Eof, Reasons, Expired, Stalled, SomeIdle, Torn
<1> QED BY <1>1 DEF Implements, EitherEnds!StreamNext

\* Each step of a peer is one of the stream.
LEMMA PeersImplement ==
    ASSUME IInv, Peers, UNCHANGED <<rustVars, pyVars, impl>>
    PROVE  Implements
<1>1. LegsTypeOK /\ (Torn \/ Open) /\ Torn' = Torn /\ Reasons' = Reasons
    BY Mapped DEF Torn, Reasons, Expired, Stalled, SomeIdle, rustVars, pyVars
<1>2. PICK s \in Sides : PeerSend(s) \/ PeerFin(s) \/ PeerAbort(s) \/ PeerRead(s)
    BY DEF Peers
<1>3. UNCHANGED <<taken, put, fin>>
    BY <1>2 DEF PeerSend, PeerFin, PeerAbort, PeerRead, sockVars
<1>4. CASE UNCHANGED got
    <2>1. Eof' = Eof
        BY <1>3, <1>4 DEF Eof
    <2>2. EitherEnds!Send(s) \/ EitherEnds!Finish(s) \/ EitherEnds!Abort(s) \/ PeerRead(s)
        <3>1. CASE PeerSend(s)
            BY <1>1, <2>1, <3>1 DEF PeerSend, Alive, EitherEnds!Send, Eof, Torn, Reasons, Expired, Stalled, SomeIdle
        <3>2. CASE PeerFin(s)
            BY <1>1, <2>1, <3>2 DEF PeerFin, Alive, EitherEnds!Finish, Eof, Torn, Reasons, Expired, Stalled, SomeIdle
        <3>3. CASE PeerAbort(s)
            BY <1>1, <2>1, <3>3 DEF PeerAbort, Alive, EitherEnds!Abort, Eof, Torn, Reasons, Expired, Stalled, SomeIdle
        <3> QED BY <1>2, <3>1, <3>2, <3>3
    <2>3. ~PeerRead(s)
        BY <1>1, <1>4, OtherSide DEF PeerRead, LegsTypeOK
    <2> QED BY <2>2, <2>3 DEF Implements, EitherEnds!StreamNext
<1>5. CASE PeerRead(s)
    <2> DEFINE o == Other(s)
    <2>1. /\ o \in Sides /\ got[o] < put[o] /\ got' = [got EXCEPT ![o] = got[o] + 1]
          /\ UNCHANGED <<sent, over, gone>>
        BY <1>5, OtherSide DEF PeerRead
    <2> HIDE DEF o
    <2>2. ~Eof[o] /\ got[o] < sent[o]
        <3>1. LegsTypeOK
            BY <1>1
        <3>2. got[o] < sent[o] /\ got[o] # put[o]
            BY <2>1, <3>1 DEF LegsTypeOK
        <3> QED BY <2>1, <3>2 DEF Eof
    <2>3. \A t \in Sides : t # o => Eof'[t] = Eof[t]
        BY <1>1, <1>3, <2>1 DEF Eof, LegsTypeOK
    <2>4. Eof' = Eof \/ (Torn /\ Eof' = [Eof EXCEPT ![o] = TRUE])
        <3>1. Eof'[o] = (fin[Other(o)] /\ got'[o] = put[o])
            BY <1>3, <2>1 DEF Eof
        <3>2. Eof' \in [Sides -> BOOLEAN] /\ Eof \in [Sides -> BOOLEAN]
            BY <1>1, <1>3 DEF Eof, LegsTypeOK
        <3>3. Eof'[o] => Torn
            BY <1>1, <2>1, <3>1, OtherSide DEF Open
        <3> QED BY <2>1, <2>2, <2>3, <3>2, <3>3
    <2>5. EitherEnds!Deliver(o)
        BY <1>1, <2>1, <2>2, <2>4
            DEF EitherEnds!Deliver, EitherEnds!EndAllowed, Eof, Torn, Reasons, Expired, Stalled, SomeIdle
    <2> QED BY <2>1, <2>5 DEF Implements, EitherEnds!StreamNext
<1> QED BY <1>2, <1>4, <1>5 DEF PeerSend, PeerFin, PeerAbort

\* A step of a session that stays open shows nobody an end.
LEMMA OpenStutters ==
    ASSUME Open, Open', UNCHANGED peerVars, Reasons' = Reasons, Torn' = Torn
    PROVE  Implements
<1>1. Eof' = Eof
    BY OtherSide DEF Eof, Open
<1> QED BY <1>1, Stutters DEF peerVars

\* A FIN that is queued in the teardown shows the end to a peer that has read it all.
LEMMA FinsImplement ==
    ASSUME LegsTypeOK, Torn, Torn' = Torn, Reasons' = Reasons, UNCHANGED <<peerVars, put>>,
           \/ UNCHANGED fin
           \/ \E s \in Sides : fin' = [fin EXCEPT ![s] = TRUE]
    PROVE  Implements
<1>1. CASE UNCHANGED fin
    BY <1>1, Stutters DEF Eof, peerVars
<1>2. ASSUME NEW s \in Sides, fin' = [fin EXCEPT ![s] = TRUE] PROVE Implements
    <2> DEFINE o == Other(s)
    <2>1. o \in Sides /\ Other(o) = s /\ \A t \in Sides : t # o => Other(t) # s /\ Other(t) \in Sides
        BY OtherSide
    <2> HIDE DEF o
    <2>2. \A t \in Sides : t # o => Eof'[t] = Eof[t]
        BY <1>2, <2>1 DEF Eof, LegsTypeOK, peerVars
    <2>3. Eof[o] = (fin[s] /\ got[o] = put[o]) /\ Eof'[o] = (got[o] = put[o])
        BY <1>2, <2>1 DEF Eof, LegsTypeOK, peerVars
    <2>4. Eof \in [Sides -> BOOLEAN] /\ Eof' \in [Sides -> BOOLEAN]
        BY DEF Eof
    <2>5. CASE ~Eof[o] /\ Eof'[o]
        <3>1. Eof' = [Eof EXCEPT ![o] = TRUE]
            BY <2>1, <2>2, <2>4, <2>5
        <3> QED BY <2>1, <2>5, <3>1, ShowsEnd DEF peerVars
    <2>6. CASE Eof[o] \/ ~Eof'[o]
        <3>1. Eof' = Eof
            BY <2>1, <2>2, <2>3, <2>4, <2>6
        <3> QED BY <3>1, Stutters DEF peerVars
    <2> QED BY <2>5, <2>6
<1> QED BY <1>1, <1>2

-----------------------------------------------------------------------------
(* All steps together.                                                     *)

LEMMA InitInv == ASSUME Init PROVE IInv /\ EitherEnds!StreamInit
<1>1. LegsInit /\ LegsTypeOK
    <2>1. LegsInit
        BY SameLegs DEF Init, Rust!Init, Py!Init
    <2> QED BY <2>1, LegsAssumption DEF LegsInit, LegsTypeOK
<1>2. CASE impl = "rust" /\ Rust!Init /\ NoPy
    <2>1. phase = "select" /\ \A s \in Sides : pump[s] = "read" /\ left[s] + quiet = Idle
        BY <1>2, TimesAssumption, SameLegs DEF Rust!Init
    <2>2. Rust!TypeOK
        BY <1>1, <1>2, <2>1, TimesAssumption, SameLegs DEF Rust!Init, Rust!TypeOK, Rust!Running, Rust!Returned
    <2>3. RustInv
        BY <1>1, <1>2, <2>1, <2>2
            DEF LegsInit, RustInv, PumpsForward, Deadlines, RustTearsDown, Open, Sides
    <2>4. Eof = [s \in Sides |-> FALSE] /\ Expired = FALSE /\ Stalled = FALSE /\ Torn = FALSE
        BY <1>1, <1>2, <2>1, OtherSide DEF Eof, Reasons, Expired, Stalled, SomeIdle, Torn, LegsInit, NoPy
    <2> QED BY <1>1, <2>3, <2>4 DEF IInv, EitherEnds!StreamInit, LegsInit, Eof, Reasons, Expired, Stalled, SomeIdle, Torn
<1>3. CASE impl = "python" /\ Py!Init /\ NoRust
    <2>1. /\ 0 \in 0..(Idle + SendTimeout) /\ Idle \in 0..(Idle + SendTimeout)
          /\ 0 \in 0..Idle /\ Idle + 0 >= Idle
        BY TimesAssumption
    <2>2. Py!TypeOK
        BY <1>1, <1>3, <2>1, SameLegs DEF Py!Init, Py!TypeOK
    <2>3. PyInv
        BY <1>1, <1>3, <2>1, <2>2
            DEF LegsInit, PyInv, Py!Init, ThreadForwards, PyTearsDown, EndWasSeen, PyWaits, Serving, Open, Sides
    <2>4. Eof = [s \in Sides |-> FALSE] /\ Expired = FALSE /\ Stalled = FALSE /\ Torn = FALSE
        BY <1>1, <1>3, OtherSide DEF Eof, Reasons, Expired, Stalled, Torn, LegsInit, Py!Init
    <2> QED BY <1>1, <2>3, <2>4 DEF IInv, EitherEnds!StreamInit, LegsInit, Eof, Reasons, Expired, Stalled, SomeIdle, Torn
<1> QED BY <1>2, <1>3 DEF Init

\* A step of Rust, with what the properties say of it.
LEMMA RustStep ==
    ASSUME RustInv, UNCHANGED <<pyVars, impl>>,
           Rust!Tick \/ Rust!TearDown \/ \E s \in Sides : Rust!Pump(s)
    PROVE  /\ RustInv' /\ Implements /\ UNCHANGED reset
           /\ phase = "select" /\ (\E s \in Sides : pump'[s] = "idle") => quiet = Idle
<1>1. IInv /\ impl = "rust" /\ impl' = "rust" /\ LegsTypeOK /\ (Torn \/ Open) /\ Expired \in BOOLEAN
    BY Mapped DEF IInv, RustInv
<1>2. CASE Rust!Tick
    <2>1. RustInv' /\ phase = "select" /\ UNCHANGED <<legVars, pump, phase>>
        BY <1>2, RustTickInv
    <2>2. Eof' = Eof /\ Reasons' = Reasons /\ Torn' = Torn
        BY <1>1, <2>1 DEF Eof, Reasons, Expired, Stalled, SomeIdle, Torn, legVars, pyVars
    <2>3. \A s \in Sides : pump[s] # "idle"
        BY <2>1, RustRunning DEF SomeIdle
    <2> QED BY <2>1, <2>2, <2>3, Stutters DEF legVars
<1>3. CASE Rust!TearDown
    <2>1. /\ RustInv' /\ phase # "select" /\ phase' # "select"
          /\ UNCHANGED <<peerVars, taken, put, reset, pump>>
          /\ UNCHANGED fin \/ \E s \in Sides : fin' = [fin EXCEPT ![s] = TRUE]
        BY <1>3, RustTearDownInv
    <2>2. Torn /\ Torn' = Torn /\ Reasons' = Reasons
        BY <1>1, <2>1 DEF Torn, Reasons, Expired, Stalled, SomeIdle, pyVars
    <2> QED BY <1>1, <2>1, <2>2, FinsImplement
<1>4. ASSUME NEW s \in Sides, Rust!ReadData(s) \/ Rust!TimeoutExtended(s) \/ Rust!WriteData(s)
      PROVE  /\ RustInv' /\ Implements /\ UNCHANGED reset
             /\ phase = "select" /\ (\E t \in Sides : pump'[t] = "idle") => quiet = Idle
    <2>1. RustInv' /\ phase = "select" /\ phase' = "select"
        BY <1>4, PumpGoesOn
            DEF Rust!ReadData, Rust!TimeoutExtended, Rust!WriteData, Rust!Elapses, Rust!LoopHead
    <2>2. Take(s) \/ Put(s) \/ UNCHANGED legVars
        BY <1>4, SameCalls
            DEF Rust!ReadData, Rust!TimeoutExtended, Rust!WriteData, legVars, Rust!legVars
    <2>3. UNCHANGED <<peerVars, fin, shut, closed, reset>>
        BY <2>2 DEF Take, Put, legVars, peerVars
    <2>4. \A t \in Sides : pump[t] # "idle" /\ pump'[t] # "idle"
        BY <2>1 DEF RustInv, Rust!TypeOK, Rust!Running, Rust!Sides, Sides
    <2>5. Torn' = Torn /\ Reasons' = Reasons
        BY <1>1, <2>1, <2>4 DEF Torn, Reasons, Expired, Stalled, SomeIdle, pyVars
    <2>6. Open /\ Open'
        BY <1>1, <2>1, <2>3 DEF Torn, Open
    <2> QED BY <2>1, <2>3, <2>4, <2>5, <2>6, OpenStutters
<1>5. ASSUME NEW s \in Sides,
             Rust!ReadEof(s) \/ Rust!ReadError(s) \/ Rust!TimeoutIdle(s) \/ Rust!WriteError(s)
      PROVE  /\ RustInv' /\ Implements /\ UNCHANGED reset
             /\ phase = "select" /\ (\E t \in Sides : pump'[t] = "idle") => quiet = Idle
    <2>1. /\ RustInv' /\ phase = "select" /\ phase' = "shutClient" /\ UNCHANGED legVars
          /\ \/ pump'[s] = "eof" /\ Complete(s)
             \/ pump'[s] = "error" /\ \E t \in Sides : gone[t]
             \/ pump'[s] = "idle" /\ quiet = Idle
          /\ pump'[Other(s)] = pump[Other(s)]
        BY <1>5, PumpReturn
    <2>2. (\A t \in Sides : pump[t] # "idle") /\ \A t \in Sides : t = s \/ t = Other(s)
        BY <2>1, RustRunning DEF SomeIdle
    <2>3. /\ ~Torn /\ Torn' /\ Eof' = Eof
          /\ Stalled' = Stalled
          /\ Expired' \/ (Reasons' = Reasons /\ \E t \in Sides : gone[t] \/ over[t])
        BY <1>1, <2>1, <2>2 DEF pyVars, Torn, Reasons, Expired, Stalled, SomeIdle, Eof, Complete, legVars
    <2> QED BY <1>1, <2>1, <2>2, <2>3, TearsDown DEF legVars
<1> QED BY <1>2, <1>3, <1>4, <1>5 DEF Rust!Pump

\* A step of Python, likewise.
LEMMA PyStep ==
    ASSUME PyInv, UNCHANGED <<rustVars, impl>>, Py!Tick \/ Py!Thread
    PROVE  /\ PyInv' /\ Implements
           /\ why = "" /\ why' = "idle" => SilentNow
<1>1. IInv /\ impl = "python" /\ impl' = "python" /\ LegsTypeOK /\ (Torn \/ Open) /\ Expired \in BOOLEAN
    BY Mapped DEF IInv, PyInv
<1>2. at = "select" => why = ""
    BY DEF PyInv, PyTearsDown, Serving
<1>3. CASE Py!Tick
    <2>1. PyInv' /\ UNCHANGED <<legVars, at, why>>
        BY <1>3, PyTickInv
    <2>2. Eof' = Eof /\ Reasons' = Reasons /\ Torn' = Torn
        BY <1>1, <2>1 DEF Eof, Reasons, Expired, Stalled, Torn, legVars
    <2> QED BY <1>2, <2>1, <2>2, Stutters DEF legVars
<1>4. CASE Py!Select \/ Py!Recv \/ Py!Send
    <2>1. PyInv' /\ Serving /\ UNCHANGED <<peerVars, fin, why>>
        BY <1>4, ThreadGoesOn
    <2>2. Torn' = Torn /\ Reasons' = Reasons /\ ~Torn
        BY <1>1, <2>1 DEF Torn, Reasons, Expired, Stalled, PyInv, PyTearsDown
    <2>3. Open /\ Open'
        BY <1>1, <2>1, <2>2 DEF Torn, PyInv, PyTearsDown
    <2> QED BY <1>2, <2>1, <2>2, <2>3, OpenStutters
<1>5. CASE Py!SelectTimeout \/ Py!RecvEnd \/ Py!SendError
    <2>1. /\ PyInv' /\ Serving /\ why = "" /\ UNCHANGED legVars
          /\ \/ why' = "end" /\ \E s \in Sides : gone[s] \/ Complete(s)
             \/ why' = "idle" /\ SilentNow
             \/ why' = "stalled" /\ \E s \in Sides : got[s] < sent[s]
             \/ why' = "error" /\ \E s \in Sides : gone[s]
        BY <1>5, ThreadLeaves
    <2>2. /\ ~Torn /\ Torn' /\ Eof' = Eof
          /\ \/ Expired' /\ Stalled' = Stalled
             \/ Stalled' /\ Expired' = Expired /\ \E s \in Sides : got[s] < sent[s]
             \/ Reasons' = Reasons /\ \E t \in Sides : gone[t] \/ over[t]
        BY <1>1, <2>1 DEF Torn, Reasons, Expired, Stalled, Eof, Complete, legVars
    <2> QED BY <1>1, <2>1, <2>2, TearsDown DEF legVars
<1>6. CASE Py!ShutClient \/ Py!ShutUpstream \/ Py!CloseUpstream \/ Py!CloseClient
    <2>1. /\ PyInv' /\ why # "" /\ UNCHANGED <<peerVars, taken, put, why>>
          /\ UNCHANGED fin \/ \E s \in Sides : fin' = [fin EXCEPT ![s] = TRUE]
        BY <1>6, PyTearDownInv
    <2>2. Torn /\ Torn' = Torn /\ Reasons' = Reasons
        BY <1>1, <2>1 DEF Torn, Reasons, Expired, Stalled
    <2> QED BY <1>1, <1>2, <2>1, <2>2, FinsImplement
<1> QED BY <1>3, <1>4, <1>5, <1>6 DEF Py!Thread

\* A step of either, or of a peer.
LEMMA Step ==
    ASSUME IInv, [Next]_vars
    PROVE  /\ IInv' /\ Implements
           /\ impl = "rust" => \A s \in Sides : reset'[s] /\ ~reset[s] => sent'[s] # sent[s]
           /\ impl = "rust" /\ phase = "select" => ((\E s \in Sides : pump'[s] = "idle") => quiet = Idle)
           /\ impl = "python" /\ why = "" /\ why' = "idle" => SilentNow
<1>1. /\ LegsTypeOK /\ (impl = "rust" <=> RustInv) /\ (impl = "python" <=> PyInv)
      /\ impl = "rust" /\ phase = "select" => \A s \in Sides : pump[s] # "idle"
      /\ impl = "python" /\ at = "select" => why = ""
    BY Mapped, RustRunning DEF IInv, RustInv, PyInv, SomeIdle, PyTearsDown, Serving
<1>2. CASE UNCHANGED vars
    <2>1. IInv'
        <3>1. Rust!TypeOK' <=> Rust!TypeOK
            BY <1>2, SameLegs DEF Rust!TypeOK, vars, stateVars, legVars, rustVars, LegsTypeOK
        <3>2. Py!TypeOK' <=> Py!TypeOK
            BY <1>2, SameLegs DEF Py!TypeOK, vars, stateVars, legVars, pyVars, LegsTypeOK
        <3> QED BY <1>2, <3>1, <3>2 DEF IInv, RustInv, PyInv, NoPy, NoRust, PumpsForward, Deadlines,
                RustTearsDown, ThreadForwards, PyTearsDown, EndWasSeen, PyWaits, Serving, Open, Complete,
                vars, stateVars, legVars, rustVars, pyVars
    <2>2. Eof' = Eof /\ Reasons' = Reasons /\ Torn' = Torn
        BY <1>2 DEF Eof, Reasons, Expired, Stalled, SomeIdle, Torn, vars, stateVars, legVars, rustVars, pyVars
    <2> QED BY <1>1, <1>2, <2>1, <2>2, Stutters DEF vars, stateVars, legVars, rustVars, pyVars
<1>3. CASE Peers /\ UNCHANGED <<rustVars, pyVars, impl>>
    <2>1. IInv' /\ Implements
        BY <1>3, PeersInv, PeersImplement
    <2>2. impl = "rust" => \A s \in Sides : reset'[s] /\ ~reset[s] => sent'[s] # sent[s]
        <3>1. PICK t \in Sides : PeerSend(t) \/ PeerFin(t) \/ PeerAbort(t) \/ PeerRead(t)
            BY <1>3 DEF Peers
        <3>2. CASE PeerSend(t)
            <4>1. \A s \in Sides : s # t => reset'[s] = reset[s]
                BY <1>1, <3>2 DEF PeerSend, LegsTypeOK
            <4>2. sent'[t] = sent[t] + 1 /\ sent[t] \in Nat
                <5>1. sent \in [Sides -> 0..MaxBytes]
                    BY <1>1 DEF LegsTypeOK
                <5> QED BY <3>2, <5>1, LegsAssumption DEF PeerSend
            <4>3. sent'[t] # sent[t]
                BY <4>2
            <4> QED BY <4>1, <4>3
        <3>3. CASE ~PeerSend(t)
            BY <3>1, <3>3 DEF PeerFin, PeerAbort, PeerRead, sockVars
        <3> QED BY <3>2, <3>3
    <2> QED BY <1>1, <1>3, <2>1, <2>2 DEF rustVars, pyVars
<1>4. CASE impl = "rust" /\ UNCHANGED <<pyVars, impl>>
           /\ (Rust!Tick \/ Rust!TearDown \/ \E s \in Sides : Rust!Pump(s))
    BY <1>1, <1>4, RustStep DEF IInv
<1>5. CASE impl = "python" /\ UNCHANGED <<rustVars, impl>> /\ (Py!Tick \/ Py!Thread)
    BY <1>1, <1>5, PyStep DEF IInv
<1> QED BY <1>2, <1>3, <1>4, <1>5 DEF Next, RustDoes, PyDoes

-----------------------------------------------------------------------------
(* The theorems.                                                           *)

\* The inductive invariant of both relays, from which the theorems below follow.
THEOREM Invariant == Spec => []IInv
<1>1. IInv /\ [Next]_vars => IInv'
    BY Step
<1> QED BY InitInv, <1>1, PTL DEF Spec

\* The variables of the relay that runs stay in their types, those of the other unused.
THEOREM TypeCorrect == Spec => []TypeOK
<1>1. IInv => TypeOK
    BY DEF IInv, RustInv, PyInv, TypeOK
<1> QED BY <1>1, Invariant, PTL

\* The direction whose end ends the session was forwarded to its last byte.
THEOREM EndedStreamIsComplete == Spec => []EndIsComplete
<1>1. IInv => EndIsComplete
    BY DEF IInv, RustInv, PyInv, EndIsComplete, PumpsForward, EndWasSeen, Complete
<1> QED BY <1>1, Invariant, PTL

\* The teardown of the Rust relay resets no peer.
THEOREM RustNeverResets == Spec => RelayNeverResets
<1>1. IInv /\ [Next]_vars =>
        [impl = "rust" => \A s \in Sides : reset'[s] /\ ~reset[s] => sent'[s] # sent[s]]_vars
    BY Step
<1> QED BY <1>1, Invariant, PTL DEF Spec, RelayNeverResets

\* Neither relay gives up as idle on a session that is not silent.
THEOREM IdleMeansSilent == Spec => IdleOnlyAfterSilence
<1>1. IInv /\ [Next]_vars =>
        [/\ impl = "rust" /\ phase = "select" => ((\E s \in Sides : pump'[s] = "idle") => quiet = Idle)
         /\ impl = "python" /\ why = "" /\ why' = "idle" => SilentNow]_vars
    BY Step
<1>2. (IInv /\ [Next]_vars) =>
        [/\ impl = "rust" /\ phase = "select" => ((\E s \in Sides : pump'[s] = "idle") => quiet = Idle)
         /\ impl = "python" /\ why = "" /\ why' = "idle" =>
                silent = Idle /\ \A s \in Sides : put[s] = taken[s] /\ taken[s] = sent[s]]_vars
    BY <1>1 DEF SilentNow
<1> QED BY <1>2, Invariant, PTL DEF Spec, IdleOnlyAfterSilence

\* Both relays implement the duplex stream of which one ended direction ends both.
THEOREM ImplementsDuplexStream == Spec => DuplexSpec
<1>1. IInv /\ [Next]_vars => [EitherEnds!StreamNext]_(EitherEnds!streamVars)
    BY Step DEF Implements
<1> QED BY <1>1, InitInv, Invariant, PTL DEF Spec, DuplexSpec, EitherEnds!StreamSpec

-----------------------------------------------------------------------------
(* That a session is Released takes fairness, and peers that read; the     *)
(* rest of it does not: until it is over, a relay can take a step unless   *)
(* peers that do not read hold up all it has to write, and what steps it   *)
(* can take is bounded by a measure no peer can raise.                     *)

Over == phase = "dropped" \/ at = "closed"

\* The chunk read from s can be written now, or never.
Writes(s) == WriteFails(Other(s)) \/ (put[s] < taken[s] /\ Room(Other(s)) > 0)
Blocked(s) == ~WriteFails(Other(s)) /\ Room(Other(s)) = 0

\* What a task or a thread can do next; a read of Rust is under a timeout.
CanStep ==
    \/ impl = "rust" /\ \/ phase # "select"
                        \/ \E s \in Sides : pump[s] = "read" \/ (pump[s] = "write" /\ Writes(s))
    \/ impl = "python" /\ \/ at \notin {"recv", "send"}
                          \/ at = "recv" /\ Ready(Head(ready))
                          \/ at = "send" /\ (Writes(Head(ready)) \/ Other(Head(ready)) = "upstream")

\* Both pumps of Rust are blocked, or the thread of Python while it serves the upstream.
Pinned ==
    \/ impl = "rust" /\ \A s \in Sides : pump[s] = "write" /\ Blocked(s)
    \/ impl = "python" /\ at = "send" /\ Head(ready) = "upstream" /\ Blocked("upstream")

NeverStuck == ~Over => CanStep \/ Pinned

\* What select found readable still is when its turn comes, ...
Awaited ==
    /\ at = "recv" => Ready(Head(ready))
    /\ at \in {"recv", "send"} /\ ready = <<"client", "upstream">> => Ready("upstream")

\* ... who writes has something to write, ...
Holds ==
    /\ impl = "rust" => \A s \in Sides : pump[s] = "write" => put[s] < taken[s]
    /\ impl = "python" /\ at = "send" => put[Head(ready)] < taken[Head(ready)]

\* ... and no send queue holds more than it can.
Fits == \A s \in Sides : put[s] <= got[s] + SndCap

Waiting == Awaited /\ Holds /\ Fits

LEMMA PeersWaiting ==
    ASSUME IInv, Waiting, Peers, UNCHANGED <<rustVars, pyVars, impl>>
    PROVE  Waiting'
<1>1. LegsTypeOK /\ (impl = "python" /\ at \in {"recv", "send"} => Head(ready) \in Sides) /\ (impl = "rust" => at = "none")
    BY SameLegs, PyServing DEF IInv, RustInv, PyInv, NoPy, Rust!TypeOK, Py!TypeOK, Serving
<1>2. \A s \in Sides : Ready(s) => Ready(s)'
    BY <1>1, PeersKeepReady
<1>3. LegsTypeOK' /\ UNCHANGED <<taken, put>> /\ \A s \in Sides : got[s] <= got'[s]
    <2>1. PICK s \in Sides : PeerSend(s) \/ PeerFin(s) \/ PeerAbort(s) \/ PeerRead(s)
        BY DEF Peers
    <2>2. \A t \in Sides : got[t] <= got'[t]
        BY <1>1, <2>1, OtherSide DEF PeerSend, PeerFin, PeerAbort, PeerRead, sockVars, LegsTypeOK
    <2> QED BY <1>1, <2>2, PeersKeep
<1>4. Fits'
    <2>1. \A s \in Sides : put[s] \in Nat /\ got[s] \in Nat /\ got'[s] \in Nat
        BY <1>1, <1>3 DEF LegsTypeOK
    <2> QED BY <1>3, <2>1, LegsAssumption DEF Waiting, Fits
<1>5. Awaited'
    BY <1>1, <1>2, PyServing DEF Waiting, Awaited, pyVars, IInv, RustInv, PyInv, Sides
<1> QED BY <1>3, <1>4, <1>5 DEF Waiting, Holds, rustVars, pyVars

\* A step of Rust.
LEMMA RustWaiting ==
    ASSUME RustInv, Waiting, UNCHANGED <<pyVars, impl>>,
           Rust!Tick \/ Rust!TearDown \/ \E s \in Sides : Rust!Pump(s)
    PROVE  Waiting'
<1>1. LegsTypeOK /\ impl = "rust" /\ at = "none" /\ pump \in [Sides -> Rust!Running \cup Rust!Returned]
    BY SameLegs DEF RustInv, NoPy, Rust!TypeOK
<1>2. impl' = "rust" /\ Awaited'
    BY <1>1 DEF pyVars, Awaited
<1>3. CASE Rust!Tick \/ Rust!TearDown
    <2>1. UNCHANGED <<got, put, taken, pump>>
        BY <1>3, RustTickInv, RustTearDownInv DEF peerVars, legVars
    <2> QED BY <1>1, <1>2, <2>1 DEF Waiting, Holds, Fits
<1>4. ASSUME NEW s \in Sides,
             \/ Rust!ReadEof(s) \/ Rust!ReadError(s) \/ Rust!WriteError(s)
             \/ Rust!TimeoutIdle(s) \/ Rust!TimeoutExtended(s)
      PROVE  Waiting'
    <2>1. UNCHANGED legVars /\ \E how \in {"eof", "error", "idle", "read"} : pump' = [pump EXCEPT ![s] = how]
        BY <1>4 DEF Rust!ReadEof, Rust!ReadError, Rust!WriteError, Rust!TimeoutIdle, Rust!TimeoutExtended,
               Rust!LoopHead, Rust!PumpReturns, legVars, Rust!legVars
    <2>2. \A t \in Sides : pump'[t] = "write" => pump[t] = "write"
        BY <1>1, <2>1
    <2> QED BY <1>1, <1>2, <2>1, <2>2 DEF Waiting, Holds, Fits, legVars
<1>5. ASSUME NEW s \in Sides, Rust!ReadData(s)
      PROVE  Waiting'
    <2>1. Take(s) /\ pump[s] = "read" /\ pump' = [pump EXCEPT ![s] = "write"]
        BY <1>5, SameCalls DEF Rust!ReadData
    <2>2. put[s] = taken[s] /\ taken[s] < taken'[s] /\ taken'[Other(s)] = taken[Other(s)] /\ UNCHANGED <<got, put>>
        BY <1>1, <2>1, Moves DEF RustInv, PumpsForward, peerVars
    <2>3. \A t \in Sides : t # s => t = Other(s) /\ pump'[t] = pump[t]
        BY <1>1, <2>1, OtherSide
    <2> QED BY <1>1, <1>2, <2>2, <2>3 DEF Waiting, Holds, Fits
<1>6. ASSUME NEW s \in Sides, Rust!WriteData(s)
      PROVE  Waiting'
    <2>1. /\ Put(s) /\ LegsTypeOK'
          /\ \/ put'[s] = taken[s] /\ pump' = [pump EXCEPT ![s] = "read"]
             \/ put'[s] # taken[s] /\ UNCHANGED pump
        BY <1>1, <1>6, SameCalls, CallsType DEF Rust!WriteData, Rust!LoopHead
    <2>2. /\ put'[s] <= taken[s] /\ put'[s] <= got[s] + SndCap /\ put'[Other(s)] = put[Other(s)]
          /\ UNCHANGED <<got, taken>> /\ put'[s] \in Nat /\ taken[s] \in Nat
        BY <1>1, <2>1, Moves DEF peerVars, LegsTypeOK
    <2>3. \A t \in Sides : t # s => t = Other(s) /\ pump'[t] = pump[t]
        BY <1>1, <2>1, OtherSide
    <2>4. pump'[s] = "write" => put'[s] < taken[s]
        BY <1>1, <2>1, <2>2
    <2> QED BY <1>1, <1>2, <2>2, <2>3, <2>4 DEF Waiting, Holds, Fits
<1> QED BY <1>3, <1>4, <1>5, <1>6 DEF Rust!Pump


\* What the thread reads of its sockets is what this module does.
LEMMA SameReady == \A s \in Sides : Py!Readable(s) <=> Ready(s)
BY SameLegs, SameCalls DEF Py!Readable, Ready

\* A step of Python: a chunk is passed on before the next one is read, and nothing it
\* does to one leg takes back what select found on the other.
LEMMA PyWaiting ==
    ASSUME PyInv, Waiting, UNCHANGED <<rustVars, impl>>, Py!Tick \/ Py!Thread
    PROVE  Waiting'
<1>1. LegsTypeOK /\ impl = "python" /\ impl' = "python" /\ ready \in ReadySides
    BY SameLegs DEF PyInv, Py!TypeOK, ReadySides
<1>2. /\ Head(<<"client">>) = "client" /\ Head(<<"upstream">>) = "upstream"
      /\ Head(<<"client", "upstream">>) = "client" /\ Tail(<<"client", "upstream">>) = <<"upstream">>
      /\ Tail(<<"client">>) = <<>> /\ Tail(<<"upstream">>) = <<>>
      /\ <<"client">> # <<"client", "upstream">> /\ <<"upstream">> # <<"client", "upstream">>
    <2>1. Len(<<"client">>) = 1 /\ Len(<<"upstream">>) = 1 /\ Len(<<"client", "upstream">>) = 2
        OBVIOUS
    <2> QED BY <2>1
<1>3. CASE Py!Tick
    <2>1. UNCHANGED <<legVars, at, ready>>
        BY <1>3 DEF Py!Tick, legVars, Py!legVars
    <2> QED BY <1>1, <2>1 DEF Waiting, Awaited, Holds, Fits, Ready, DataReady, EofReady, ErrReady, Alive, legVars
<1>4. CASE \/ Py!SelectTimeout \/ Py!RecvEnd \/ Py!SendError
           \/ Py!ShutClient \/ Py!ShutUpstream \/ Py!CloseUpstream \/ Py!CloseClient
    <2>1. at' \notin {"recv", "send"}
        BY <1>4 DEF Py!SelectTimeout, Py!RecvEnd, Py!SendError, Py!Leave, Py!Goto,
               Py!ShutClient, Py!ShutUpstream, Py!CloseUpstream, Py!CloseClient
    <2>2. UNCHANGED <<put, got>>
        BY <1>4, ThreadLeaves, PyTearDownInv DEF legVars, peerVars
    <2> QED BY <1>1, <2>1, <2>2 DEF Waiting, Awaited, Holds, Fits
<1>5. CASE Py!Select
    <2>1. /\ at' = "recv" /\ UNCHANGED legVars /\ \E s \in Sides : Ready(s)
          /\ ready' = (IF Ready("client") THEN <<"client">> ELSE <<>>)
                      \o (IF Ready("upstream") THEN <<"upstream">> ELSE <<>>)
        BY <1>5, SameLegs, SameReady DEF Py!Select, legVars, Py!legVars, Sides
    <2>2. \/ Ready("client") /\ Ready("upstream") /\ ready' = <<"client", "upstream">>
          \/ Ready("client") /\ ready' = <<"client">>
          \/ Ready("upstream") /\ ready' = <<"upstream">>
        BY <2>1, ReadySequences DEF Sides
    <2>3. Ready(Head(ready')) /\ (ready' = <<"client", "upstream">> => Ready("upstream"))
        BY <1>2, <2>2
    <2>4. \A s \in Sides : Ready(s) => Ready(s)'
        BY <2>1 DEF Ready, DataReady, EofReady, ErrReady, Alive, legVars
    <2>5. Head(ready') \in Sides
        BY <1>2, <2>2 DEF Sides
    <2> QED BY <1>1, <2>1, <2>3, <2>4, <2>5 DEF Waiting, Awaited, Holds, Fits, legVars, Sides
<1>6. CASE Py!Recv \/ Py!Send
    <2>1. PICK h \in Sides : h = Head(ready)
        BY <1>6, PyServing DEF Py!Recv, Py!Send, Serving
    <2>2. Serving /\ ready # <<>>
        BY <1>6, PyServing DEF Py!Recv, Py!Send, Serving
    <2>3. ready = <<"client", "upstream">> => h = "client" /\ Ready("upstream")
        BY <1>2, <1>6, <2>1 DEF Waiting, Awaited, Py!Recv, Py!Send
    <2>4. CASE Py!Recv
        <3>1. at = "recv" /\ at' = "send" /\ UNCHANGED ready /\ Take(h)
            BY <2>1, <2>4, SameCalls DEF Py!Recv
        <3>2. /\ taken[h] < taken'[h] /\ taken'[Other(h)] = taken[Other(h)]
              /\ UNCHANGED <<peerVars, put, fin, shut, closed, reset>> /\ put[h] = taken[h]
            BY <1>1, <2>2, <3>1, Moves DEF PyInv, ThreadForwards
        <3>3. h = "client" => (Ready("upstream") => Ready("upstream")')
            BY <3>2 DEF Ready, DataReady, EofReady, ErrReady, Alive, Other, peerVars
        <3> QED BY <1>1, <2>1, <2>3, <3>1, <3>2, <3>3 DEF Waiting, Awaited, Holds, Fits, peerVars
    <2>5. CASE Py!Send
        <3>1. /\ at = "send" /\ Put(h) /\ LegsTypeOK'
              /\ \/ put'[h] < taken[h] /\ UNCHANGED <<at, ready>>
                 \/ /\ ready' = Tail(ready) /\ at' = (IF Tail(ready) = <<>> THEN "select" ELSE "recv")
            BY <1>1, <2>1, <2>5, SameCalls, CallsType DEF Py!Send, Py!pyVars
        <3>2. /\ put'[h] <= got[h] + SndCap /\ put'[Other(h)] = put[Other(h)]
              /\ UNCHANGED <<peerVars, taken, fin, shut, closed, reset>>
            BY <1>1, <3>1, Moves
        <3>3. Fits'
            BY <1>1, <3>2, OtherSide DEF Waiting, Fits, peerVars
        <3>4. Ready("upstream") => Ready("upstream")'
            BY <3>2 DEF Ready, DataReady, EofReady, ErrReady, Alive, peerVars
        <3>5. CASE put'[h] < taken[h] /\ UNCHANGED <<at, ready>>
            BY <1>1, <2>1, <2>3, <3>1, <3>2, <3>3, <3>4, <3>5 DEF Waiting, Awaited, Holds
        <3>6. CASE ready' = Tail(ready) /\ at' = (IF Tail(ready) = <<>> THEN "select" ELSE "recv")
            <4>1. \/ ready = <<"client", "upstream">> /\ ready' = <<"upstream">> /\ at' \in {"select", "recv"}
                  \/ at' = "select"
                BY <1>1, <1>2, <2>2, <3>6 DEF ReadySides
            <4> QED BY <1>1, <1>2, <2>3, <3>3, <3>4, <4>1 DEF Waiting, Awaited, Holds
        <3> QED BY <3>1, <3>5, <3>6
    <2> QED BY <1>6, <2>4, <2>5
<1> QED BY <1>3, <1>4, <1>5, <1>6 DEF Py!Thread

\* Whatever the peers do or stop doing, a session that is not over goes on unless all
\* that is left of it waits for a peer to read: both peers for Rust, the client alone
\* for Python, whose recv never blocks (rust/src/proxy.rs pump, tailcat_socks.py _relay).
THEOREM RelaysNeverStuck == Spec => []NeverStuck
<1>1. Init => Waiting
    <2> SUFFICES ASSUME Init PROVE Waiting
        OBVIOUS
    <2>1. LegsInit /\ at \in {"none", "select"} /\ (impl = "rust" => \A s \in Sides : pump[s] = "read")
        BY SameLegs DEF Init, Rust!Init, Py!Init, NoPy
    <2> QED BY <2>1, LegsAssumption DEF Waiting, Awaited, Holds, Fits, LegsInit
<1>2. IInv /\ Waiting /\ [Next]_vars => Waiting'
    <2> SUFFICES ASSUME IInv, Waiting, [Next]_vars PROVE Waiting'
        OBVIOUS
    <2>1. CASE UNCHANGED vars
        BY <2>1 DEF Waiting, Awaited, Holds, Fits, Ready, DataReady, EofReady, ErrReady, Alive,
               vars, stateVars, legVars, rustVars, pyVars
    <2>2. (impl = "rust" => RustInv) /\ (impl = "python" => PyInv)
        BY DEF IInv, RustInv, PyInv
    <2> QED BY <2>1, <2>2, PeersWaiting, RustWaiting, PyWaiting DEF Next, RustDoes, PyDoes
<1>3. IInv /\ Waiting => NeverStuck
    <2> SUFFICES ASSUME IInv, Waiting, ~Over, ~CanStep PROVE Pinned
        BY DEF NeverStuck
    <2>1. ASSUME NEW s \in Sides, put[s] < taken[s], ~Writes(s)
          PROVE  Blocked(s)
        <3>1. put[s] \in Nat /\ got[s] \in Nat /\ got[s] <= put[s] /\ put[s] <= got[s] + SndCap
            BY SameLegs DEF IInv, RustInv, PyInv, Rust!TypeOK, Py!TypeOK, LegsTypeOK, Waiting, Fits
        <3>2. ~WriteFails(Other(s)) /\ ~(SndCap - (put[s] - got[s]) > 0)
            BY <2>1, OtherSide DEF Writes, Room
        <3>3. SndCap - (put[s] - got[s]) = 0
            BY <3>1, <3>2, LegsAssumption
        <3> QED BY <3>2, <3>3, OtherSide DEF Blocked, Room
    <2>2. CASE RustInv
        <3>1. phase = "select" /\ \A s \in Sides : pump[s] # "read" /\ ~(pump[s] = "write" /\ Writes(s))
            BY <2>2 DEF CanStep, RustInv
        <3>2. \A s \in Sides : pump[s] = "write"
            BY <2>2, <3>1, RustRunning
        <3> QED BY <2>1, <2>2, <3>1, <3>2 DEF Waiting, Holds, Pinned, RustInv
    <2>3. CASE PyInv
        <3>1. at = "send" /\ ~Writes(Head(ready)) /\ Other(Head(ready)) # "upstream"
            BY <2>3 DEF CanStep, Waiting, Awaited, PyInv
        <3>2. Head(ready) = "upstream"
            BY <2>3, <3>1, PyServing DEF Serving, Other, Sides
        <3> QED BY <2>1, <2>3, <3>1, <3>2 DEF Waiting, Holds, Pinned, PyInv, Sides
    <2> QED BY <2>2, <2>3 DEF IInv
<1> QED BY <1>1, <1>2, <1>3, Invariant, PTL DEF Spec


\* What is left: bytes to read, bytes held, calls to make, deadlines out of date, ticks.
Unread == (MaxBytes - taken["client"]) + (MaxBytes - taken["upstream"])
Unwritten == (taken["client"] - put["client"]) + (taken["upstream"] - put["upstream"])

RustUndone ==
    CASE phase = "select" -> 5
      [] phase = "shutClient" -> 4
      [] phase = "shutUpstream" -> 3
      [] phase = "dropUpstream" -> 2
      [] phase = "dropClient" -> 1
      [] phase = "dropped" -> 0
PyUndone ==
    CASE at = "select" -> 6
      [] at \in {"recv", "send"} -> 5
      [] at = "shutClient" -> 4
      [] at = "shutUpstream" -> 3
      [] at = "closeUpstream" -> 2
      [] at = "closeClient" -> 1
      [] at = "closed" -> 0
Undone == IF impl = "rust" THEN RustUndone ELSE PyUndone

OutOfDate(s) == IF moved[s] THEN 1 ELSE 0
Stale == IF impl = "rust" THEN OutOfDate("client") + OutOfDate("upstream") ELSE 0
Ticks == IF impl = "rust" THEN left["client"] + left["upstream"] + (Idle - quiet) ELSE timeout

Measured == Unread \in Nat /\ Unwritten \in Nat /\ Undone \in Nat /\ Stale \in Nat /\ Ticks \in Nat

\* The lexicographic order of the five.
Closer ==
    \/ Unread' < Unread
    \/ Unread' = Unread /\ Unwritten' < Unwritten
    \/ Unread' = Unread /\ Unwritten' = Unwritten /\ Undone' < Undone
    \/ Unread' = Unread /\ Unwritten' = Unwritten /\ Undone' = Undone /\ Stale' < Stale
    \/ Unread' = Unread /\ Unwritten' = Unwritten /\ Undone' = Undone /\ Stale' = Stale /\ Ticks' < Ticks

ByPeers == Peers /\ UNCHANGED <<Unread, Unwritten, Undone, Stale, Ticks>>

LEMMA InMeasure == ASSUME IInv PROVE Measured
<1>1. \A s \in Sides : taken[s] \in Nat /\ put[s] \in Nat /\ put[s] <= taken[s] /\ taken[s] <= MaxBytes
    <2>1. LegsTypeOK
        BY SameLegs DEF IInv, RustInv, PyInv, Rust!TypeOK, Py!TypeOK
    <2> QED BY <2>1, LegsAssumption DEF LegsTypeOK
<1>2. Unread \in Nat /\ Unwritten \in Nat
    BY <1>1, LegsAssumption DEF Unread, Unwritten, Sides
<1>3. CASE RustInv
    <2>1. impl = "rust" /\ RustUndone \in Nat /\ \A s \in Sides : OutOfDate(s) \in Nat /\ left[s] \in Nat
        BY <1>3, SameLegs, TimesAssumption DEF RustInv, Rust!TypeOK, RustUndone, OutOfDate
    <2>2. quiet \in 0..Idle /\ Idle \in Nat
        BY <1>3, TimesAssumption DEF RustInv, Rust!TypeOK
    <2> QED BY <1>2, <2>1, <2>2 DEF Measured, Undone, Stale, Ticks, Sides
<1>4. CASE PyInv
    <2>1. impl = "python" /\ PyUndone \in Nat
        BY <1>4 DEF PyInv, Py!TypeOK, PyUndone
    <2>2. timeout \in Nat
        <3>1. timeout \in 0..(Idle + SendTimeout)
            BY <1>4 DEF PyInv, Py!TypeOK
        <3> QED BY <3>1, TimesAssumption
    <2> QED BY <1>2, <2>1, <2>2 DEF Measured, Undone, Stale, Ticks
<1> QED BY <1>3, <1>4 DEF IInv

\* Reads and writes bring a session closer to its end whatever else they change.
LEMMA CallsCloser ==
    ASSUME IInv, NEW s \in Sides, Take(s) \/ Put(s)
    PROVE  Closer
<1>1. LegsTypeOK
    BY SameLegs DEF IInv, RustInv, PyInv, Rust!TypeOK, Py!TypeOK
<1>2. LegsTypeOK'
    BY <1>1, CallsType
<1>3. \A t \in Sides : taken[t] \in Nat /\ put[t] \in Nat /\ taken'[t] \in Nat /\ put'[t] \in Nat
    BY <1>1, <1>2 DEF LegsTypeOK
<1>4. CASE Take(s)
    <2>1. taken[s] < taken'[s] /\ taken'[Other(s)] = taken[Other(s)]
        BY <1>1, <1>4, Moves
    <2> QED BY <1>3, <2>1, LegsAssumption DEF Closer, Unread, Sides, Other
<1>5. CASE Put(s)
    <2>1. put[s] < put'[s] /\ put'[Other(s)] = put[Other(s)] /\ taken' = taken
        BY <1>1, <1>5, Moves
    <2> QED BY <1>3, <2>1, LegsAssumption DEF Closer, Unread, Unwritten, Sides, Other
<1> QED BY <1>4, <1>5

\* A step of Rust, unless the clock only stands at the end of its window.
LEMMA RustCloser ==
    ASSUME RustInv, UNCHANGED <<pyVars, impl>>, ~UNCHANGED rustVars,
           Rust!Tick \/ Rust!TearDown \/ \E s \in Sides : Rust!Pump(s)
    PROVE  Closer
<1>1. impl = "rust" /\ impl' = "rust" /\ IInv /\ LegsTypeOK
    BY SameLegs DEF RustInv, IInv, Rust!TypeOK
<1>2. ASSUME UNCHANGED <<taken, put>>
      PROVE  Unread' = Unread /\ Unwritten' = Unwritten
    BY <1>2 DEF Unread, Unwritten
<1>3. CASE Rust!Tick
    <2>1. phase = "select" /\ UNCHANGED <<taken, put, phase, moved, pump>>
          /\ quiet' = (IF quiet < Idle THEN quiet + 1 ELSE Idle)
          /\ left' = [s \in Sides |-> IF Rust!Timed(s) THEN left[s] - 1 ELSE left[s]]
        BY <1>3, SameLegs DEF Rust!Tick, Rust!legVars
    <2>2. left \in [Sides -> 0..Idle] /\ quiet \in 0..Idle /\ Idle \in Nat
        BY <2>1, RustRunning DEF Sides
    <2>3. \A s \in Sides : \/ left'[s] = left[s]
                           \/ left[s] > 0 /\ left'[s] = left[s] - 1
        BY <2>1, <2>2 DEF Rust!Timed
    <2>4. quiet' = quiet \/ (quiet < Idle /\ quiet' = quiet + 1)
        BY <2>1, <2>2
    <2>5. quiet' # quiet \/ \E s \in Sides : left'[s] # left[s]
        BY <2>1, <2>2 DEF rustVars
    <2>6. left'["client"] + left'["upstream"] + (Idle - quiet') < left["client"] + left["upstream"] + (Idle - quiet)
        BY <2>2, <2>3, <2>4, <2>5 DEF Sides
    <2>7. Ticks' < Ticks
        BY <1>1, <2>6 DEF Ticks
    <2>8. Undone' = Undone /\ Stale' = Stale
        BY <1>1, <2>1 DEF Undone, RustUndone, Stale, OutOfDate
    <2> QED BY <1>2, <2>1, <2>7, <2>8 DEF Closer
<1>4. ASSUME UNCHANGED <<taken, put>>,
             \/ phase = "select" /\ phase' = "shutClient"
             \/ phase = "shutClient" /\ phase' = "shutUpstream"
             \/ phase = "shutUpstream" /\ phase' = "dropUpstream"
             \/ phase = "dropUpstream" /\ phase' = "dropClient"
             \/ phase = "dropClient" /\ phase' = "dropped"
      PROVE  Closer
    <2>1. RustUndone' < RustUndone
        BY <1>4 DEF RustUndone
    <2> QED BY <1>1, <1>2, <1>4, <2>1 DEF Closer, Undone
<1>5. CASE Rust!TearDown
    <2>1. UNCHANGED <<taken, put>>
        BY <1>5, RustTearDownInv
    <2> QED BY <1>4, <1>5, <2>1
        DEF Rust!TearDown, Rust!ShutClient, Rust!ShutUpstream, Rust!DropUpstream, Rust!DropClient, Rust!Then
<1>6. ASSUME NEW s \in Sides,
             Rust!ReadEof(s) \/ Rust!ReadError(s) \/ Rust!TimeoutIdle(s) \/ Rust!WriteError(s)
      PROVE  Closer
    <2>1. phase = "select" /\ phase' = "shutClient" /\ UNCHANGED legVars
        BY <1>6, PumpReturn
    <2> QED BY <1>4, <2>1 DEF legVars
<1>7. ASSUME NEW s \in Sides, Rust!TimeoutExtended(s)
      PROVE  Closer
    <2>1. /\ phase = "select" /\ moved[s] /\ UNCHANGED <<taken, put, phase>>
          /\ moved' = [moved EXCEPT ![s] = FALSE]
        BY <1>7 DEF Rust!TimeoutExtended, Rust!Elapses, Rust!Extended, Rust!LoopHead, Rust!legVars
    <2>2. moved'[s] = FALSE /\ moved'[Other(s)] = moved[Other(s)]
        BY <2>1, RustRunning
    <2>3. OutOfDate(s) = 1 /\ OutOfDate(s)' = 0 /\ OutOfDate(Other(s))' = OutOfDate(Other(s))
          /\ OutOfDate(Other(s)) \in Nat
        BY <2>1, <2>2 DEF OutOfDate
    <2>4. Stale' < Stale
        BY <1>1, <2>3 DEF Stale, Sides, Other
    <2>5. Undone' = Undone
        BY <1>1, <2>1 DEF Undone, RustUndone
    <2> QED BY <1>2, <2>1, <2>4, <2>5 DEF Closer
<1>8. ASSUME NEW s \in Sides, Rust!ReadData(s) \/ Rust!WriteData(s)
      PROVE  Closer
    BY <1>1, <1>8, SameCalls, CallsCloser DEF Rust!ReadData, Rust!WriteData
<1> QED BY <1>3, <1>5, <1>6, <1>7, <1>8 DEF Rust!Pump

\* A step of Python.
LEMMA PyCloser ==
    ASSUME PyInv, UNCHANGED <<rustVars, impl>>, Py!Tick \/ Py!Thread
    PROVE  Closer
<1>1. impl = "python" /\ impl' = "python" /\ IInv
    BY DEF PyInv, IInv
<1>2. ASSUME UNCHANGED <<taken, put>>
      PROVE  Unread' = Unread /\ Unwritten' = Unwritten
    BY <1>2 DEF Unread, Unwritten
<1>3. CASE Py!Tick
    <2>1. timeout \in Nat /\ timeout' = timeout - 1 /\ timeout > 0 /\ UNCHANGED <<taken, put, at>>
        <3>1. timeout \in 0..(Idle + SendTimeout)
            BY DEF PyInv, Py!TypeOK
        <3>2. timeout \in Nat
            BY <3>1, TimesAssumption
        <3> QED BY <1>3, <3>2 DEF Py!Tick, Py!legVars
    <2>2. Undone' = Undone /\ Stale' = Stale /\ Ticks' < Ticks
        BY <1>1, <2>1 DEF Undone, PyUndone, Stale, Ticks
    <2> QED BY <1>2, <2>1, <2>2 DEF Closer
<1>4. ASSUME UNCHANGED <<taken, put>>,
             \/ at = "select" /\ at' = "recv"
             \/ at \in {"select", "recv", "send"} /\ at' \in {"shutClient", "closeUpstream"}
             \/ at = "shutClient" /\ at' = "shutUpstream"
             \/ at = "shutUpstream" /\ at' = "closeUpstream"
             \/ at = "closeUpstream" /\ at' = "closeClient"
             \/ at = "closeClient" /\ at' = "closed"
      PROVE  Closer
    <2>1. PyUndone' < PyUndone
        BY <1>4 DEF PyUndone
    <2> QED BY <1>1, <1>2, <1>4, <2>1 DEF Closer, Undone
<1>5. CASE Py!Select \/ Py!SelectTimeout \/ Py!RecvEnd \/ Py!SendError
    BY <1>4, <1>5 DEF Py!Select, Py!SelectTimeout, Py!RecvEnd, Py!SendError, Py!Leave, Py!Goto, Py!legVars
<1>6. CASE Py!ShutClient \/ Py!ShutUpstream \/ Py!CloseUpstream \/ Py!CloseClient
    <2>1. UNCHANGED <<taken, put>>
        BY <1>6, PyTearDownInv
    <2> QED BY <1>4, <1>6, <2>1
        DEF Py!ShutClient, Py!ShutUpstream, Py!CloseUpstream, Py!CloseClient, Py!Goto
<1>7. CASE Py!Recv \/ Py!Send
    <2>1. PICK h \in Sides : h = Head(ready)
        BY <1>7, PyServing DEF Py!Recv, Py!Send, Serving
    <2> QED BY <1>1, <1>7, <2>1, SameCalls, CallsCloser DEF Py!Recv, Py!Send
<1> QED BY <1>3, <1>5, <1>6, <1>7 DEF Py!Thread

\* No step of either relay can be taken for ever, not even a timeout that is extended
\* because the other direction moved the clock, and no peer makes a session longer.
THEOREM StepsRunOut == Spec => []Measured /\ [][Closer \/ ByPeers]_vars
<1>1. IInv => Measured
    BY InMeasure
<1>2. IInv /\ [Next]_vars => [Closer \/ ByPeers]_vars
    <2> SUFFICES ASSUME IInv, Next, ~UNCHANGED vars PROVE Closer \/ ByPeers
        OBVIOUS
    <2>1. CASE Peers /\ UNCHANGED <<rustVars, pyVars, impl>>
        <3>1. UNCHANGED <<taken, put>>
            BY <2>1 DEF Peers, PeerSend, PeerFin, PeerAbort, PeerRead, sockVars
        <3> QED BY <2>1, <3>1 DEF ByPeers, Unread, Unwritten, Undone, RustUndone, PyUndone, Stale, OutOfDate,
                Ticks, rustVars, pyVars
    <2>2. CASE impl = "rust" /\ UNCHANGED <<pyVars, impl>>
               /\ (Rust!Tick \/ Rust!TearDown \/ \E s \in Sides : Rust!Pump(s))
        <3>1. CASE UNCHANGED rustVars
            <4>1. ~UNCHANGED legVars
                BY <2>2, <3>1 DEF vars, stateVars
            <4>2. ~Rust!TearDown
                BY <3>1 DEF Rust!TearDown, Rust!ShutClient, Rust!ShutUpstream, Rust!DropUpstream,
                       Rust!DropClient, Rust!Then, rustVars
            <4>3. ~Rust!Tick
                BY <4>1 DEF Rust!Tick, legVars, Rust!legVars
            <4>4. PICK s \in Sides : Rust!Pump(s)
                BY <2>2, <4>2, <4>3
            <4>5. Rust!ReadData(s) \/ Rust!WriteData(s)
                BY <4>1, <4>4 DEF Rust!Pump, Rust!ReadEof, Rust!ReadError, Rust!TimeoutExtended,
                       Rust!TimeoutIdle, Rust!WriteError, legVars, Rust!legVars
            <4>6. Take(s) \/ Put(s)
                BY <4>5, SameCalls DEF Rust!ReadData, Rust!WriteData
            <4> QED BY <4>6, CallsCloser
        <3>2. CASE ~UNCHANGED rustVars
            BY <2>2, <3>2, RustCloser DEF IInv, PyInv
        <3> QED BY <3>1, <3>2
    <2>3. CASE impl = "python" /\ UNCHANGED <<rustVars, impl>> /\ (Py!Tick \/ Py!Thread)
        BY <2>3, PyCloser DEF IInv, RustInv
    <2> QED BY <2>1, <2>2, <2>3 DEF Next, RustDoes, PyDoes
<1> QED BY <1>1, <1>2, Invariant, PTL DEF Spec

=============================================================================
