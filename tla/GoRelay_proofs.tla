--------------------------- MODULE GoRelay_proofs ---------------------------
(***************************************************************************)
(* The safety of the Go relay, proved for every size of the buffers, every *)
(* number of bytes and every idle window.                                  *)
(***************************************************************************)
EXTENDS GoRelay, TcpLegs_proofs

-----------------------------------------------------------------------------
(* The inductive invariant, as named parts.                                *)

\* Before a teardown the sockets are untouched, but for the FIN with which a
\* goroutine passes on the end of a stream.
Untouched ==
    stopper = "none" =>
        /\ stopAt = 0
        /\ \A s \in Sides : ~closed[s] /\ ~shut[s] /\ ~reset[s]
        /\ \A s \in Sides : fin[Other(s)] => copy[s] = "done" /\ over[s] /\ put[s] = sent[s]

\* Outside of a write the copy buffer is empty, and io.Copy returns nil, before
\* a teardown, only at the true end of the stream.
BufferEmpty ==
    \A s \in Sides :
        /\ copy[s] \in {"read", "eof"} => put[s] = taken[s]
        /\ copy[s] = "eof" /\ stopper = "none" => over[s] /\ taken[s] = sent[s]

\* A goroutine that ended before a teardown forwarded everything, or a peer aborted.
Complete(s) == over[s] /\ put[s] = sent[s]
SomeGone == \E s \in Sides : gone[s]

DoneMeansComplete ==
    \A s \in Sides : stopper = "none" /\ copy[s] = "done" => Complete(s) \/ SomeGone

\* relay gets past wg.Wait after both goroutines, and runs stop itself only there.
AfterWait ==
    /\ main # "wait" => \A s \in Sides : copy[s] = "done"
    /\ stopper = "main" => main # "wait" /\ (SomeGone \/ \A s \in Sides : Complete(s))
    /\ main = "returned" => stopAt = StopSteps

\* How far stop is tells what it did: each FIN is queued before either close.
StopProgress ==
    /\ closed["client"] <=> stopAt > 4
    /\ closed["upstream"] <=> stopAt > 5
    /\ stopAt > 0 => fin["client"]
    /\ stopAt > 2 => fin["upstream"]

\* Before a teardown the running timer and the silence of a leg make up the window at
\* least, but for a leg whose goroutine has yet to re-arm the timer for what it read.
Window ==
    stopper = "none" /\ left > 0 =>
        \A s \in Sides : copy[s] # "wake" => left + quiet[s] >= Idle

IInv ==
    /\ TypeOK
    /\ Window
    /\ Untouched
    /\ BufferEmpty
    /\ DoneMeansComplete
    /\ AfterWait
    /\ StopProgress

-----------------------------------------------------------------------------

\* relay starts in a state its variables are declared for ...
LEMMA TypeInit == ASSUME Init PROVE TypeOK
<1>1. LegsTypeOK
    BY LegsAssumption DEF Init, LegsInit, LegsTypeOK
<1>2. left \in 0..Idle /\ stopAt \in 0..StopSteps
    BY IdleAssumption DEF Init, StopSteps
<1>3. /\ copy \in [Sides -> {"read", "wake", "write", "eof", "done"}]
      /\ quiet \in [Sides -> 0..Idle]
    BY IdleAssumption DEF Init
<1> QED BY <1>1, <1>2, <1>3 DEF Init, TypeOK

\* ... and no step leaves these states.
LEMMA TypeStep == ASSUME TypeOK, [Next]_vars PROVE TypeOK'
<1> USE IdleAssumption, OtherSide DEF TypeOK, StopSteps
<1>1. CASE Peers /\ UNCHANGED goVars
    BY <1>1, PeersType DEF goVars
<1>2. ASSUME NEW s \in Sides, Copier(s) PROVE TypeOK'
    <2>1. CASE ReadData(s)
        BY <2>1, CallsType DEF ReadData
    <2>2. CASE ReadEof(s) \/ ReadError(s) \/ WriteError(s)
        BY <2>2, UntouchedLegsType DEF ReadEof, ReadError, WriteError, AfterEof, AfterError
    <2>3. CASE WriteData(s)
        BY <2>3, CallsType DEF WriteData
    <2>4. CASE CloseWrite(s)
        BY <2>4, CallsType DEF CloseWrite
    <2>5. CASE Wake(s)
        BY <2>5, UntouchedLegsType DEF Wake
    <2> QED BY <1>2, <2>1, <2>2, <2>3, <2>4, <2>5 DEF Copier
<1>3. CASE Tick
    <2>1. left' \in 0..Idle /\ quiet' \in [Sides -> 0..Idle]
        BY <1>3 DEF Tick
    <2> QED BY <1>3, <2>1, UntouchedLegsType DEF Tick
<1>4. CASE TimerStops
    <2>1. quiet' \in [Sides -> 0..Idle]
        BY <1>4 DEF TimerStops, Begins
    <2> QED BY <1>4, <2>1, UntouchedLegsType DEF TimerStops, Begins
<1>5. ASSUME NEW s \in Sides, StopFin(s) \/ StopShut(s) \/ StopClose(s) PROVE TypeOK'
    <2>1. stopAt < 6
        BY <1>5 DEF StopFin, StopShut, StopClose, StopTurn, StopOrder, Sides
    <2>2. LegsTypeOK'
        BY <1>5, CallsType DEF StopFin, StopShut, StopClose
    <2> QED BY <1>5, <2>1, <2>2 DEF StopFin, StopShut, StopClose
<1>6. CASE Waited \/ MainStops
    BY <1>6, UntouchedLegsType DEF Waited, MainStops, Begins
<1>7. CASE Return
    BY <1>7, UntouchedLegsType DEF Return
<1>8. CASE UNCHANGED vars
    BY <1>8, UntouchedLegsType DEF vars, legVars
<1> QED BY <1>1, <1>2, <1>3, <1>4, <1>5, <1>6, <1>7, <1>8 DEF Next, Relay, Stop

\* The states of the relay are the ones its variables are declared for.
THEOREM TypeCorrect == Spec => []TypeOK
BY TypeInit, TypeStep, PTL DEF Spec

-----------------------------------------------------------------------------
(* Each kind of step preserves the inductive invariant.                    *)

\* The conjuncts beside the typing.
Safe == Untouched /\ BufferEmpty /\ DoneMeansComplete /\ AfterWait /\ StopProgress

\* A peer can end its stream, abort or read at any time: what it did before stays.
LEMMA PeersSafe ==
    ASSUME IInv, Peers /\ UNCHANGED goVars
    PROVE  Safe'
<1>1. PICK s \in Sides : PeerSend(s) \/ PeerFin(s) \/ PeerAbort(s) \/ PeerRead(s)
    BY DEF Peers
<1> USE <1>1, OtherSide DEF IInv, Safe, TypeOK, LegsTypeOK, goVars, sockVars,
        PeerSend, PeerFin, PeerAbort, PeerRead
<1>2. Untouched'
    BY DEF Untouched
<1>3. BufferEmpty'
    BY DEF BufferEmpty
<1>4. DoneMeansComplete'
    BY DEF DoneMeansComplete, Complete, SomeGone
<1>5. AfterWait'
    BY DEF AfterWait, Complete, SomeGone
<1>6. StopProgress'
    BY DEF StopProgress
<1> QED BY <1>2, <1>3, <1>4, <1>5, <1>6 DEF Safe

\* A goroutine's read and write touch only its own direction; the FIN it queues
\* at the end of its stream follows the last byte.
LEMMA CopierSafe ==
    ASSUME IInv, NEW s \in Sides, Copier(s)
    PROVE  Safe'
<1> USE OtherSide DEF IInv, TypeOK, LegsTypeOK, legVars
<1>1. Untouched'
    BY DEF Copier, ReadData, Wake, ReadEof, ReadError, WriteData, WriteError, CloseWrite,
           Take, Put, ShutWrite, peerVars, EofReady, Untouched, BufferEmpty,
           AfterEof, AfterError
<1>2. BufferEmpty'
    BY DEF Copier, ReadData, Wake, ReadEof, ReadError, WriteData, WriteError, CloseWrite,
           Take, Put, ShutWrite, peerVars, EofReady, Untouched, BufferEmpty,
           AfterEof, AfterError
<1>3. DoneMeansComplete'
    BY DEF Copier, ReadData, Wake, ReadEof, ReadError, WriteData, WriteError, CloseWrite,
           Take, Put, ShutWrite, peerVars, ErrReady, WriteFails, Alive, Untouched,
           BufferEmpty, DoneMeansComplete, Complete, SomeGone, AfterEof, AfterError
<1>4. AfterWait'
    BY DEF Copier, ReadData, Wake, ReadEof, ReadError, WriteData, WriteError, CloseWrite, AfterWait
<1>5. StopProgress'
    BY DEF Copier, ReadData, Wake, ReadEof, ReadError, WriteData, WriteError, CloseWrite,
           Take, Put, ShutWrite, peerVars, StopProgress, Sides
<1> QED BY <1>1, <1>2, <1>3, <1>4, <1>5 DEF Safe

\* Which step of stop a leg's call is.
LEMMA StopTurns ==
    ASSUME NEW s \in Sides
    PROVE  /\ StopTurn(s, "fin") =>
                (s = "client" /\ stopAt = 0) \/ (s = "upstream" /\ stopAt = 2)
           /\ StopTurn(s, "shut") =>
                (s = "client" /\ stopAt = 1) \/ (s = "upstream" /\ stopAt = 3)
           /\ StopTurn(s, "close") =>
                (s = "client" /\ stopAt = 4) \/ (s = "upstream" /\ stopAt = 5)
BY DEF StopTurn, StopOrder, Sides

\* A step of stop moves stopAt and the flag of one leg together.
LEMMA StopProgressStep ==
    ASSUME TypeOK, StopProgress, NEW s \in Sides, StopFin(s) \/ StopShut(s) \/ StopClose(s)
    PROVE  StopProgress'
<1> USE StopTurns DEF TypeOK, LegsTypeOK, StopSteps, StopProgress, Sides
<1>1. CASE StopFin(s)
    <2>1. stopAt' = stopAt + 1 /\ closed' = closed
        BY <1>1 DEF StopFin, ShutWrite
    <2>2. \A t \in Sides : fin[t] => fin'[t]
        BY <1>1 DEF StopFin, ShutWrite
    <2>3. ~closed[s] => fin'[s]
        BY <1>1 DEF StopFin, ShutWrite
    <2>4. (s = "client" /\ stopAt = 0) \/ (s = "upstream" /\ stopAt = 2)
        BY <1>1 DEF StopFin
    <2> QED BY <2>1, <2>2, <2>3, <2>4
<1>2. CASE StopShut(s)
    BY <1>2 DEF StopShut, ShutRead
<1>3. CASE StopClose(s)
    BY <1>3 DEF StopClose, CloseLeg
<1> QED BY <1>1, <1>2, <1>3

\* stop queues the FINs before it closes.
LEMMA StopSafe ==
    ASSUME IInv, Stop
    PROVE  Safe'
<1>1. PICK s \in Sides : StopFin(s) \/ StopShut(s) \/ StopClose(s)
    BY DEF Stop
<1> USE <1>1, OtherSide DEF IInv, TypeOK, LegsTypeOK, StopFin, StopShut, StopClose,
        StopTurn, StopOrder, ShutWrite, ShutRead, CloseLeg, peerVars
<1>2. Untouched'
    BY DEF Untouched
<1>3. BufferEmpty'
    BY DEF BufferEmpty
<1>4. DoneMeansComplete'
    BY DEF DoneMeansComplete
<1>5. AfterWait'
    <2>1. stopAt < 6
        BY DEF Sides
    <2> QED BY <2>1 DEF AfterWait, Complete, SomeGone, StopSteps
<1>6. StopProgress'
    BY StopProgressStep
<1> QED BY <1>2, <1>3, <1>4, <1>5, <1>6 DEF Safe

\* Time, the timer's goroutine and relay itself leave the sockets alone.
LEMMA ControlSafe ==
    ASSUME IInv, Tick \/ TimerStops \/ Waited \/ MainStops \/ Return
    PROVE  Safe'
<1> USE DEF IInv, TypeOK, LegsTypeOK, legVars, Tick, TimerStops, Begins, Waited, MainStops, Return
<1>1. Untouched'
    BY DEF Untouched
<1>2. BufferEmpty'
    BY DEF BufferEmpty
<1>3. DoneMeansComplete'
    BY DEF DoneMeansComplete, Complete, SomeGone
<1>4. AfterWait'
    BY DEF AfterWait, CopiersDone, DoneMeansComplete, Complete, SomeGone
<1>5. StopProgress'
    BY DEF StopProgress
<1> QED BY <1>1, <1>2, <1>3, <1>4, <1>5 DEF Safe

\* What FiresOnlyAfterSilence says of a step.
Silent ==
    stopper = "none" /\ fired' /\ ~fired =>
        \A s \in Sides : copy[s] # "wake" => quiet'[s] = Idle

\* Only Tick lets time pass, and every wake() starts a new window; the timer fires at
\* its end.
LEMMA WindowStep ==
    ASSUME TypeOK, Window, [Next]_vars
    PROVE  Window' /\ Silent
<1> USE IdleAssumption DEF TypeOK, Window, Silent
<1>1. CASE Peers /\ UNCHANGED goVars
    BY <1>1 DEF goVars
<1>2. ASSUME NEW s \in Sides, Copier(s) PROVE Window' /\ UNCHANGED fired
    BY <1>2 DEF Copier, ReadData, Wake, ReadEof, ReadError, WriteData, WriteError, CloseWrite,
           AfterEof, AfterError
<1>3. CASE Tick
    <2>1. /\ left > 0 /\ left \in Nat /\ left' = left - 1 /\ UNCHANGED <<copy, stopper>>
          /\ fired' = (fired \/ left = 1)
        BY <1>3 DEF Tick
    <2>2. ASSUME stopper = "none", NEW s \in Sides, copy[s] # "wake"
          PROVE  /\ left' + quiet'[s] >= Idle
                 /\ left = 1 => quiet'[s] = Idle
        <3>1. quiet[s] \in 0..Idle /\ left + quiet[s] >= Idle
            BY <2>1, <2>2
        <3>2. quiet'[s] = IF quiet[s] < Idle THEN quiet[s] + 1 ELSE quiet[s]
            BY <1>3, <2>2 DEF Tick
        <3> QED BY <2>1, <3>1, <3>2
    <2>3. Window'
        BY <2>1, <2>2
    <2>4. fired' /\ ~fired => left = 1
        BY <2>1, Zenon
    <2> QED BY <2>2, <2>3, <2>4
<1>4. CASE Return
    BY <1>4 DEF Return
<1>5. CASE TimerStops \/ Waited \/ MainStops
    BY <1>5 DEF TimerStops, Begins, Waited, MainStops
<1>6. CASE Stop
    BY <1>6 DEF Stop, StopFin, StopShut, StopClose
<1>7. CASE UNCHANGED vars
    BY <1>7 DEF vars
<1> QED BY <1>1, <1>2, <1>3, <1>4, <1>5, <1>6, <1>7 DEF Next, Relay

-----------------------------------------------------------------------------
(* What the steps do to the duplex stream they implement.                  *)

Eof == [s \in Sides |-> fin[Other(s)] /\ got[s] = put[s]]
Expired == fired \/ stopper = "timer"
Torn == stopper # "none"

Implements == [Duplex!StreamNext]_(Duplex!streamVars)

LEMMA Stutters ==
    ASSUME UNCHANGED <<sent, over, gone, got>>, Eof' = Eof, Expired' = Expired, Torn' = Torn
    PROVE  Implements
BY DEF Implements, Duplex!streamVars, Eof, Expired, Torn

\* Each step of a peer is one of the stream.
LEMMA PeersImplement ==
    ASSUME IInv, Peers, UNCHANGED goVars
    PROVE  Implements
<1>1. LegsTypeOK /\ Torn' = Torn /\ Expired' = Expired
    BY DEF IInv, TypeOK, Torn, Expired, goVars
<1>2. PICK s \in Sides : PeerSend(s) \/ PeerFin(s) \/ PeerAbort(s) \/ PeerRead(s)
    BY DEF Peers
<1>3. UNCHANGED <<taken, put, fin>>
    BY <1>2 DEF PeerSend, PeerFin, PeerAbort, PeerRead, sockVars
<1>4. CASE PeerSend(s) \/ PeerFin(s) \/ PeerAbort(s)
    <2>1. Eof' = Eof
        BY <1>3, <1>4 DEF Eof, PeerSend, PeerFin, PeerAbort
    <2>2. CASE PeerSend(s)
        BY <1>1, <2>1, <2>2 DEF PeerSend, Alive, Duplex!Send, Eof, Torn, Expired, Implements, Duplex!StreamNext
    <2>3. CASE PeerFin(s)
        BY <1>1, <2>1, <2>3 DEF PeerFin, Alive, Duplex!Finish, Eof, Torn, Expired, Implements, Duplex!StreamNext
    <2>4. CASE PeerAbort(s)
        BY <1>1, <2>1, <2>4 DEF PeerAbort, Alive, Duplex!Abort, Eof, Torn, Expired, Implements, Duplex!StreamNext
    <2> QED BY <1>4, <2>2, <2>3, <2>4
<1>5. CASE PeerRead(s)
    <2> DEFINE o == Other(s)
    <2>1. /\ o \in Sides /\ got[o] < put[o] /\ got' = [got EXCEPT ![o] = got[o] + 1]
          /\ UNCHANGED <<sent, over, gone>>
        BY <1>5, OtherSide DEF PeerRead
    <2> HIDE DEF o
    <2>2. ~Eof[o] /\ got[o] < sent[o] /\ got'[o] = got[o] + 1
        <3>1. got[o] < sent[o] /\ got[o] # put[o] /\ got'[o] = got[o] + 1
            BY <1>1, <2>1 DEF LegsTypeOK
        <3> QED BY <2>1, <3>1 DEF Eof
    <2>3. \A t \in Sides : t # o => Eof'[t] = Eof[t]
        BY <1>1, <1>3, <2>1 DEF Eof, LegsTypeOK
    <2>4. Eof' \in [Sides -> BOOLEAN] /\ Eof \in [Sides -> BOOLEAN]
        BY <1>1, <1>3 DEF Eof, LegsTypeOK
    <2>5. Eof'[o] => Torn \/ (over[o] /\ got[o] + 1 = sent[o])
        BY <1>3, <2>1, <2>2 DEF Eof, IInv, Untouched, Torn
    <2>6. Eof' = Eof \/ (Eof' = [Eof EXCEPT ![o] = TRUE] /\ (Torn \/ (over[o] /\ got[o] + 1 = sent[o])))
        BY <2>1, <2>2, <2>3, <2>4, <2>5
    <2>7. Duplex!Deliver(o)
        BY <1>1, <2>1, <2>2, <2>6 DEF Duplex!Deliver, Duplex!EndAllowed, Eof, Torn, Expired
    <2> QED BY <2>1, <2>7 DEF Implements, Duplex!StreamNext
<1> QED BY <1>2, <1>4, <1>5

\* A call on a leg queues its FIN or leaves it as it is.
LEMMA FinOrNot ==
    ASSUME LegsTypeOK, NEW s \in Sides,
           ShutWrite(s) \/ ShutRead(s) \/ CloseLeg(s)
    PROVE  UNCHANGED fin \/ fin' = [fin EXCEPT ![s] = TRUE]
<1>1. \A b \in BOOLEAN : [fin EXCEPT ![s] = fin[s] \/ b] \in {fin, [fin EXCEPT ![s] = TRUE]}
    <2>1. fin \in [Sides -> BOOLEAN]
        BY DEF LegsTypeOK
    <2>2. [fin EXCEPT ![s] = fin[s] \/ TRUE] = [fin EXCEPT ![s] = TRUE]
        BY <2>1
    <2>3. [fin EXCEPT ![s] = fin[s] \/ FALSE] = fin
        BY <2>1
    <2> QED BY <2>2, <2>3
<1>2. UNCHANGED fin \/ \E b \in BOOLEAN : fin' = [fin EXCEPT ![s] = fin[s] \/ b]
    <2>1. closed[s] \in BOOLEAN
        BY DEF LegsTypeOK
    <2>2. CASE ShutWrite(s)
        BY <2>1, <2>2 DEF ShutWrite
    <2>3. CASE ShutRead(s)
        BY <2>3 DEF ShutRead
    <2>4. CASE CloseLeg(s)
        BY <2>1, <2>4 DEF CloseLeg
    <2> QED BY <2>2, <2>3, <2>4
<1> QED BY <1>1, <1>2

\* A FIN shows the end to a peer that has read it all.
LEMMA FinsImplement ==
    ASSUME LegsTypeOK, Torn' = Torn, Expired' = Expired, UNCHANGED <<peerVars, put>>,
           \/ UNCHANGED fin
           \/ \E s \in Sides : fin' = [fin EXCEPT ![Other(s)] = TRUE] /\ (Torn \/ Complete(s))
    PROVE  Implements
<1>1. CASE UNCHANGED fin
    BY <1>1, Stutters DEF Eof, peerVars
<1>2. ASSUME NEW s \in Sides, fin' = [fin EXCEPT ![Other(s)] = TRUE], Torn \/ Complete(s)
      PROVE  Implements
    <2>1. \A t \in Sides : t # s => Eof'[t] = Eof[t]
        BY <1>2, OtherSide DEF Eof, LegsTypeOK, peerVars, Other, Sides
    <2>2. Eof[s] = (fin[Other(s)] /\ got[s] = put[s]) /\ Eof'[s] = (got[s] = put[s])
        BY <1>2, OtherSide DEF Eof, LegsTypeOK, peerVars
    <2>3. Eof \in [Sides -> BOOLEAN] /\ Eof' \in [Sides -> BOOLEAN]
        BY DEF Eof
    <2>4. CASE ~Eof[s] /\ Eof'[s]
        <3>1. Eof' = [Eof EXCEPT ![s] = TRUE]
            BY <2>1, <2>3, <2>4
        <3>2. Torn \/ (over[s] /\ got[s] = sent[s])
            BY <1>2, <2>2, <2>4 DEF Complete
        <3>3. Duplex!ShowEnd(s)
            BY <2>4, <3>1, <3>2 DEF Duplex!ShowEnd, Duplex!EndAllowed, Eof, Expired, Torn, peerVars
        <3> QED BY <3>3 DEF Implements, Duplex!StreamNext
    <2>5. CASE Eof[s] \/ ~Eof'[s]
        <3>1. Eof' = Eof
            BY <2>1, <2>2, <2>3, <2>5
        <3> QED BY <3>1, Stutters DEF peerVars
    <2> QED BY <2>4, <2>5
<1> QED BY <1>1, <1>2

\* A goroutine shows its reader no end but that of a complete stream.
LEMMA CopierImplements ==
    ASSUME IInv, NEW s \in Sides, Copier(s)
    PROVE  Implements
<1>1. LegsTypeOK /\ Torn' = Torn /\ Expired' = Expired
    BY DEF IInv, TypeOK, Torn, Expired, Copier, ReadData, Wake, ReadEof, ReadError, WriteData, WriteError, CloseWrite
<1>2. CASE ReadData(s)
    BY <1>1, <1>2, FinsImplement DEF ReadData, Take
<1>3. CASE Wake(s) \/ ReadEof(s) \/ ReadError(s) \/ WriteError(s)
    BY <1>1, <1>3, FinsImplement DEF Wake, ReadEof, ReadError, WriteError, legVars, peerVars
<1>4. CASE WriteData(s)
    <2>1. /\ ~fin[Other(s)] /\ UNCHANGED <<peerVars, fin>>
          /\ \A t \in Sides : t # s => put'[t] = put[t]
        BY <1>1, <1>4 DEF WriteData, Put, WriteFails, LegsTypeOK
    <2>2. Eof' = Eof
        BY <2>1 DEF Eof, peerVars
    <2> QED BY <1>1, <2>1, <2>2, Stutters DEF peerVars
<1>5. CASE CloseWrite(s)
    <2>1. UNCHANGED <<peerVars, put>> /\ copy[s] = "eof"
        BY <1>5 DEF CloseWrite, ShutWrite
    <2>2. UNCHANGED fin \/ fin' = [fin EXCEPT ![Other(s)] = TRUE]
        BY <1>1, <1>5, OtherSide, FinOrNot DEF CloseWrite
    <2>3. Torn \/ Complete(s)
        BY <2>1 DEF IInv, BufferEmpty, Torn, Complete
    <2> QED BY <1>1, <2>1, <2>2, <2>3, FinsImplement
<1> QED BY <1>2, <1>3, <1>4, <1>5 DEF Copier

\* What stop does to the sockets is part of a teardown.
LEMMA StopImplements ==
    ASSUME IInv, Stop
    PROVE  Implements
<1>1. PICK s \in Sides : StopFin(s) \/ StopShut(s) \/ StopClose(s)
    BY DEF Stop
<1>2. LegsTypeOK /\ Torn /\ Torn' = Torn /\ Expired' = Expired /\ UNCHANGED <<peerVars, put>>
    BY <1>1 DEF IInv, TypeOK, Torn, Expired, StopFin, StopShut, StopClose, StopTurn, ShutWrite, ShutRead, CloseLeg
<1>3. UNCHANGED fin \/ fin' = [fin EXCEPT ![s] = TRUE]
    BY <1>1, <1>2, FinOrNot DEF StopFin, StopShut, StopClose
<1>4. Other(s) \in Sides /\ Other(Other(s)) = s
    BY OtherSide DEF Other, Sides
<1> QED BY <1>2, <1>3, <1>4, FinsImplement

\* The timer, and relay itself once both goroutines ended, begin the teardown.
LEMMA ControlImplements ==
    ASSUME IInv, Tick \/ TimerStops \/ Waited \/ MainStops \/ Return
    PROVE  Implements
<1>1. UNCHANGED legVars
    BY DEF Tick, TimerStops, Begins, Waited, MainStops, Return
<1>2. Eof' = Eof /\ UNCHANGED <<sent, over, gone, got>>
    BY <1>1 DEF Eof, legVars
<1>3. CASE Tick
    <2>1. Torn' = Torn /\ (Expired' = Expired \/ (~Expired /\ Expired'))
        BY <1>3 DEF Tick, Torn, Expired, IInv, TypeOK
    <2>2. ASSUME ~Expired, Expired' PROVE Duplex!Expire
        BY <1>2, <2>1, <2>2 DEF Duplex!Expire, Eof, Expired, Torn
    <2> QED BY <1>2, <2>1, <2>2, Stutters DEF Implements, Duplex!StreamNext
<1>4. CASE Waited \/ Return
    BY <1>2, <1>4, Stutters DEF Waited, Return, Torn, Expired
<1>5. CASE TimerStops
    <2>1. Duplex!TearDown
        BY <1>2, <1>5 DEF TimerStops, Begins, Duplex!TearDown, Eof
    <2> QED BY <2>1 DEF Implements, Duplex!StreamNext
<1>6. CASE MainStops
    <2>1. SomeGone \/ \A s \in Sides : over[s]
        BY <1>6 DEF MainStops, Begins, IInv, AfterWait, DoneMeansComplete, Complete
    <2>2. Duplex!TearDown
        BY <1>2, <1>6, <2>1 DEF MainStops, Begins, Duplex!TearDown, Duplex!Ended, Eof, SomeGone
    <2> QED BY <2>2 DEF Implements, Duplex!StreamNext
<1> QED BY <1>3, <1>4, <1>5, <1>6

-----------------------------------------------------------------------------
(* The invariant, and what follows from it.                                *)

\* In the initial state nothing has been done to the sockets.
LEMMA InitInv == ASSUME Init PROVE IInv
<1> USE OtherSide DEF Init, LegsInit
<1>1. TypeOK
    BY TypeInit
<1>2. Untouched
    BY DEF Untouched
<1>3. BufferEmpty /\ DoneMeansComplete
    BY DEF BufferEmpty, DoneMeansComplete
<1>4. AfterWait
    BY DEF AfterWait
<1>5. StopProgress
    BY DEF StopProgress, Sides
<1>6. Window
    BY IdleAssumption DEF Window
<1> QED BY <1>1, <1>2, <1>3, <1>4, <1>5, <1>6 DEF IInv

\* Every step preserves the invariant.
LEMMA StepInv == ASSUME IInv, [Next]_vars PROVE IInv'
<1>1. TypeOK'
    BY TypeStep DEF IInv
<1>2. ASSUME Next PROVE Safe'
    BY <1>2, PeersSafe, CopierSafe, StopSafe, ControlSafe DEF Next, Relay
<1>3. ASSUME UNCHANGED vars PROVE Safe'
    BY <1>3 DEF IInv, Safe, vars, Untouched, BufferEmpty, DoneMeansComplete, Complete,
       SomeGone, AfterWait, StopProgress
<1>4. Window'
    BY WindowStep DEF IInv
<1> QED BY <1>1, <1>2, <1>3, <1>4 DEF IInv, Safe

\* IInv holds in every state of the relay.
THEOREM Invariant == Spec => []IInv
BY InitInv, StepInv, PTL DEF Spec

\* A FIN that a peer sees before a teardown ends a complete stream.
THEOREM FinEndsCompleteStream == Spec => []EofIsComplete
<1>1. IInv => EofIsComplete
    BY DEF IInv, Untouched, EofIsComplete
<1> QED BY <1>1, Invariant, PTL

\* A teardown that relay runs itself loses no byte of two peers that stayed.
THEOREM OwnTeardownLosesNothing == Spec => []NoLossWithoutCause
<1>1. IInv => NoLossWithoutCause
    BY DEF IInv, AfterWait, SomeGone, Complete, NoLossWithoutCause
<1> QED BY <1>1, Invariant, PTL

\* The end of one direction takes nothing from the other.
THEOREM SurvivorKeepsItsSockets == Spec => []HalfCloseIsolated
<1>1. IInv => HalfCloseIsolated
    BY DEF IInv, Untouched, HalfCloseIsolated
<1> QED BY <1>1, Invariant, PTL

\* No goroutine and no descriptor outlives relay.
THEOREM ReturnReleases == Spec => []ReturnMeansReleased
<1>1. IInv => ReturnMeansReleased
    BY DEF IInv, AfterWait, StopProgress, StopSteps, ReturnMeansReleased, Sides
<1> QED BY <1>1, Invariant, PTL

\* No step of the relay's own resets a peer.
THEOREM NeverResets == Spec => RelayNeverResets
<1> DEFINE Resets == \E s \in Sides : reset'[s] /\ ~reset[s] /\ sent'[s] = sent[s]
<1>1. ASSUME IInv, [Next]_vars PROVE ~Resets
    <2> USE OtherSide DEF IInv, TypeOK, LegsTypeOK, legVars
    <2>1. ASSUME NEW s \in Sides, PeerSend(s) \/ PeerFin(s) \/ PeerAbort(s) \/ PeerRead(s)
          PROVE  ~Resets
        <3>1. CASE PeerSend(s)
            BY <1>1, <3>1 DEF PeerSend
        <3>2. CASE PeerFin(s) \/ PeerAbort(s) \/ PeerRead(s)
            BY <3>2 DEF PeerFin, PeerAbort, PeerRead, sockVars
        <3> QED BY <2>1, <3>1, <3>2
    <2>2. ASSUME NEW s \in Sides, Copier(s) PROVE ~Resets
        BY <2>2 DEF Copier, ReadData, Wake, ReadEof, ReadError, WriteData, WriteError,
           CloseWrite, Take, Put, ShutWrite
    <2>3. ASSUME NEW s \in Sides, StopFin(s) \/ StopShut(s) PROVE ~Resets
        BY <2>3 DEF StopFin, StopShut, ShutWrite, ShutRead
    <2>4. ASSUME NEW s \in Sides, StopClose(s) PROVE ~Resets
        <3>1. (s = "client" /\ stopAt = 4) \/ (s = "upstream" /\ stopAt = 5)
            BY <2>4, StopTurns DEF StopClose, Sides
        <3>2. fin[s]
            BY <1>1, <3>1 DEF StopProgress
        <3>3. reset' = [reset EXCEPT ![s] = @ \/ FALSE]
            BY <2>4, <3>2 DEF StopClose, CloseLeg
        <3> QED BY <1>1, <3>3
    <2>5. CASE Tick \/ TimerStops \/ Waited \/ MainStops \/ Return
        BY <2>5 DEF Tick, TimerStops, Begins, Waited, MainStops, Return
    <2>6. CASE UNCHANGED vars
        BY <2>6 DEF vars
    <2> QED BY <1>1, <2>1, <2>2, <2>3, <2>4, <2>5, <2>6 DEF Next, Peers, Relay, Stop
<1>2. IInv /\ [Next]_vars =>
        [\A s \in Sides : reset'[s] /\ ~reset[s] => sent'[s] # sent[s]]_vars
    BY <1>1
<1> QED BY <1>2, Invariant, PTL DEF Spec, RelayNeverResets

\* The timer fires only at the end of a whole window of silence, but for what a
\* goroutine has read and not yet re-armed the timer for.
THEOREM FiringMeansSilence == Spec => FiresOnlyAfterSilence
<1>1. IInv /\ [Next]_vars =>
        [stopper = "none" /\ fired' /\ ~fired =>
            \A s \in Sides : copy[s] # "wake" => quiet'[s] = Idle]_vars
    BY WindowStep DEF IInv, Silent
<1> QED BY <1>1, Invariant, PTL DEF Spec, FiresOnlyAfterSilence

\* The Go relay implements the duplex stream of which an end of one direction
\* leaves the other one open.
THEOREM ImplementsDuplexStream == Spec => DuplexSpec
<1>1. Init => Duplex!StreamInit
    BY OtherSide DEF Init, LegsInit, Duplex!StreamInit
<1>2. IInv /\ [Next]_vars => [Duplex!StreamNext]_(Duplex!streamVars)
    <2> SUFFICES ASSUME IInv, [Next]_vars PROVE Implements
        BY DEF Implements
    <2>1. CASE UNCHANGED vars
        BY <2>1, Stutters DEF vars, Eof, Expired, Torn
    <2> QED BY <2>1, PeersImplement, CopierImplements, StopImplements, ControlImplements DEF Next, Relay
<1> QED BY <1>1, <1>2, Invariant, PTL DEF Spec, DuplexSpec, Duplex!StreamSpec

-----------------------------------------------------------------------------
(* That relay always returns takes fairness, but not everything about it   *)
(* does: until relay returned, one of its goroutines can go on or the      *)
(* timer is running; and no such step can be repeated for ever, since each *)
(* brings relay closer to its end by a measure no peer can raise.          *)

\* What a goroutine, the timer or the runtime can do next.
CopierRuns(s) ==
    \/ copy[s] = "read" /\ (DataReady(s) \/ EofReady(s) \/ ErrReady(s))
    \/ copy[s] = "write" /\ (WriteFails(Other(s)) \/ (put[s] < taken[s] /\ Room(Other(s)) > 0))
    \/ copy[s] \in {"wake", "eof"}

CanStep ==
    \/ \E s \in Sides : CopierRuns(s)
    \/ left > 0 \/ (fired /\ stopper = "none")
    \/ stopper # "none" /\ stopAt < StopSteps
    \/ main = "wait" /\ CopiersDone
    \/ main = "once" /\ (stopper = "none" \/ stopAt = StopSteps)

NeverStuck == main # "returned" => CanStep

\* Until a teardown begins, the timer is running or its goroutine is on its way.
Armed == stopper = "none" => left > 0 \/ fired

LEMMA ArmedStep == ASSUME IInv, Armed, [Next]_vars PROVE Armed'
<1> USE IdleAssumption DEF IInv, TypeOK, Armed
<1>1. CASE Peers /\ UNCHANGED goVars
    BY <1>1 DEF goVars
<1>2. ASSUME NEW s \in Sides, Copier(s) PROVE Armed'
    BY <1>2 DEF Copier, ReadData, Wake, ReadEof, ReadError, WriteData, WriteError, CloseWrite
<1>3. CASE Tick
    <2>1. left \in Nat /\ left' = left - 1 /\ UNCHANGED stopper /\ left > 0
        BY <1>3 DEF Tick
    <2>2. left = 1 => fired'
        BY <1>3, Zenon DEF Tick
    <2> QED BY <2>1, <2>2
<1>4. CASE Return
    BY <1>4 DEF Return, Untouched, StopSteps
<1>5. CASE TimerStops \/ Waited \/ MainStops
    BY <1>5 DEF TimerStops, Begins, Waited, MainStops
<1>6. CASE Stop
    BY <1>6 DEF Stop, StopFin, StopShut, StopClose, StopTurn
<1>7. CASE UNCHANGED vars
    BY <1>7 DEF vars
<1> QED BY <1>1, <1>2, <1>3, <1>4, <1>5, <1>6, <1>7 DEF Next, Relay

\* The teardown wakes what is blocked: whatever the peers do or stop doing, relay
\* has a step to take until it has returned (go/proxy.go, relay).
THEOREM RelayNeverStuck == Spec => []NeverStuck
<1>1. Init => Armed
    BY IdleAssumption DEF Init, Armed
<1>2. IInv /\ Armed => NeverStuck
    <2>1. SUFFICES ASSUME IInv, Armed, main # "returned" PROVE CanStep
        BY DEF NeverStuck
    <2>2. CASE stopper = "none"
        BY <2>1, <2>2 DEF Armed, CanStep
    <2>3. CASE stopper # "none" /\ stopAt < StopSteps
        BY <2>3 DEF CanStep
    <2>4. CASE stopAt = StopSteps
        <3>1. \A s \in Sides : closed[s]
            BY <2>1, <2>4 DEF IInv, StopProgress, StopSteps, Sides
        <3>2. \A s \in Sides : copy[s] # "done" => CopierRuns(s)
            BY <2>1, <3>1, OtherSide DEF IInv, TypeOK, CopierRuns, ErrReady, WriteFails
        <3>3. main \in {"wait", "once"}
            BY <2>1 DEF IInv, TypeOK
        <3> QED BY <2>4, <3>2, <3>3 DEF CanStep, CopiersDone
    <2>5. stopAt \in 0..StopSteps
        BY <2>1 DEF IInv, TypeOK
    <2> QED BY <2>2, <2>3, <2>4, <2>5 DEF StopSteps
<1>3. IInv /\ Armed /\ [Next]_vars => Armed'
    BY ArmedStep
<1> QED BY <1>1, <1>2, <1>3, Invariant, PTL DEF Spec

\* What is left: bytes to read, bytes in the copy buffers, calls to make, ticks.
Unread == (MaxBytes - taken["client"]) + (MaxBytes - taken["upstream"])
Unwritten == (taken["client"] - put["client"]) + (taken["upstream"] - put["upstream"])
CopySteps(s) ==
    CASE copy[s] = "wake" -> 3
      [] copy[s] \in {"read", "write"} -> 2
      [] copy[s] = "eof" -> 1
      [] copy[s] = "done" -> 0
MainSteps == CASE main = "wait" -> 2 [] main = "once" -> 1 [] main = "returned" -> 0
Teardown == (IF stopper = "none" THEN 1 ELSE 0) + (StopSteps - stopAt)
Undone == CopySteps("client") + CopySteps("upstream") + MainSteps + Teardown

Measured == Unread \in Nat /\ Unwritten \in Nat /\ Undone \in Nat /\ left \in Nat

\* The lexicographic order of the four.
Closer ==
    \/ Unread' < Unread
    \/ Unread' = Unread /\ Unwritten' < Unwritten
    \/ Unread' = Unread /\ Unwritten' = Unwritten /\ Undone' < Undone
    \/ Unread' = Unread /\ Unwritten' = Unwritten /\ Undone' = Undone /\ left' < left

ByPeers == Peers /\ UNCHANGED <<Unread, Unwritten, Undone, left>>

LEMMA InMeasure == ASSUME TypeOK PROVE Measured
<1> USE DEF TypeOK, LegsTypeOK
<1>1. \A s \in Sides : taken[s] \in Nat /\ put[s] \in Nat /\ put[s] <= taken[s] /\ taken[s] <= MaxBytes
    BY LegsAssumption
<1>2. Unread \in Nat /\ Unwritten \in Nat
    BY <1>1, LegsAssumption DEF Unread, Unwritten, Sides
<1>3. \A s \in Sides : CopySteps(s) \in Nat
    BY DEF CopySteps
<1>4. MainSteps \in Nat /\ Teardown \in Nat
    BY DEF MainSteps, Teardown, StopSteps
<1>5. Undone \in Nat
    BY <1>3, <1>4 DEF Undone, Sides
<1>6. left \in Nat
    BY IdleAssumption
<1> QED BY <1>2, <1>5, <1>6 DEF Measured

\* A step of a goroutine reads, writes or makes a call less.
LEMMA CopierCloser == ASSUME TypeOK, NEW s \in Sides, Copier(s) PROVE Closer
<1>1. MainSteps' = MainSteps /\ Teardown' = Teardown
    BY DEF Copier, ReadData, Wake, ReadEof, ReadError, WriteData, WriteError, CloseWrite, MainSteps, Teardown
<1>2. \A t \in Sides : t # s => UNCHANGED <<taken[t], put[t], copy[t]>>
    BY DEF TypeOK, LegsTypeOK, legVars, Copier, ReadData, Wake, ReadEof, ReadError, WriteData, WriteError, CloseWrite,
           Take, Put, ShutWrite
<1>3. \A t \in Sides : taken[t] \in Nat /\ put[t] \in Nat
    BY DEF TypeOK, LegsTypeOK
<1>4. CASE ReadData(s)
    <2>1. taken'[s] \in Nat /\ taken'[s] > taken[s]
        BY <1>4, LegsAssumption DEF TypeOK, LegsTypeOK, ReadData, Take
    <2> QED BY <1>2, <1>3, <2>1, LegsAssumption DEF Closer, Unread, Sides
<1>5. CASE WriteData(s)
    <2>1. taken' = taken /\ put'[s] \in Nat /\ put'[s] > put[s]
        BY <1>5, LegsAssumption DEF TypeOK, LegsTypeOK, WriteData, Put
    <2> QED BY <1>2, <1>3, <2>1 DEF Closer, Unread, Unwritten, Sides
<1>6. CASE Wake(s) \/ ReadEof(s) \/ ReadError(s) \/ WriteError(s) \/ CloseWrite(s)
    <2>1. UNCHANGED <<taken, put>>
        BY <1>6 DEF Wake, ReadEof, ReadError, WriteError, CloseWrite, ShutWrite, legVars
    <2>2. \/ copy[s] = "wake" /\ copy'[s] = "write"
          \/ copy[s] \in {"read", "write"} /\ copy'[s] \in {"eof", "done"}
          \/ copy[s] = "eof" /\ copy'[s] = "done"
        BY <1>6 DEF TypeOK, Wake, ReadEof, ReadError, WriteError, CloseWrite, AfterEof, AfterError
    <2>3. CopySteps(s)' < CopySteps(s) /\ CopySteps(s) \in Nat /\ CopySteps(s)' \in Nat
        BY <2>2 DEF CopySteps
    <2>4. \A t \in Sides : t # s => CopySteps(t)' = CopySteps(t) /\ CopySteps(t) \in Nat
        BY <1>2 DEF TypeOK, CopySteps
    <2>5. MainSteps \in Nat /\ Teardown \in Nat
        BY DEF TypeOK, MainSteps, Teardown, StopSteps
    <2>6. Undone' < Undone
        BY <1>1, <2>3, <2>4, <2>5 DEF Undone, Sides
    <2>7. Unread' = Unread /\ Unwritten' = Unwritten
        BY <2>1 DEF Unread, Unwritten
    <2> QED BY <2>6, <2>7 DEF Closer
<1> QED BY <1>4, <1>5, <1>6 DEF Copier

\* So does one of the teardown or of relay itself, and time runs out.
LEMMA ControlCloser ==
    ASSUME TypeOK, Tick \/ TimerStops \/ Stop \/ Waited \/ MainStops \/ Return
    PROVE  Closer
<1>1. UNCHANGED <<taken, put, copy>>
    BY DEF Tick, TimerStops, Stop, StopFin, StopShut, StopClose, ShutWrite, ShutRead, CloseLeg,
           Waited, MainStops, Return, legVars
<1>2. Unread' = Unread /\ Unwritten' = Unwritten
    BY <1>1 DEF Unread, Unwritten
<1>3. \A s \in Sides : CopySteps(s)' = CopySteps(s) /\ CopySteps(s) \in Nat
    BY <1>1 DEF TypeOK, CopySteps
<1>4. CASE Tick
    <2>1. MainSteps' = MainSteps /\ Teardown' = Teardown /\ left' < left
        BY <1>4, IdleAssumption DEF TypeOK, Tick, MainSteps, Teardown
    <2>2. Undone' = Undone
        BY <1>3, <2>1 DEF Undone, Sides
    <2> QED BY <1>2, <2>1, <2>2 DEF Closer
<1>5. CASE TimerStops \/ Stop \/ Waited \/ MainStops \/ Return
    <2>1. stopAt \in 0..6 /\ (Stop => stopAt < 6)
        BY DEF TypeOK, StopSteps, Stop, StopFin, StopShut, StopClose, StopTurn, StopOrder, Sides
    <2>2. MainSteps' + Teardown' < MainSteps + Teardown
        BY <1>5, <2>1 DEF TypeOK, TimerStops, Begins, Stop, StopFin, StopShut, StopClose, StopTurn, Waited, MainStops, Return,
               MainSteps, Teardown, StopSteps
    <2>3. MainSteps \in Nat /\ MainSteps' \in Nat /\ Teardown \in Nat /\ Teardown' \in Nat
        BY <1>5, <2>1 DEF TypeOK, TimerStops, Begins, Stop, StopFin, StopShut, StopClose, Waited, MainStops, Return,
               MainSteps, Teardown, StopSteps
    <2>4. \A s \in {"client", "upstream"} : CopySteps(s)' = CopySteps(s) /\ CopySteps(s) \in Nat
        BY <1>3 DEF Sides
    <2>5. Undone' < Undone
        <3> DEFINE c == CopySteps("client")
                   u == CopySteps("upstream")
        <3>1. c \in Nat /\ u \in Nat /\ c' = c /\ u' = u
            BY <2>4
        <3> HIDE DEF c, u
        <3>2. Undone = c + u + MainSteps + Teardown
            BY DEF Undone, c, u
        <3>3. Undone' = c' + u' + MainSteps' + Teardown'
            BY DEF Undone, c, u
        <3>4. \A m, t, n, k \in Nat : n + k < m + t => c + u + n + k < c + u + m + t
            BY <3>1
        <3>5. c + u + MainSteps' + Teardown' < c + u + MainSteps + Teardown
            BY <2>2, <2>3, <3>4, Zenon
        <3> QED BY <3>1, <3>2, <3>3, <3>5, Zenon
    <2> QED BY <1>2, <2>5 DEF Closer
<1> QED BY <1>4, <1>5

\* No step of relay, its goroutines or its timer can be taken for ever, and no peer
\* makes it longer: what a session can still take is bounded by what it has taken.
THEOREM StepsRunOut == Spec => []Measured /\ [][Closer \/ ByPeers]_vars
<1>1. IInv => Measured
    BY InMeasure DEF IInv
<1>2. IInv /\ [Next]_vars => [Closer \/ ByPeers]_vars
    <2> SUFFICES ASSUME IInv, Next PROVE Closer \/ ByPeers
        OBVIOUS
    <2>1. CASE Peers /\ UNCHANGED goVars
        <3>1. UNCHANGED <<taken, put, copy, left, stopper, stopAt, main>>
            BY <2>1 DEF Peers, PeerSend, PeerFin, PeerAbort, PeerRead, sockVars, goVars
        <3> QED BY <2>1, <3>1 DEF ByPeers, Unread, Unwritten, Undone, CopySteps, MainSteps, Teardown
    <2> QED BY <2>1, CopierCloser, ControlCloser DEF IInv, Next, Relay
<1> QED BY <1>1, <1>2, Invariant, PTL DEF Spec

=============================================================================
