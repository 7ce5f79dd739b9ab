--------------------------- MODULE TcpLegs_proofs ---------------------------
(***************************************************************************)
(* What the relays' proofs use of the two legs of a session.               *)
(***************************************************************************)
EXTENDS TcpLegs, TLAPS

\* The two sides are each other's other side.
LEMMA OtherSide ==
    /\ \A s \in Sides : Other(s) \in Sides /\ Other(s) # s /\ Other(Other(s)) = s
    /\ \A s, t \in Sides : t = s \/ t = Other(s)
BY DEF Sides, Other

\* The typing of the legs survives every step of a peer.
LEMMA PeersType ==
    ASSUME LegsTypeOK, Peers
    PROVE  LegsTypeOK'
<1> USE LegsAssumption DEF LegsTypeOK
<1>1. PICK s \in Sides : PeerSend(s) \/ PeerFin(s) \/ PeerAbort(s) \/ PeerRead(s)
    BY DEF Peers
<1>2. CASE PeerSend(s)
    BY <1>2 DEF PeerSend
<1>3. CASE PeerFin(s)
    BY <1>3 DEF PeerFin, sockVars
<1>4. CASE PeerAbort(s)
    BY <1>4 DEF PeerAbort, sockVars
<1>5. CASE PeerRead(s)
    BY <1>5, OtherSide DEF PeerRead, sockVars
<1> QED BY <1>1, <1>2, <1>3, <1>4, <1>5

\* And every call of the relay on a leg.
LEMMA CallsType ==
    ASSUME LegsTypeOK, NEW s \in Sides,
           Take(s) \/ Put(s) \/ ShutWrite(s) \/ ShutRead(s) \/ CloseLeg(s)
    PROVE  LegsTypeOK'
<1> USE LegsAssumption DEF LegsTypeOK
<1>1. CASE Take(s)
    BY <1>1 DEF Take, peerVars
<1>2. CASE Put(s)
    BY <1>2 DEF Put, peerVars
<1>3. CASE ShutWrite(s)
    BY <1>3 DEF ShutWrite, peerVars
<1>4. CASE ShutRead(s)
    BY <1>4 DEF ShutRead, peerVars
<1>5. CASE CloseLeg(s)
    BY <1>5 DEF CloseLeg, peerVars
<1> QED BY <1>1, <1>2, <1>3, <1>4, <1>5

\* What every step keeps of a leg that a call does not touch.
LEMMA UntouchedLegsType ==
    ASSUME LegsTypeOK, UNCHANGED legVars
    PROVE  LegsTypeOK'
BY DEF LegsTypeOK, legVars

\* What a read and a write move, and that they leave the rest alone.
LEMMA Moves ==
    ASSUME LegsTypeOK, NEW s \in Sides
    PROVE  /\ Take(s) => /\ taken[s] < taken'[s] /\ taken'[Other(s)] = taken[Other(s)]
                         /\ UNCHANGED <<peerVars, put, fin, shut, closed, reset>>
           /\ Put(s) => /\ put[s] < put'[s] /\ put'[s] <= taken[s] /\ put'[s] <= got[s] + SndCap
                        /\ put'[Other(s)] = put[Other(s)]
                        /\ UNCHANGED <<peerVars, taken, fin, shut, closed, reset>>
<1> USE LegsAssumption, OtherSide DEF LegsTypeOK
<1>1. ASSUME Take(s)
      PROVE  taken[s] < taken'[s] /\ taken'[Other(s)] = taken[Other(s)]
    BY <1>1 DEF Take
<1>2. ASSUME Put(s)
      PROVE  /\ put[s] < put'[s] /\ put'[s] <= taken[s] /\ put'[s] <= got[s] + SndCap
             /\ put'[Other(s)] = put[Other(s)]
    <2>1. PICK n \in 1..Chunk :
            /\ n <= taken[s] - put[s] /\ n <= SndCap - (put[s] - got[s])
            /\ put' = [put EXCEPT ![s] = put[s] + n]
        BY <1>2 DEF Put, Room
    <2>2. put'[s] = put[s] + n /\ put'[Other(s)] = put[Other(s)]
        BY <2>1
    <2> QED BY <2>1, <2>2
<1> QED BY <1>1, <1>2 DEF Take, Put

\* What a read waits for: something in its leg's receive queue.
Ready(s) == DataReady(s) \/ EofReady(s) \/ ErrReady(s)

\* No peer takes that back.
LEMMA PeersKeepReady ==
    ASSUME LegsTypeOK, Peers, NEW s \in Sides, Ready(s)
    PROVE  Ready(s)'
<1> USE DEF LegsTypeOK
<1>1. PICK t \in Sides : PeerSend(t) \/ PeerFin(t) \/ PeerAbort(t) \/ PeerRead(t)
    BY DEF Peers
<1>2. UNCHANGED <<taken, shut, closed>>
    BY <1>1 DEF PeerSend, PeerFin, PeerAbort, PeerRead, sockVars
<1>3. ErrReady(s) => ErrReady(s)'
    BY <1>1 DEF ErrReady, Alive, PeerSend, PeerFin, PeerAbort, PeerRead, sockVars
<1>4. DataReady(s) => DataReady(s)'
    <2>1. sent'[s] \in Nat /\ sent[s] \in Nat /\ taken[s] \in Nat /\ sent[s] <= sent'[s]
        BY <1>1, LegsAssumption DEF PeerSend, PeerFin, PeerAbort, PeerRead
    <2> QED BY <1>2, <2>1 DEF DataReady
<1>5. EofReady(s) => EofReady(s)'
    BY <1>1, <1>2 DEF EofReady, PeerSend, PeerFin, PeerAbort, PeerRead
<1> QED BY <1>3, <1>4, <1>5 DEF Ready

=============================================================================
