------------------------------ MODULE TcpLegs ------------------------------
(***************************************************************************)
(* The two TCP connections of one proxied session, as the relays of the    *)
(* three implementations use them: the leg that faces the client and the   *)
(* leg that faces the `tailcat socks' upstream.  The kernel and the two    *)
(* peers are external code; what is kept of them is what go/proxy.go,      *)
(* rust/src/proxy.rs and tailcat_socks.py rely on and comment on.          *)
(*                                                                         *)
(* A byte is its position in its stream, so a direction is four counters:  *)
(* sent by the peer, taken by the relay's read, put into the other leg's   *)
(* send queue, got by the other peer.  TCP never reorders, and bytes       *)
(* taken but not yet put are what the relay holds in its copy buffer.      *)
(***************************************************************************)
EXTENDS Naturals

CONSTANTS
    MaxBytes,   \* bytes a peer may send in one session (bounds the model)
    RcvCap,     \* capacity of a leg's receive queue
    SndCap,     \* capacity of a leg's send queue
    Chunk       \* size of the relay's copy buffer

ASSUME LegsAssumption ==
    /\ MaxBytes \in Nat
    /\ RcvCap \in Nat \ {0}
    /\ SndCap \in Nat \ {0}
    /\ Chunk \in Nat \ {0}

Sides == {"client", "upstream"}
Other(s) == IF s = "client" THEN "upstream" ELSE "client"

VARIABLES
    \* what peer s did
    sent,       \* bytes peer s handed to its kernel
    over,       \* peer s ended its stream: a FIN follows its last byte
    gone,       \* peer s aborted the connection: its RST reached us
    got,        \* bytes of the stream from s that peer Other(s) has read
    \* what the relay did with its sockets
    taken,      \* bytes the relay read from leg s
    put,        \* bytes from s the relay wrote into leg Other(s)
    fin,        \* a FIN is queued on leg s, after everything put there
    shut,       \* leg s was shut for reading
    closed,     \* the descriptor of leg s is closed
    reset       \* our kernel sent peer s an RST

peerVars == <<sent, over, gone, got>>
sockVars == <<taken, put, fin, shut, closed, reset>>
legVars == <<sent, over, gone, got, taken, put, fin, shut, closed, reset>>

LegsTypeOK ==
    /\ sent \in [Sides -> 0..MaxBytes]
    /\ over \in [Sides -> BOOLEAN]
    /\ gone \in [Sides -> BOOLEAN]
    /\ got \in [Sides -> Nat]
    /\ taken \in [Sides -> Nat]
    /\ put \in [Sides -> Nat]
    /\ fin \in [Sides -> BOOLEAN]
    /\ shut \in [Sides -> BOOLEAN]
    /\ closed \in [Sides -> BOOLEAN]
    /\ reset \in [Sides -> BOOLEAN]
    /\ \A s \in Sides : got[s] <= put[s] /\ put[s] <= taken[s] /\ taken[s] <= sent[s]

LegsInit ==
    /\ sent = [s \in Sides |-> 0]
    /\ over = [s \in Sides |-> FALSE]
    /\ gone = [s \in Sides |-> FALSE]
    /\ got = [s \in Sides |-> 0]
    /\ taken = [s \in Sides |-> 0]
    /\ put = [s \in Sides |-> 0]
    /\ fin = [s \in Sides |-> FALSE]
    /\ shut = [s \in Sides |-> FALSE]
    /\ closed = [s \in Sides |-> FALSE]
    /\ reset = [s \in Sides |-> FALSE]

Alive(s) == ~gone[s] /\ ~reset[s]

-----------------------------------------------------------------------------
(* The peers.                                                              *)

\* A byte that arrives after the leg was shut for reading, or closed, earns
\* its sender an RST (go/proxy.go, comment on halfClose).
PeerSend(s) ==
    /\ Alive(s) /\ ~over[s]
    /\ sent[s] < MaxBytes /\ sent[s] - taken[s] < RcvCap
    /\ sent' = [sent EXCEPT ![s] = @ + 1]
    /\ reset' = [reset EXCEPT ![s] = @ \/ shut[s] \/ closed[s]]
    /\ UNCHANGED <<over, gone, got, taken, put, fin, shut, closed>>

PeerFin(s) ==
    /\ Alive(s) /\ ~over[s]
    /\ over' = [over EXCEPT ![s] = TRUE]
    /\ UNCHANGED <<sent, gone, got, sockVars>>

PeerAbort(s) ==
    /\ Alive(s)
    /\ gone' = [gone EXCEPT ![s] = TRUE]
    /\ UNCHANGED <<sent, over, got, sockVars>>

\* Peer s reads a byte of the stream that comes from the other side.
PeerRead(s) ==
    /\ Alive(s)
    /\ got[Other(s)] < put[Other(s)]
    /\ got' = [got EXCEPT ![Other(s)] = @ + 1]
    /\ UNCHANGED <<sent, over, gone, sockVars>>

Peers == \E s \in Sides : PeerSend(s) \/ PeerFin(s) \/ PeerAbort(s) \/ PeerRead(s)

-----------------------------------------------------------------------------
(* What a system call of the relay on a leg can return.                    *)

DataReady(s) == ~closed[s] /\ taken[s] < sent[s]
EofReady(s) == ~closed[s] /\ (shut[s] \/ (over[s] /\ taken[s] = sent[s]))
ErrReady(s) == closed[s] \/ ~Alive(s)

\* A write fails once the leg is finished, closed or broken; it can take
\* bytes while the send queue has room, and blocks otherwise.
WriteFails(s) == fin[s] \/ closed[s] \/ ~Alive(s)
Room(s) == SndCap - (put[Other(s)] - got[Other(s)])

-----------------------------------------------------------------------------
(* Effects of the relay's calls on a leg.                                  *)

\* read(2): some bytes, at most a copy buffer of them.
Take(s) ==
    /\ DataReady(s)
    /\ \E n \in 1..Chunk :
         /\ n <= sent[s] - taken[s]
         /\ taken' = [taken EXCEPT ![s] = @ + n]
    /\ UNCHANGED <<peerVars, put, fin, shut, closed, reset>>

\* write(2) of bytes taken from s to the other leg: as many as there is room for.
Put(s) ==
    /\ ~WriteFails(Other(s))
    /\ \E n \in 1..Chunk :
         /\ n <= taken[s] - put[s] /\ n <= Room(Other(s))
         /\ put' = [put EXCEPT ![s] = @ + n]
    /\ UNCHANGED <<peerVars, taken, fin, shut, closed, reset>>

\* shutdown(SHUT_WR) queues a FIN; on a closed descriptor it does nothing.
ShutWrite(s) ==
    /\ fin' = [fin EXCEPT ![s] = @ \/ ~closed[s]]
    /\ UNCHANGED <<peerVars, taken, put, shut, closed, reset>>

\* shutdown(SHUT_RD)
ShutRead(s) ==
    /\ shut' = [shut EXCEPT ![s] = @ \/ ~closed[s]]
    /\ UNCHANGED <<peerVars, taken, put, fin, closed, reset>>

\* close(2).  With unread input and no FIN queued, the kernel answers with an
\* RST that destroys what the peer has not read; otherwise with a FIN.
CloseLeg(s) ==
    LET rst == ~fin[s] /\ taken[s] < sent[s]
    IN  /\ closed' = [closed EXCEPT ![s] = TRUE]
        /\ reset' = [reset EXCEPT ![s] = @ \/ (rst /\ ~closed[s])]
        /\ fin' = [fin EXCEPT ![s] = @ \/ (~rst /\ ~closed[s])]
        /\ UNCHANGED <<peerVars, taken, put, shut>>

=============================================================================
