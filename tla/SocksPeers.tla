----------------------------- MODULE SocksPeers -----------------------------
(***************************************************************************)
(* The two peers of one proxied connection during its SOCKS5 handshake:    *)
(* the client that connected, and the `tailcat socks' upstream.  They are  *)
(* external and may send, stop, half-close or abort as they like.          *)
(*                                                                         *)
(* A piece is what one read of the handshake asks for; what it says is     *)
(* chosen when it is read.  The client's handshake has six pieces          *)
(* (version, method count, methods, request, address, port), the           *)
(* upstream's four (greeting, reply, bound address, bound port); a seventh *)
(* and a fifth are the first data for the relay.  The state the three      *)
(* implementations keep while they serve a connection is declared here     *)
(* too, so that Conn can run any of them.                                  *)
(***************************************************************************)
EXTENDS Integers, Sequences

CONSTANTS
    HandshakeTimeout,   \* instants of the Go proxy's client-facing window
    DialTimeout         \* instants of the upstream window

ASSUME TimeoutAssumption ==
    HandshakeTimeout \in Nat \ {0} /\ DialTimeout \in Nat \ {0}

Sides == {"client", "upstream"}
Handshake == [client |-> 6, upstream |-> 4]

VARIABLES
    sent,       \* pieces each peer has sent
    peer,       \* what became of each peer: open, half-closed or aborted
    taken,      \* pieces read from each peer
    at,         \* the next call of the code that serves the connection
    cmd,        \* the command of the request
    target,     \* the rewritten host, as the encoders of requests see it
    up,         \* the descriptor of the upstream connection
    told,       \* what was written to the client
    asked,      \* what was written to the upstream
    deadline,   \* time left on each connection
    age         \* instants spent waiting since the accept

connVars == <<sent, peer, taken, at, cmd, target, up, told, asked, deadline, age>>

NoDeadline == -1
MaxAge == HandshakeTimeout + DialTimeout + 1    \* or longer

\* A host no encoder has trouble with, one with bytes that are not ASCII, and a
\* token of more than the 255 bytes a request has room for.
Targets == {"plain", "raw", "long"}

ClientReads == {"version", "count", "methods", "request", "address", "port"}
UpstreamReads == {"greeting", "reply", "bound", "boundPort"}
UpstreamPhase == {"dialing", "hello", "ask"} \cup UpstreamReads
Over == {"relay", "closed"}
Places == ClientReads \cup UpstreamPhase \cup Over
            \cup {"greet", "refuse", "forward", "answer", "fail"}

ConnTypeOK ==
    /\ sent \in [Sides -> 0..7] /\ taken \in [Sides -> 0..7]
    /\ \A s \in Sides : taken[s] <= sent[s] /\ sent[s] <= Handshake[s] + 1
    /\ peer \in [Sides -> {"open", "eof", "gone"}]
    /\ at \in Places
    /\ cmd \in {"connect", "other"}
    /\ target \in Targets
    /\ up \in {"none", "open", "closed"}
    /\ told \in Seq({"method", "refused", "ok", "fail"}) /\ Len(told) <= 2
    /\ asked \in Seq({"greeting", "request", "garbled"}) /\ Len(asked) <= 2
    /\ deadline \in [Sides -> Int]
    /\ deadline["client"] \in NoDeadline..HandshakeTimeout
    /\ deadline["upstream"] \in NoDeadline..DialTimeout
    /\ age \in 0..MaxAge

\* An accepted connection; window is the deadline the code puts on the client.
Accepted(window) ==
    /\ sent = [s \in Sides |-> 0] /\ taken = sent
    /\ peer = [s \in Sides |-> "open"]
    /\ at = "version"
    /\ cmd = "connect" /\ target = "plain"
    /\ up = "none"
    /\ told = <<>> /\ asked = <<>>
    /\ deadline = [client |-> window, upstream |-> NoDeadline]
    /\ age = 0

-----------------------------------------------------------------------------
(* The peers.                                                              *)

Reachable(s) == s = "client" \/ up = "open"

PeerSends(s) ==
    /\ Reachable(s) /\ peer[s] = "open" /\ sent[s] <= Handshake[s]
    /\ sent' = [sent EXCEPT ![s] = @ + 1]
    /\ UNCHANGED peer

PeerEnds(s) ==
    /\ Reachable(s) /\ peer[s] = "open"
    /\ peer' = [peer EXCEPT ![s] = "eof"]
    /\ UNCHANGED sent

PeerAborts(s) ==
    /\ Reachable(s) /\ peer[s] # "gone"
    /\ peer' = [peer EXCEPT ![s] = "gone"]
    /\ UNCHANGED sent

Peers ==
    /\ at \notin Over
    /\ \E s \in Sides : PeerSends(s) \/ PeerEnds(s) \/ PeerAborts(s)
    /\ UNCHANGED <<taken, at, cmd, target, up, told, asked, deadline, age>>

-----------------------------------------------------------------------------
(* What a call can return, and the time it can take.                       *)

Expired(s) == deadline[s] = 0
CanTake(s) == taken[s] < sent[s] /\ ~Expired(s)
ReadFails(s) == peer[s] = "gone" \/ Expired(s) \/ (peer[s] = "eof" /\ taken[s] = sent[s])
WriteFails(s) == peer[s] = "gone" \/ Expired(s)

Waits(s) ==
    /\ ~Expired(s)
    /\ \/ s = "client" /\ at \in ClientReads /\ ~CanTake(s) /\ ~ReadFails(s)
       \/ s = "upstream" /\ at \in UpstreamReads /\ ~CanTake(s) /\ ~ReadFails(s)
       \/ s = "upstream" /\ at = "dialing"

\* Time passes while the code waits for a peer; what it does itself takes none.
Tick ==
    /\ \E s \in Sides : Waits(s)
    /\ deadline' = [s \in Sides |-> IF deadline[s] > 0 THEN deadline[s] - 1 ELSE deadline[s]]
    /\ age' = IF age < MaxAge THEN age + 1 ELSE age
    /\ UNCHANGED <<sent, peer, taken, at, cmd, target, up, told, asked>>

-----------------------------------------------------------------------------
(* Parts the steps of the implementations are made of.                     *)

Take(s) ==
    /\ CanTake(s)
    /\ taken' = [taken EXCEPT ![s] = @ + 1]
    /\ UNCHANGED <<sent, peer, age>>

Write(s) == ~WriteFails(s) /\ UNCHANGED <<sent, peer, taken, age>>

\* Read one piece of the client at one place, and go on to one of others.
FromClient(here, there) ==
    /\ at = here /\ Take("client") /\ at' \in there
    /\ UNCHANGED <<target, up, told, asked, deadline>>

ToClient(here, message, there) ==
    /\ at = here /\ Write("client") /\ at' = there
    /\ told' = Append(told, message)
    /\ UNCHANGED <<cmd, target, asked>>

\* The same on the upstream connection.
FromUpstream(here, there) ==
    /\ at = here /\ Take("upstream") /\ at' = there
    /\ UNCHANGED <<cmd, target, told, asked>>

ToUpstream(here, message, there) ==
    /\ at = here /\ Write("upstream") /\ at' = there
    /\ asked' = Append(asked, message)
    /\ UNCHANGED <<cmd, target, up, told>>

\* The connection is dropped, and the upstream one with it.
Drop ==
    /\ at' = "closed"
    /\ up' = IF up = "open" THEN "closed" ELSE up
    /\ UNCHANGED <<sent, peer, taken, cmd, target, told, asked, deadline, age>>

=============================================================================
