------------------------------- MODULE GoConn -------------------------------
(***************************************************************************)
(* handle() and serveConn() of go/proxy.go, with dialUpstream() and        *)
(* socksClientConnect(): one accepted connection, from its greeting to the *)
(* relay.  Every read and write is a step.  The client's deadline runs     *)
(* from the accept, is set anew when the upstream is done with, and is     *)
(* cleared for the relay; the upstream's covers dial and handshake.        *)
(***************************************************************************)
EXTENDS SocksPeers

Init == Accepted(HandshakeTimeout)

\* Faulty variants: the client's deadline is left as it was; it is prolonged.
NotRearmed == [deadline EXCEPT !["upstream"] = NoDeadline]
Prolonged == [deadline EXCEPT !["client"] = @ + HandshakeTimeout, !["upstream"] = NoDeadline]

\* client.SetDeadline(time.Now().Add(s.handshakeTimeout)) after the upstream phase.
Rearmed == [deadline EXCEPT !["client"] = HandshakeTimeout, !["upstream"] = NoDeadline]

-----------------------------------------------------------------------------
(* The client's greeting and request.                                      *)

ReadVersion == FromClient("version", {"count", "closed"}) /\ UNCHANGED cmd
\* Without methods there is nothing more to read before the refusal.
ReadCount == FromClient("count", {"methods", "refuse"}) /\ UNCHANGED cmd
ReadMethods == FromClient("methods", {"greet", "refuse"}) /\ UNCHANGED cmd

\* The address is of a type readATYPAddr supports, or the connection is dropped.
ReadRequest ==
    /\ FromClient("request", {"address", "closed"})
    /\ cmd' \in {"connect", "other"}

\* Faulty variant: each piece of the client gives it a new window.
ReadAddressRearms ==
    /\ at = "address" /\ Take("client") /\ at' = "port"
    /\ deadline' = [deadline EXCEPT !["client"] = HandshakeTimeout]
    /\ UNCHANGED <<cmd, target, up, told, asked>>

ReadAddress == FromClient("address", {"port"}) /\ UNCHANGED cmd

\* Faulty variant: a reader that takes along what the client sent early.
ReadPortAndMore ==
    /\ at = "port" /\ CanTake("client") /\ at' = "forward"
    /\ taken' = [taken EXCEPT !["client"] = sent["client"]]
    /\ UNCHANGED <<sent, peer, age, cmd, target, up, told, asked, deadline>>

ReadPort == FromClient("port", {"forward"}) /\ UNCHANGED cmd

Greet == ToClient("greet", "method", "request") /\ UNCHANGED <<up, deadline>>
Refuse == ToClient("refuse", "refused", "closed") /\ UNCHANGED <<up, deadline>>

\* An early return; handle closes the connection.
ClientFails ==
    /\ \/ at \in ClientReads /\ ReadFails("client")
       \/ at \in {"greet", "refuse"} /\ WriteFails("client")
    /\ Drop

-----------------------------------------------------------------------------
(* The upstream.                                                           *)

\* Faulty variant: an over-long domain is dialed, and found out later.
ForwardAny ==
    /\ at = "forward"
    /\ target' \in Targets
    /\ IF cmd = "other" THEN at' = "fail" /\ deadline' = deadline
                        ELSE /\ at' = "dialing"
                             /\ deadline' = [deadline EXCEPT !["upstream"] = DialTimeout]
    /\ UNCHANGED <<sent, peer, taken, cmd, up, told, asked, age>>

\* RewriteHost, and socksConnectRequest, which refuses an over-long domain.
Forward ==
    /\ at = "forward"
    /\ target' \in Targets
    /\ IF cmd = "other" THEN at' = "fail" /\ deadline' = deadline
       ELSE IF target' = "long" THEN at' = "fail" /\ deadline' = Rearmed
       ELSE at' = "dialing" /\ deadline' = [deadline EXCEPT !["upstream"] = DialTimeout]
    /\ UNCHANGED <<sent, peer, taken, cmd, up, told, asked, age>>

Connect ==
    /\ at = "dialing" /\ ~Expired("upstream")
    /\ at' = "hello" /\ up' = "open"
    /\ UNCHANGED <<sent, peer, taken, cmd, target, told, asked, deadline, age>>

Hello == ToUpstream("hello", "greeting", "greeting") /\ UNCHANGED deadline
ReadGreeting == FromUpstream("greeting", "ask") /\ UNCHANGED <<up, deadline>>
Ask == ToUpstream("ask", "request", "reply") /\ UNCHANGED deadline
ReadReply == FromUpstream("reply", "bound") /\ UNCHANGED <<up, deadline>>
ReadBound == FromUpstream("bound", "boundPort") /\ UNCHANGED <<up, deadline>>

\* The upstream's deadline is cleared, the client's set anew.
ReadBoundPort ==
    /\ FromUpstream("boundPort", "answer")
    /\ deadline' = Rearmed
    /\ UNCHANGED up

\* A read, write or dial that fails, or a reply that refuses or has an address of
\* an unsupported type: dialUpstream closes what it opened.
Refusal == at \in {"greeting", "reply"} /\ Take("upstream")
Broken ==
    /\ \/ at = "dialing"
       \/ at \in UpstreamReads /\ ReadFails("upstream")
       \/ at \in {"hello", "ask"} /\ WriteFails("upstream")
    /\ UNCHANGED <<sent, peer, taken, age>>

\* Faulty variant: dialUpstream leaves the connection open.
UpstreamFailsOpen ==
    /\ Refusal \/ Broken
    /\ at' = "fail" /\ deadline' = Rearmed
    /\ UNCHANGED <<cmd, target, up, told, asked>>

UpstreamFails ==
    /\ Refusal \/ Broken
    /\ at' = "fail" /\ deadline' = Rearmed
    /\ up' = IF up = "open" THEN "closed" ELSE up
    /\ UNCHANGED <<cmd, target, told, asked>>

-----------------------------------------------------------------------------
(* The answer.                                                             *)

Answer ==
    /\ ToClient("answer", "ok", "relay")
    /\ deadline' = [s \in Sides |-> NoDeadline]
    /\ UNCHANGED up

Fail == ToClient("fail", "fail", "closed") /\ UNCHANGED <<up, deadline>>

AnswerFails == at \in {"answer", "fail"} /\ WriteFails("client") /\ Drop

Serve ==
    \/ ReadVersion \/ ReadCount \/ ReadMethods \/ ReadRequest \/ ReadAddress \/ ReadPort
    \/ Greet \/ Refuse \/ ClientFails
    \/ Forward \/ Connect \/ Hello \/ ReadGreeting \/ Ask
    \/ ReadReply \/ ReadBound \/ ReadBoundPort \/ UpstreamFails
    \/ Answer \/ Fail \/ AnswerFails

=============================================================================
