------------------------------ MODULE RustConn ------------------------------
(***************************************************************************)
(* handle() and serve_conn() of rust/src/proxy.rs, with upstream_connect():*)
(* one accepted connection, from its greeting to the relay.  Nothing       *)
(* bounds the client; one timeout covers dial and upstream handshake, and  *)
(* drops the upstream connection when it elapses.                          *)
(***************************************************************************)
EXTENDS SocksPeers

Init == Accepted(NoDeadline)

\* The end of the future that tokio::time::timeout bounds.
Unbounded == [deadline EXCEPT !["upstream"] = NoDeadline]

-----------------------------------------------------------------------------
(* The client's greeting and request.                                      *)

ReadVersion == FromClient("version", {"count", "closed"}) /\ UNCHANGED cmd

\* Without methods there is nothing more to read before the refusal.
ReadCount == FromClient("count", {"methods", "refuse"}) /\ UNCHANGED cmd
ReadMethods == FromClient("methods", {"greet", "refuse"}) /\ UNCHANGED cmd

\* The address is of a type read_atyp_addr supports, or the connection is dropped.
ReadRequest ==
    /\ FromClient("request", {"address", "closed"})
    /\ cmd' \in {"connect", "other"}

ReadAddress == FromClient("address", {"port"}) /\ UNCHANGED cmd
ReadPort == FromClient("port", {"forward"}) /\ UNCHANGED cmd

Greet == ToClient("greet", "method", "request") /\ UNCHANGED <<up, deadline>>
Refuse == ToClient("refuse", "refused", "closed") /\ UNCHANGED <<up, deadline>>

\* The ? of a client read or write.
ClientFails ==
    /\ \/ at \in ClientReads /\ ReadFails("client")
       \/ at \in {"greet", "refuse", "answer", "fail"} /\ WriteFails("client")
    /\ Drop

-----------------------------------------------------------------------------
(* The upstream.                                                           *)

\* Faulty variant: the upstream future is awaited without a timeout.
ForwardUnbounded ==
    /\ at = "forward"
    /\ target' \in Targets
    /\ at' = IF cmd = "other" THEN "fail" ELSE "dialing"
    /\ UNCHANGED <<sent, peer, taken, cmd, up, told, asked, deadline, age>>

Forward ==
    /\ at = "forward"
    /\ target' \in Targets
    /\ IF cmd = "other" THEN at' = "fail" /\ deadline' = deadline
                        ELSE /\ at' = "dialing"
                             /\ deadline' = [deadline EXCEPT !["upstream"] = DialTimeout]
    /\ UNCHANGED <<sent, peer, taken, cmd, up, told, asked, age>>

Connect ==
    /\ at = "dialing" /\ ~Expired("upstream")
    /\ at' = "hello" /\ up' = "open"
    /\ UNCHANGED <<sent, peer, taken, cmd, target, told, asked, deadline, age>>

Hello == ToUpstream("hello", "greeting", "greeting") /\ UNCHANGED deadline
ReadGreeting == FromUpstream("greeting", "ask") /\ UNCHANGED <<up, deadline>>

\* host.len() as u8: the length of an over-long host is wrong, its bytes all there.
Encoded == IF target = "long" THEN "garbled" ELSE "request"

Ask == ToUpstream("ask", Encoded, "reply") /\ UNCHANGED deadline
ReadReply == FromUpstream("reply", "bound") /\ UNCHANGED <<up, deadline>>
ReadBound == FromUpstream("bound", "boundPort") /\ UNCHANGED <<up, deadline>>
ReadBoundPort == FromUpstream("boundPort", "answer") /\ deadline' = Unbounded /\ UNCHANGED up

\* An error of the future, or the timeout: the connection it held is dropped.
UpstreamFails ==
    /\ \/ at \in {"greeting", "reply"} /\ Take("upstream")
       \/ /\ \/ at = "dialing"
             \/ at \in UpstreamReads /\ ReadFails("upstream")
             \/ at \in {"hello", "ask"} /\ WriteFails("upstream")
          /\ UNCHANGED <<sent, peer, taken, age>>
    /\ at' = "fail" /\ deadline' = Unbounded
    /\ up' = IF up = "open" THEN "closed" ELSE up
    /\ UNCHANGED <<cmd, target, told, asked>>

Answer == ToClient("answer", "ok", "relay") /\ UNCHANGED <<up, deadline>>
Fail == ToClient("fail", "fail", "closed") /\ UNCHANGED <<up, deadline>>

Serve ==
    \/ ReadVersion \/ ReadCount \/ ReadMethods \/ ReadRequest \/ ReadAddress \/ ReadPort
    \/ Greet \/ Refuse \/ ClientFails
    \/ Forward \/ Connect \/ Hello \/ ReadGreeting \/ Ask
    \/ ReadReply \/ ReadBound \/ ReadBoundPort \/ UpstreamFails
    \/ Answer \/ Fail

=============================================================================
