------------------------------- MODULE PyConn -------------------------------
(***************************************************************************)
(* _handle() and _handle_inner() of python/tailcat_socks.py, with          *)
(* _upstream_connect(): one accepted connection, from its greeting to the  *)
(* relay.  Nothing bounds the client; the timeout of create_connection     *)
(* stays on the upstream socket and bounds each of its calls by itself.    *)
(* A ValueError is caught in _handle only, which closes without a reply.   *)
(***************************************************************************)
EXTENDS SocksPeers

Init == Accepted(NoDeadline)

\* The window of the next call on the upstream socket.
CallWindow == deadline' = [deadline EXCEPT !["upstream"] = DialTimeout]

-----------------------------------------------------------------------------
(* The client's greeting and request.                                      *)

ReadVersion == FromClient("version", {"count", "closed"}) /\ UNCHANGED cmd

\* Without methods there is nothing more to read before the refusal.
ReadCount == FromClient("count", {"methods", "refuse"}) /\ UNCHANGED cmd
ReadMethods == FromClient("methods", {"greet", "refuse"}) /\ UNCHANGED cmd

ReadRequest ==
    /\ FromClient("request", {"address", "closed"})
    /\ cmd' \in {"connect", "other"}

\* A domain that is not ASCII raises UnicodeDecodeError, a ValueError.
ReadAddress == FromClient("address", {"port", "closed"}) /\ UNCHANGED cmd
ReadPort == FromClient("port", {"forward"}) /\ UNCHANGED cmd

Greet == ToClient("greet", "method", "request") /\ UNCHANGED <<up, deadline>>
Refuse == ToClient("refuse", "refused", "closed") /\ UNCHANGED <<up, deadline>>

ClientFails ==
    /\ \/ at \in ClientReads /\ ReadFails("client")
       \/ at \in {"greet", "refuse", "answer", "fail"} /\ WriteFails("client")
    /\ Drop

-----------------------------------------------------------------------------
(* The upstream.                                                           *)

Forward ==
    /\ at = "forward"
    /\ target' \in Targets
    /\ IF cmd = "other" THEN at' = "fail" /\ deadline' = deadline
                        ELSE at' = "dialing" /\ CallWindow
    /\ UNCHANGED <<sent, peer, taken, cmd, up, told, asked, age>>

Connect ==
    /\ at = "dialing" /\ ~Expired("upstream")
    /\ at' = "hello" /\ up' = "open" /\ CallWindow
    /\ UNCHANGED <<sent, peer, taken, cmd, target, told, asked, age>>

Hello == ToUpstream("hello", "greeting", "greeting") /\ CallWindow
ReadGreeting == FromUpstream("greeting", "ask") /\ CallWindow /\ UNCHANGED up
Ask == target = "plain" /\ ToUpstream("ask", "request", "reply") /\ CallWindow
ReadReply == FromUpstream("reply", "bound") /\ CallWindow /\ UNCHANGED up
ReadBound == FromUpstream("bound", "boundPort") /\ CallWindow /\ UNCHANGED up
ReadBoundPort == FromUpstream("boundPort", "answer") /\ CallWindow /\ UNCHANGED up

\* A refusal, or an OSError: the upstream connection is closed, the client told.
UpstreamFails ==
    /\ \/ at \in {"greeting", "reply"} /\ Take("upstream")
       \/ /\ \/ at = "dialing"
             \/ at \in UpstreamReads /\ ReadFails("upstream")
             \/ at = "hello" /\ WriteFails("upstream")
             \/ at = "ask" /\ target = "plain" /\ WriteFails("upstream")
          /\ UNCHANGED <<sent, peer, taken, age>>
    /\ at' = "fail"
    /\ up' = IF up = "open" THEN "closed" ELSE up
    /\ UNCHANGED <<cmd, target, told, asked, deadline>>

\* host.encode("ascii") or bytes([len(hb)]) raises a ValueError.
Unencodable == at = "ask" /\ target # "plain" /\ Drop

\* So does the bound address, of an unsupported type or not ASCII.
BadBound ==
    /\ at \in {"reply", "bound"} /\ Take("upstream")
    /\ at' = "closed" /\ up' = "closed"
    /\ UNCHANGED <<cmd, target, told, asked, deadline>>

Answer == ToClient("answer", "ok", "relay") /\ UNCHANGED <<up, deadline>>
Fail == ToClient("fail", "fail", "closed") /\ UNCHANGED <<up, deadline>>

Serve ==
    \/ ReadVersion \/ ReadCount \/ ReadMethods \/ ReadRequest \/ ReadAddress \/ ReadPort
    \/ Greet \/ Refuse \/ ClientFails
    \/ Forward \/ Connect \/ Hello \/ ReadGreeting \/ Ask
    \/ ReadReply \/ ReadBound \/ ReadBoundPort \/ UpstreamFails
    \/ Unencodable \/ BadBound \/ Answer \/ Fail

=============================================================================
