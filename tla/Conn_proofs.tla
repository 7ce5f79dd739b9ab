---------------------------- MODULE Conn_proofs ----------------------------
(***************************************************************************)
(* What the three implementations promise of the handshake of a connection *)
(* holds for all lengths of their windows.  The inductive invariant says   *)
(* where in the two streams the code stands at each of its calls, what it  *)
(* has written by then, and how much of its windows is left.               *)
(***************************************************************************)
EXTENDS Conn, SequenceTheorems, TLAPS

Greeting == {"version", "count", "methods", "greet", "refuse"}
Requesting == {"request", "address", "port", "forward", "dialing"}
Asking == {"reply", "bound", "boundPort", "answer"}

Tellings == {<<>>, <<"method">>, <<"refused">>, <<"method", "ok">>, <<"method", "fail">>}
Askings == {<<>>, <<"greeting">>, <<"greeting", "request">>, <<"greeting", "garbled">>}
Asked == {<<"greeting", "request">>, <<"greeting", "garbled">>}

Typed ==
    /\ impl \in Impls
    /\ sent \in [Sides -> 0..7] /\ taken \in [Sides -> 0..7]
    /\ \A s \in Sides : taken[s] <= sent[s] /\ sent[s] <= Handshake[s] + 1
    /\ peer \in [Sides -> {"open", "eof", "gone"}]
    /\ at \in Places
    /\ cmd \in {"connect", "other"} /\ target \in Targets
    /\ up \in {"none", "open", "closed"}
    /\ told \in Tellings /\ asked \in Askings
    /\ deadline \in [Sides -> Int]
    /\ deadline["client"] \in NoDeadline..HandshakeTimeout
    /\ deadline["upstream"] \in NoDeadline..DialTimeout
    /\ age \in 0..MaxAge

\* What was written, and whether the upstream is connected, at each call.
Stage ==
    /\ at \in Greeting => told = <<>> /\ asked = <<>> /\ up = "none"
    /\ at \in Requesting => told = <<"method">> /\ asked = <<>> /\ up = "none"
    /\ at = "hello" => told = <<"method">> /\ asked = <<>> /\ up = "open"
    /\ at \in {"greeting", "ask"} => told = <<"method">> /\ asked = <<"greeting">> /\ up = "open"
    /\ at \in Asking => told = <<"method">> /\ asked \in Asked /\ up = "open"
    /\ at = "fail" => told = <<"method">> /\ up # "open"
    /\ at = "relay" => told = <<"method", "ok">> /\ asked \in Asked /\ up = "open"
    /\ at = "closed" => up # "open"
    /\ impl = "go" /\ target = "long" => up = "none" /\ at \notin UpstreamPhase \cup Asking

\* Where the code stands in the two streams.
Position ==
    /\ at = "version" => taken["client"] = 0
    /\ at = "count" => taken["client"] = 1
    /\ at = "methods" => taken["client"] = 2
    /\ at \in {"greet", "request"} => taken["client"] = 3
    /\ at = "refuse" => taken["client"] \in 2..3
    /\ at = "address" => taken["client"] = 4
    /\ at = "port" => taken["client"] = 5
    /\ at \in {"forward", "answer", "relay"} \cup UpstreamPhase => taken["client"] = 6
    /\ at \in Greeting \cup Requesting \cup {"hello", "greeting"} => taken["upstream"] = 0
    /\ at \in {"ask", "reply"} => taken["upstream"] = 1
    /\ at = "bound" => taken["upstream"] = 2
    /\ at = "boundPort" => taken["upstream"] = 3
    /\ at \in {"answer", "relay"} => taken["upstream"] = 4

\* What is left of the windows, and of the time the Go handshake may take.
Windows ==
    /\ impl # "go" => deadline["client"] = NoDeadline
    /\ impl = "go" /\ at \in Greeting \cup (Requesting \ {"dialing"}) =>
          deadline["client"] >= 0 /\ age + deadline["client"] <= HandshakeTimeout
    /\ at \in UpstreamPhase => deadline["upstream"] >= 0
    /\ impl = "go" /\ at \in UpstreamPhase =>
          age + deadline["upstream"] <= HandshakeTimeout + DialTimeout
    /\ impl = "go" /\ at \notin Over => age <= HandshakeTimeout + DialTimeout
    /\ impl # "python" /\ at \notin UpstreamPhase \cup {"closed"} => deadline["upstream"] = NoDeadline
    /\ at = "relay" => deadline["client"] = NoDeadline

\* The answer is written as soon as it is due, before its deadline.
Answering ==
    /\ at \in {"forward", "answer", "fail"} => deadline["client"] # 0
    /\ Answered

IInv == Typed /\ Stage /\ Position /\ Windows /\ Answering

-----------------------------------------------------------------------------

\* The second message written to a peer.
LEMMA AppendOne == ASSUME NEW a, NEW b PROVE Append(<<a>>, b) = <<a, b>>
<1> DEFINE S == {a, b}
<1>1. <<a>> \in Seq(S) /\ <<a, b>> \in Seq(S)
    OBVIOUS
<1>2. Append(<<a>>, b) \in Seq(S) /\ Len(Append(<<a>>, b)) = Len(<<a, b>>)
    BY <1>1
<1>3. \A i \in 1..Len(Append(<<a>>, b)) : Append(<<a>>, b)[i] = <<a, b>>[i]
    BY <1>1
<1> QED BY <1>1, <1>2, <1>3, SeqEqual

\* The accept.
LEMMA InitInv == ASSUME Init PROVE IInv
<1> USE TimeoutAssumption, ImplsAssumption DEF Sides, Handshake, NoDeadline, MaxAge, Places,
        ClientReads, UpstreamReads, UpstreamPhase, Over, Greeting, Requesting, Asking
<1>1. PICK w \in {HandshakeTimeout, NoDeadline} :
        /\ (impl = "go") <=> (w = HandshakeTimeout)
        /\ Accepted(w)
    BY DEF Init, Go!Init, Rust!Init, Py!Init, Go!Accepted, Rust!Accepted, Py!Accepted, Accepted,
           Go!Sides, Rust!Sides, Py!Sides, Go!NoDeadline, Rust!NoDeadline, Py!NoDeadline
<1>2. Typed
    BY <1>1 DEF Init, Typed, Accepted, Targets, Tellings, Askings
<1>3. Stage /\ Position /\ Windows /\ Answering
    BY <1>1, <1>2 DEF Init, Stage, Position, Windows, Answering, Answered, Accepted, Asked
<1> QED BY <1>2, <1>3 DEF IInv

\* A step of serveConn.
LEMMA GoServeInv ==
    ASSUME IInv, impl = "go", UNCHANGED impl, Go!Serve
    PROVE  IInv'
<1> USE TimeoutAssumption DEF IInv, Typed, Stage, Position, Windows, Answering, Answered, Sides, Handshake, NoDeadline,
        MaxAge, Places, ClientReads, UpstreamReads, UpstreamPhase, Over, Greeting, Requesting,
        Asking, Tellings, Askings, Asked, Targets, Go!Sides, Go!Handshake, Go!NoDeadline, Go!Targets, Go!ClientReads, Go!UpstreamReads,
        Go!Expired, Go!CanTake, Go!ReadFails, Go!WriteFails, Go!Take, Go!Write, Go!FromClient, Go!ToClient, Go!FromUpstream, Go!ToUpstream, Go!Drop
<1>1. CASE Go!ReadVersion
    BY <1>1 DEF Go!ReadVersion
<1>2. CASE Go!ReadCount
    BY <1>2 DEF Go!ReadCount
<1>3. CASE Go!ReadMethods
    BY <1>3 DEF Go!ReadMethods
<1>4. CASE Go!ReadRequest
    BY <1>4 DEF Go!ReadRequest
<1>5. CASE Go!ReadAddress
    BY <1>5 DEF Go!ReadAddress
<1>6. CASE Go!ReadPort
    BY <1>6 DEF Go!ReadPort
<1>7. CASE Go!Greet
    BY <1>7 DEF Go!Greet
<1>8. CASE Go!Refuse
    BY <1>8 DEF Go!Refuse
<1>9. CASE Go!ClientFails
    BY <1>9 DEF Go!ClientFails
<1>10. CASE Go!Forward
    BY <1>10 DEF Go!Forward, Go!Rearmed
<1>11. CASE Go!Connect
    BY <1>11 DEF Go!Connect
<1>12. CASE Go!Hello
    BY <1>12 DEF Go!Hello
<1>13. CASE Go!ReadGreeting
    BY <1>13 DEF Go!ReadGreeting
<1>14. CASE Go!Ask
    <2>1. asked = <<"greeting">> /\ asked' = Append(asked, "request")
        BY <1>14 DEF Go!Ask
    <2>2. asked' = <<"greeting", "request">>
        BY <2>1, AppendOne
    <2>3. asked' \in Asked
        BY <2>2
    <2>4. /\ at = "ask" /\ at' = "reply"
          /\ UNCHANGED <<sent, peer, taken, age, cmd, target, up, told>>
          /\ UNCHANGED deadline
        BY <1>14 DEF Go!Ask
    <2>5. ~(impl = "go" /\ target = "long")
        BY <2>4
    <2> QED BY <2>3, <2>4, <2>5
<1>15. CASE Go!ReadReply
    BY <1>15 DEF Go!ReadReply
<1>16. CASE Go!ReadBound
    BY <1>16 DEF Go!ReadBound
<1>17. CASE Go!ReadBoundPort
    BY <1>17 DEF Go!ReadBoundPort, Go!Rearmed
<1>18. CASE Go!UpstreamFails
    <2>1. /\ at \in UpstreamPhase /\ at' = "fail"
          /\ up' # "open" /\ (up = "none" => up' = "none") /\ up' \in {"none", "closed"}
          /\ UNCHANGED <<cmd, target, told, asked, impl, age, sent, peer>>
        BY <1>18 DEF Go!UpstreamFails, Go!Refusal, Go!Broken
    <2>2. deadline' = Go!Rearmed
        BY <1>18 DEF Go!UpstreamFails
    <2>3. /\ taken' \in [Sides -> 0..7]
          /\ \A s \in Sides : taken'[s] <= sent[s]
        <3>1. CASE Go!Refusal
            BY <3>1 DEF Go!Refusal
        <3>2. CASE Go!Broken
            BY <3>2 DEF Go!Broken
        <3> QED BY <1>18, <3>1, <3>2 DEF Go!UpstreamFails
    <2>4. Typed'
        BY <2>1, <2>2, <2>3 DEF Go!Rearmed
    <2>5. Stage' /\ Position'
        BY <2>1
    <2>6. Windows' /\ Answering'
        BY <2>1, <2>2 DEF Go!Rearmed
    <2> QED BY <2>4, <2>5, <2>6
<1>19. CASE Go!Answer
    <2>1. told = <<"method">> /\ told' = Append(told, "ok")
        BY <1>19 DEF Go!Answer
    <2>2. told' = <<"method", "ok">>
        BY <2>1, AppendOne
    <2>3. /\ at = "answer" /\ at' = "relay"
          /\ UNCHANGED <<sent, peer, taken, age, cmd, target, asked, up>>
          /\ deadline' = [s \in Sides |-> NoDeadline]
        BY <1>19 DEF Go!Answer
    <2> QED BY <2>2, <2>3
<1>20. CASE Go!Fail
    <2>1. told = <<"method">> /\ told' = Append(told, "fail")
        BY <1>20 DEF Go!Fail
    <2>2. told' = <<"method", "fail">>
        BY <2>1, AppendOne
    <2>3. /\ at = "fail" /\ at' = "closed"
          /\ UNCHANGED <<sent, peer, taken, age, cmd, target, asked, up>>
          /\ UNCHANGED deadline
        BY <1>20 DEF Go!Fail
    <2> QED BY <2>2, <2>3
<1>21. CASE Go!AnswerFails
    BY <1>21 DEF Go!AnswerFails
<1> QED BY <1>1, <1>2, <1>3, <1>4, <1>5, <1>6, <1>7, <1>8, <1>9, <1>10, <1>11, <1>12, <1>13, <1>14, <1>15, <1>16, <1>17, <1>18, <1>19, <1>20, <1>21 DEF Go!Serve

\* A step of serve_conn.
LEMMA RustServeInv ==
    ASSUME IInv, impl = "rust", UNCHANGED impl, Rust!Serve
    PROVE  IInv'
<1> USE TimeoutAssumption DEF IInv, Typed, Stage, Position, Windows, Answering, Answered, Sides, Handshake, NoDeadline,
        MaxAge, Places, ClientReads, UpstreamReads, UpstreamPhase, Over, Greeting, Requesting,
        Asking, Tellings, Askings, Asked, Targets, Rust!Sides, Rust!Handshake, Rust!NoDeadline, Rust!Targets, Rust!ClientReads, Rust!UpstreamReads,
        Rust!Expired, Rust!CanTake, Rust!ReadFails, Rust!WriteFails, Rust!Take, Rust!Write, Rust!FromClient, Rust!ToClient, Rust!FromUpstream, Rust!ToUpstream, Rust!Drop
<1>1. CASE Rust!ReadVersion
    BY <1>1 DEF Rust!ReadVersion
<1>2. CASE Rust!ReadCount
    BY <1>2 DEF Rust!ReadCount
<1>3. CASE Rust!ReadMethods
    BY <1>3 DEF Rust!ReadMethods
<1>4. CASE Rust!ReadRequest
    BY <1>4 DEF Rust!ReadRequest
<1>5. CASE Rust!ReadAddress
    BY <1>5 DEF Rust!ReadAddress
<1>6. CASE Rust!ReadPort
    BY <1>6 DEF Rust!ReadPort
<1>7. CASE Rust!Greet
    BY <1>7 DEF Rust!Greet
<1>8. CASE Rust!Refuse
    BY <1>8 DEF Rust!Refuse
<1>9. CASE Rust!ClientFails
    BY <1>9 DEF Rust!ClientFails
<1>10. CASE Rust!Forward
    BY <1>10 DEF Rust!Forward
<1>11. CASE Rust!Connect
    BY <1>11 DEF Rust!Connect
<1>12. CASE Rust!Hello
    BY <1>12 DEF Rust!Hello
<1>13. CASE Rust!ReadGreeting
    BY <1>13 DEF Rust!ReadGreeting
<1>14. CASE Rust!Ask
    <2>1. asked = <<"greeting">> /\ asked' = Append(asked, Rust!Encoded)
        BY <1>14 DEF Rust!Ask
    <2>2. asked' = <<"greeting", Rust!Encoded>>
        BY <2>1, AppendOne
    <2>3. asked' \in Asked
        BY <2>2 DEF Rust!Encoded
    <2>4. /\ at = "ask" /\ at' = "reply"
          /\ UNCHANGED <<sent, peer, taken, age, cmd, target, up, told>>
          /\ UNCHANGED deadline
        BY <1>14 DEF Rust!Ask
    <2>5. ~(impl = "go" /\ target = "long")
        BY <2>4
    <2> QED BY <2>3, <2>4, <2>5
<1>15. CASE Rust!ReadReply
    BY <1>15 DEF Rust!ReadReply
<1>16. CASE Rust!ReadBound
    BY <1>16 DEF Rust!ReadBound
<1>17. CASE Rust!ReadBoundPort
    BY <1>17 DEF Rust!ReadBoundPort, Rust!Unbounded
<1>18. CASE Rust!UpstreamFails
    BY <1>18 DEF Rust!UpstreamFails, Rust!Unbounded
<1>19. CASE Rust!Answer
    <2>1. told = <<"method">> /\ told' = Append(told, "ok")
        BY <1>19 DEF Rust!Answer
    <2>2. told' = <<"method", "ok">>
        BY <2>1, AppendOne
    <2>3. /\ at = "answer" /\ at' = "relay"
          /\ UNCHANGED <<sent, peer, taken, age, cmd, target, asked, up>>
          /\ UNCHANGED deadline
        BY <1>19 DEF Rust!Answer
    <2> QED BY <2>2, <2>3
<1>20. CASE Rust!Fail
    <2>1. told = <<"method">> /\ told' = Append(told, "fail")
        BY <1>20 DEF Rust!Fail
    <2>2. told' = <<"method", "fail">>
        BY <2>1, AppendOne
    <2>3. /\ at = "fail" /\ at' = "closed"
          /\ UNCHANGED <<sent, peer, taken, age, cmd, target, asked, up>>
          /\ UNCHANGED deadline
        BY <1>20 DEF Rust!Fail
    <2> QED BY <2>2, <2>3
<1> QED BY <1>1, <1>2, <1>3, <1>4, <1>5, <1>6, <1>7, <1>8, <1>9, <1>10, <1>11, <1>12, <1>13, <1>14, <1>15, <1>16, <1>17, <1>18, <1>19, <1>20 DEF Rust!Serve

\* A step of _handle_inner.
LEMMA PyServeInv ==
    ASSUME IInv, impl = "python", UNCHANGED impl, Py!Serve
    PROVE  IInv'
<1> USE TimeoutAssumption DEF IInv, Typed, Stage, Position, Windows, Answering, Answered, Sides, Handshake, NoDeadline,
        MaxAge, Places, ClientReads, UpstreamReads, UpstreamPhase, Over, Greeting, Requesting,
        Asking, Tellings, Askings, Asked, Targets, Py!Sides, Py!Handshake, Py!NoDeadline, Py!Targets, Py!ClientReads, Py!UpstreamReads,
        Py!Expired, Py!CanTake, Py!ReadFails, Py!WriteFails, Py!Take, Py!Write, Py!FromClient, Py!ToClient, Py!FromUpstream, Py!ToUpstream, Py!Drop
<1>1. CASE Py!ReadVersion
    BY <1>1 DEF Py!ReadVersion
<1>2. CASE Py!ReadCount
    BY <1>2 DEF Py!ReadCount
<1>3. CASE Py!ReadMethods
    BY <1>3 DEF Py!ReadMethods
<1>4. CASE Py!ReadRequest
    BY <1>4 DEF Py!ReadRequest
<1>5. CASE Py!ReadAddress
    BY <1>5 DEF Py!ReadAddress
<1>6. CASE Py!ReadPort
    BY <1>6 DEF Py!ReadPort
<1>7. CASE Py!Greet
    BY <1>7 DEF Py!Greet
<1>8. CASE Py!Refuse
    BY <1>8 DEF Py!Refuse
<1>9. CASE Py!ClientFails
    BY <1>9 DEF Py!ClientFails
<1>10. CASE Py!Forward
    BY <1>10 DEF Py!Forward, Py!CallWindow
<1>11. CASE Py!Connect
    BY <1>11 DEF Py!Connect, Py!CallWindow
<1>12. CASE Py!Hello
    BY <1>12 DEF Py!Hello, Py!CallWindow
<1>13. CASE Py!ReadGreeting
    BY <1>13 DEF Py!ReadGreeting, Py!CallWindow
<1>14. CASE Py!Ask
    <2>1. asked = <<"greeting">> /\ asked' = Append(asked, "request")
        BY <1>14 DEF Py!Ask
    <2>2. asked' = <<"greeting", "request">>
        BY <2>1, AppendOne
    <2>3. asked' \in Asked
        BY <2>2
    <2>4. /\ at = "ask" /\ at' = "reply"
          /\ UNCHANGED <<sent, peer, taken, age, cmd, target, up, told>>
          /\ deadline' = [deadline EXCEPT !["upstream"] = DialTimeout]
        BY <1>14 DEF Py!Ask, Py!CallWindow
    <2>5. ~(impl = "go" /\ target = "long")
        BY <2>4
    <2> QED BY <2>3, <2>4, <2>5
<1>15. CASE Py!ReadReply
    BY <1>15 DEF Py!ReadReply, Py!CallWindow
<1>16. CASE Py!ReadBound
    BY <1>16 DEF Py!ReadBound, Py!CallWindow
<1>17. CASE Py!ReadBoundPort
    BY <1>17 DEF Py!ReadBoundPort, Py!CallWindow
<1>18. CASE Py!UpstreamFails
    BY <1>18 DEF Py!UpstreamFails
<1>19. CASE Py!Unencodable
    BY <1>19 DEF Py!Unencodable
<1>20. CASE Py!BadBound
    BY <1>20 DEF Py!BadBound
<1>21. CASE Py!Answer
    <2>1. told = <<"method">> /\ told' = Append(told, "ok")
        BY <1>21 DEF Py!Answer
    <2>2. told' = <<"method", "ok">>
        BY <2>1, AppendOne
    <2>3. /\ at = "answer" /\ at' = "relay"
          /\ UNCHANGED <<sent, peer, taken, age, cmd, target, asked, up>>
          /\ UNCHANGED deadline
        BY <1>21 DEF Py!Answer
    <2> QED BY <2>2, <2>3
<1>22. CASE Py!Fail
    <2>1. told = <<"method">> /\ told' = Append(told, "fail")
        BY <1>22 DEF Py!Fail
    <2>2. told' = <<"method", "fail">>
        BY <2>1, AppendOne
    <2>3. /\ at = "fail" /\ at' = "closed"
          /\ UNCHANGED <<sent, peer, taken, age, cmd, target, asked, up>>
          /\ UNCHANGED deadline
        BY <1>22 DEF Py!Fail
    <2> QED BY <2>2, <2>3
<1> QED BY <1>1, <1>2, <1>3, <1>4, <1>5, <1>6, <1>7, <1>8, <1>9, <1>10, <1>11, <1>12, <1>13, <1>14, <1>15, <1>16, <1>17, <1>18, <1>19, <1>20, <1>21, <1>22 DEF Py!Serve

\* A step of a peer.
LEMMA PeersInv ==
    ASSUME IInv, Peers, UNCHANGED impl
    PROVE  IInv'
<1> USE TimeoutAssumption, ImplsAssumption DEF IInv, Sides, Handshake, NoDeadline, MaxAge
<1>1. PICK s \in Sides : PeerSends(s) \/ PeerEnds(s) \/ PeerAborts(s)
    BY DEF Peers
<1>2. /\ UNCHANGED <<taken, at, cmd, target, up, told, asked, deadline, age, impl>>
      /\ at \notin Over
    BY DEF Peers
<1>3. Typed'
    <2>1. CASE PeerSends(s)
        BY <1>2, <2>1 DEF PeerSends, Typed
    <2>2. CASE PeerEnds(s)
        BY <1>2, <2>2 DEF PeerEnds, Typed
    <2>3. CASE PeerAborts(s)
        BY <1>2, <2>3 DEF PeerAborts, Typed
    <2> QED BY <1>1, <2>1, <2>2, <2>3
<1>4. Stage' /\ Position' /\ Windows'
    BY <1>2 DEF Stage, Position, Windows
<1>5. Answering'
    BY <1>2 DEF Answering, Answered, Over
<1> QED BY <1>3, <1>4, <1>5

\* An instant: the code waits for the client or for the upstream, and its windows
\* shrink by as much as its age grows.
LEMMA TickInv ==
    ASSUME IInv, Tick, UNCHANGED impl
    PROVE  IInv'
<1> USE TimeoutAssumption, ImplsAssumption DEF IInv, Sides, Handshake, NoDeadline, MaxAge,
        Greeting, Requesting, Asking, ClientReads, UpstreamReads, UpstreamPhase, Over
<1>1. /\ UNCHANGED <<sent, peer, taken, at, cmd, target, up, told, asked, impl>>
      /\ deadline' = [s \in Sides |-> IF deadline[s] > 0 THEN deadline[s] - 1 ELSE deadline[s]]
      /\ age' = IF age < MaxAge THEN age + 1 ELSE age
    BY DEF Tick
<1>2. \/ at \in ClientReads /\ deadline["client"] # 0
      \/ at \in UpstreamPhase /\ deadline["upstream"] # 0
    BY DEF Tick, Waits, Expired
<1>3. Typed'
    BY <1>1 DEF Typed
<1>4. Stage' /\ Position'
    BY <1>1 DEF Stage, Position
<1>5. Windows'
    BY <1>1, <1>2 DEF Typed, Windows
<1>6. Answering'
    BY <1>1, <1>2 DEF Answering, Answered
<1> QED BY <1>3, <1>4, <1>5, <1>6

\* The inductive invariant holds.
THEOREM Invariant == Spec => []IInv
<1>1. Init => IInv
    BY InitInv
<1>2. IInv /\ [Next]_vars => IInv'
    <2> SUFFICES ASSUME IInv, [Next]_vars PROVE IInv'
        OBVIOUS
    <2>1. CASE Serve
        BY <2>1, GoServeInv, RustServeInv, PyServeInv DEF Serve
    <2>2. CASE Peers /\ UNCHANGED impl
        BY <2>2, PeersInv
    <2>3. CASE Tick /\ UNCHANGED impl
        BY <2>3, TickInv
    <2>4. CASE UNCHANGED vars
        BY <2>4 DEF vars, IInv, Typed, Stage, Position, Windows, Answering, Answered
    <2> QED BY <2>1, <2>2, <2>3, <2>4 DEF Next
<1> QED BY <1>1, <1>2, PTL DEF Spec

-----------------------------------------------------------------------------
(* What follows from it.                                                   *)

\* Every variable keeps its type, and each side is written to at most twice
\* (go/proxy.go, serveConn, and its counterparts).
THEOREM TypeCorrect == Spec => []TypeOK
<1> DEFINE Told == {"method", "refused", "ok", "fail"}
           Requests == {"greeting", "request", "garbled"}
<1>1. ASSUME NEW t \in Tellings PROVE t \in Seq(Told) /\ Len(t) <= 2
    <2>1. <<>> \in Seq(Told) /\ Len(<<>>) <= 2
        OBVIOUS
    <2>2. \A a \in Told : <<a>> \in Seq(Told) /\ Len(<<a>>) <= 2
        OBVIOUS
    <2>3. \A a, b \in Told : <<a, b>> \in Seq(Told) /\ Len(<<a, b>>) <= 2
        OBVIOUS
    <2> QED BY <2>1, <2>2, <2>3 DEF Tellings
<1>2. ASSUME NEW a \in Askings PROVE a \in Seq(Requests) /\ Len(a) <= 2
    <2>1. <<>> \in Seq(Requests) /\ Len(<<>>) <= 2
        OBVIOUS
    <2>2. <<"greeting">> \in Seq(Requests) /\ Len(<<"greeting">>) <= 2
        OBVIOUS
    <2>3. \A m \in Requests : <<"greeting", m>> \in Seq(Requests) /\ Len(<<"greeting", m>>) <= 2
        OBVIOUS
    <2> QED BY <2>1, <2>2, <2>3 DEF Askings
<1>3. IInv => TypeOK
    BY <1>1, <1>2 DEF IInv, Typed, TypeOK, ConnTypeOK
<1> QED BY <1>3, Invariant, PTL

\* The Go handshake ends within its two windows, whatever their lengths and
\* however the peers spread what they send (go/proxy.go, handshakeTimeout).
THEOREM GoHandshakeBounded == Spec => []GoBounded
<1>1. IInv => GoBounded
    BY DEF IInv, Windows, GoBounded
<1> QED BY <1>1, Invariant, PTL

\* Nothing but the client's own abort keeps the answer from a client that sent
\* its whole request to the Go or the Rust proxy (go/proxy.go, serveConn).
THEOREM AnswersAll == Spec => []Answered
<1>1. IInv => Answered
    BY DEF IInv, Answering
<1> QED BY <1>1, Invariant, PTL

\* The relay starts exactly behind the handshake of both peers, with no deadline
\* left that could end it but Python's (go/proxy.go, serveConn, before relay).
THEOREM HandoverIsClean == Spec => []HandsOverClean
<1>1. Len(<<"greeting", "request">>) = 2 /\ Len(<<"greeting", "garbled">>) = 2
    OBVIOUS
<1>2. ASSUME IInv, at = "relay" PROVE taken = Handshake
    BY <1>2 DEF IInv, Typed, Position, Handshake, Sides
<1>3. ASSUME IInv, at = "relay"
      PROVE  up = "open" /\ told = <<"method", "ok">> /\ Len(asked) = 2
    BY <1>1, <1>3 DEF IInv, Stage, Asked
<1>4. ASSUME IInv, at = "relay"
      PROVE  deadline["client"] = NoDeadline /\ (impl = "python" \/ deadline["upstream"] = NoDeadline)
    BY <1>4 DEF IInv, Windows, UpstreamPhase, UpstreamReads
<1>5. IInv => HandsOverClean
    BY <1>2, <1>3, <1>4 DEF HandsOverClean
<1> QED BY <1>5, Invariant, PTL

\* No way out of the handshake leaves the upstream connection open
\* (the closes of dialUpstream and _upstream_connect, the drop in upstream_connect).
THEOREM ReleasesUpstream == Spec => []UpstreamReleased
<1>1. IInv => UpstreamReleased
    BY DEF IInv, Stage, UpstreamReleased
<1> QED BY <1>1, Invariant, PTL

\* The Go proxy does not even connect for an over-long domain
\* (go/proxy.go, dialUpstream and socksConnectRequest).
THEOREM OverlongStays == Spec => []GoOverlongStays
<1>1. IInv => GoOverlongStays
    BY DEF IInv, Stage, GoOverlongStays
<1> QED BY <1>1, Invariant, PTL


-----------------------------------------------------------------------------
(* That a handshake Ends takes fairness; the rest of it does not: nothing  *)
(* but a client of Rust or Python is waited for without a deadline, and    *)
(* what a handshake can still take is bounded by where it is.              *)

\* The call the code is in returns without another step of a peer.
Returns ==
    \/ at \in {"greet", "refuse", "forward", "hello", "ask", "answer", "fail"}
    \/ at \in ClientReads /\ (CanTake("client") \/ ReadFails("client"))
    \/ at \in UpstreamReads /\ (CanTake("upstream") \/ ReadFails("upstream"))
    \/ at = "dialing" /\ Expired("upstream")

\* Or time passes until it does.
RunsDown(s) == Waits(s) /\ deadline[s] > 0

NeverStuck ==
    at \notin Over => Returns \/ (\E s \in Sides : RunsDown(s)) \/ (impl # "go" /\ at \in ClientReads)

\* What is left: calls until the handshake is over, and instants of waiting.
CallsLeft ==
    CASE at = "version" -> 17
      [] at = "count" -> 16
      [] at = "methods" -> 15
      [] at \in {"greet", "refuse"} -> 14
      [] at = "request" -> 13
      [] at = "address" -> 12
      [] at = "port" -> 11
      [] at = "forward" -> 10
      [] at = "dialing" -> 9
      [] at = "hello" -> 8
      [] at = "greeting" -> 7
      [] at = "ask" -> 6
      [] at = "reply" -> 5
      [] at = "bound" -> 4
      [] at = "boundPort" -> 3
      [] at \in {"answer", "fail"} -> 2
      [] at \in Over -> 1
TimeLeft == (deadline["client"] + 1) + (deadline["upstream"] + 1) + (MaxAge - age)

Measured == CallsLeft \in Nat /\ TimeLeft \in Nat

Closer ==
    \/ CallsLeft' < CallsLeft
    \/ CallsLeft' = CallsLeft /\ TimeLeft' < TimeLeft

ByPeers == Peers /\ UNCHANGED <<CallsLeft, TimeLeft>>

\* Every wait for a peer has an end, but those of Rust and Python for the client: what
\* the code waits for the upstream is bounded wherever it is (go/proxy.go, serveConn;
\* rust/src/proxy.rs, serve_conn; tailcat_socks.py, _handle_inner).
THEOREM HandshakeNeverStuck == Spec => []NeverStuck
<1>1. IInv => NeverStuck
    <2> SUFFICES ASSUME IInv, at \notin Over, ~Returns
                 PROVE  (\E s \in Sides : RunsDown(s)) \/ (impl # "go" /\ at \in ClientReads)
        BY DEF NeverStuck
    <2>1. \A s \in Sides : deadline[s] \in Int
        BY DEF IInv, Typed
    <2>2. at \in ClientReads \cup UpstreamReads \cup {"dialing"}
        BY DEF IInv, Typed, Places, UpstreamPhase, Returns
    <2>3. CASE at \in ClientReads /\ impl = "go"
        <3>1. ~CanTake("client") /\ ~ReadFails("client")
            BY <2>3 DEF Returns
        <3>2. deadline["client"] >= 0
            BY <2>3 DEF IInv, Windows, Greeting, Requesting, ClientReads
        <3>3. deadline["client"] > 0
            BY <2>1, <3>1, <3>2 DEF ReadFails, Expired, Sides
        <3> QED BY <2>3, <3>1, <3>3 DEF RunsDown, Waits, Expired, ReadFails, Sides
    <2>4. CASE at \in UpstreamReads \cup {"dialing"}
        <3>1. at = "dialing" \/ (at \in UpstreamReads /\ ~CanTake("upstream") /\ ~ReadFails("upstream"))
            BY <2>4 DEF Returns
        <3>2. ~Expired("upstream")
            BY <2>4, <3>1 DEF Returns, ReadFails
        <3>3. deadline["upstream"] >= 0
            BY <2>4 DEF IInv, Windows, UpstreamPhase
        <3>4. deadline["upstream"] > 0
            BY <2>1, <3>2, <3>3 DEF Expired, Sides
        <3> QED BY <3>1, <3>2, <3>4 DEF RunsDown, Waits, Sides
    <2> QED BY <2>2, <2>3, <2>4
<1> QED BY <1>1, Invariant, PTL

LEMMA InMeasure == ASSUME Typed PROVE Measured
<1>1. CallsLeft \in Nat
    BY DEF Typed, CallsLeft, Places, ClientReads, UpstreamReads, UpstreamPhase, Over
<1>2. TimeLeft \in Nat
    BY TimeoutAssumption DEF Typed, TimeLeft, MaxAge, NoDeadline
<1> QED BY <1>1, <1>2 DEF Measured

\* Every call of the code is one less to make.
LEMMA ServeCloser == ASSUME Serve PROVE CallsLeft' < CallsLeft
<1> USE DEF CallsLeft, Over
<1>1. CASE Go!Serve
    <2> USE DEF Go!FromClient, Go!ToClient, Go!FromUpstream, Go!ToUpstream, Go!Drop, Go!ClientReads, Go!UpstreamReads
    <2>1. CASE Go!ReadVersion \/ Go!ReadCount \/ Go!ReadMethods \/ Go!ReadRequest \/ Go!ReadAddress \/ Go!ReadPort
        BY <2>1 DEF Go!ReadVersion, Go!ReadCount, Go!ReadMethods, Go!ReadRequest, Go!ReadAddress, Go!ReadPort
    <2>2. CASE Go!Greet \/ Go!Refuse \/ Go!ClientFails \/ Go!Forward \/ Go!Connect \/ Go!Hello
        BY <2>2 DEF Go!Greet, Go!Refuse, Go!ClientFails, Go!Forward, Go!Connect, Go!Hello
    <2>3. CASE Go!ReadGreeting \/ Go!Ask \/ Go!ReadReply \/ Go!ReadBound \/ Go!ReadBoundPort
        BY <2>3 DEF Go!ReadGreeting, Go!Ask, Go!ReadReply, Go!ReadBound, Go!ReadBoundPort
    <2>4. CASE Go!UpstreamFails \/ Go!Answer \/ Go!Fail \/ Go!AnswerFails
        BY <2>4 DEF Go!UpstreamFails, Go!Refusal, Go!Broken, Go!Answer, Go!Fail, Go!AnswerFails
    <2> QED BY <1>1, <2>1, <2>2, <2>3, <2>4 DEF Go!Serve
<1>2. CASE Rust!Serve
    <2> USE DEF Rust!FromClient, Rust!ToClient, Rust!FromUpstream, Rust!ToUpstream, Rust!Drop,
            Rust!ClientReads, Rust!UpstreamReads
    <2>1. CASE \/ Rust!ReadVersion \/ Rust!ReadCount \/ Rust!ReadMethods
               \/ Rust!ReadRequest \/ Rust!ReadAddress \/ Rust!ReadPort
        BY <2>1 DEF Rust!ReadVersion, Rust!ReadCount, Rust!ReadMethods, Rust!ReadRequest, Rust!ReadAddress, Rust!ReadPort
    <2>2. CASE Rust!Greet \/ Rust!Refuse \/ Rust!ClientFails \/ Rust!Forward \/ Rust!Connect \/ Rust!Hello
        BY <2>2 DEF Rust!Greet, Rust!Refuse, Rust!ClientFails, Rust!Forward, Rust!Connect, Rust!Hello
    <2>3. CASE Rust!ReadGreeting \/ Rust!Ask \/ Rust!ReadReply \/ Rust!ReadBound \/ Rust!ReadBoundPort
        BY <2>3 DEF Rust!ReadGreeting, Rust!Ask, Rust!ReadReply, Rust!ReadBound, Rust!ReadBoundPort
    <2>4. CASE Rust!UpstreamFails \/ Rust!Answer \/ Rust!Fail
        BY <2>4 DEF Rust!UpstreamFails, Rust!Answer, Rust!Fail
    <2> QED BY <1>2, <2>1, <2>2, <2>3, <2>4 DEF Rust!Serve
<1>3. CASE Py!Serve
    <2> USE DEF Py!FromClient, Py!ToClient, Py!FromUpstream, Py!ToUpstream, Py!Drop, Py!ClientReads, Py!UpstreamReads
    <2>1. CASE Py!ReadVersion \/ Py!ReadCount \/ Py!ReadMethods \/ Py!ReadRequest \/ Py!ReadAddress \/ Py!ReadPort
        BY <2>1 DEF Py!ReadVersion, Py!ReadCount, Py!ReadMethods, Py!ReadRequest, Py!ReadAddress, Py!ReadPort
    <2>2. CASE Py!Greet \/ Py!Refuse \/ Py!ClientFails \/ Py!Forward \/ Py!Connect \/ Py!Hello
        BY <2>2 DEF Py!Greet, Py!Refuse, Py!ClientFails, Py!Forward, Py!Connect, Py!Hello
    <2>3. CASE Py!ReadGreeting \/ Py!Ask \/ Py!ReadReply \/ Py!ReadBound \/ Py!ReadBoundPort
        BY <2>3 DEF Py!ReadGreeting, Py!Ask, Py!ReadReply, Py!ReadBound, Py!ReadBoundPort
    <2>4. CASE Py!UpstreamFails \/ Py!Unencodable \/ Py!BadBound \/ Py!Answer \/ Py!Fail
        BY <2>4 DEF Py!UpstreamFails, Py!Unencodable, Py!BadBound, Py!Answer, Py!Fail
    <2> QED BY <1>3, <2>1, <2>2, <2>3, <2>4 DEF Py!Serve
<1> QED BY <1>1, <1>2, <1>3 DEF Serve

\* No handshake goes on for ever but by waiting for ever, and no peer makes it longer:
\* a place is never come back to, and a wait spends a window or the age of the handshake.
THEOREM StepsRunOut == Spec => []Measured /\ [][Closer \/ ByPeers]_vars
<1>1. IInv => Measured
    BY InMeasure DEF IInv
<1>2. IInv /\ [Next]_vars => [Closer \/ ByPeers]_vars
    <2> SUFFICES ASSUME IInv, Next, ~UNCHANGED vars PROVE Closer \/ ByPeers
        OBVIOUS
    <2>1. CASE Serve
        BY <2>1, ServeCloser DEF Closer
    <2>2. CASE Peers /\ UNCHANGED impl
        <3>1. UNCHANGED <<at, deadline, age>>
            BY <2>2 DEF Peers
        <3> QED BY <2>2, <3>1 DEF ByPeers, CallsLeft, TimeLeft
    <2>3. CASE Tick /\ UNCHANGED impl
        <3>1. /\ UNCHANGED <<sent, peer, taken, at, cmd, target, up, told, asked, impl>>
              /\ deadline' = [s \in Sides |-> IF deadline[s] > 0 THEN deadline[s] - 1 ELSE deadline[s]]
              /\ age' = IF age < MaxAge THEN age + 1 ELSE age
            BY <2>3 DEF Tick
        <3>2. deadline \in [Sides -> Int] /\ age \in 0..MaxAge /\ MaxAge \in Nat
            BY TimeoutAssumption DEF IInv, Typed, MaxAge
        <3>3. \A s \in Sides : deadline'[s] = deadline[s] \/ deadline'[s] = deadline[s] - 1
            BY <3>1, <3>2
        <3>4. age' = age \/ (age < MaxAge /\ age' = age + 1)
            BY <3>1
        <3>5. age' # age \/ \E s \in Sides : deadline'[s] # deadline[s]
            BY <3>1, <3>2 DEF vars
        <3>6. TimeLeft' < TimeLeft
            BY <3>2, <3>3, <3>4, <3>5 DEF TimeLeft, Sides
        <3> QED BY <3>1, <3>6 DEF Closer, CallsLeft
    <2> QED BY <2>1, <2>2, <2>3 DEF Next
<1> QED BY <1>1, <1>2, Invariant, PTL DEF Spec

=============================================================================
