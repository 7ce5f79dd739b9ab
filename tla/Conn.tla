-------------------------------- MODULE Conn --------------------------------
(***************************************************************************)
(* A connection served by any one of the three implementations, and what   *)
(* they promise of its handshake: "three implementations that behave       *)
(* alike" (README.md:7), with the differences named in the properties.     *)
(***************************************************************************)
EXTENDS SocksPeers

CONSTANT Impls      \* the implementations a run looks at
ASSUME ImplsAssumption == Impls \subseteq {"go", "rust", "python"}

VARIABLE impl       \* the one that serves this connection

vars == <<sent, peer, taken, at, cmd, target, up, told, asked, deadline, age, impl>>

Go == INSTANCE GoConn
Rust == INSTANCE RustConn
Py == INSTANCE PyConn

Init ==
    /\ impl \in Impls
    /\ \/ impl = "go" /\ Go!Init
       \/ impl = "rust" /\ Rust!Init
       \/ impl = "python" /\ Py!Init

Serve ==
    /\ UNCHANGED impl
    /\ \/ impl = "go" /\ Go!Serve
       \/ impl = "rust" /\ Rust!Serve
       \/ impl = "python" /\ Py!Serve

Next == Serve \/ ((Peers \/ Tick) /\ UNCHANGED impl)

\* Goroutines, tasks and threads run, and time passes; the peers owe nothing.
\* No step changes impl, so the fairness is that of the connection's state.
Spec == Init /\ [][Next]_vars
FairSpec == Spec /\ WF_connVars(Serve) /\ WF_connVars(Tick)

-----------------------------------------------------------------------------
(* Properties.                                                             *)

TypeOK == ConnTypeOK /\ impl \in Impls

\* "A silent or stalled client cannot pin a goroutine and fd forever", and neither
\* can the upstream (go/proxy.go, handshakeTimeout): the Go handshake takes at most
\* the client's window and the upstream's, however the peers spread their pieces.
GoBounded ==
    impl = "go" /\ at \notin Over => age <= HandshakeTimeout + DialTimeout

\* Every connection is relayed or closed, and time is never stuck; without a window
\* on the client, Rust and Python can wait for it for ever, and for nothing else.
Ends == <>(at \in Over) \/ <>[](impl # "go" /\ at \in ClientReads)

\* A client that sent its whole request and did not abort gets an answer: no slow
\* dial eats the window of the reply (go/proxy.go, serveConn).  Python drops some.
Answered ==
    /\ at = "closed" /\ impl # "python"
    /\ taken["client"] = Handshake["client"] /\ peer["client"] # "gone"
    => told = <<"method", "fail">>

\* The relay starts on connections that stand exactly behind the handshake, of both
\* peers, after both replies, with the upstream asked once, and no deadline that
\* could end it: Python alone leaves one on the upstream socket.
HandsOverClean ==
    at = "relay" =>
        /\ taken = Handshake /\ up = "open"
        /\ told = <<"method", "ok">> /\ Len(asked) = 2
        /\ deadline["client"] = NoDeadline
        /\ impl = "python" \/ deadline["upstream"] = NoDeadline

\* No way out of the handshake leaves the upstream connection open.
UpstreamReleased == at = "closed" => up # "open"

\* "An over-long domain is rejected without a single byte leaving here"
\* (go/proxy.go, dialUpstream).
GoOverlongStays == impl = "go" /\ target = "long" => up = "none"

\* Rust ">255 truncates exactly like Go's byte(len(host))" (rust/src/proxy.rs:201):
\* like in Go, no request leaves for a host that has no encoding.
OverlongNeverAsked == target = "long" => Len(asked) < 2

=============================================================================
