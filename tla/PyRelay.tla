------------------------------ MODULE PyRelay ------------------------------
(***************************************************************************)
(* _relay() of python/tailcat_socks.py and the closes of its callers: one  *)
(* thread that selects on both sockets for the idle window, then serves    *)
(* the readable ones in turn.  The upstream socket still carries the 15s   *)
(* timeout create_connection gave it; the client socket has none.  A step  *)
(* is one system call of the thread.                                       *)
(***************************************************************************)
EXTENDS TcpLegs, Sequences

CONSTANTS
    Idle,       \* ticks of the select timeout
    SendTimeout \* ticks of the upstream socket's timeout

VARIABLES
    at,         \* the call the thread is in
    ready,      \* sides select returned that are not served yet; the head is served
    timeout,    \* ticks until the timeout of that call; 0 also where there is none
    why,        \* history: why the thread left the loop
    silent      \* history: ticks a timeout was running since bytes were last read

pyVars == <<at, ready, timeout, why, silent>>

TypeOK ==
    /\ LegsTypeOK
    /\ at \in {"select", "recv", "send", "shutClient", "shutUpstream",
               "closeUpstream", "closeClient", "closed"}
    /\ ready \in {<<>>, <<"client">>, <<"upstream">>, <<"client", "upstream">>}
    /\ at \in {"recv", "send"} => ready # <<>>
    /\ timeout \in 0..(Idle + SendTimeout)
    /\ why \in {"", "end", "idle", "stalled", "error"}
    /\ silent \in 0..Idle

Init ==
    /\ LegsInit
    /\ at = "select" /\ ready = <<>> /\ timeout = Idle /\ why = "" /\ silent = 0

-----------------------------------------------------------------------------

Goto(where) == at' = where /\ ready' = <<>> /\ timeout' = 0
Leave(where, reason) == Goto(where) /\ why' = reason /\ UNCHANGED silent

\* Faulty variant: select watches the client socket only.
ClientReadable(s) == s = "client" /\ (DataReady(s) \/ EofReady(s) \/ ErrReady(s))

\* select(fds, [], [], 300)
Readable(s) == DataReady(s) \/ EofReady(s) \/ ErrReady(s)

Select ==
    /\ at = "select" /\ \E s \in Sides : Readable(s)
    /\ at' = "recv" /\ timeout' = 0
    /\ ready' = (IF Readable("client") THEN <<"client">> ELSE <<>>)
                  \o (IF Readable("upstream") THEN <<"upstream">> ELSE <<>>)
    /\ UNCHANGED <<legVars, why, silent>>

SelectTimeout ==
    /\ at = "select" /\ timeout = 0 /\ \A s \in Sides : ~Readable(s)
    /\ Leave("closeUpstream", "idle") /\ UNCHANGED legVars

\* recv: bytes to send to the other side, within its timeout if it has one, ...
Recv ==
    /\ at = "recv" /\ Take(Head(ready))
    /\ at' = "send" /\ silent' = 0
    /\ timeout' = IF Other(Head(ready)) = "upstream" THEN SendTimeout ELSE 0
    /\ UNCHANGED <<ready, why>>

\* ... or the end or an error of this side, which shuts down both.
RecvEnd ==
    /\ at = "recv" /\ (EofReady(Head(ready)) \/ ErrReady(Head(ready)))
    /\ Leave("shutClient", "end") /\ UNCHANGED legVars

\* Faulty variants: send in the place of sendall; one recv more after the last
\* readable socket.
SendOnce ==
    /\ at = "send" /\ Put(Head(ready))
    /\ ready' = Tail(ready)
    /\ at' = IF Tail(ready) = <<>> THEN "select" ELSE "recv"
    /\ timeout' = IF Tail(ready) = <<>> THEN Idle ELSE 0
    /\ UNCHANGED <<why, silent>>

SendThenRecv ==
    /\ at = "send" /\ Put(Head(ready))
    /\ ready' = Tail(ready) /\ at' = "recv" /\ timeout' = 0
    /\ UNCHANGED <<why, silent>>

\* sendall: all of the chunk, then the next readable socket or the next select.
Send ==
    /\ at = "send" /\ Put(Head(ready))
    /\ IF put'[Head(ready)] < taken[Head(ready)]
         THEN UNCHANGED pyVars
         ELSE /\ ready' = Tail(ready)
              /\ at' = IF Tail(ready) = <<>> THEN "select" ELSE "recv"
              /\ timeout' = IF Tail(ready) = <<>> THEN Idle ELSE 0
              /\ UNCHANGED <<why, silent>>

\* Faulty variant: settimeout(None) after the handshake.
SendNeverTimesOut == FALSE

SendTimesOut == Other(Head(ready)) = "upstream" /\ timeout = 0

\* Faulty variant: a non-blocking socket, for which a full send queue is an error.
SendWouldBlock ==
    /\ at = "send" /\ (WriteFails(Other(Head(ready))) \/ Room(Other(Head(ready))) = 0)
    /\ Leave("closeUpstream", "error")
    /\ UNCHANGED legVars

\* return without a shutdown: the upstream is gone, or did not take all of the chunk
\* within the timeout of its socket, however much of it it took.
SendError ==
    /\ at = "send"
    /\ \/ WriteFails(Other(Head(ready))) /\ Leave("closeUpstream", "error")
       \/ SendTimesOut /\ Leave("closeUpstream", "stalled")
    /\ UNCHANGED legVars

\* shutdown(SHUT_RDWR)
ShutBoth(s) ==
    /\ fin' = [fin EXCEPT ![s] = TRUE]
    /\ shut' = [shut EXCEPT ![s] = TRUE]
    /\ UNCHANGED <<peerVars, taken, put, closed, reset>>

ShutClient == at = "shutClient" /\ Goto("shutUpstream") /\ UNCHANGED <<why, silent>> /\ ShutBoth("client")
ShutUpstream == at = "shutUpstream" /\ Goto("closeUpstream") /\ UNCHANGED <<why, silent>> /\ ShutBoth("upstream")

\* up.close() of _handle_inner, client.close() of _handle
CloseUpstream == at = "closeUpstream" /\ Goto("closeClient") /\ UNCHANGED <<why, silent>> /\ CloseLeg("upstream")
CloseClient == at = "closeClient" /\ Goto("closed") /\ UNCHANGED <<why, silent>> /\ CloseLeg("client")

Thread ==
    \/ Select \/ SelectTimeout \/ Recv \/ RecvEnd \/ Send \/ SendError
    \/ ShutClient \/ ShutUpstream \/ CloseUpstream \/ CloseClient

Tick ==
    /\ timeout > 0 /\ timeout' = timeout - 1
    /\ silent' = IF silent < Idle THEN silent + 1 ELSE silent
    /\ UNCHANGED <<legVars, at, ready, why>>

=============================================================================
