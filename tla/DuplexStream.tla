---------------------------- MODULE DuplexStream ----------------------------
(***************************************************************************)
(* What a relay promises to the two peers it joins, without sockets,       *)
(* buffers, goroutines or timers: each direction is a byte stream whose    *)
(* receiver reads a prefix of what was sent; it is shown the end of the    *)
(* stream only after the last byte of a stream its sender ended, unless    *)
(* the session is being torn down; and a session is torn down only for a   *)
(* reason.  The implementations differ in their reasons: whether one ended *)
(* stream is one (EitherEndTears), and whether `stalled' is ever set.      *)
(***************************************************************************)
EXTENDS Naturals

CONSTANTS
    Streams,        \* the directions, named after their senders
    EitherEndTears  \* TRUE: one ended stream is a reason to tear down both

VARIABLES
    sent,       \* bytes sent into each stream
    over,       \* the sender ended its stream
    gone,       \* the sender aborted
    got,        \* bytes received out of each stream
    eof,        \* the receiver can see the end of the stream
    idle,       \* the idle window of the session ran out
    stalled,    \* a receiver was given up on that did not take its bytes in time
    torn        \* the session is being torn down

streamVars == <<sent, over, gone, got, eof, idle, stalled, torn>>

StreamInit ==
    /\ sent = [s \in Streams |-> 0]
    /\ over = [s \in Streams |-> FALSE]
    /\ gone = [s \in Streams |-> FALSE]
    /\ got = [s \in Streams |-> 0]
    /\ eof = [s \in Streams |-> FALSE]
    /\ idle = FALSE
    /\ stalled = FALSE
    /\ torn = FALSE

Send(s) ==
    /\ ~over[s] /\ ~gone[s]
    /\ sent' = [sent EXCEPT ![s] = @ + 1]
    /\ UNCHANGED <<over, gone, got, eof, idle, stalled, torn>>

Finish(s) ==
    /\ ~over[s] /\ ~gone[s]
    /\ over' = [over EXCEPT ![s] = TRUE]
    /\ UNCHANGED <<sent, gone, got, eof, idle, stalled, torn>>

Abort(s) ==
    /\ ~gone[s]
    /\ gone' = [gone EXCEPT ![s] = TRUE]
    /\ UNCHANGED <<sent, over, got, eof, idle, stalled, torn>>

\* The end is shown after the last byte, or early by a teardown.
EndAllowed(s, received) == torn \/ (over[s] /\ received = sent[s])

Deliver(s) ==
    /\ ~eof[s] /\ got[s] < sent[s]
    /\ got' = [got EXCEPT ![s] = @ + 1]
    /\ \/ eof' = eof
       \/ EndAllowed(s, got[s] + 1) /\ eof' = [eof EXCEPT ![s] = TRUE]
    /\ UNCHANGED <<sent, over, gone, idle, stalled, torn>>

ShowEnd(s) ==
    /\ ~eof[s] /\ EndAllowed(s, got[s])
    /\ eof' = [eof EXCEPT ![s] = TRUE]
    /\ UNCHANGED <<sent, over, gone, got, idle, stalled, torn>>

Expire ==
    /\ ~idle /\ idle' = TRUE
    /\ UNCHANGED <<sent, over, gone, got, eof, stalled, torn>>

Ended == IF EitherEndTears THEN \E s \in Streams : over[s]
                           ELSE \A s \in Streams : over[s]

\* Some of what was sent has not been received.
Outstanding == \E s \in Streams : got[s] < sent[s]

TearDown ==
    /\ ~torn /\ torn' = TRUE
    /\ \/ idle' = TRUE /\ UNCHANGED stalled
       \/ stalled' = TRUE /\ UNCHANGED idle /\ Outstanding
       \/ UNCHANGED <<idle, stalled>> /\ ((\E s \in Streams : gone[s]) \/ Ended)
    /\ UNCHANGED <<sent, over, gone, got, eof>>

StreamNext ==
    \/ \E s \in Streams : Send(s) \/ Finish(s) \/ Abort(s) \/ Deliver(s) \/ ShowEnd(s)
    \/ Expire \/ TearDown

StreamSpec == StreamInit /\ [][StreamNext]_streamVars

=============================================================================
