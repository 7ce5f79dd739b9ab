------------------------------ MODULE GoWatch ------------------------------
(***************************************************************************)
(* WatchDNSFile() and reload() of go/dnsmap.go: a loop over the events of  *)
(* an fsnotify watch, a debounce timer, and the reloads its goroutines     *)
(* run.  timer.Stop does not wait for a reload that has begun, so reloads  *)
(* can overlap; the read of the file and the Store are two steps.          *)
(*                                                                         *)
(* fsnotify is external.  A watch added for the path of a file is on the   *)
(* inode the path leads to at that time: it reports Write for each change  *)
(* of that inode, and is gone with it.  Equal events not yet read are one  *)
(* event, as in inotify; the events the loop ignores are left out.         *)
(***************************************************************************)
EXTENDS DnsFile

CONSTANT Reloads    \* reloads that can run at a time (bounds the model)

VARIABLES
    map,        \* the text the served mapping was parsed from
    watched,    \* the inode the watch is on; 0: no watch
    event,      \* a Write event waits in watcher.Events
    at,         \* where WatchDNSFile is
    first,      \* what its initial load parsed
    failed,     \* the last load failed, and was logged
    armed,      \* the debounce timer runs
    reload,     \* the reloads: not running, begun, or with a parsed text
    overlapped  \* history: the last reload began while another one ran

watchVars == <<map, watched, event, at, first, failed, armed, reload, overlapped>>
vars == <<text, present, readable, inode, mtime, now, saving, edits,
          map, watched, event, at, first, failed, armed, reload, overlapped>>

Texts == {Torn} \cup 0..MaxEdits
Off == [state |-> "off", read |-> 0]

TypeOK ==
    /\ FileTypeOK
    /\ map \in Texts /\ first \in Texts
    /\ watched \in 0..inode
    /\ {event, armed, failed, overlapped} \subseteq BOOLEAN
    /\ at \in {"add", "load", "store", "loop", "done"}
    /\ reload \in [Reloads -> [state : {"off", "begun", "parsed"}, read : Texts]]

\* run() loaded the file into the map before it starts the watch.
Init ==
    /\ FileInit
    /\ map = text /\ first = text
    /\ watched = 0 /\ event = FALSE
    /\ at = "add"
    /\ armed = FALSE /\ failed = FALSE /\ overlapped = FALSE
    /\ reload = [r \in Reloads |-> Off]

-----------------------------------------------------------------------------
(* What fsnotify reports of an edit.                                       *)

EventLoopVars == <<map, at, first, failed, armed, reload, overlapped>>

Written ==
    /\ Truncate \/ Write
    /\ event' = (event \/ watched = inode)
    /\ UNCHANGED <<watched, EventLoopVars>>

\* The watch is gone when its inode loses the path: a rename over it, a removal.
Unlinked ==
    /\ Rename \/ Remove
    /\ watched' = IF watched = inode THEN 0 ELSE watched
    /\ UNCHANGED <<event, EventLoopVars>>

Unwatched == (Chmod \/ Clock) /\ UNCHANGED watchVars

-----------------------------------------------------------------------------
(* WatchDNSFile.                                                           *)

\* rearm: watcher.Add fails without a file to read, and that is ignored.
Rearm == watched' = IF ReadFails THEN watched ELSE inode

\* rearm() before the initial load.
FirstAdd ==
    /\ at = "add" /\ Rearm /\ at' = "load"
    /\ UNCHANGED <<fileVars, map, event, first, failed, armed, reload, overlapped>>

FirstLoad ==
    /\ at = "load"
    /\ failed' = ReadFails
    /\ IF ReadFails THEN at' = "loop" /\ first' = first
                    ELSE at' = "store" /\ first' = text
    /\ UNCHANGED <<fileVars, map, watched, event, armed, reload, overlapped>>

\* Faulty variant: the initial load runs beside the loop, and can store after it began.
FirstStoreLate ==
    /\ at \in {"store", "loop"} /\ at' = "loop"
    /\ map' = first
    /\ UNCHANGED <<fileVars, watched, event, first, failed, armed, reload, overlapped>>

FirstStore ==
    /\ at = "store" /\ at' = "loop"
    /\ map' = first
    /\ UNCHANGED <<fileVars, watched, event, first, failed, armed, reload, overlapped>>

\* Faulty variant: the timer that runs is stopped and no other one started.
HandleEventStops ==
    /\ at = "loop" /\ event
    /\ event' = FALSE /\ Rearm /\ armed' = ~armed
    /\ UNCHANGED <<fileVars, map, at, first, failed, reload, overlapped>>

\* A Write event re-arms the watch and restarts the debounce timer.
HandleEvent ==
    /\ at = "loop" /\ event
    /\ event' = FALSE /\ Rearm /\ armed' = TRUE
    /\ UNCHANGED <<fileVars, map, at, first, failed, reload, overlapped>>

\* ctx.Done(): the watcher is closed and the timer stopped; reloads run on.
Done ==
    /\ at = "loop" /\ at' = "done"
    /\ watched' = 0 /\ event' = FALSE /\ armed' = FALSE
    /\ UNCHANGED <<fileVars, map, first, failed, reload, overlapped>>

\* The debounce timer fires: reload begins in a goroutine of its own.
Fire ==
    /\ armed /\ armed' = FALSE
    /\ \E r \in Reloads :
         /\ reload[r] = Off
         /\ reload' = [reload EXCEPT ![r] = [Off EXCEPT !.state = "begun"]]
    /\ overlapped' = \E r \in Reloads : reload[r] # Off
    /\ UNCHANGED <<fileVars, map, watched, event, at, first, failed>>

-----------------------------------------------------------------------------
(* reload.                                                                 *)

\* Faulty variant: the error of the load is ignored, and no text stored.
ReloadIgnoresError(r) ==
    /\ reload[r].state = "begun"
    /\ reload' = [reload EXCEPT ![r] =
                    [state |-> "parsed", read |-> IF ReadFails THEN -2 ELSE text]]
    /\ failed' = FALSE
    /\ UNCHANGED <<fileVars, map, watched, event, at, first, armed, overlapped>>

ReloadRead(r) ==
    /\ reload[r].state = "begun"
    /\ reload' = [reload EXCEPT ![r] =
                    IF ReadFails THEN Off ELSE [state |-> "parsed", read |-> text]]
    /\ failed' = ReadFails
    /\ UNCHANGED <<fileVars, map, watched, event, at, first, armed, overlapped>>

ReloadStore(r) ==
    /\ reload[r].state = "parsed"
    /\ map' = reload[r].read
    /\ reload' = [reload EXCEPT ![r] = Off]
    /\ UNCHANGED <<fileVars, watched, event, at, first, failed, armed, overlapped>>

Loop == FirstAdd \/ FirstLoad \/ FirstStore \/ HandleEvent
Reload(r) == ReloadRead(r) \/ ReloadStore(r)

Next ==
    \/ Written \/ Unlinked \/ Unwatched
    \/ Loop \/ Done \/ Fire
    \/ \E r \in Reloads : Reload(r)

=============================================================================
