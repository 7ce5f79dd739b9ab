----------------------------- MODULE RustWatch -----------------------------
(***************************************************************************)
(* watch() of rust/src/dnsmap.rs: one task that polls the mtime of dns.txt *)
(* and swaps the parsed text into the shared map.  A stat and a load are   *)
(* two steps, between which the file can change; a load and the store of   *)
(* what it parsed are one, for nothing else in the task or in the file     *)
(* can tell them apart.                                                    *)
(***************************************************************************)
EXTENDS DnsFile

VARIABLES
    map,        \* the text the served mapping was parsed from
    lastMod,    \* last_mod
    seen,       \* the mtime of the last stat
    at,         \* where the task is
    hasty       \* history: the last load was in the tick of the mtime it goes with

watchVars == <<map, lastMod, seen, at, hasty>>
vars == <<text, present, readable, inode, mtime, now, saving, edits,
          map, lastMod, seen, at, hasty>>

None == -1

TypeOK ==
    /\ FileTypeOK
    /\ map \in {Torn} \cup 0..MaxEdits
    /\ lastMod \in {None} \cup Nat
    /\ seen \in {None} \cup Nat
    /\ at \in {"firstStat", "firstLoad", "tick", "load", "cancelled"}
    /\ hasty \in BOOLEAN

\* run() loaded the file into the map before it starts the watch.
Init ==
    /\ FileInit
    /\ map = text
    /\ lastMod = None /\ seen = None /\ at = "firstStat" /\ hasty = FALSE

-----------------------------------------------------------------------------

\* fs::metadata before the first load.
FirstStat ==
    /\ at = "firstStat" /\ at' = "firstLoad"
    /\ lastMod' = IF present THEN mtime ELSE None
    /\ UNCHANGED <<fileVars, map, seen, hasty>>

\* Faulty variant: last_mod keeps the mtime of the stat when the load fails.
LastModKept == lastMod

\* The first load; when it fails, every tick will retry.
LastModAfterFailure == None

FirstLoad ==
    /\ at = "firstLoad" /\ at' = "tick"
    /\ IF ReadFails THEN map' = map /\ lastMod' = LastModAfterFailure
                    ELSE map' = text /\ lastMod' = lastMod
    /\ hasty' = (~ReadFails /\ lastMod = now)
    /\ UNCHANGED <<fileVars, seen>>

\* A tick: without a file, or with the mtime of the last load, nothing to do.
TickIdle ==
    /\ at = "tick" /\ (~present \/ lastMod = mtime)
    /\ UNCHANGED vars

TickStat ==
    /\ at = "tick" /\ present /\ lastMod # mtime
    /\ seen' = mtime /\ at' = "load"
    /\ UNCHANGED <<fileVars, map, lastMod, hasty>>

\* Faulty variants: last_mod is set before the load, whatever comes of it; the stat
\* comes after the load; a load that fails stores an empty mapping, no edit's text.
LoadMarksFirst ==
    /\ at = "load" /\ at' = "tick"
    /\ map' = IF ReadFails THEN map ELSE text
    /\ lastMod' = seen /\ hasty' = (seen = now)
    /\ UNCHANGED <<fileVars, seen>>

LoadOrEmpty ==
    /\ at = "load" /\ at' = "tick"
    /\ map' = IF ReadFails THEN -2 ELSE text
    /\ lastMod' = seen /\ hasty' = (seen = now)
    /\ UNCHANGED <<fileVars, seen>>

\* The mtime that goes with a load is the one of the stat before it.
Load ==
    /\ at = "load" /\ at' = "tick"
    /\ IF ReadFails THEN UNCHANGED <<map, lastMod, hasty>>
                    ELSE map' = text /\ lastMod' = seen /\ hasty' = (seen = now)
    /\ UNCHANGED <<fileVars, seen>>

\* cancel.cancelled() is looked at between two ticks.
Cancel ==
    /\ at = "tick" /\ at' = "cancelled"
    /\ UNCHANGED <<fileVars, map, lastMod, seen, hasty>>

Watch == FirstStat \/ FirstLoad \/ TickIdle \/ TickStat \/ Load

Next == ((Editor \/ Clock) /\ UNCHANGED watchVars) \/ Watch \/ Cancel

=============================================================================
