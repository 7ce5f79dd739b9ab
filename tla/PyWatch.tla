------------------------------ MODULE PyWatch ------------------------------
(***************************************************************************)
(* watch_dns_file() of python/tailcat_socks.py: a daemon thread that polls *)
(* the mtime of dns.txt.  Its first load comes before its first stat, and  *)
(* it catches OSError only: a text that does not decode ends the thread.   *)
(* A load, a stat and the wait between two polls are steps.                *)
(***************************************************************************)
EXTENDS DnsFile

VARIABLES
    map,        \* the text proxy.dns_map was parsed from
    last,       \* the mtime of the last load
    seen,       \* mtime: what the last stat returned
    at,         \* where the thread is
    hasty,      \* history: the last load was in the tick of the mtime it goes with
    early       \* history: the file changed between the first load and the first
                \* stat, and was not loaded since

watchVars == <<map, last, seen, at, hasty, early>>
vars == <<text, present, readable, inode, mtime, now, saving, edits,
          map, last, seen, at, hasty, early>>

None == -1

TypeOK ==
    /\ FileTypeOK
    /\ map \in {Torn} \cup 0..MaxEdits
    /\ last \in {None} \cup Nat
    /\ seen \in {None} \cup Nat
    /\ at \in {"firstLoad", "firstStat", "sleep", "poll", "load", "dead"}
    /\ hasty \in BOOLEAN /\ early \in BOOLEAN

\* main() loaded the file into the proxy before it starts the thread.
Init ==
    /\ FileInit
    /\ map = text
    /\ last = None /\ seen = None /\ at = "firstLoad"
    /\ hasty = FALSE /\ early = FALSE

-----------------------------------------------------------------------------

\* A torn text may end inside a character: UnicodeDecodeError, which nothing catches.
Undecodable == ~ReadFails /\ text = Torn

Die ==
    /\ at \in {"firstLoad", "load"} /\ Undecodable
    /\ at' = "dead"
    /\ UNCHANGED <<fileVars, map, last, seen, hasty, early>>

\* Faulty variant: last is the mtime also when the first load failed.
FirstLoadMarks ==
    /\ at = "firstLoad" /\ at' = "sleep"
    /\ map' = IF ReadFails THEN map ELSE text
    /\ last' = IF present THEN mtime ELSE None
    /\ hasty' = (~ReadFails /\ mtime = now)
    /\ UNCHANGED <<fileVars, seen, early>>

\* The try around both: when the load fails there is no stat, and last is None.
FirstLoad ==
    /\ at = "firstLoad"
    /\ IF ReadFails THEN map' = map /\ last' = None /\ at' = "sleep"
                    ELSE map' = text /\ last' = last /\ at' = "firstStat"
    /\ UNCHANGED <<fileVars, seen, hasty, early>>

FirstStat ==
    /\ at = "firstStat" /\ at' = "sleep"
    /\ last' = IF present THEN mtime ELSE None
    /\ hasty' = (mtime = now)
    /\ UNCHANGED <<fileVars, map, seen, early>>

Sleep ==
    /\ at = "sleep" /\ at' = "poll"
    /\ UNCHANGED <<fileVars, map, last, seen, hasty, early>>

Poll ==
    /\ at = "poll"
    /\ IF ~present \/ last = mtime THEN seen' = seen /\ at' = "sleep"
                                   ELSE seen' = mtime /\ at' = "load"
    /\ UNCHANGED <<fileVars, map, last, hasty, early>>

\* Faulty variants, as in RustWatch.
LoadMarksFirst ==
    /\ at = "load" /\ at' = "sleep"
    /\ map' = IF ReadFails THEN map ELSE text
    /\ last' = seen /\ hasty' = (seen = now) /\ early' = FALSE
    /\ UNCHANGED <<fileVars, seen>>

LoadOrEmpty ==
    /\ at = "load" /\ at' = "sleep"
    /\ map' = IF ReadFails THEN -2 ELSE text
    /\ last' = seen /\ hasty' = (seen = now) /\ early' = FALSE
    /\ UNCHANGED <<fileVars, seen>>

Load ==
    /\ at = "load" /\ at' = "sleep"
    /\ IF ReadFails THEN UNCHANGED <<map, last, hasty, early>>
                    ELSE map' = text /\ last' = seen /\ hasty' = (seen = now) /\ early' = FALSE
    /\ UNCHANGED <<fileVars, seen>>

Thread == FirstLoad \/ FirstStat \/ Sleep \/ Poll \/ Load \/ Die

Edited ==
    /\ Editor \/ Clock
    /\ early' = (early \/ (at = "firstStat" /\ text' # text))
    /\ UNCHANGED <<map, last, seen, at, hasty>>

Next == Edited \/ Thread

=============================================================================
