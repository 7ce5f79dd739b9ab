-------------------------- MODULE HotReload_proofs --------------------------
(***************************************************************************)
(* The three watches, for any number of edits of any kind and any number   *)
(* of reloads at a time: the polls of Rust and Python swallow no change    *)
(* but in the two spells they cannot see, Go's event loop is quiet only    *)
(* when it serves the file, and no map goes back in time.                  *)
(***************************************************************************)
EXTENDS HotReload, TLAPS

RustPlaces == {"firstStat", "firstLoad", "tick", "load", "cancelled"}
PyPlaces == {"firstLoad", "firstStat", "sleep", "poll", "load", "dead"}
GoPlaces == {"add", "load", "store", "loop", "done"}

\* The types of all variables, whichever of the three runs.
Texts == {Torn} \cup 0..MaxEdits
MapTyped == map \in Texts
PollTyped ==
    /\ held \in {-1} \cup Nat /\ seen \in {-1} \cup Nat
    /\ hasty \in BOOLEAN /\ early \in BOOLEAN
    /\ \/ impl = "rust" /\ at \in RustPlaces
       \/ impl = "python" /\ at \in PyPlaces
GoTyped ==
    /\ first \in Texts
    /\ watched \in 0..inode
    /\ event \in BOOLEAN /\ armed \in BOOLEAN /\ failed \in BOOLEAN /\ overlapped \in BOOLEAN
    /\ at \in GoPlaces
    /\ reload \in [Reloads -> [state : {"off", "begun", "parsed"}, read : Texts]]

\* The newest edit of which a read can have found the text.
Newest == IF text = Torn THEN edits ELSE text

\* What is served is no newer than that.
Bounded == text <= edits /\ map <= Newest

\* An mtime the watch holds is one the file has or had, and file times pass.
TimesOrdered == mtime <= now /\ held <= mtime /\ seen <= mtime

\* Past the first load, a load that was not hasty goes with a tick that is over.
Loaded == at \in {"tick", "sleep", "poll", "load"}
TickIsOver == Loaded /\ ~hasty => held < now

\* From the first load on, holding the mtime of the file means serving its text.
\* This also has to hold while the path is missing and between a stat and a load.
HeldMeansServed == Loaded /\ held = mtime /\ ~hasty /\ ~early => map = text

\* The Python thread has loaded what its first stat is going to see.
LoadedBeforeStat == impl = "python" /\ at = "firstStat" /\ ~early => map = text

PollInv == PollTyped /\ TimesOrdered /\ TickIsOver /\ HeldMeansServed /\ LoadedBeforeStat

Running(r) == reload[r] # Go!Off

\* Nothing reloads before the loop, and only one does without an overlap.
StartsAlone == at \in {"add", "load", "store"} => ~armed /\ \A r \in Reloads : ~Running(r)
OneReload == ~overlapped => \A r, s \in Reloads : Running(r) /\ Running(s) => r = s

\* What was read and not stored yet is no newer than the file, nor older than the map.
ReadsBounded ==
    /\ first <= Newest
    /\ \A r \in Reloads : reload[r].read <= Newest
NotOlder(t) == t = Torn \/ t >= map
ReadsNotOlder ==
    /\ at = "store" => NotOlder(first)
    /\ \A r \in Reloads : ~overlapped /\ reload[r].state = "parsed" => NotOlder(reload[r].read)

\* While no event is on its way, what was read last is the file.
Undisturbed == ~event /\ ~armed /\ watched = inode /\ ~failed /\ ~overlapped
ReadLastIsFile ==
    Undisturbed =>
        /\ at = "store" => first = text
        /\ at = "loop" => /\ (\A r \in Reloads : ~Running(r)) => map = text
                          /\ \A r \in Reloads : reload[r].state = "parsed" => reload[r].read = text

GoInv ==
    /\ impl = "go" /\ GoTyped /\ inode > 0
    /\ StartsAlone /\ OneReload /\ ReadsBounded /\ ReadsNotOlder /\ ReadLastIsFile

IInv ==
    /\ FileTypeOK /\ MapTyped /\ Bounded
    /\ \/ impl \in {"rust", "python"} /\ PollInv
       \/ GoInv

-----------------------------------------------------------------------------
(* The file.                                                               *)

\* The three watches see the file and the editor of this module.
LEMMA SameFile ==
    /\ (Rust!FileTypeOK <=> FileTypeOK) /\ (Py!FileTypeOK <=> FileTypeOK) /\ (Go!FileTypeOK <=> FileTypeOK)
    /\ Rust!fileVars = fileVars /\ Py!fileVars = fileVars /\ Go!fileVars = fileVars
    /\ Rust!Torn = Torn /\ Py!Torn = Torn /\ Go!Torn = Torn
    /\ (Rust!FileInit <=> FileInit) /\ (Py!FileInit <=> FileInit) /\ (Go!FileInit <=> FileInit)
    /\ (Rust!Editor <=> Editor) /\ (Py!Editor <=> Editor)
    /\ (Rust!Clock <=> Clock) /\ (Py!Clock <=> Clock) /\ (Go!Clock <=> Clock)
    /\ (Go!Truncate <=> Truncate) /\ (Go!Write <=> Write) /\ (Go!Rename <=> Rename)
    /\ (Go!Remove <=> Remove) /\ (Go!Chmod <=> Chmod)
    /\ (Rust!ReadFails <=> ReadFails) /\ (Py!ReadFails <=> ReadFails) /\ (Go!ReadFails <=> ReadFails)
<1> USE DEF Torn, Rust!Torn, Py!Torn, Go!Torn
<1>1. /\ (Rust!FileTypeOK <=> FileTypeOK) /\ (Py!FileTypeOK <=> FileTypeOK) /\ (Go!FileTypeOK <=> FileTypeOK)
      /\ Rust!fileVars = fileVars /\ Py!fileVars = fileVars /\ Go!fileVars = fileVars
      /\ (Rust!FileInit <=> FileInit) /\ (Py!FileInit <=> FileInit) /\ (Go!FileInit <=> FileInit)
    BY DEF FileTypeOK, Rust!FileTypeOK, Py!FileTypeOK, Go!FileTypeOK,
           fileVars, Rust!fileVars, Py!fileVars, Go!fileVars,
           FileInit, Rust!FileInit, Py!FileInit, Go!FileInit
<1>2. (Rust!ReadFails <=> ReadFails) /\ (Py!ReadFails <=> ReadFails) /\ (Go!ReadFails <=> ReadFails)
    BY DEF ReadFails, Rust!ReadFails, Py!ReadFails, Go!ReadFails
<1>3. (Rust!Editor <=> Editor) /\ (Rust!Clock <=> Clock)
    BY DEF Rust!Editor, Editor, Rust!Truncate, Truncate, Rust!Write, Write, Rust!Rename, Rename,
           Rust!Remove, Remove, Rust!Chmod, Chmod, Rust!Edit, Edit, Rust!Stamp, Stamp, Rust!Clock, Clock
<1>4. (Py!Editor <=> Editor) /\ (Py!Clock <=> Clock)
    BY DEF Py!Editor, Editor, Py!Truncate, Truncate, Py!Write, Write, Py!Rename, Rename,
           Py!Remove, Remove, Py!Chmod, Chmod, Py!Edit, Edit, Py!Stamp, Stamp, Py!Clock, Clock
<1>5. /\ (Go!Truncate <=> Truncate) /\ (Go!Write <=> Write) /\ (Go!Rename <=> Rename)
      /\ (Go!Remove <=> Remove) /\ (Go!Chmod <=> Chmod) /\ (Go!Clock <=> Clock)
    BY DEF Go!Truncate, Truncate, Go!Write, Write, Go!Rename, Rename,
           Go!Remove, Remove, Go!Chmod, Chmod, Go!Edit, Edit, Go!Stamp, Stamp, Go!Clock, Clock
<1> QED BY <1>1, <1>2, <1>3, <1>4, <1>5

\* An edit gives the file a text that is newer, or torn, and the mtime of the tick.
LEMMA Edits ==
    ASSUME FileTypeOK, text <= edits, Editor \/ Clock
    PROVE  /\ FileTypeOK'
           /\ text' <= edits' /\ Newest <= Newest'
           /\ \/ mtime' = mtime /\ text' = text /\ now' >= now
              \/ mtime' = now /\ now' = now
<1> USE FileAssumption DEF Editor, Truncate, Write, Rename, Remove, Chmod, Edit, Stamp, Clock
<1>1. now' \in Nat /\ mtime' \in Nat /\ edits' \in 0..MaxEdits
    BY DEF FileTypeOK
<1>2. text' \in {Torn} \cup 0..MaxEdits
    BY <1>1 DEF FileTypeOK
<1>3. present' \in BOOLEAN /\ readable' \in BOOLEAN /\ saving' \in BOOLEAN
    BY Zenon DEF FileTypeOK
<1>4. inode' \in Nat
    BY DEF FileTypeOK
<1>5. FileTypeOK'
    BY <1>1, <1>2, <1>3, <1>4, Zenon DEF FileTypeOK
<1>6. text' <= edits' /\ Newest <= Newest'
    BY DEF FileTypeOK, Newest, Torn
<1>7. \/ mtime' = mtime /\ text' = text /\ now' >= now
      \/ mtime' = now /\ now' = now
    BY DEF FileTypeOK
<1> QED BY <1>5, <1>6, <1>7

\* What a read finds is no older than what any read found before.
LEMMA ReadIsNewest ==
    ASSUME FileTypeOK, Bounded, MapTyped
    PROVE  text \in Texts /\ text <= Newest /\ NotOlder(text)
BY FileAssumption DEF FileTypeOK, Bounded, MapTyped, Texts, Newest, NotOlder, Torn

-----------------------------------------------------------------------------
(* The polls of Rust and Python.                                           *)

\* An edit gives the file an mtime that the watch does not hold, unless it falls in
\* the tick of a hasty load, or before the first stat of Python.
LEMMA PollEdits ==
    ASSUME FileTypeOK, MapTyped, Bounded, PollInv, Editor \/ Clock,
           UNCHANGED <<map, held, seen, at, hasty, impl>>, early' \in BOOLEAN,
           impl = "rust" => early' = early,
           impl = "python" => early' = (early \/ (at = "firstStat" /\ text' # text))
    PROVE  IInv'
<1> USE DEF PollInv
<1>1. /\ FileTypeOK' /\ text' <= edits' /\ Newest <= Newest'
      /\ \/ mtime' = mtime /\ text' = text /\ now' >= now
         \/ mtime' = now /\ now' = now
    BY Edits DEF Bounded
<1>2. MapTyped' /\ Bounded'
    <2>1. map \in Int /\ Newest \in Int /\ Newest' \in Int
        BY <1>1, FileAssumption DEF MapTyped, Texts, Torn, Newest, FileTypeOK
    <2> QED BY <1>1, <2>1 DEF MapTyped, Bounded
<1>3. PollTyped'
    BY Zenon DEF PollTyped
<1>4. held \in Int /\ seen \in Int /\ mtime \in Int /\ now \in Int /\ mtime' \in Int /\ now' \in Int
    BY <1>1 DEF PollTyped, FileTypeOK
<1>5. TimesOrdered'
    BY <1>1, <1>4 DEF TimesOrdered
<1>6. TickIsOver'
    BY <1>1, <1>4 DEF TickIsOver, Loaded
<1>7. Loaded' => at # "firstStat"
    BY DEF Loaded
<1>8. Loaded' /\ ~hasty' /\ ~early' => ~early
    BY <1>7 DEF PollTyped
<1>9. HeldMeansServed'
    BY <1>1, <1>4, <1>8 DEF HeldMeansServed, TickIsOver, Loaded
<1>10. LoadedBeforeStat'
    BY DEF LoadedBeforeStat
<1> QED BY <1>1, <1>2, <1>3, <1>5, <1>6, <1>9, <1>10, Zenon DEF IInv, PollTyped

\* What a step of a watch has to keep, when it serves its old map or the file.
LEMMA ServedStaysBounded ==
    ASSUME FileTypeOK, MapTyped, Bounded, UNCHANGED fileVars, map' \in {map, text}
    PROVE  FileTypeOK' /\ MapTyped' /\ Bounded'
<1>1. FileTypeOK'
    BY DEF FileTypeOK, fileVars
<1>2. text \in Texts /\ text <= Newest
    BY ReadIsNewest
<1>3. Newest' = Newest
    BY DEF Newest, fileVars
<1> QED BY <1>1, <1>2, <1>3 DEF MapTyped, Texts, Bounded, fileVars

\* A load of the Rust task goes with the mtime of the stat before it, never with
\* a later one.
LEMMA RustInv ==
    ASSUME IInv, impl = "rust", UNCHANGED <<impl, early>>, Rust!Watch \/ Rust!Cancel
    PROVE  IInv' /\ map' \in {map, text}
<1>1. FileTypeOK /\ MapTyped /\ Bounded /\ PollInv
    BY DEF IInv, GoInv
<1>2. UNCHANGED fileVars /\ map' \in {map, text}
    BY DEF Rust!Watch, Rust!FirstStat, Rust!FirstLoad, Rust!TickIdle, Rust!TickStat, Rust!Load,
           Rust!Cancel, Rust!vars, Rust!fileVars, fileVars
<1>3. FileTypeOK' /\ MapTyped' /\ Bounded'
    BY <1>1, <1>2, ServedStaysBounded
<1>4. PollInv'
    <2> USE <1>1, <1>2, SameFile
            DEF FileTypeOK, fileVars, PollInv, PollTyped, TimesOrdered, TickIsOver, HeldMeansServed,
                LoadedBeforeStat, Loaded, RustPlaces, Rust!None
    <2>1. CASE Rust!FirstStat
        BY <2>1 DEF Rust!FirstStat
    <2>2. CASE Rust!FirstLoad
        <3>1. hasty' \in BOOLEAN /\ (hasty' <=> (~Rust!ReadFails /\ held = now))
            BY <2>2, Zenon DEF Rust!FirstLoad
        <3>2. /\ UNCHANGED seen /\ at' = "tick" /\ held' \in {held, -1}
              /\ Rust!ReadFails => held' = -1
              /\ ~Rust!ReadFails => map' = text /\ held' = held
            BY <2>2 DEF Rust!FirstLoad, Rust!LastModAfterFailure
        <3> QED BY <3>1, <3>2
    <2>3. CASE Rust!TickIdle
        BY <2>3 DEF Rust!TickIdle, Rust!vars
    <2>4. CASE Rust!TickStat
        BY <2>4 DEF Rust!TickStat
    <2>5. CASE Rust!Load
        <3>1. CASE Rust!ReadFails
            BY <2>5, <3>1 DEF Rust!Load
        <3>2. CASE ~Rust!ReadFails
            <4>1. UNCHANGED seen /\ map' = text /\ held' = seen /\ at' = "tick"
                BY <2>5, <3>2 DEF Rust!Load
            <4>2. hasty' \in BOOLEAN /\ (hasty' <=> seen = now) /\ early' \in BOOLEAN
                BY <2>5, <3>2, Zenon DEF Rust!Load
            <4> QED BY <4>1, <4>2
        <3> QED BY <3>1, <3>2
    <2>6. CASE Rust!Cancel
        BY <2>6 DEF Rust!Cancel
    <2> QED BY <2>1, <2>2, <2>3, <2>4, <2>5, <2>6 DEF Rust!Watch
<1> QED BY <1>2, <1>3, <1>4, Zenon DEF IInv

\* Nor does one of the Python thread, once its first load and first stat agree.
LEMMA PyInv ==
    ASSUME IInv, impl = "python", UNCHANGED impl, Py!Thread
    PROVE  IInv' /\ map' \in {map, text}
<1>1. FileTypeOK /\ MapTyped /\ Bounded /\ PollInv
    BY DEF IInv, GoInv
<1>2. UNCHANGED fileVars /\ map' \in {map, text}
    BY DEF Py!Thread, Py!FirstLoad, Py!FirstStat, Py!Sleep, Py!Poll, Py!Load, Py!Die,
           Py!fileVars, fileVars
<1>3. FileTypeOK' /\ MapTyped' /\ Bounded'
    BY <1>1, <1>2, ServedStaysBounded
<1>4. PollInv'
    <2> USE <1>1, <1>2, SameFile
            DEF FileTypeOK, fileVars, PollInv, PollTyped, TimesOrdered, TickIsOver, HeldMeansServed,
                LoadedBeforeStat, Loaded, PyPlaces, Py!None
    <2>1. CASE Py!FirstLoad
        BY <2>1 DEF Py!FirstLoad
    <2>2. CASE Py!FirstStat
        BY <2>2 DEF Py!FirstStat
    <2>3. CASE Py!Sleep
        BY <2>3 DEF Py!Sleep
    <2>4. CASE Py!Poll
        BY <2>4 DEF Py!Poll
    <2>5. CASE Py!Load
        <3>1. CASE Py!ReadFails
            BY <2>5, <3>1 DEF Py!Load
        <3>2. CASE ~Py!ReadFails
            <4>1. UNCHANGED seen /\ map' = text /\ held' = seen /\ at' = "sleep"
                BY <2>5, <3>2 DEF Py!Load
            <4>2. hasty' \in BOOLEAN /\ (hasty' <=> seen = now) /\ early' \in BOOLEAN
                BY <2>5, <3>2, Zenon DEF Py!Load
            <4> QED BY <4>1, <4>2
        <3> QED BY <3>1, <3>2
    <2>6. CASE Py!Die
        BY <2>6 DEF Py!Die
    <2> QED BY <2>1, <2>2, <2>3, <2>4, <2>5, <2>6 DEF Py!Thread
<1> QED BY <1>2, <1>3, <1>4, Zenon DEF IInv

-----------------------------------------------------------------------------
(* The event loop of Go.                                                   *)

\* An edit of the watched inode is an event, and any other one leaves the watch off
\* the file.
LEMMA GoEdits ==
    ASSUME IInv, impl = "go", UNCHANGED impl,
           Go!Written \/ Go!Unlinked \/ Go!Unwatched
    PROVE  IInv' /\ UNCHANGED map
<1>1. FileTypeOK /\ MapTyped /\ Bounded /\ GoInv
    BY DEF IInv, PollInv, PollTyped
<1>2. \/ Truncate \/ Write
      \/ Rename \/ Remove
      \/ Chmod \/ Clock
    BY SameFile DEF Go!Written, Go!Unlinked, Go!Unwatched
<1>3. FileTypeOK' /\ text' <= edits' /\ Newest <= Newest'
    BY <1>1, <1>2, Edits DEF Editor, Bounded
<1>4. UNCHANGED <<map, at, first, failed, armed, reload, overlapped>>
    BY DEF Go!Written, Go!Unlinked, Go!Unwatched, Go!EventLoopVars, Go!watchVars
<1>5. \A t \in Int : t <= Newest => t <= Newest'
    BY <1>1, <1>3, FileAssumption DEF Newest, FileTypeOK, Torn
<1>6. MapTyped' /\ Bounded'
    <2>1. map \in Int
        BY <1>1, FileAssumption DEF MapTyped, Texts, Torn
    <2> QED BY <1>1, <1>3, <1>4, <1>5, <2>1 DEF MapTyped, Bounded
<1>7. ReadsBounded'
    <2>1. first \in Int /\ \A r \in Reloads : reload[r].read \in Int
        BY <1>1, FileAssumption DEF GoInv, GoTyped, Texts, Torn
    <2> QED BY <1>1, <1>4, <1>5, <2>1 DEF GoInv, ReadsBounded
<1>8. /\ inode' \in Nat /\ inode' >= inode /\ event' \in BOOLEAN
      /\ watched' \in {0, watched}
      /\ ~event' /\ watched' = inode' => UNCHANGED <<text, inode, watched, event>>
    <2> USE <1>1 DEF GoInv, GoTyped, FileTypeOK
    <2>1. CASE Go!Written
        <3>1. UNCHANGED <<inode, watched>>
            BY <2>1, SameFile DEF Go!Written, Truncate, Write
        <3>2. event' \in BOOLEAN /\ (event' <=> event \/ watched = inode)
            BY <2>1, Zenon DEF Go!Written
        <3> QED BY <3>1, <3>2
    <2>2. CASE Go!Unlinked
        <3>1. event' = event /\ watched' = IF watched = inode THEN 0 ELSE watched
            BY <2>2 DEF Go!Unlinked
        <3>2. inode' \in {inode, inode + 1}
            BY <2>2, SameFile DEF Go!Unlinked, Rename, Remove
        <3> QED BY <3>1, <3>2
    <2>3. CASE Go!Unwatched
        BY <2>3, SameFile DEF Go!Unwatched, Go!watchVars, Chmod, Clock
    <2> QED BY <2>1, <2>2, <2>3
<1>9. GoTyped' /\ inode' > 0
    <2>1. watched' \in 0..inode' /\ inode' > 0
        BY <1>1, <1>8 DEF GoInv, GoTyped, FileTypeOK
    <2> QED BY <1>1, <1>4, <1>8, <2>1, Zenon DEF GoInv, GoTyped
<1>10. StartsAlone' /\ OneReload' /\ ReadsNotOlder'
    BY <1>1, <1>4 DEF GoInv, StartsAlone, OneReload, ReadsNotOlder, NotOlder, Running, Go!Off
<1>11. ReadLastIsFile'
    <2> SUFFICES ASSUME Undisturbed'
                 PROVE  /\ at' = "store" => first' = text'
                        /\ at' = "loop" => /\ (\A r \in Reloads : ~Running(r)') => map' = text'
                                           /\ \A r \in Reloads : reload'[r].state = "parsed" => reload'[r].read = text'
        BY DEF ReadLastIsFile
    <2>1. Undisturbed /\ UNCHANGED text
        BY <1>4, <1>8 DEF Undisturbed
    <2> QED BY <1>1, <1>4, <2>1 DEF GoInv, ReadLastIsFile, Running
<1> QED BY <1>3, <1>4, <1>6, <1>7, <1>9, <1>10, <1>11 DEF IInv, GoInv

\* What is served is what was read, and what was read is no newer than the file.
LEMMA ReadsStayTyped ==
    ASSUME FileTypeOK, MapTyped, Bounded, GoInv, UNCHANGED fileVars,
           map' \in {map, first} \cup {reload[r].read : r \in Reloads}
    PROVE  FileTypeOK' /\ MapTyped' /\ Bounded'
<1>1. FileTypeOK'
    BY DEF FileTypeOK, fileVars
<1>2. Newest' = Newest
    BY DEF Newest, fileVars
<1>3. map' \in Texts /\ map' <= Newest
    BY DEF GoInv, GoTyped, ReadsBounded, MapTyped, Bounded
<1> QED BY <1>1, <1>2, <1>3 DEF MapTyped, Texts, Bounded, fileVars

\* The initial load is stored before the loop begins, and before anything reloads.
LEMMA GoStarts ==
    ASSUME IInv, impl = "go", UNCHANGED impl,
           Go!FirstAdd \/ Go!FirstLoad \/ Go!FirstStore
    PROVE  IInv' /\ NotOlder(map')
<1>1. FileTypeOK /\ MapTyped /\ Bounded /\ GoInv
    BY DEF IInv, PollInv, PollTyped
<1>2. /\ UNCHANGED <<fileVars, event, armed, overlapped, reload>>
      /\ map' \in {map, first} /\ at \in {"add", "load", "store"}
    BY DEF Go!FirstAdd, Go!FirstLoad, Go!FirstStore, Go!fileVars, fileVars
<1>3. FileTypeOK' /\ MapTyped' /\ Bounded'
    BY <1>1, <1>2, ReadsStayTyped
<1>4. Newest' = Newest /\ text' = text /\ inode' = inode
    BY <1>2 DEF Newest, fileVars
<1>5. text \in Texts /\ text <= Newest /\ NotOlder(text)
    BY <1>1, ReadIsNewest
<1>6. ~armed /\ \A r \in Reloads : ~Running(r) /\ ~(reload[r].state = "parsed")
    BY <1>1, <1>2 DEF GoInv, StartsAlone, Running, Go!Off
<1>7. StartsAlone' /\ OneReload'
    BY <1>1, <1>2, <1>6 DEF GoInv, StartsAlone, OneReload, Running, Go!Off
<1>8. CASE Go!FirstAdd
    <2>1. /\ UNCHANGED <<map, first, failed>> /\ at' = "load"
          /\ watched' \in {watched, inode}
        BY <1>8 DEF Go!FirstAdd, Go!Rearm
    <2>2. GoTyped'
        BY <1>1, <1>2, <1>4, <2>1 DEF GoInv, GoTyped, GoPlaces, FileTypeOK
    <2>3. ReadsBounded' /\ ReadsNotOlder' /\ ReadLastIsFile'
        BY <1>1, <1>2, <1>4, <1>6, <2>1 DEF GoInv, ReadsBounded, ReadsNotOlder, ReadLastIsFile
    <2> QED BY <1>1, <1>3, <1>4, <1>7, <2>1, <2>2, <2>3 DEF IInv, GoInv, NotOlder, MapTyped, Texts, Torn
<1>9. CASE Go!FirstLoad
    <2>1. /\ UNCHANGED <<map, watched>> /\ first' \in {first, text} /\ at' \in {"loop", "store"}
          /\ at' = "store" => first' = text
        BY <1>9 DEF Go!FirstLoad
    <2>2. failed' \in BOOLEAN /\ (at' = "loop" => failed')
        <3>1. failed' = Go!ReadFails /\ Go!ReadFails \in BOOLEAN
            BY <1>9, Zenon DEF Go!FirstLoad, Go!ReadFails
        <3>2. at' = "loop" => Go!ReadFails
            BY <1>9 DEF Go!FirstLoad
        <3> QED BY <3>1, <3>2, Zenon
    <2>3. GoTyped'
        BY <1>1, <1>2, <1>4, <1>5, <2>1, <2>2 DEF GoInv, GoTyped, GoPlaces
    <2>4. ReadsBounded' /\ ReadsNotOlder' /\ ReadLastIsFile'
        BY <1>1, <1>2, <1>4, <1>5, <1>6, <2>1, <2>2
           DEF GoInv, ReadsBounded, ReadsNotOlder, ReadLastIsFile, Undisturbed, NotOlder
    <2> QED BY <1>1, <1>3, <1>4, <1>7, <2>1, <2>3, <2>4 DEF IInv, GoInv, NotOlder, MapTyped, Texts, Torn
<1>10. CASE Go!FirstStore
    <2>1. UNCHANGED <<first, watched, failed>> /\ map' = first /\ at = "store" /\ at' = "loop"
        BY <1>10 DEF Go!FirstStore
    <2>2. GoTyped'
        BY <1>1, <1>2, <1>4, <2>1 DEF GoInv, GoTyped, GoPlaces
    <2>3. ReadsBounded' /\ ReadsNotOlder' /\ ReadLastIsFile'
        BY <1>1, <1>2, <1>4, <1>6, <2>1
           DEF GoInv, ReadsBounded, ReadsNotOlder, ReadLastIsFile, Undisturbed
    <2>4. NotOlder(map')
        BY <1>1, <2>1 DEF GoInv, ReadsNotOlder
    <2> QED BY <1>1, <1>3, <1>4, <1>7, <2>2, <2>3, <2>4 DEF IInv, GoInv
<1> QED BY <1>8, <1>9, <1>10

\* An event starts the timer, the timer a reload; ending stops the timer.
LEMMA GoLoops ==
    ASSUME IInv, impl = "go", UNCHANGED impl,
           Go!HandleEvent \/ Go!Done \/ Go!Fire
    PROVE  IInv' /\ UNCHANGED map
<1>1. FileTypeOK /\ MapTyped /\ Bounded /\ GoInv
    BY DEF IInv, PollInv, PollTyped
<1>2. UNCHANGED <<fileVars, map, first, failed>>
    BY DEF Go!HandleEvent, Go!Done, Go!Fire, Go!fileVars, fileVars
<1>3. FileTypeOK' /\ MapTyped' /\ Bounded'
    BY <1>1, <1>2, ReadsStayTyped
<1>4. Newest' = Newest /\ text' = text /\ inode' = inode
    BY <1>2 DEF Newest, fileVars
<1>5. CASE Go!HandleEvent
    <2>1. /\ UNCHANGED <<at, reload, overlapped>> /\ at = "loop"
          /\ event' = FALSE /\ armed' = TRUE /\ watched' \in {watched, inode}
        BY <1>5 DEF Go!HandleEvent, Go!Rearm
    <2>2. GoTyped'
        <3>1. watched' \in 0..inode' /\ at' \in GoPlaces
            BY <1>1, <1>4, <2>1 DEF GoInv, GoTyped, GoPlaces, FileTypeOK
        <3> QED BY <1>1, <1>2, <2>1, <3>1, Zenon DEF GoInv, GoTyped
    <2>3. StartsAlone' /\ OneReload' /\ ReadsBounded' /\ ReadsNotOlder'
        BY <1>1, <1>2, <1>4, <2>1
           DEF GoInv, StartsAlone, OneReload, ReadsBounded, ReadsNotOlder, NotOlder, Running, Go!Off
    <2>4. ReadLastIsFile'
        BY <2>1 DEF ReadLastIsFile, Undisturbed
    <2> QED BY <1>1, <1>2, <1>3, <1>4, <2>2, <2>3, <2>4 DEF IInv, GoInv
<1>6. CASE Go!Done
    <2>1. /\ UNCHANGED <<reload, overlapped>> /\ at' = "done"
          /\ event' = FALSE /\ armed' = FALSE /\ watched' = 0
        BY <1>6 DEF Go!Done
    <2>2. GoTyped'
        <3>1. watched' \in 0..inode' /\ at' \in GoPlaces
            BY <1>1, <1>4, <2>1 DEF GoInv, GoTyped, GoPlaces, FileTypeOK
        <3> QED BY <1>1, <1>2, <2>1, <3>1, Zenon DEF GoInv, GoTyped
    <2>3. StartsAlone' /\ OneReload' /\ ReadsBounded' /\ ReadsNotOlder'
        BY <1>1, <1>2, <1>4, <2>1
           DEF GoInv, StartsAlone, OneReload, ReadsBounded, ReadsNotOlder, NotOlder, Running, Go!Off
    <2>4. ReadLastIsFile'
        BY <2>1 DEF ReadLastIsFile
    <2> QED BY <1>1, <1>2, <1>3, <1>4, <2>2, <2>3, <2>4 DEF IInv, GoInv
<1>7. CASE Go!Fire
    <2>1. UNCHANGED <<at, watched, event>> /\ armed /\ armed' = FALSE
        BY <1>7 DEF Go!Fire
    <2>2. overlapped' \in BOOLEAN /\ (overlapped' <=> \E r \in Reloads : Running(r))
        BY <1>7, Zenon DEF Go!Fire, Running
    <2>3. PICK r \in Reloads : reload' = [reload EXCEPT ![r] = [state |-> "begun", read |-> 0]]
        BY <1>7 DEF Go!Fire, Go!Off
    <2>4. /\ reload' \in [Reloads -> [state : {"off", "begun", "parsed"}, read : Texts]]
          /\ reload'[r] = [state |-> "begun", read |-> 0]
          /\ \A s \in Reloads : s # r => reload'[s] = reload[s]
        BY <1>1, <2>3, FileAssumption DEF GoInv, GoTyped, Texts
    <2>5. GoTyped'
        BY <1>1, <1>2, <1>4, <2>1, <2>2, <2>4, Zenon DEF GoInv, GoTyped
    <2>6. StartsAlone' /\ OneReload'
        BY <1>1, <2>1, <2>2, <2>4 DEF GoInv, StartsAlone, OneReload, Running, Go!Off
    <2>7. 0 <= Newest
        BY <1>1, FileAssumption DEF Newest, FileTypeOK, Torn
    <2>8. ReadsBounded'
        BY <1>1, <1>2, <1>4, <2>4, <2>7 DEF GoInv, ReadsBounded
    <2>9. \A s \in Reloads : ~overlapped' => reload'[s].state # "parsed"
        BY <2>2, <2>4 DEF Running, Go!Off
    <2>10. ReadsNotOlder'
        BY <1>1, <2>1, <2>9 DEF GoInv, StartsAlone, ReadsNotOlder
    <2>11. at = "loop" => Running(r)'
        BY <2>4 DEF Running, Go!Off
    <2>12. at \notin {"add", "load", "store"}
        BY <1>1, <2>1 DEF GoInv, StartsAlone
    <2>13. ReadLastIsFile'
        BY <2>1, <2>9, <2>11, <2>12 DEF ReadLastIsFile, Undisturbed
    <2> QED BY <1>1, <1>2, <1>3, <1>4, <2>5, <2>6, <2>8, <2>10, <2>13 DEF IInv, GoInv
<1> QED BY <1>5, <1>6, <1>7

\* A reload that has the loop for itself reads the file and then stores what it read.
LEMMA GoReloads ==
    ASSUME IInv, impl = "go", UNCHANGED impl, NEW r \in Reloads, Go!Reload(r)
    PROVE  IInv' /\ (NotOlder(map') \/ overlapped)
<1>1. FileTypeOK /\ MapTyped /\ Bounded /\ GoInv
    BY DEF IInv, PollInv, PollTyped
<1>2. /\ UNCHANGED <<fileVars, watched, event, at, first, armed, overlapped>>
      /\ map' \in {map, reload[r].read}
    BY DEF Go!Reload, Go!ReloadRead, Go!ReloadStore, Go!fileVars, fileVars
<1>3. FileTypeOK' /\ MapTyped' /\ Bounded'
    BY <1>1, <1>2, ReadsStayTyped
<1>4. Newest' = Newest /\ text' = text /\ inode' = inode
    BY <1>2 DEF Newest, fileVars
<1>5. text \in Texts /\ text <= Newest /\ NotOlder(text)
    BY <1>1, ReadIsNewest
<1>6. /\ Running(r) /\ at \notin {"add", "load", "store"}
      /\ ~overlapped => \A s \in Reloads : Running(s) => s = r
    <2>1. Running(r)
        BY DEF Go!Reload, Go!ReloadRead, Go!ReloadStore, Running, Go!Off
    <2> QED BY <1>1, <2>1 DEF GoInv, StartsAlone, OneReload
<1>7. 0 \in Texts /\ 0 <= Newest
    BY <1>1, FileAssumption DEF Newest, FileTypeOK, Texts, Torn
<1>8. /\ reload' \in [Reloads -> [state : {"off", "begun", "parsed"}, read : Texts]]
      /\ \A s \in Reloads : s # r => reload'[s] = reload[s]
      /\ reload'[r].read <= Newest
      /\ reload'[r].state = "parsed" => reload[r].state = "begun" /\ reload'[r].read = text
    BY <1>1, <1>5, <1>7 DEF Go!Reload, Go!ReloadRead, Go!ReloadStore, Go!Off, GoInv, GoTyped
<1>9. failed' \in BOOLEAN
    <2>1. CASE Go!ReloadRead(r)
        BY <2>1, Zenon DEF Go!ReloadRead, Go!ReadFails
    <2>2. CASE Go!ReloadStore(r)
        BY <1>1, <2>2, Zenon DEF Go!ReloadStore, GoInv, GoTyped
    <2> QED BY <2>1, <2>2 DEF Go!Reload
<1>10. GoTyped'
    BY <1>1, <1>2, <1>4, <1>8, <1>9, Zenon DEF GoInv, GoTyped
<1>11. StartsAlone' /\ OneReload' /\ ReadsBounded'
    BY <1>1, <1>2, <1>4, <1>6, <1>8 DEF GoInv, StartsAlone, OneReload, ReadsBounded, Running, Go!Off
<1>12. CASE Go!ReloadRead(r)
    <2>1. UNCHANGED map /\ reload[r].state = "begun"
        BY <1>12 DEF Go!ReloadRead
    <2>2. failed' \/ (reload'[r].state = "parsed" /\ reload'[r].read = text)
        <3>1. CASE Go!ReadFails
            BY <1>12, <3>1 DEF Go!ReloadRead
        <3>2. CASE ~Go!ReadFails
            BY <1>1, <1>12, <3>2 DEF Go!ReloadRead, GoInv, GoTyped
        <3> QED BY <3>1, <3>2
    <2>3. ReadsNotOlder'
        BY <1>1, <1>2, <1>5, <1>6, <1>8, <2>1 DEF GoInv, ReadsNotOlder, NotOlder
    <2>4. ReadLastIsFile'
        <3> SUFFICES ASSUME Undisturbed', at' = "loop"
                     PROVE  /\ \E s \in Reloads : Running(s)'
                            /\ \A s \in Reloads : reload'[s].state = "parsed" => reload'[s].read = text'
            BY <1>2, <1>6 DEF ReadLastIsFile
        <3>1. ~overlapped /\ reload'[r].state = "parsed" /\ reload'[r].read = text'
            BY <1>2, <1>4, <2>2 DEF Undisturbed
        <3>2. \A s \in Reloads : s # r => reload'[s].state # "parsed"
            BY <1>6, <1>8, <3>1 DEF Running, Go!Off
        <3> QED BY <3>1, <3>2 DEF Running, Go!Off
    <2>5. NotOlder(map')
        BY <1>1, <2>1 DEF NotOlder, MapTyped, Texts, Torn
    <2> QED BY <1>1, <1>3, <1>4, <1>10, <1>11, <2>3, <2>4, <2>5 DEF IInv, GoInv
<1>13. CASE Go!ReloadStore(r)
    <2>1. /\ UNCHANGED failed /\ map' = reload[r].read
          /\ reload[r].state = "parsed" /\ reload'[r].state = "off"
        BY <1>1, <1>13 DEF Go!ReloadStore, Go!Off, GoInv, GoTyped
    <2>2. \A s \in Reloads : ~overlapped' => reload'[s].state # "parsed"
        BY <1>2, <1>6, <1>8, <2>1 DEF Running, Go!Off
    <2>3. ReadsNotOlder'
        BY <1>2, <1>6, <2>2 DEF ReadsNotOlder
    <2>4. ReadLastIsFile'
        BY <1>1, <1>2, <1>4, <1>6, <2>1, <2>2 DEF GoInv, ReadLastIsFile, Undisturbed
    <2>5. NotOlder(map') \/ overlapped
        BY <1>1, <2>1 DEF GoInv, ReadsNotOlder
    <2> QED BY <1>1, <1>3, <1>4, <1>10, <1>11, <2>3, <2>4, <2>5 DEF IInv, GoInv
<1> QED BY <1>12, <1>13 DEF Go!Reload

-----------------------------------------------------------------------------
(* The theorems.                                                           *)

\* The three start with the map that run() has loaded, before any stat or watch.
LEMMA InitInv == ASSUME Init PROVE IInv
<1>1. /\ FileInit /\ map = text
      /\ \/ /\ impl = "rust" /\ at = "firstStat"
            /\ held = -1 /\ seen = -1 /\ hasty = FALSE /\ early = FALSE
         \/ /\ impl = "python" /\ at = "firstLoad"
            /\ held = -1 /\ seen = -1 /\ hasty = FALSE /\ early = FALSE
         \/ /\ impl = "go" /\ at = "add" /\ first = text /\ watched = 0
            /\ event = FALSE /\ armed = FALSE /\ failed = FALSE /\ overlapped = FALSE
            /\ reload = [r \in Reloads |-> Go!Off]
    BY SameFile DEF Init, Rust!Init, Py!Init, Go!Init, Rust!None, Py!None
<1>2. text \in Texts /\ edits \in 0..MaxEdits
    BY <1>1, FileAssumption DEF FileInit, Texts
<1>3. present \in BOOLEAN /\ readable \in BOOLEAN /\ saving \in BOOLEAN
    BY <1>1, Zenon DEF FileInit
<1>4. inode \in Nat /\ mtime \in Nat /\ now \in Nat /\ inode > 0
    BY <1>1 DEF FileInit
<1>5. FileTypeOK
    BY <1>2, <1>3, <1>4, Zenon DEF FileTypeOK, Texts
<1>6. MapTyped /\ Bounded
    BY <1>1, <1>2, FileAssumption DEF MapTyped, Bounded, Newest, FileInit, Torn
<1>7. CASE impl \in {"rust", "python"}
    <2>1. PollTyped
        BY <1>1, <1>7 DEF PollTyped, RustPlaces, PyPlaces
    <2>2. TimesOrdered /\ TickIsOver /\ HeldMeansServed /\ LoadedBeforeStat
        BY <1>1, <1>7 DEF FileInit, TimesOrdered, TickIsOver, HeldMeansServed, LoadedBeforeStat, Loaded
    <2> QED BY <1>5, <1>6, <1>7, <2>1, <2>2 DEF IInv, PollInv
<1>8. CASE impl = "go"
    <2>1. event \in BOOLEAN /\ armed \in BOOLEAN /\ failed \in BOOLEAN /\ overlapped \in BOOLEAN
        BY <1>1, <1>8 DEF Init
    <2>2. /\ first \in Texts /\ watched \in 0..inode /\ at \in GoPlaces
          /\ reload \in [Reloads -> [state : {"off", "begun", "parsed"}, read : Texts]]
        BY <1>1, <1>2, <1>4, <1>8, FileAssumption DEF Go!Off, Texts, GoPlaces
    <2>3. GoTyped
        BY <2>1, <2>2, Zenon DEF GoTyped
    <2>4. StartsAlone /\ OneReload
        BY <1>1, <1>8 DEF StartsAlone, OneReload, Running
    <2>5. ReadsBounded /\ ReadsNotOlder /\ ReadLastIsFile
        BY <1>1, <1>8 DEF ReadsBounded, ReadsNotOlder, ReadLastIsFile, Newest, FileInit, Torn, Go!Off
    <2> QED BY <1>4, <1>5, <1>6, <1>8, <2>3, <2>4, <2>5 DEF IInv, GoInv
<1> QED BY <1>1, <1>7, <1>8

\* Every step keeps the invariant, and none but an overlapped one serves older text.
LEMMA StepInv ==
    ASSUME IInv, [Next]_vars
    PROVE  IInv' /\ (UNCHANGED map \/ NotOlder(map') \/ overlapped)
<1>1. impl \in {"go", "rust", "python"}
    BY DEF IInv, GoInv
<1>2. CASE UNCHANGED vars
    <2>1. UNCHANGED <<fileVars, map, at, held, seen, hasty, early, watched, event, first, failed,
                      armed, reload, overlapped, impl>>
        BY <1>2 DEF vars, watchVars, pollVars, eventVars
    <2> QED BY <2>1 DEF fileVars, IInv, FileTypeOK, MapTyped, Bounded, Newest, PollInv, PollTyped,
                        TimesOrdered, TickIsOver, Loaded, HeldMeansServed, LoadedBeforeStat, GoInv, GoTyped,
                        StartsAlone, OneReload, ReadsBounded, ReadsNotOlder, NotOlder, ReadLastIsFile,
                        Undisturbed, Running, Go!Off
<1>3. CASE impl = "go" /\ Next
    <2>1. Go!Next /\ UNCHANGED impl
        BY <1>1, <1>3 DEF Next
    <2>2. CASE Go!Written \/ Go!Unlinked \/ Go!Unwatched
        BY <1>3, <2>1, <2>2, GoEdits
    <2>3. CASE Go!FirstAdd \/ Go!FirstLoad \/ Go!FirstStore
        BY <1>3, <2>1, <2>3, GoStarts
    <2>4. CASE Go!HandleEvent \/ Go!Done \/ Go!Fire
        BY <1>3, <2>1, <2>4, GoLoops
    <2>5. CASE \E r \in Reloads : Go!Reload(r)
        BY <1>3, <2>1, <2>5, GoReloads
    <2> QED BY <2>1, <2>2, <2>3, <2>4, <2>5 DEF Go!Next, Go!Loop
<1>4. NotOlder(text) \/ impl = "go"
    BY ReadIsNewest DEF IInv
<1>5. CASE impl = "rust" /\ Next
    <2>1. Rust!Next /\ UNCHANGED <<impl, early>>
        BY <1>5 DEF Next
    <2>2. CASE (Rust!Editor \/ Rust!Clock) /\ UNCHANGED Rust!watchVars
        <3>1. UNCHANGED <<map, held, seen, at, hasty, impl>> /\ early' \in BOOLEAN /\ early' = early
            BY <1>5, <2>1, <2>2, Zenon DEF Rust!watchVars, IInv, GoInv, PollInv, PollTyped
        <3> QED BY <1>5, <2>2, <3>1, SameFile, PollEdits DEF IInv, GoInv
    <2>3. CASE Rust!Watch \/ Rust!Cancel
        BY <1>4, <1>5, <2>1, <2>3, RustInv
    <2> QED BY <2>1, <2>2, <2>3 DEF Rust!Next
<1>6. CASE impl = "python" /\ Next
    <2>1. Py!Next /\ UNCHANGED impl
        BY <1>6 DEF Next
    <2>2. CASE Py!Edited
        <3>1. /\ UNCHANGED <<map, held, seen, at, hasty, impl>>
              /\ early' = (early \/ (at = "firstStat" /\ text' # text))
            BY <2>1, <2>2 DEF Py!Edited
        <3>2. early' \in BOOLEAN
            BY <3>1, <1>6, Zenon DEF IInv, GoInv, PollInv, PollTyped
        <3>3. Editor \/ Clock
            BY <2>2, SameFile DEF Py!Edited
        <3> QED BY <1>6, <3>1, <3>2, <3>3, PollEdits DEF IInv, GoInv
    <2>3. CASE Py!Thread
        BY <1>4, <1>6, <2>1, <2>3, PyInv
    <2> QED BY <2>1, <2>2, <2>3 DEF Py!Next
<1> QED BY <1>1, <1>2, <1>3, <1>5, <1>6

\* IInv holds in every state.
THEOREM Invariant == Spec => []IInv
<1>1. IInv /\ [Next]_vars => IInv'
    BY StepInv
<1> QED BY InitInv, <1>1, PTL DEF Spec

\* Type correctness of the three watches and of the file.
THEOREM TypesHold == Spec => []TypeOK
<1>1. IInv => TypeOK
    BY SameFile DEF IInv, TypeOK, MapTyped, Texts, PollInv, PollTyped, GoInv, GoTyped, RustPlaces, PyPlaces, GoPlaces,
           Rust!TypeOK, Rust!None, Py!TypeOK, Py!None, Go!TypeOK, Go!Texts
<1> QED BY <1>1, Invariant, PTL

\* No poll skips a file it does not serve, out of the two spells (rust/src/dnsmap.rs,
\* watch, and python/tailcat_socks.py, watch_dns_file).
THEOREM SwallowsNothing == Spec => []NeverSwallowed
<1>1. IInv => NeverSwallowed
    BY DEF IInv, PollInv, PollTyped, GoInv, GoTyped, GoPlaces, HeldMeansServed, Loaded, NeverSwallowed
<1> QED BY <1>1, Invariant, PTL

\* An event loop that waits for events serves the file it watches, if its last reload
\* had it for itself (go/dnsmap.go, WatchDNSFile and reload).
THEOREM QuietIsFresh == Spec => []QuietMeansFresh
<1>1. IInv => QuietMeansFresh
    BY DEF IInv, PollInv, PollTyped, RustPlaces, PyPlaces, GoInv, GoTyped, ReadLastIsFile, Undisturbed,
           Running, QuietMeansFresh, Watching, Reloading
<1> QED BY <1>1, Invariant, PTL

\* No step of the three serves an older text than before, but after an overlap.
THEOREM NeverGoesBack == Spec => NeverOlder
<1>1. IInv /\ [Next]_vars => [map' = Torn \/ overlapped \/ map' >= map]_vars
    <2> SUFFICES ASSUME IInv, [Next]_vars PROVE map' = Torn \/ overlapped \/ map' >= map
        OBVIOUS
    <2>1. UNCHANGED map \/ NotOlder(map') \/ overlapped
        BY StepInv
    <2>2. MapTyped
        BY DEF IInv
    <2>3. map >= map
        BY <2>2, FileAssumption DEF MapTyped, Texts, Torn
    <2> QED BY <2>1, <2>3 DEF NotOlder
<1> QED BY <1>1, Invariant, PTL DEF Spec, NeverOlder


-----------------------------------------------------------------------------
(* That a saved change is served takes fairness; the rest of it does not:  *)
(* while the watch is where it should be, it has a step to take until it   *)
(* serves the file, and each of its steps brings that nearer.              *)

\* The file can be read, and nothing excuses the map.
Watched == Settled /\ ~Excused

\* The steps a poll that does not serve the file has yet to take, ...
PollSteps ==
    CASE map = text -> 0
      [] map # text /\ at = "load" -> 1
      [] map # text /\ at \in {"tick", "poll"} -> 2
      [] map # text /\ at \in {"firstLoad", "sleep"} -> 3
      [] OTHER -> 4

\* ... and those that Go's start, an event, the timer and a reload have left.
StartSteps == CASE at = "add" -> 3 [] at = "load" -> 2 [] at = "store" -> 1 [] OTHER -> 0
EventSteps == IF event THEN 4 ELSE 0
TimerSteps == IF armed THEN 3 ELSE 0
Begun == \E r \in Reloads : reload[r].state = "begun"
ReloadSteps == CASE Begun -> 2 [] Reloading /\ ~Begun -> 1 [] OTHER -> 0
GoSteps == StartSteps + EventSteps + TimerSteps + ReloadSteps

StepsLeft == IF impl = "go" THEN GoSteps ELSE PollSteps

\* What the code can do next.
CanStep ==
    \/ impl # "go"
    \/ at \in {"add", "load", "store"} \/ (at = "loop" /\ event)
    \/ armed /\ \E r \in Reloads : reload[r] = Go!Off
    \/ Reloading

NeverStuck == Watched => IF StepsLeft = 0 THEN map = text ELSE CanStep

Measured == StepsLeft \in Nat

\* Polls go on when the file is served, and change nothing of that.
Closer == StepsLeft' < StepsLeft \/ (impl # "go" /\ StepsLeft = 0 /\ StepsLeft' = 0)

\* As long as it is so, nothing but a new edit brings it further from that.
CatchesUp ==
    Watched /\ Watched' =>
        Closer \/ (Editor /\ edits' > edits) \/ (Clock /\ StepsLeft' = StepsLeft)


LEMMA InMeasure == Measured
BY DEF Measured, StepsLeft, GoSteps, PollSteps, StartSteps, EventSteps, TimerSteps, ReloadSteps

\* A poll that serves the file goes on to; one that does not holds another mtime.
LEMMA PollCloser ==
    ASSUME IInv, impl \in {"rust", "python"}, UNCHANGED impl,
           \/ impl = "rust" /\ Rust!Watch /\ UNCHANGED early
           \/ impl = "python" /\ Py!Thread,
           Watched, Watched'
    PROVE  Closer
<1>1. PollInv
    BY DEF IInv, GoInv
<1>2. UNCHANGED fileVars /\ map' \in {map, text}
    <2>1. CASE impl = "rust"
        BY <2>1, RustInv DEF Rust!Watch, Rust!FirstStat, Rust!FirstLoad, Rust!TickIdle, Rust!TickStat, Rust!Load,
           Rust!vars, Rust!fileVars, fileVars
    <2>2. CASE impl = "python"
        BY <2>2, PyInv DEF Py!Thread, Py!FirstLoad, Py!FirstStat, Py!Sleep, Py!Poll, Py!Load, Py!Die,
           Py!fileVars, fileVars
    <2> QED BY <2>1, <2>2
<1>3. text' = text /\ present /\ ~ReadFails
    BY <1>2 DEF fileVars, Watched, Settled, ReadFails
<1>4. CASE map = text
    BY <1>2, <1>3, <1>4 DEF Closer, StepsLeft, PollSteps
<1>5. CASE map' = text'
    <2>1. StepsLeft' = 0
        BY <1>5 DEF StepsLeft, PollSteps
    <2> QED BY <2>1, InMeasure DEF Closer, Measured
<1>6. CASE map # text /\ map' # text'
    <2>1. ~hasty /\ ~early /\ at \notin {"cancelled", "dead"}
        BY DEF Watched, Excused
    <2>2. at \in {"tick", "poll", "sleep", "load"} => held # mtime
        BY <1>1, <1>6, <2>1 DEF PollInv, HeldMeansServed, Loaded
    <2>3. CASE impl = "rust"
        <3>1. CASE Rust!FirstStat
            BY <1>6, <2>3, <3>1 DEF Rust!FirstStat, Closer, StepsLeft, PollSteps
        <3>2. CASE Rust!FirstLoad \/ Rust!Load
            BY <1>3, <1>6, <3>2, SameFile DEF Rust!FirstLoad, Rust!Load
        <3>3. CASE Rust!TickIdle
            BY <1>3, <2>2, <3>3 DEF Rust!TickIdle
        <3>4. CASE Rust!TickStat
            BY <1>6, <2>3, <3>4 DEF Rust!TickStat, Closer, StepsLeft, PollSteps
        <3> QED BY <2>3, <3>1, <3>2, <3>3, <3>4 DEF Rust!Watch
    <2>4. CASE impl = "python"
        <3>1. CASE Py!FirstLoad \/ Py!Load
            BY <1>3, <1>6, <3>1, SameFile DEF Py!FirstLoad, Py!Load
        <3>2. CASE Py!FirstStat
            BY <1>1, <1>6, <2>1, <2>4, <3>2 DEF Py!FirstStat, PollInv, LoadedBeforeStat
        <3>3. CASE Py!Sleep
            BY <1>6, <2>4, <3>3 DEF Py!Sleep, Closer, StepsLeft, PollSteps
        <3>4. CASE Py!Poll
            BY <1>3, <1>6, <2>2, <2>4, <3>4 DEF Py!Poll, Closer, StepsLeft, PollSteps
        <3>5. CASE Py!Die
            BY <3>5 DEF Py!Die, Watched, Excused
        <3> QED BY <2>4, <3>1, <3>2, <3>3, <3>4, <3>5 DEF Py!Thread
    <2> QED BY <2>3, <2>4
<1> QED BY <1>4, <1>5, <1>6

LEMMA SumShrinks ==
    ASSUME NEW a \in Nat, NEW b \in Nat, NEW c \in Nat, NEW d \in Nat,
           NEW a1 \in Nat, NEW b1 \in Nat, NEW c1 \in Nat, NEW d1 \in Nat,
           \/ a1 < a /\ b1 = b /\ c1 = c /\ d1 = d
           \/ a1 = a /\ b = 4 /\ b1 = 0 /\ c1 <= 3 /\ d1 = d
           \/ a1 = a /\ b1 = b /\ c = 3 /\ c1 = 0 /\ d = 0 /\ d1 <= 2
           \/ a1 = a /\ b1 = b /\ c1 = c /\ d1 < d
    PROVE  a1 + b1 + c1 + d1 < a + b + c + d
OBVIOUS

\* Of Go, the start is followed by the loop, an event by the timer, the timer by a
\* reload that has the file for itself, and its read by its store.
LEMMA GoCloser ==
    ASSUME IInv, impl = "go", UNCHANGED impl,
           Go!Loop \/ Go!Fire \/ \E r \in Reloads : Go!Reload(r),
           Watched, Watched'
    PROVE  Closer
<1>1. GoInv /\ ~overlapped /\ ~overlapped' /\ ~ReadFails
    BY DEF IInv, PollInv, PollTyped, Watched, Settled, Excused
<1>2. /\ StartSteps \in Nat /\ EventSteps \in Nat /\ TimerSteps \in Nat /\ ReloadSteps \in Nat
      /\ StartSteps' \in Nat /\ EventSteps' \in Nat /\ TimerSteps' \in Nat /\ ReloadSteps' \in Nat
      /\ TimerSteps' <= 3 /\ ReloadSteps' <= 2
    BY DEF StartSteps, EventSteps, TimerSteps, ReloadSteps
<1>3. SUFFICES GoSteps' < GoSteps
    BY DEF Closer, StepsLeft
<1>4. CASE Go!FirstAdd \/ Go!FirstLoad \/ Go!FirstStore
    <2>1. UNCHANGED <<event, armed, reload>>
        BY <1>4 DEF Go!FirstAdd, Go!FirstLoad, Go!FirstStore
    <2>2. EventSteps' = EventSteps /\ TimerSteps' = TimerSteps /\ ReloadSteps' = ReloadSteps
        BY <2>1 DEF EventSteps, TimerSteps, ReloadSteps, Begun, Reloading
    <2>3. StartSteps' < StartSteps
        BY <1>1, <1>4, SameFile DEF Go!FirstAdd, Go!FirstLoad, Go!FirstStore, StartSteps
    <2> QED BY <1>2, <2>2, <2>3, SumShrinks DEF GoSteps
<1>5. CASE Go!HandleEvent
    <2>1. event /\ event' = FALSE /\ UNCHANGED <<at, reload>>
        BY <1>5 DEF Go!HandleEvent
    <2>2. EventSteps = 4 /\ EventSteps' = 0 /\ StartSteps' = StartSteps /\ ReloadSteps' = ReloadSteps
        BY <2>1 DEF EventSteps, StartSteps, ReloadSteps, Begun, Reloading
    <2> QED BY <1>2, <2>2, SumShrinks DEF GoSteps
<1>6. CASE Go!Fire
    <2>1. armed /\ armed' = FALSE /\ UNCHANGED <<at, event>>
        BY <1>6 DEF Go!Fire
    <2>2. overlapped' <=> Reloading
        BY <1>6, Zenon DEF Go!Fire, Reloading
    <2>3. \A r \in Reloads : reload[r] = Go!Off
        BY <1>1, <2>2 DEF Reloading
    <2>4. TimerSteps = 3 /\ TimerSteps' = 0 /\ StartSteps' = StartSteps /\ EventSteps' = EventSteps
        BY <2>1 DEF TimerSteps, StartSteps, EventSteps
    <2>5. ReloadSteps = 0
        BY <2>3 DEF ReloadSteps, Begun, Reloading, Go!Off
    <2> QED BY <1>2, <2>4, <2>5, SumShrinks DEF GoSteps
<1>7. ASSUME NEW r \in Reloads, Go!Reload(r)
      PROVE  GoSteps' < GoSteps
    <2>1. UNCHANGED <<at, event, armed>>
        BY <1>7 DEF Go!Reload, Go!ReloadRead, Go!ReloadStore
    <2>2. StartSteps' = StartSteps /\ EventSteps' = EventSteps /\ TimerSteps' = TimerSteps
        BY <2>1 DEF StartSteps, EventSteps, TimerSteps
    <2>3. \A s \in Reloads : s # r => ~Running(s)
        <3>1. Running(r)
            BY <1>7 DEF Go!Reload, Go!ReloadRead, Go!ReloadStore, Running, Go!Off
        <3> QED BY <1>1, <3>1 DEF GoInv, OneReload
    <2>4. reload \in [Reloads -> [state : {"off", "begun", "parsed"}, read : Texts]]
        BY <1>1 DEF GoInv, GoTyped
    <2>5. CASE Go!ReloadRead(r)
        <3>1. reload[r].state = "begun" /\ reload' = [reload EXCEPT ![r] = [state |-> "parsed", read |-> text]]
            BY <1>1, <2>5, SameFile DEF Go!ReloadRead
        <3>2. \A s \in Reloads : reload'[s].state # "begun"
            BY <2>3, <2>4, <3>1 DEF Running, Go!Off
        <3>3. ReloadSteps = 2 /\ ReloadSteps' < 2
            BY <3>1, <3>2 DEF ReloadSteps, Begun
        <3> QED BY <1>2, <2>2, <3>3, SumShrinks DEF GoSteps
    <2>6. CASE Go!ReloadStore(r)
        <3>1. reload[r].state = "parsed" /\ reload' = [reload EXCEPT ![r] = Go!Off]
            BY <2>6 DEF Go!ReloadStore
        <3>2. \A s \in Reloads : reload'[s] = Go!Off
            BY <2>3, <2>4, <3>1 DEF Running
        <3>3. ReloadSteps' = 0
            BY <3>2 DEF ReloadSteps, Begun, Reloading, Go!Off
        <3>4. ReloadSteps > 0
            BY <3>1 DEF ReloadSteps, Begun, Reloading, Go!Off
        <3> QED BY <1>2, <2>2, <3>3, <3>4, SumShrinks DEF GoSteps
    <2> QED BY <1>7, <2>5, <2>6 DEF Go!Reload
<1> QED BY <1>4, <1>5, <1>6, <1>7 DEF Go!Loop

\* While the file can be read and is watched, a watch that does not serve it has a step
\* to take: Go an event, a timer or a reload, Rust and Python their next poll.
THEOREM WatchNeverStuck == Spec => []NeverStuck
<1>1. IInv => NeverStuck
    <2> SUFFICES ASSUME IInv, Watched
                 PROVE  IF StepsLeft = 0 THEN map = text ELSE CanStep
        BY DEF NeverStuck
    <2>1. CASE impl # "go"
        BY <2>1 DEF CanStep, StepsLeft, PollSteps
    <2>2. CASE impl = "go"
        <3>1. GoInv /\ at \in {"add", "load", "store", "loop"} /\ Watching /\ ~overlapped
            BY <2>2 DEF IInv, PollInv, PollTyped, GoInv, GoTyped, GoPlaces, Watched, Excused
        <3>2. /\ StartSteps \in Nat /\ EventSteps \in Nat /\ TimerSteps \in Nat /\ ReloadSteps \in Nat
            BY DEF StartSteps, EventSteps, TimerSteps, ReloadSteps
        <3>3. CASE StepsLeft = 0
            <4>1. StartSteps = 0 /\ EventSteps = 0 /\ TimerSteps = 0 /\ ReloadSteps = 0
                BY <2>2, <3>2, <3>3 DEF StepsLeft, GoSteps
            <4>2. at = "loop" /\ ~event /\ ~armed /\ ~Reloading
                BY <3>1, <4>1 DEF StartSteps, EventSteps, TimerSteps, ReloadSteps
            <4> QED BY <3>1, <3>3, <4>2 DEF GoInv, ReadLastIsFile, Undisturbed, Watching, Reloading, Running
        <3>4. CASE StepsLeft # 0
            <4>1. StartSteps # 0 \/ EventSteps # 0 \/ TimerSteps # 0 \/ ReloadSteps # 0
                BY <2>2, <3>4 DEF StepsLeft, GoSteps
            <4>2. at \in {"add", "load", "store"} \/ (at = "loop" /\ event) \/ armed \/ Reloading
                <5>1. Begun => Reloading
                    BY DEF Begun, Reloading, Go!Off
                <5> QED BY <3>1, <4>1, <5>1 DEF StartSteps, EventSteps, TimerSteps, ReloadSteps
            <4>3. Reloading \/ \E r \in Reloads : reload[r] = Go!Off
                BY ReloadsAssumption DEF Reloading
            <4> QED BY <3>4, <4>2, <4>3 DEF CanStep
        <3> QED BY <3>3, <3>4
    <2> QED BY <2>1, <2>2
<1> QED BY <1>1, Invariant, PTL

\* And each of its steps brings it nearer to serving the file, so that only a new edit,
\* or what excuses it, can keep it from that (README.md: "a saved change takes effect
\* without a restart").
THEOREM StepsRunOut == Spec => []Measured /\ [][CatchesUp]_vars
<1>1. ASSUME IInv, Next, Watched, Watched'
      PROVE  Closer \/ (Editor /\ edits' > edits) \/ (Clock /\ StepsLeft' = StepsLeft)
    <2>1. CASE Editor
        <3>1. edits \in Nat /\ ~saving
            BY <1>1, FileAssumption DEF IInv, FileTypeOK, Watched, Settled
        <3> QED BY <2>1, <3>1 DEF Editor, Truncate, Write, Rename, Remove, Chmod, Edit
    <2>2. CASE Clock /\ UNCHANGED <<text, map, at, event, armed, reload, impl>>
        BY <2>2 DEF StepsLeft, GoSteps, PollSteps, StartSteps, EventSteps, TimerSteps, ReloadSteps, Begun, Reloading
    <2>3. CASE impl = "go" /\ Go!Next
        <3>1. ~Go!Done
            BY <1>1 DEF Go!Done, Watched, Excused
        <3>2. CASE Go!Written \/ Go!Unlinked
            BY <2>1, <3>2, SameFile DEF Go!Written, Go!Unlinked, Editor
        <3>3. CASE Go!Unwatched
            BY <1>1, <2>1, <2>2, <3>3, SameFile DEF Go!Unwatched, Go!watchVars, Editor, Clock, Next
        <3> QED BY <1>1, <2>3, <3>1, <3>2, <3>3, GoCloser DEF Go!Next, Next
    <2>4. CASE impl = "rust" /\ Rust!Next /\ UNCHANGED <<early, eventVars>>
        <3>1. ~Rust!Cancel
            BY <1>1 DEF Rust!Cancel, Watched, Excused
        <3>2. CASE (Editor \/ Clock) /\ UNCHANGED Rust!watchVars
            BY <1>1, <2>1, <2>2, <2>4, <3>2 DEF Rust!watchVars, eventVars, Clock, Next
        <3> QED BY <1>1, <2>4, <3>1, <3>2, SameFile, PollCloser DEF Rust!Next, Next
    <2>5. CASE impl = "python" /\ Py!Next /\ UNCHANGED eventVars
        <3>1. CASE Py!Edited
            BY <1>1, <2>1, <2>2, <2>5, <3>1, SameFile DEF Py!Edited, eventVars, Clock, Next
        <3> QED BY <1>1, <2>5, <3>1, PollCloser DEF Py!Next, Next
    <2> QED BY <1>1, <2>3, <2>4, <2>5 DEF Next
<1>2. IInv /\ [Next]_vars => [CatchesUp]_vars
    BY <1>1 DEF CatchesUp
<1> QED BY <1>2, Invariant, InMeasure, PTL DEF Spec

=============================================================================
