----------------------------- MODULE HotReload -----------------------------
(***************************************************************************)
(* The hot reload of dns.txt in the three implementations, over the same   *)
(* file and editor: the event loop of Go, and the polls of the mtime of    *)
(* Rust and Python.  What each promises of the map it serves, and exactly  *)
(* when it cannot.                                                         *)
(***************************************************************************)
EXTENDS DnsFile

CONSTANT Reloads    \* reloads of Go that can run at a time (bounds the model)
ASSUME ReloadsAssumption == Reloads # {}

VARIABLES
    impl,       \* which of the three runs
    map,        \* the text the served mapping was parsed from
    at,         \* where the loop, the task or the thread is
    held,       \* a poll's mtime of the last load: last_mod, or last
    seen,       \* a poll's mtime of the last stat
    hasty,      \* history: see RustWatch and PyWatch
    early,      \* history: see PyWatch
    watched, event, first, failed, armed, reload,       \* see GoWatch
    overlapped  \* history: see GoWatch

pollVars == <<held, seen, hasty, early>>
eventVars == <<watched, event, first, failed, armed, reload, overlapped>>
watchVars == <<map, at, pollVars, eventVars>>
vars == <<fileVars, watchVars, impl>>

Go == INSTANCE GoWatch
Rust == INSTANCE RustWatch WITH lastMod <- held
Py == INSTANCE PyWatch WITH last <- held

NoPoll == held = -1 /\ seen = -1 /\ hasty = FALSE /\ early = FALSE
NoEvents ==
    /\ watched = 0 /\ event = FALSE /\ first = 0
    /\ failed = FALSE /\ armed = FALSE /\ overlapped = FALSE
    /\ reload = [r \in Reloads |-> Go!Off]

Init ==
    \/ impl = "go" /\ Go!Init /\ NoPoll
    \/ impl = "rust" /\ Rust!Init /\ early = FALSE /\ NoEvents
    \/ impl = "python" /\ Py!Init /\ NoEvents

Next ==
    /\ UNCHANGED impl
    /\ \/ impl = "go" /\ Go!Next /\ UNCHANGED pollVars
       \/ impl = "rust" /\ Rust!Next /\ UNCHANGED <<early, eventVars>>
       \/ impl = "python" /\ Py!Next /\ UNCHANGED eventVars

\* The ticker ticks, the sleeps end, goroutines run and their timer fires; the
\* editor and the shutdown owe nothing.
Polls ==
    /\ UNCHANGED impl
    /\ \/ impl = "rust" /\ Rust!Watch /\ UNCHANGED <<early, eventVars>>
       \/ impl = "python" /\ Py!Thread /\ UNCHANGED eventVars
GoStep(A) == impl = "go" /\ A /\ UNCHANGED <<pollVars, impl>>

Spec == Init /\ [][Next]_vars
FairSpec ==
    /\ Spec
    /\ WF_vars(Polls)
    /\ WF_vars(GoStep(Go!Loop)) /\ WF_vars(GoStep(Go!Fire))
    /\ \A r \in Reloads : WF_vars(GoStep(Go!Reload(r)))

-----------------------------------------------------------------------------
(* Properties.                                                             *)

TypeOK ==
    \/ impl = "go" /\ Go!TypeOK
    \/ impl = "rust" /\ Rust!TypeOK
    \/ impl = "python" /\ Py!TypeOK

\* A poll swallows no change (dnsmap.rs, "stat BEFORE loading"): while it holds the
\* mtime of the file as it is, and would skip it, the map it serves is that file.
\* Two cases are out of its reach: a load in the very tick of that mtime, after which
\* the tick may see another change, and a change between Python's first load and
\* first stat.
NeverSwallowed ==
    /\ at \in {"tick", "sleep", "poll"} /\ present /\ held = mtime
    /\ ~hasty /\ ~early
    => map = text

\* Go's watch is on the file at the path, and no load of it failed since.
Watching == watched = inode /\ ~failed

Reloading == \E r \in Reloads : reload[r] # Go!Off

\* The event loop misses no change while its watch is on the file: when it has no
\* event, no timer and no reload left, the map it serves is the file, unless its
\* last reload began while another one ran, and was overtaken by it.
QuietMeansFresh ==
    at = "loop" /\ ~(event \/ armed \/ Reloading) /\ Watching /\ ~overlapped
    => map = text

\* The served map never goes back to an older text of the file: not by the initial
\* load, which run() already did once, nor by a retry, a late load or a reload.
NeverOlder == [][map' = Torn \/ overlapped \/ map' >= map]_vars

\* A map that need not catch up with the file by itself: its watch has ended, or is
\* not on the file, or it was loaded in one of the spells named above.
Excused ==
    \/ at \in {"cancelled", "dead", "done"}
    \/ impl = "go" /\ (~Watching \/ overlapped)
    \/ hasty \/ early

\* Once the file is left alone, it is what is served, whatever was read while it was
\* truncated, missing or unreadable: "a saved change takes effect without a restart"
\* (README.md:131).
Converges == <>[](~Settled \/ Excused \/ map = text)

\* The same of Go with reloads that do not overlap, however the file is saved.
SavedMeansServed ==
    impl = "go" => <>[](at = "done" \/ ~Settled \/ overlapped \/ map = text)

\* A read of the file that fails leaves the old map served and Python's watch
\* running: "Keeps the old map on read errors. Returns when stop Event is set"
\* (docstring of watch_dns_file).
KeepsWatching == at # "dead"

=============================================================================
