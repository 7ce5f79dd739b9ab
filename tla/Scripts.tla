------------------------------ MODULE Scripts ------------------------------
(***************************************************************************)
(* bin/start.sh, bin/stop.sh and bin/restart.sh: several runs of them at a *)
(* time over the pid files of the versions of the proxy, with proxies that *)
(* die, and pids that are given to other processes.                        *)
(*                                                                         *)
(* A run is a place in the script it executes, with the versions that are  *)
(* left to stop and the one it is to start.  A test of the file, a cat, an *)
(* rm, a kill and the launch are each a step.  `kill -0 && is_ours' is one *)
(* step, at the moment that decides it; so is the launch with its $!.  The *)
(* polls of stop.sh end when the pid is free or the window is over.  What  *)
(* becomes of a proxy that got its SIGTERM is in Lifecycle: here a process *)
(* can end at any time, or never, and the end itself takes its time.  All  *)
(* processes belong to the user who runs the scripts.                      *)
(***************************************************************************)
EXTENDS Sequences, SequencesExt

CONSTANTS
    Versions,   \* the versions of the proxy, in the order stop.sh takes them
    Pids,       \* the pids there are
    Runs,       \* runs of the scripts at a time (bounds the model)
    MaxOthers,  \* processes at a time that are no proxies (bounds the model)
    NoPid       \* no pid, or no pid file

Impls == ToSet(Versions)

ASSUME ScriptsAssumption ==
    /\ Versions \in Seq(STRING) /\ Versions # <<>>
    /\ {"free", "foreign", "lookalike"} \cap Impls = {}
    /\ NoPid \notin Pids /\ MaxOthers \in Nat

VARIABLES
    kind,       \* pid -> what runs under it: a version of the proxy, or else
    dying,      \* the pids of processes that exit or were killed, and are still there
    file,       \* version -> what its pid file says
    at,         \* run -> where it is
    stops,      \* run -> the versions it still has to stop
    starts,     \* run -> the versions it still has to start: one or none
    pid,        \* run -> PID or OLD_PID, while a line is left that uses it
    overlapped, \* history: versions two runs were concerned with at a time
    heir,       \* history: pid -> the versions whose pid file, or a run, had it already
                \* when the process that runs under it began
    exposed     \* history: pid -> the runs that were about to signal it then

\* The places of a run, in the order of the lines of the scripts.
StopPlaces == {"file", "cat", "check", "term", "poll", "rm"}
StartPlaces == {"look", "old", "refuse", "clear", "launch", "write", "sleep", "drop"}

procVars == <<kind, dying, heir, exposed>>
runVars == <<at, stops, starts, pid>>
vars == <<procVars, file, runVars, overlapped>>

Proxy(p) == kind[p] \in Impls
Free(p) == kind[p] = "free"

Init ==
    /\ kind = [p \in Pids |-> "free"] /\ dying = {}
    /\ heir = [p \in Pids |-> {}] /\ exposed = [p \in Pids |-> {}]
    /\ file = [v \in Impls |-> NoPid]
    /\ at = [r \in Runs |-> "idle"]
    /\ stops = [r \in Runs |-> <<>>] /\ starts = [r \in Runs |-> {}]
    /\ pid = [r \in Runs |-> NoPid]
    /\ overlapped = {}

-----------------------------------------------------------------------------
(* The processes: proxies, and others that come by a pid.                  *)

AboutToSignal(r) == at[r] \in {"term", "poll"}

Target(r) == Head(stops[r])
Version(r) == CHOOSE v \in starts[r] : TRUE

\* The run is to signal the pid for the version, or to write it to its file.
Uses(r, v, p) ==
    /\ pid[r] = p
    /\ \/ at[r] \in {"check", "term", "poll"} /\ Target(r) = v
       \/ at[r] = "write" /\ Version(r) = v

Claimed(v, p) == file[v] = p \/ \E r \in Runs : Uses(r, v, p)

\* What matters of the past of a process is what had its pid, but for a proxy and its
\* own version.
Begins(p, what) ==
    /\ Free(p)
    /\ kind' = [kind EXCEPT ![p] = what]
    /\ heir' = [heir EXCEPT ![p] = {v \in Impls \ {what} : Claimed(v, p)}]
    /\ exposed' = [exposed EXCEPT ![p] =
                     {r \in Runs : what \notin Impls /\ AboutToSignal(r) /\ pid[r] = p}]
    /\ UNCHANGED dying

\* It exits or is killed: to a kill -0, and on the port, it is still there.
Falls(p) == dying' = dying \cup {p} /\ UNCHANGED <<kind, heir, exposed>>

\* Only of proxies, and of what was killed, does it matter how long that takes.
Dies(p) == Proxy(p) /\ p \notin dying /\ Falls(p)

Ends(p) ==
    /\ ~Free(p) /\ (p \in dying \/ ~Proxy(p))
    /\ dying' = dying \ {p}
    /\ kind' = [kind EXCEPT ![p] = "free"]
    /\ heir' = [heir EXCEPT ![p] = {}] /\ exposed' = [exposed EXCEPT ![p] = {}]

\* Processes that are no proxy of this checkout, and those of them that is_ours takes
\* for one: an editor or a git on a tailcat_socks.py, the proxy of another checkout.
Others == {p \in Pids : kind[p] \in {"foreign", "lookalike"}}
OtherBegins(p) ==
    Cardinality(Others) < MaxOthers /\ (Begins(p, "foreign") \/ Begins(p, "lookalike"))

World(p) ==
    /\ Dies(p) \/ Ends(p) \/ OtherBegins(p)
    /\ UNCHANGED <<file, runVars, overlapped>>

-----------------------------------------------------------------------------
(* The beginning and the end of a run.                                     *)

Concerns(r, v) == v \in ToSet(stops[r]) \cup starts[r]

Goto(r, here, there) == at[r] = here /\ at' = [at EXCEPT ![r] = there]

\* The exit of a script, also the one `set -e' makes of a cat that fails, which ends
\* restart.sh with its stop.sh.
Exit(r) ==
    /\ at' = [at EXCEPT ![r] = "idle"]
    /\ stops' = [stops EXCEPT ![r] = <<>>] /\ starts' = [starts EXCEPT ![r] = {}]
    /\ pid' = [pid EXCEPT ![r] = NoPid]

\* A run of start.sh, of stop.sh, or of restart.sh, which runs both.
Begin(r, toStop, toStart) ==
    /\ at[r] = "idle"
    /\ at' = [at EXCEPT ![r] = IF toStop # <<>> THEN "file" ELSE "look"]
    /\ stops' = [stops EXCEPT ![r] = toStop]
    /\ starts' = [starts EXCEPT ![r] = toStart]
    /\ overlapped' = overlapped \cup
         {v \in ToSet(toStop) \cup toStart : \E q \in Runs : Concerns(q, v)}
    /\ UNCHANGED <<procVars, file, pid>>

Start(r, v) == Begin(r, <<>>, {v})
Stop(r) == Begin(r, Versions, {}) \/ \E v \in Impls : Begin(r, <<v>>, {})

\* Without an argument: all are stopped, and start.sh takes the first, go.
Restart(r) ==
    Begin(r, Versions, {Versions[1]}) \/ \E v \in Impls : Begin(r, <<v>>, {v})

-----------------------------------------------------------------------------
(* bin/stop.sh, for the first of the versions that are left.               *)

\* On to the next pid file, or to start.sh, or to the end.
NextFile(r) ==
    IF Len(stops[r]) > 1 \/ starts[r] # {}
    THEN /\ stops' = [stops EXCEPT ![r] = Tail(@)]
         /\ at' = [at EXCEPT ![r] = IF Len(stops[r]) > 1 THEN "file" ELSE "look"]
         /\ pid' = [pid EXCEPT ![r] = NoPid] /\ UNCHANGED starts
    ELSE Exit(r)

StopFile(r) ==
    /\ at[r] = "file"
    /\ IF file[Target(r)] = NoPid
       THEN NextFile(r)
       ELSE Goto(r, "file", "cat") /\ UNCHANGED <<stops, starts, pid>>
    /\ UNCHANGED <<procVars, file, overlapped>>

\* Faulty variant: $PID_FILES, the first of the files, in the place of $PID_FILE.
StopCatsFirst(r) ==
    LET first == file[Versions[1]]
    IN  /\ at[r] = "cat"
        /\ IF first = NoPid
           THEN Exit(r)
           ELSE pid' = [pid EXCEPT ![r] = first] /\ Goto(r, "cat", "check") /\ UNCHANGED <<stops, starts>>
        /\ UNCHANGED <<procVars, file, overlapped>>

StopCat(r) ==
    /\ at[r] = "cat"
    /\ IF file[Target(r)] = NoPid
       THEN Exit(r)
       ELSE /\ pid' = [pid EXCEPT ![r] = file[Target(r)]]
            /\ Goto(r, "cat", "check") /\ UNCHANGED <<stops, starts>>
    /\ UNCHANGED <<procVars, file, overlapped>>

\* kill -0 and is_ours, which looks at the ends of the command line's words: a proxy of
\* whatever version, and what looks like one.  A dying process may have lost its.
IsOurs(p) == Proxy(p) \/ kind[p] = "lookalike"
NotOurs(p) == ~IsOurs(p) \/ p \in dying

StopCheck(r) ==
    /\ \/ Goto(r, "check", "term") /\ IsOurs(pid[r])
       \/ Goto(r, "check", "rm") /\ NotOurs(pid[r])
    /\ UNCHANGED <<procVars, file, stops, starts, pid, overlapped>>

\* kill -TERM: the process that got it ends at any time after, or not at all.
StopTerm(r) ==
    /\ Goto(r, "term", "poll")
    /\ UNCHANGED <<procVars, file, stops, starts, pid, overlapped>>

StopSees(r) ==
    /\ Goto(r, "poll", "rm") /\ Free(pid[r])
    /\ UNCHANGED <<procVars, file, stops, starts, pid, overlapped>>

\* Faulty variant: the script leaves a proxy that ignores its SIGTERM alone.
StopGivesUp(r) ==
    /\ Goto(r, "poll", "rm") /\ ~Free(pid[r])
    /\ UNCHANGED <<procVars, file, stops, starts, pid, overlapped>>

\* The window is over, and the pid is alive: kill -KILL, without asking whose it is,
\* and without waiting for it to take effect.
StopForces(r) ==
    /\ Goto(r, "poll", "rm") /\ ~Free(pid[r])
    /\ Falls(pid[r])
    /\ UNCHANGED <<file, stops, starts, pid, overlapped>>

\* rm -f, whatever the file says by now.
StopRm(r) ==
    /\ at[r] = "rm"
    /\ file' = [file EXCEPT ![Target(r)] = NoPid]
    /\ NextFile(r)
    /\ UNCHANGED <<procVars, overlapped>>

-----------------------------------------------------------------------------
(* bin/start.sh.                                                           *)

StartFile(r) ==
    /\ at[r] = "look"
    /\ at' = [at EXCEPT ![r] = IF file[Version(r)] = NoPid THEN "launch" ELSE "old"]
    /\ UNCHANGED <<procVars, file, stops, starts, pid, overlapped>>

StartCat(r) ==
    /\ at[r] = "old"
    /\ IF file[Version(r)] = NoPid
       THEN Exit(r)
       ELSE /\ pid' = [pid EXCEPT ![r] = file[Version(r)]]
            /\ Goto(r, "old", "refuse") /\ UNCHANGED <<stops, starts>>
    /\ UNCHANGED <<procVars, file, overlapped>>

\* Faulty variant: a pid file is always taken for a stale one.
StartNeverRefuses(r) ==
    /\ Goto(r, "refuse", "clear")
    /\ UNCHANGED <<procVars, file, stops, starts, pid, overlapped>>

StartCheck(r) ==
    /\ at[r] = "refuse"
    /\ \/ IsOurs(pid[r]) /\ Exit(r)
       \/ NotOurs(pid[r]) /\ Goto(r, "refuse", "clear") /\ UNCHANGED <<stops, starts, pid>>
    /\ UNCHANGED <<procVars, file, overlapped>>

StartClears(r) ==
    /\ Goto(r, "clear", "launch")
    /\ file' = [file EXCEPT ![Version(r)] = NoPid]
    /\ UNCHANGED <<procVars, stops, starts, pid, overlapped>>

Launch(r) ==
    /\ Goto(r, "launch", "write")
    /\ \E p \in Pids : Begins(p, Version(r)) /\ pid' = [pid EXCEPT ![r] = p]
    /\ UNCHANGED <<file, stops, starts, overlapped>>

StartWrites(r) ==
    /\ Goto(r, "write", "sleep")
    /\ file' = [file EXCEPT ![Version(r)] = pid[r]]
    /\ UNCHANGED <<procVars, stops, starts, pid, overlapped>>

\* After 0.4 s, kill -0 alone: started, or dead at once.
StartLooks(r) ==
    /\ at[r] = "sleep"
    /\ IF Free(pid[r])
       THEN Goto(r, "sleep", "drop") /\ UNCHANGED <<stops, starts, pid>>
       ELSE Exit(r)
    /\ UNCHANGED <<procVars, file, overlapped>>

StartDrops(r) ==
    /\ at[r] = "drop"
    /\ file' = [file EXCEPT ![Version(r)] = NoPid]
    /\ Exit(r)
    /\ UNCHANGED <<procVars, overlapped>>

-----------------------------------------------------------------------------

Script(r) ==
    \/ StopFile(r) \/ StopCat(r) \/ StopCheck(r) \/ StopTerm(r)
    \/ StopSees(r) \/ StopForces(r) \/ StopRm(r)
    \/ StartFile(r) \/ StartCat(r) \/ StartCheck(r) \/ StartClears(r)
    \/ Launch(r) \/ StartWrites(r) \/ StartLooks(r) \/ StartDrops(r)

Operator(r) == Stop(r) \/ Restart(r) \/ \E v \in Impls : Start(r, v)

Next ==
    \/ \E r \in Runs : Script(r) \/ Operator(r)
    \/ \E p \in Pids : World(p)

Spec == Init /\ [][Next]_vars

-----------------------------------------------------------------------------
(* Properties.                                                             *)

\* A stop for a version signals, besides its proxy, only a process that was given the
\* pid of a dead one while the pid file or a run still had it, whatever runs of whatever
\* versions overlap; and of those only what is_ours takes for a proxy, or what was given
\* the pid after the check.  The README promises more, that the scripts stop "only
\* processes that really are this proxy" (README.md:109) and only the version asked for
\* (README.md:101-102): the exceptions are where they do not.
OnlyHeirsAreHit ==
    \A r \in Runs :
        LET p == pid[r]
        IN  AboutToSignal(r) /\ kind[p] \notin {"free", Target(r)} =>
                /\ Target(r) \in heir[p]
                /\ kind[p] = "foreign" => r \in exposed[p]

Undisturbed(v) == v \notin overlapped

Lives(p, v) == kind[p] = v /\ p \notin dying

\* No proxy is lost: between two runs of the scripts, each one that lives is the one
\* its version's pid file names, whatever died, and whoever was given its pid.  Only
\* two runs at a time for one version, and not for two, can lose one.
Tracked ==
    \A v \in Impls :
        Undisturbed(v) /\ (\A r \in Runs : ~Concerns(r, v)) =>
            \A p \in Pids : Lives(p, v) => file[v] = p

\* A start, also the one a restart makes, launches its proxy when none of the version
\* is left but one that is dying (the refusal of start.sh, the polls and the SIGKILL of
\* stop.sh).  That one can still hold the port: stop.sh does not wait for the SIGKILL
\* to take effect, and what is launched then finds the port taken.
LaunchesAlone ==
    \A r \in Runs :
        at[r] = "launch" /\ Undisturbed(Version(r)) =>
            \A p \in Pids : ~Lives(p, Version(r))

=============================================================================
