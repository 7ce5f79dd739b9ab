--------------------------- MODULE Scripts_proofs ---------------------------
(***************************************************************************)
(* The scripts, for any number of versions, pids and runs at a time: whom  *)
(* else than its proxy a stop can signal, and that runs that do not        *)
(* overlap for a version lose no living proxy and start none beside one.   *)
(***************************************************************************)
EXTENDS Scripts, SequenceTheorems, TLAPS

OutsideTyped ==
    /\ kind \in [Pids -> Impls \cup {"free", "foreign", "lookalike"}]
    /\ dying \subseteq Pids
    /\ heir \in [Pids -> SUBSET Impls]
    /\ exposed \in [Pids -> SUBSET Runs]
    /\ file \in [Impls -> Pids \cup {NoPid}]

RunsTyped ==
    /\ at \in [Runs -> {"idle"} \cup StopPlaces \cup StartPlaces]
    /\ stops \in [Runs -> Seq(Impls)]
    /\ starts \in [Runs -> SUBSET Impls]
    /\ pid \in [Runs -> Pids \cup {NoPid}]

Typed == OutsideTyped /\ RunsTyped

\* What a run has to do goes with where it is.
Agenda(r) ==
    /\ starts[r] = {} \/ \E v \in Impls : starts[r] = {v}
    /\ at[r] = "idle" => stops[r] = <<>> /\ starts[r] = {}
    /\ at[r] \in StopPlaces => stops[r] # <<>>
    /\ at[r] \in StartPlaces => starts[r] # {}
    /\ at[r] \in {"check", "term", "poll", "refuse"} => pid[r] \in Pids

OneRun(v) == \A q, r \in Runs : Concerns(q, v) /\ Concerns(r, v) => q = r

\* The run is in the lines of a script that are about the version.
Current(r, v) ==
    \/ at[r] \in StopPlaces /\ Head(stops[r]) = v
    \/ at[r] \in StartPlaces /\ starts[r] = {v}

Gone(v) == \A p \in Pids : ~Lives(p, v)

\* What the run knows there: that its pid is the one of the file, that no proxy of the
\* version is left, or, between the launch and the write, none but its own.
Phase(r, v) ==
    Current(r, v) =>
        /\ at[r] \in {"check", "term", "poll", "refuse", "sleep"} => pid[r] = file[v]
        /\ at[r] \in {"rm", "clear", "launch", "drop"} => Gone(v)
        /\ at[r] = "write" => \A p \in Pids : Lives(p, v) => p = pid[r]

\* Every proxy is the one of its file, or one just launched that is about to be.
Known(v) ==
    \A p \in Pids : Lives(p, v) =>
        \/ file[v] = p
        \/ \E r \in Runs : Current(r, v) /\ at[r] = "write" /\ pid[r] = p

Kept(v) == OneRun(v) /\ Known(v) /\ \A r \in Runs : Phase(r, v)

\* What is no proxy came to a pid that is about to be signalled after the check.
Checked ==
    \A r \in Runs :
        AboutToSignal(r) /\ kind[pid[r]] = "foreign" => r \in exposed[pid[r]]

\* Who has a pid that is claimed for a version, and is not of it, has it by inheritance.
Inherited ==
    \A v \in Impls, p \in Pids :
        Claimed(v, p) /\ kind[p] \notin {"free", v} => v \in heir[p]

IInv ==
    /\ Typed
    /\ \A r \in Runs : Agenda(r)
    /\ Checked
    /\ Inherited
    /\ \A v \in Impls : Undisturbed(v) => Kept(v)

OthersWait(r) ==
    \A q \in Runs \ {r} :
        at'[q] = at[q] /\ stops'[q] = stops[q] /\ starts'[q] = starts[q] /\ pid'[q] = pid[q]

\* What is known of the past of a process is kept, and is complete when one begins; a
\* step of a run makes none that is not a proxy.
Remembers ==
    \A p \in Pids : kind'[p] # "free" =>
        \/ kind'[p] = kind[p] /\ exposed'[p] = exposed[p] /\ heir'[p] = heir[p]
        \/ /\ kind'[p] # "foreign"
           /\ \A v \in Impls : v # kind'[p] /\ Claimed(v, p) => v \in heir'[p]

\* A step of the world makes no proxy.
NoNewProxy == \A v \in Impls, p \in Pids : Lives(p, v)' => Lives(p, v)

-----------------------------------------------------------------------------
(* What a step of a run has to keep.                                       *)

\* The first and the rest of what is left to stop.
LEMMA HeadAndTail ==
    ASSUME NEW s \in Seq(Impls), s # <<>>
    PROVE  /\ Head(s) \in ToSet(s) /\ Head(s) \in Impls
           /\ Tail(s) \in Seq(Impls) /\ ToSet(Tail(s)) \subseteq ToSet(s)
           /\ Len(s) > 1 => Tail(s) # <<>>
<1>1. Len(s) \in Nat /\ Len(s) >= 1 /\ DOMAIN s = 1..Len(s)
    OBVIOUS
<1>2. Head(s) = s[1]
    OBVIOUS
<1>3. /\ Tail(s) \in Seq(Impls) /\ Len(Tail(s)) = Len(s) - 1
      /\ \A i \in 1..Len(Tail(s)) : Tail(s)[i] = s[i + 1]
    BY <1>1
<1>4. DOMAIN Tail(s) = 1..(Len(s) - 1)
    BY <1>1, <1>3
<1>5. ToSet(Tail(s)) \subseteq ToSet(s)
    BY <1>1, <1>3, <1>4 DEF ToSet
<1>6. Len(s) > 1 => Tail(s) # <<>>
    <2>1. Len(<<>>) = 0
        BY EmptySeq
    <2>2. Len(s) > 1 => Len(Tail(s)) # 0
        BY <1>1, <1>3
    <2> QED BY <2>1, <2>2, Zenon
<1>7. Head(s) \in ToSet(s) /\ Head(s) \in Impls
    BY <1>1, <1>2 DEF ToSet
<1> QED BY <1>3, <1>5, <1>6, <1>7

\* A run is concerned with the version it is in the lines of.
LEMMA CurrentConcerns ==
    ASSUME Typed, NEW r \in Runs, Agenda(r), NEW v, Current(r, v)
    PROVE  Concerns(r, v)
<1>1. CASE at[r] \in StopPlaces /\ Head(stops[r]) = v
    <2>1. stops[r] \in Seq(Impls) /\ stops[r] # <<>>
        BY <1>1 DEF Typed, RunsTyped, Agenda
    <2> QED BY <1>1, <2>1, HeadAndTail DEF Concerns
<1>2. CASE at[r] \in StartPlaces /\ starts[r] = {v}
    BY <1>2 DEF Concerns
<1> QED BY <1>1, <1>2 DEF Current

\* The version a run is in the lines of.
LEMMA WhichVersion ==
    ASSUME Typed, NEW r \in Runs, Agenda(r)
    PROVE  /\ at[r] \in StopPlaces => Current(r, Target(r)) /\ Target(r) \in Impls
           /\ at[r] \in StartPlaces =>
                /\ Version(r) \in Impls /\ starts[r] = {Version(r)} /\ Current(r, Version(r))
           /\ \A v : Current(r, v) => \/ at[r] \in StopPlaces /\ v = Target(r)
                                      \/ at[r] \in StartPlaces /\ v = Version(r)
<1>1. at[r] \in StopPlaces => Current(r, Target(r)) /\ Target(r) \in Impls
    BY HeadAndTail DEF Typed, RunsTyped, Agenda, Current, Target
<1>2. \A v : starts[r] = {v} => Version(r) = v
    BY DEF Version
<1>3. at[r] \in StartPlaces =>
        /\ Version(r) \in Impls /\ starts[r] = {Version(r)} /\ Current(r, Version(r))
    BY <1>2 DEF Agenda, Current
<1> QED BY <1>1, <1>2, <1>3 DEF Current, Target

\* What has to be shown of a step of a run: that it keeps what is known of the version
\* it is about, and does nothing to the others.
LEMMA RunStep ==
    ASSUME IInv, Typed', NEW r \in Runs, NEW v \in Impls, Undisturbed(v), overlapped' = overlapped,
           OthersWait(r), Concerns(r, v)' => Concerns(r, v),
           Current(r, v) =>
               /\ Phase(r, v)'
               /\ \A p \in Pids : Lives(p, v)' =>
                    \/ file'[v] = p
                    \/ Current(r, v)' /\ at'[r] = "write" /\ pid'[r] = p,
           ~Current(r, v) =>
               /\ file'[v] = file[v]
               /\ \A p \in Pids : Lives(p, v)' => Lives(p, v)
               /\ Current(r, v)' => at'[r] \in {"file", "look"}
    PROVE  Undisturbed(v)' => Kept(v)'
<1>1. Kept(v) /\ \A q \in Runs : Agenda(q)
    BY DEF IInv
<1>2. \A q \in Runs \ {r} : (Concerns(q, v)' <=> Concerns(q, v)) /\ (Current(q, v)' <=> Current(q, v))
    BY DEF Concerns, Current, OthersWait
<1>3. OneRun(v)'
    BY <1>1, <1>2 DEF Kept, OneRun, OthersWait
<1>4. CASE Current(r, v)
    <2>1. \A q \in Runs \ {r} : ~Current(q, v)'
        BY <1>1, <1>2, <1>4, CurrentConcerns DEF IInv, Kept, OneRun
    <2>2. \A q \in Runs : Phase(q, v)'
        BY <1>4, <2>1 DEF Phase
    <2>3. Known(v)'
        BY <1>4 DEF Known
    <2> QED BY <1>3, <2>2, <2>3 DEF Kept
<1>5. CASE ~Current(r, v)
    <2>1. \A q \in Runs \ {r} : Phase(q, v)'
        BY <1>1, <1>2, <1>5 DEF Kept, Phase, Gone, OthersWait
    <2>2. Phase(r, v)'
        BY <1>5 DEF Phase
    <2>3. Known(v)'
        BY <1>1, <1>2, <1>5 DEF Kept, Known, OthersWait
    <2> QED BY <1>3, <2>1, <2>2, <2>3 DEF Kept
<1> QED BY <1>4, <1>5

\* While a run is in the lines of a version, what it knows is all there is to know.
LEMMA Alone ==
    ASSUME IInv, NEW r \in Runs, NEW v \in Impls, Undisturbed(v), Current(r, v)
    PROVE  /\ Phase(r, v)
           /\ at[r] # "write" => \A p \in Pids : Lives(p, v) => file[v] = p
<1>1. Kept(v) /\ Typed /\ \A q \in Runs : Agenda(q)
    BY DEF IInv
<1>2. \A q \in Runs : Current(q, v) => q = r
    BY <1>1, CurrentConcerns DEF Kept, OneRun
<1> QED BY <1>1, <1>2 DEF Kept, Known

\* It has a pid for a version only if that was claimed before, or for a new proxy of it.
MayClaim(r) ==
    \A v \in Impls, p \in Pids :
        Uses(r, v, p)' \/ file'[v] = p => Claimed(v, p) \/ kind'[p] \in {"free", v}

\* Claims of the other runs stay as they are.
LEMMA InheritedKept ==
    ASSUME IInv, NEW r \in Runs, OthersWait(r), Remembers, MayClaim(r)
    PROVE  Inherited'
<1> SUFFICES ASSUME NEW v \in Impls, NEW p \in Pids, Claimed(v, p)', kind'[p] \notin {"free", v}
             PROVE  v \in heir'[p]
    BY DEF Inherited
<1>1. \A q \in Runs \ {r} : Uses(q, v, p)' => Claimed(v, p)
    BY DEF OthersWait, Uses, Claimed, Target, Version
<1>2. Claimed(v, p)
    BY <1>1 DEF Claimed, MayClaim
<1> QED BY <1>2 DEF Remembers, IInv, Inherited

\* A run that leaves the lines of a version, for those of another one or for good, has
\* to leave no proxy behind that the file does not name.
LEMMA Leaving ==
    ASSUME IInv, NEW r \in Runs, at[r] # "write", UNCHANGED <<procVars, overlapped>>, OutsideTyped',
           (at[r] \in StopPlaces /\ NextFile(r)) \/ Exit(r),
           \A v \in Impls : Undisturbed(v) /\ Current(r, v) =>
               \A p \in Pids : Lives(p, v) => file'[v] = p,
           \A v \in Impls : file'[v] = file[v] \/ (Current(r, v) /\ file'[v] = NoPid)
    PROVE  IInv'
<1>0. Remembers
    BY DEF Remembers, procVars
<1>1. Typed /\ RunsTyped /\ OutsideTyped /\ Checked /\ \A q \in Runs : Agenda(q)
    BY DEF IInv, Typed
<1>2. CASE Exit(r)
    <2>1. RunsTyped' /\ OthersWait(r) /\ Agenda(r)' /\ at'[r] = "idle" /\ stops'[r] = <<>> /\ starts'[r] = {}
        <3>1. <<>> \in Seq(Impls)
            BY EmptySeq
        <3> QED BY <1>1, <1>2, <3>1 DEF Exit, RunsTyped, OthersWait, Agenda, StopPlaces, StartPlaces
    <2>2. \A v : ~Concerns(r, v)' /\ ~Current(r, v)'
        <3>1. ToSet(<<>>) = {}
            BY EmptySeq DEF ToSet
        <3> QED BY <2>1, <3>1 DEF Concerns, Current, StopPlaces, StartPlaces
    <2> QED
        <3>1. \A v \in Impls : Undisturbed(v)' => Kept(v)'
            <4> SUFFICES ASSUME NEW v \in Impls, Undisturbed(v) PROVE Undisturbed(v)' => Kept(v)'
                BY DEF Undisturbed
            <4> QED BY <1>1, <2>1, <2>2, RunStep DEF Typed, Phase, Lives, procVars
        <3>2. \A q \in Runs : Agenda(q)'
            BY <1>1, <2>1 DEF OthersWait, Agenda
        <3>3. Checked'
            BY <1>1, <2>1 DEF OthersWait, Checked, AboutToSignal, procVars
        <3>4. MayClaim(r)
            BY <2>1, ScriptsAssumption DEF MayClaim, Claimed, Uses
        <3>5. Inherited'
            BY <1>0, <2>1, <3>4, InheritedKept
        <3> QED BY <1>1, <2>1, <3>1, <3>2, <3>3, <3>5 DEF IInv, Typed
<1>3. CASE at[r] \in StopPlaces /\ NextFile(r) /\ ~Exit(r)
    <2>1. /\ stops' = [stops EXCEPT ![r] = Tail(stops[r])]
          /\ at' = [at EXCEPT ![r] = IF Len(stops[r]) > 1 THEN "file" ELSE "look"]
          /\ UNCHANGED starts /\ (Len(stops[r]) > 1 \/ starts[r] # {})
          /\ pid' = [pid EXCEPT ![r] = NoPid]
        BY <1>3 DEF NextFile
    <2>2. stops[r] \in Seq(Impls) /\ stops[r] # <<>>
        BY <1>1, <1>3 DEF RunsTyped, Agenda
    <2>3. /\ Tail(stops[r]) \in Seq(Impls) /\ ToSet(Tail(stops[r])) \subseteq ToSet(stops[r])
          /\ Len(stops[r]) > 1 => Tail(stops[r]) # <<>>
        BY <2>2, HeadAndTail
    <2>4. at'[r] \in {"file", "look"} /\ stops'[r] = Tail(stops[r])
        BY <1>1, <2>1 DEF RunsTyped
    <2>5. RunsTyped' /\ OthersWait(r)
        BY <1>1, <2>1, <2>3 DEF RunsTyped, OthersWait, StopPlaces, StartPlaces
    <2>6. Agenda(r)'
        BY <1>1, <2>1, <2>3, <2>4 DEF RunsTyped, Agenda, StopPlaces, StartPlaces
    <2>7. \A v : Concerns(r, v)' => Concerns(r, v)
        BY <2>1, <2>3, <2>4 DEF Concerns
    <2>8. \A v \in Impls : Undisturbed(v)' => Kept(v)'
        <3> SUFFICES ASSUME NEW v \in Impls, Undisturbed(v) PROVE Undisturbed(v)' => Kept(v)'
            BY DEF Undisturbed
        <3> QED BY <1>1, <2>4, <2>5, <2>7, RunStep DEF Typed, Phase, Lives, procVars
    <2>9. \A q \in Runs : Agenda(q)'
        BY <1>1, <2>5, <2>6 DEF OthersWait, Agenda
    <2>10. Checked'
        BY <1>1, <2>4, <2>5 DEF OthersWait, Checked, AboutToSignal, procVars
    <2>11. MayClaim(r)
        BY <2>4, ScriptsAssumption DEF MayClaim, Claimed, Uses
    <2>12. Inherited'
        BY <1>0, <2>5, <2>11, InheritedKept
    <2> QED BY <1>1, <2>5, <2>8, <2>9, <2>10, <2>12 DEF IInv, Typed
<1> QED BY <1>2, <1>3

\* A run goes on in the lines of a script that are about the same version.
Moves(r) ==
    /\ OthersWait(r) /\ RunsTyped' /\ UNCHANGED <<stops, starts, overlapped>>
    /\ \/ at[r] \in StopPlaces /\ at'[r] \in StopPlaces
       \/ at[r] \in StartPlaces /\ at'[r] \in StartPlaces

\* It may signal a pid that it found to be a proxy's, or that it was to signal before.
MaySignal(r) ==
    /\ at'[r] \in {"check", "term", "poll", "refuse"} => pid'[r] \in Pids
    /\ at'[r] \in {"term", "poll"} => \/ at[r] \in {"term", "poll"} /\ pid[r] = pid'[r]
                                      \/ kind[pid'[r]] # "foreign"

\* It knows of the version what it should at the place it comes to.
Arrives(r, v) ==
    /\ at'[r] \in {"check", "term", "poll", "refuse", "sleep"} => pid'[r] = file'[v]
    /\ at'[r] \in {"rm", "clear", "launch", "drop"} => \A p \in Pids : ~Lives(p, v)'
    /\ at'[r] = "write" => \A p \in Pids : Lives(p, v)' => p = pid'[r]
    /\ at'[r] # "write" => \A p \in Pids : Lives(p, v)' => file'[v] = p

\* It does nothing to the other versions.
Spares(r) ==
    \A v \in Impls : ~Current(r, v) =>
        file'[v] = file[v] /\ \A p \in Pids : Lives(p, v)' => Lives(p, v)

\* Most steps make no claim.
LEMMA NoNewClaim ==
    ASSUME NEW r \in Runs, UNCHANGED <<stops, starts>>,
           \A v \in Impls : file'[v] = file[v] \/ file'[v] = NoPid,
           at'[r] \in {"check", "term", "poll"} =>
               at[r] \in {"check", "term", "poll"} /\ pid'[r] = pid[r],
           at'[r] # "write"
    PROVE  MayClaim(r)
<1> SUFFICES ASSUME NEW v \in Impls, NEW p \in Pids, Uses(r, v, p)' \/ file'[v] = p
             PROVE  Claimed(v, p)
    BY DEF MayClaim
<1>1. CASE Uses(r, v, p)'
    BY <1>1 DEF Uses, Claimed, Target
<1>2. CASE file'[v] = p
    BY <1>2, ScriptsAssumption DEF Claimed
<1> QED BY <1>1, <1>2

LEMMA Advancing ==
    ASSUME IInv, NEW r \in Runs, OutsideTyped', Remembers, Moves(r), MaySignal(r), MayClaim(r), Spares(r),
           \A v \in Impls : Undisturbed(v) /\ Current(r, v) => Arrives(r, v)
    PROVE  IInv'
<1>1. Typed /\ RunsTyped /\ OutsideTyped /\ Checked /\ \A q \in Runs : Agenda(q)
    BY DEF IInv, Typed
<1>2. /\ OthersWait(r) /\ RunsTyped' /\ UNCHANGED <<stops, starts, overlapped>>
      /\ \/ at[r] \in StopPlaces /\ at'[r] \in StopPlaces
         \/ at[r] \in StartPlaces /\ at'[r] \in StartPlaces
    BY DEF Moves
<1>3. \A v : (Concerns(r, v)' <=> Concerns(r, v)) /\ (Current(r, v)' <=> Current(r, v))
    BY <1>2 DEF Concerns, Current, StopPlaces, StartPlaces
<1>4. Agenda(r)'
    BY <1>1, <1>2 DEF Agenda, MaySignal, StopPlaces, StartPlaces
<1>5. \A q \in Runs : Agenda(q)'
    BY <1>1, <1>2, <1>4 DEF OthersWait, Agenda
<1>6. Checked'
    <2> SUFFICES ASSUME NEW q \in Runs, AboutToSignal(q)', kind'[pid'[q]] = "foreign"
                 PROVE  q \in exposed'[pid'[q]]
        BY DEF Checked
    <2>1. pid'[q] \in Pids
        BY <1>5 DEF AboutToSignal, Agenda
    <2>2. kind[pid'[q]] = "foreign" /\ exposed'[pid'[q]] = exposed[pid'[q]]
        BY <2>1 DEF Remembers
    <2>3. AboutToSignal(q) /\ pid'[q] = pid[q]
        BY <1>2, <2>2 DEF AboutToSignal, OthersWait, MaySignal
    <2> QED BY <1>1, <2>2, <2>3 DEF Checked
<1>7. \A v \in Impls : Undisturbed(v)' => Kept(v)'
    <2> SUFFICES ASSUME NEW v \in Impls, Undisturbed(v) PROVE Undisturbed(v)' => Kept(v)'
        BY <1>2 DEF Undisturbed
    <2>1. Current(r, v) => Phase(r, v)'
        BY DEF Phase, Gone, Arrives
    <2>2. Current(r, v) => \A q \in Pids : Lives(q, v)' =>
                    file'[v] = q \/ (Current(r, v)' /\ at'[r] = "write" /\ pid'[r] = q)
        BY <1>3 DEF Arrives
    <2>3. ~Current(r, v) => /\ file'[v] = file[v] /\ \A p \in Pids : Lives(p, v)' => Lives(p, v)
                            /\ ~Current(r, v)'
        BY <1>3 DEF Spares
    <2> QED BY <1>2, <1>3, <2>1, <2>2, <2>3, RunStep DEF Typed
<1>8. Inherited'
    BY <1>2, InheritedKept
<1> QED BY <1>2, <1>5, <1>6, <1>7, <1>8 DEF IInv, Typed

\* Most steps only look: the processes and the files stay as they are.
LEMMA Looking ==
    ASSUME IInv, NEW r \in Runs, UNCHANGED <<procVars, file, overlapped>>
    PROVE  OutsideTyped' /\ Remembers /\ Spares(r)
BY DEF IInv, Typed, OutsideTyped, Remembers, Spares, Lives, procVars

\* A step to another place of the same script.
LEMMA Going ==
    ASSUME IInv, NEW r \in Runs, NEW here, NEW there, Goto(r, here, there),
           UNCHANGED <<stops, starts, overlapped>>,
           \/ here \in StopPlaces /\ there \in StopPlaces
           \/ here \in StartPlaces /\ there \in StartPlaces,
           \/ UNCHANGED pid
           \/ \E p \in Pids : pid' = [pid EXCEPT ![r] = p]
    PROVE  Moves(r) /\ at[r] = here /\ at'[r] = there
BY DEF IInv, Typed, RunsTyped, Goto, Moves, OthersWait

-----------------------------------------------------------------------------
(* The steps of the runs, and of the world.                                *)

\* What the steps have in common.
LEMMA Here ==
    ASSUME IInv, NEW r \in Runs
    PROVE  /\ Typed /\ OutsideTyped /\ RunsTyped /\ Agenda(r)
           /\ at[r] \in StopPlaces => Current(r, Target(r)) /\ Target(r) \in Impls
           /\ at[r] \in StartPlaces => Current(r, Version(r)) /\ Version(r) \in Impls
           /\ \A v : Current(r, v) => \/ at[r] \in StopPlaces /\ v = Target(r)
                                      \/ at[r] \in StartPlaces /\ v = Version(r)
           /\ \A v \in Impls : Undisturbed(v) /\ Current(r, v) =>
                /\ Phase(r, v)
                /\ at[r] # "write" => \A p \in Pids : Lives(p, v) => file[v] = p
           /\ NoPid \notin Pids /\ {"free", "foreign", "lookalike"} \cap Impls = {}
<1>1. Typed /\ OutsideTyped /\ RunsTyped /\ Agenda(r)
    BY DEF IInv, Typed
<1> QED BY <1>1, WhichVersion, Alone, ScriptsAssumption

\* stop.sh comes to its rm when the proxy it found is gone, or was none.
LEMMA StopLooks ==
    ASSUME IInv, NEW r \in Runs, StopFile(r) \/ StopCat(r)
    PROVE  IInv'
<1>1. UNCHANGED <<procVars, file, overlapped>> /\ at[r] \in {"file", "cat"}
    BY DEF StopFile, StopCat
<1>2. OutsideTyped' /\ Remembers /\ Spares(r)
    BY <1>1, Looking
<1>3. /\ RunsTyped /\ OutsideTyped /\ Target(r) \in Impls
      /\ \A v : Current(r, v) => v = Target(r)
      /\ \A v \in Impls : Undisturbed(v) /\ Current(r, v) => \A p \in Pids : Lives(p, v) => file[v] = p
    BY <1>1, Here DEF StopPlaces, StartPlaces
<1>4. CASE file[Target(r)] = NoPid
    <2>1. (at[r] \in StopPlaces /\ NextFile(r)) \/ Exit(r)
        BY <1>1, <1>4 DEF StopFile, StopCat, StopPlaces
    <2> QED BY <1>1, <1>2, <1>3, <2>1, Leaving
<1>5. CASE file[Target(r)] # NoPid /\ StopFile(r)
    <2>1. Goto(r, "file", "cat") /\ UNCHANGED <<stops, starts, pid>>
        BY <1>5 DEF StopFile
    <2>2. Moves(r) /\ at'[r] = "cat"
        BY <1>1, <2>1, Going DEF StopPlaces
    <2>3. MaySignal(r) /\ \A v \in Impls : Undisturbed(v) /\ Current(r, v) => Arrives(r, v)
        BY <1>1, <1>3, <2>2 DEF MaySignal, Arrives, Lives, procVars
    <2>4. MayClaim(r)
        BY <1>1, <1>3, <2>2, NoNewClaim DEF Moves
    <2> QED BY <1>2, <2>2, <2>3, <2>4, Advancing
<1>6. CASE file[Target(r)] # NoPid /\ StopCat(r)
    <2>1. /\ Goto(r, "cat", "check") /\ UNCHANGED <<stops, starts>>
          /\ pid' = [pid EXCEPT ![r] = file[Target(r)]] /\ file[Target(r)] \in Pids
        BY <1>3, <1>6 DEF StopCat, OutsideTyped
    <2>2. Moves(r) /\ at'[r] = "check" /\ pid'[r] = file[Target(r)]
        BY <1>1, <1>3, <2>1, Going DEF StopPlaces, RunsTyped
    <2>3. MaySignal(r) /\ \A v \in Impls : Undisturbed(v) /\ Current(r, v) => Arrives(r, v)
        BY <1>1, <1>3, <2>1, <2>2 DEF MaySignal, Arrives, Lives, procVars
    <2>4. MayClaim(r)
        BY <1>1, <2>1, <2>2 DEF MayClaim, Uses, Claimed, Target
    <2> QED BY <1>2, <2>2, <2>3, <2>4, Advancing
<1> QED BY <1>4, <1>5, <1>6

LEMMA StopWaits ==
    ASSUME IInv, NEW r \in Runs, StopCheck(r) \/ StopTerm(r) \/ StopSees(r)
    PROVE  IInv'
<1>1. /\ UNCHANGED <<procVars, file, overlapped>> /\ UNCHANGED <<stops, starts, pid>>
      /\ at[r] \in {"check", "term", "poll"}
    BY DEF StopCheck, StopTerm, StopSees, Goto
<1>2. OutsideTyped' /\ Remembers /\ Spares(r)
    BY <1>1, Looking
<1>3. /\ RunsTyped /\ OutsideTyped /\ pid[r] \in Pids /\ {"free", "foreign", "lookalike"} \cap Impls = {}
      /\ \A v \in Impls : Undisturbed(v) /\ Current(r, v) =>
            pid[r] = file[v] /\ \A p \in Pids : Lives(p, v) => file[v] = p
    BY <1>1, Here DEF StopPlaces, StartPlaces, Agenda, Phase
<1>4. CASE Goto(r, "check", "term") /\ IsOurs(pid[r])
    <2>1. Goto(r, "check", "term") /\ kind[pid[r]] # "foreign"
        BY <1>3, <1>4 DEF IsOurs, Proxy
    <2>2. Moves(r) /\ at'[r] = "term"
        BY <1>1, <2>1, Going DEF StopPlaces
    <2>3. MaySignal(r) /\ \A v \in Impls : Undisturbed(v) /\ Current(r, v) => Arrives(r, v)
        BY <1>1, <1>3, <2>1, <2>2 DEF MaySignal, Arrives, Lives, procVars
    <2>4. MayClaim(r)
        BY <1>1, <1>3, <2>1, <2>2, NoNewClaim DEF Moves
    <2> QED BY <1>2, <2>2, <2>3, <2>4, Advancing
<1>5. CASE StopTerm(r)
    <2>1. Goto(r, "term", "poll")
        BY <1>5 DEF StopTerm
    <2>2. Moves(r) /\ at[r] = "term" /\ at'[r] = "poll"
        BY <1>1, <2>1, Going DEF StopPlaces
    <2>3. MaySignal(r) /\ \A v \in Impls : Undisturbed(v) /\ Current(r, v) => Arrives(r, v)
        BY <1>1, <1>3, <2>2 DEF MaySignal, Arrives, Lives, procVars
    <2>4. MayClaim(r)
        BY <1>1, <1>3, <2>2, NoNewClaim DEF Moves
    <2> QED BY <1>2, <2>2, <2>3, <2>4, Advancing
<1>6. CASE StopSees(r) \/ (Goto(r, "check", "rm") /\ NotOurs(pid[r]))
    <2>1. (Goto(r, "poll", "rm") \/ Goto(r, "check", "rm")) /\ \A v \in Impls : ~Lives(pid[r], v)
        BY <1>3, <1>6 DEF StopSees, NotOurs, IsOurs, Proxy, Free, Lives
    <2>2. Moves(r) /\ at'[r] = "rm"
        BY <1>1, <2>1, Going DEF StopPlaces
    <2>3. MaySignal(r) /\ \A v \in Impls : Undisturbed(v) /\ Current(r, v) => Arrives(r, v)
        BY <1>1, <1>3, <2>1, <2>2 DEF MaySignal, Arrives, Lives, procVars
    <2>4. MayClaim(r)
        BY <1>1, <1>3, <2>1, <2>2, NoNewClaim DEF Moves
    <2> QED BY <1>2, <2>2, <2>3, <2>4, Advancing
<1> QED BY <1>4, <1>5, <1>6 DEF StopCheck

LEMMA StopActs ==
    ASSUME IInv, NEW r \in Runs, StopForces(r) \/ StopRm(r)
    PROVE  IInv'
<1>1. CASE StopForces(r)
    <2>1. /\ Goto(r, "poll", "rm") /\ UNCHANGED <<file, stops, starts, pid, overlapped>>
          /\ dying' = dying \cup {pid[r]} /\ UNCHANGED <<kind, heir, exposed>>
        BY <1>1 DEF StopForces, Falls
    <2>2. Moves(r) /\ at[r] = "poll" /\ at'[r] = "rm"
        BY <2>1, Going DEF StopPlaces
    <2>3. /\ RunsTyped /\ OutsideTyped /\ pid[r] \in Pids
          /\ \A v \in Impls : Undisturbed(v) /\ Current(r, v) =>
                pid[r] = file[v] /\ \A p \in Pids : Lives(p, v) => file[v] = p
        BY <2>2, Here DEF StopPlaces, StartPlaces, Agenda, Phase
    <2>4. OutsideTyped' /\ Remembers
        BY <2>1, <2>3 DEF OutsideTyped, Remembers
    <2>5. \A p \in Pids, v \in Impls : Lives(p, v)' => Lives(p, v) /\ p # pid[r]
        BY <2>1 DEF Lives
    <2>6. Spares(r)
        BY <2>1, <2>5 DEF Spares
    <2>7. MaySignal(r) /\ \A v \in Impls : Undisturbed(v) /\ Current(r, v) => Arrives(r, v)
        BY <2>1, <2>2, <2>3, <2>5 DEF MaySignal, Arrives
    <2>8. MayClaim(r)
        BY <2>1, <2>2, NoNewClaim
    <2> QED BY <2>2, <2>4, <2>6, <2>7, <2>8, Advancing
<1>2. CASE StopRm(r)
    <2>1. /\ at[r] = "rm" /\ UNCHANGED <<procVars, overlapped>> /\ NextFile(r)
          /\ file' = [file EXCEPT ![Target(r)] = NoPid]
        BY <1>2 DEF StopRm
    <2>2. /\ OutsideTyped /\ Target(r) \in Impls /\ Current(r, Target(r))
          /\ \A v \in Impls : Undisturbed(v) /\ Current(r, v) => Gone(v)
        BY <2>1, Here DEF StopPlaces, StartPlaces, Phase
    <2>3. OutsideTyped'
        BY <2>1, <2>2 DEF OutsideTyped, procVars
    <2>4. \A v \in Impls : file'[v] = file[v] \/ (Current(r, v) /\ file'[v] = NoPid)
        BY <2>1, <2>2 DEF OutsideTyped
    <2>5. \A v \in Impls : Undisturbed(v) /\ Current(r, v) =>
            \A p \in Pids : Lives(p, v) => file'[v] = p
        BY <2>2 DEF Gone
    <2> QED BY <2>1, <2>3, <2>4, <2>5, Leaving DEF StopPlaces
<1> QED BY <1>1, <1>2

\* start.sh comes to its launch when there is no pid file, or its process is no proxy.
LEMMA StartReads ==
    ASSUME IInv, NEW r \in Runs,
           StartFile(r) \/ StartCat(r) \/ StartCheck(r) \/ StartLooks(r)
    PROVE  IInv'
<1>1. UNCHANGED <<procVars, file, overlapped>> /\ at[r] \in {"look", "old", "refuse", "sleep"}
    BY DEF StartFile, StartCat, StartCheck, StartLooks
<1>2. OutsideTyped' /\ Remembers /\ Spares(r)
    BY <1>1, Looking
<1>3. /\ RunsTyped /\ OutsideTyped /\ Version(r) \in Impls /\ {"free", "foreign", "lookalike"} \cap Impls = {}
      /\ NoPid \notin Pids
      /\ \A v : Current(r, v) => v = Version(r)
      /\ \A v \in Impls : Undisturbed(v) /\ Current(r, v) =>
            Phase(r, v) /\ \A p \in Pids : Lives(p, v) => file[v] = p
    BY <1>1, Here DEF StopPlaces, StartPlaces
<1>4. CASE Exit(r)
    BY <1>1, <1>2, <1>3, <1>4, Leaving
<1>5. CASE StartFile(r)
    <2>1. /\ UNCHANGED <<stops, starts, pid>>
          /\ \/ file[Version(r)] = NoPid /\ Goto(r, "look", "launch")
             \/ file[Version(r)] # NoPid /\ Goto(r, "look", "old")
        BY <1>5 DEF StartFile, Goto
    <2>2. Moves(r) /\ (at'[r] = "old" \/ (at'[r] = "launch" /\ file[Version(r)] = NoPid))
        BY <1>1, <2>1, Going DEF StartPlaces
    <2>3. MaySignal(r) /\ \A v \in Impls : Undisturbed(v) /\ Current(r, v) => Arrives(r, v)
        BY <1>1, <1>3, <2>2 DEF MaySignal, Arrives, Lives, procVars
    <2>4. MayClaim(r)
        BY <1>1, <1>3, <2>2, NoNewClaim DEF Moves
    <2> QED BY <1>2, <2>2, <2>3, <2>4, Advancing
<1>6. CASE StartCat(r) /\ ~Exit(r)
    <2>1. /\ Goto(r, "old", "refuse") /\ UNCHANGED <<stops, starts>>
          /\ pid' = [pid EXCEPT ![r] = file[Version(r)]] /\ file[Version(r)] \in Pids
        BY <1>3, <1>6 DEF StartCat, OutsideTyped
    <2>2. Moves(r) /\ at'[r] = "refuse" /\ pid'[r] = file[Version(r)]
        BY <1>1, <1>3, <2>1, Going DEF StartPlaces, RunsTyped
    <2>3. MaySignal(r) /\ \A v \in Impls : Undisturbed(v) /\ Current(r, v) => Arrives(r, v)
        BY <1>1, <1>3, <2>1, <2>2 DEF MaySignal, Arrives, Lives, procVars
    <2>4. MayClaim(r)
        BY <1>1, <1>3, <2>1, <2>2, NoNewClaim DEF Moves
    <2> QED BY <1>2, <2>2, <2>3, <2>4, Advancing
<1>7. CASE StartCheck(r) /\ ~Exit(r)
    <2>1. /\ Goto(r, "refuse", "clear") /\ UNCHANGED <<stops, starts, pid>>
          /\ \A v \in Impls : ~Lives(pid[r], v)
        BY <1>7 DEF StartCheck, NotOurs, IsOurs, Proxy, Lives
    <2>2. Moves(r) /\ at[r] = "refuse" /\ at'[r] = "clear"
        BY <1>1, <2>1, Going DEF StartPlaces
    <2>3. \A v \in Impls : Undisturbed(v) /\ Current(r, v) => \A p \in Pids : ~Lives(p, v)
        BY <1>3, <2>1, <2>2 DEF Phase
    <2>4. MaySignal(r) /\ \A v \in Impls : Undisturbed(v) /\ Current(r, v) => Arrives(r, v)
        BY <1>1, <2>2, <2>3 DEF MaySignal, Arrives, Lives, procVars
    <2>5. MayClaim(r)
        BY <1>1, <2>2, <2>3, NoNewClaim DEF Moves
    <2> QED BY <1>2, <2>2, <2>4, <2>5, Advancing
<1>8. CASE StartLooks(r) /\ ~Exit(r)
    <2>1. /\ Goto(r, "sleep", "drop") /\ UNCHANGED <<stops, starts, pid>>
          /\ \A v \in Impls : ~Lives(pid[r], v)
        BY <1>3, <1>8 DEF StartLooks, Free, Lives
    <2>2. Moves(r) /\ at[r] = "sleep" /\ at'[r] = "drop"
        BY <1>1, <2>1, Going DEF StartPlaces
    <2>3. \A v \in Impls : Undisturbed(v) /\ Current(r, v) => \A p \in Pids : ~Lives(p, v)
        BY <1>3, <2>1, <2>2 DEF Phase
    <2>4. MaySignal(r) /\ \A v \in Impls : Undisturbed(v) /\ Current(r, v) => Arrives(r, v)
        BY <1>1, <2>2, <2>3 DEF MaySignal, Arrives, Lives, procVars
    <2>5. MayClaim(r)
        BY <1>1, <2>2, <2>3, NoNewClaim DEF Moves
    <2> QED BY <1>2, <2>2, <2>4, <2>5, Advancing
<1> QED BY <1>4, <1>5, <1>6, <1>7, <1>8

LEMMA StartActs ==
    ASSUME IInv, NEW r \in Runs,
           StartClears(r) \/ Launch(r) \/ StartWrites(r) \/ StartDrops(r)
    PROVE  IInv'
<1>1. at[r] \in {"clear", "launch", "write", "drop"} /\ UNCHANGED overlapped
    BY DEF StartClears, Launch, StartWrites, StartDrops, Goto, procVars
<1>2. /\ RunsTyped /\ OutsideTyped /\ Version(r) \in Impls /\ {"free", "foreign", "lookalike"} \cap Impls = {}
      /\ \A v : Current(r, v) <=> v = Version(r)
      /\ \A v \in Impls : Undisturbed(v) /\ Current(r, v) => Phase(r, v)
    BY <1>1, Here DEF StopPlaces, StartPlaces
<1>3. CASE StartClears(r) \/ StartDrops(r)
    <2>1. /\ UNCHANGED <<procVars, overlapped>> /\ file' = [file EXCEPT ![Version(r)] = NoPid]
          /\ at[r] \in {"clear", "drop"}
        BY <1>3 DEF StartClears, StartDrops, Goto
    <2>2. OutsideTyped' /\ Remembers
        BY <1>2, <2>1 DEF OutsideTyped, Remembers, procVars
    <2>3. \A v \in Impls : file'[v] = file[v] \/ (Current(r, v) /\ file'[v] = NoPid)
        BY <1>2, <2>1 DEF OutsideTyped
    <2>4. \A v \in Impls : Undisturbed(v) /\ Current(r, v) => \A p \in Pids : ~Lives(p, v)
        BY <1>2, <2>1 DEF Phase, Gone
    <2>5. CASE StartClears(r)
        <3>1. Goto(r, "clear", "launch") /\ UNCHANGED <<stops, starts, pid>>
            BY <2>5 DEF StartClears
        <3>2. Moves(r) /\ at'[r] = "launch"
            BY <1>1, <3>1, Going DEF StartPlaces
        <3>3. Spares(r)
            BY <2>1, <2>3 DEF Spares, Lives, procVars
        <3>4. MaySignal(r) /\ \A v \in Impls : Undisturbed(v) /\ Current(r, v) => Arrives(r, v)
            BY <2>1, <2>4, <3>2 DEF MaySignal, Arrives, Lives, procVars
        <3>5. MayClaim(r)
            BY <2>1, <2>4, <3>2, NoNewClaim DEF Moves
        <3> QED BY <2>2, <3>2, <3>3, <3>4, <3>5, Advancing
    <2>6. CASE StartDrops(r)
        <3>1. Exit(r)
            BY <2>6 DEF StartDrops
        <3>2. \A v \in Impls : Undisturbed(v) /\ Current(r, v) =>
                \A p \in Pids : Lives(p, v) => file'[v] = p
            BY <2>4
        <3> QED BY <2>1, <2>2, <2>3, <3>1, <3>2, Leaving
    <2> QED BY <1>3, <2>5, <2>6
<1>4. CASE Launch(r)
    <2>1. PICK p \in Pids : Begins(p, Version(r)) /\ pid' = [pid EXCEPT ![r] = p]
        BY <1>4 DEF Launch
    <2>2. Goto(r, "launch", "write") /\ UNCHANGED <<file, stops, starts, overlapped>>
        BY <1>4 DEF Launch
    <2>3. Moves(r) /\ at[r] = "launch" /\ at'[r] = "write" /\ pid'[r] = p
        BY <1>2, <2>1, <2>2, Going DEF StartPlaces, RunsTyped
    <2>4. /\ OutsideTyped' /\ dying' = dying /\ kind'[p] = Version(r)
          /\ heir'[p] = {v \in Impls \ {Version(r)} : Claimed(v, p)}
          /\ \A q \in Pids \ {p} : kind'[q] = kind[q] /\ heir'[q] = heir[q] /\ exposed'[q] = exposed[q]
        BY <1>2, <2>1, <2>2 DEF OutsideTyped, Begins
    <2>5. Remembers
        BY <1>2, <2>4 DEF Remembers
    <2>6. Spares(r)
        BY <1>2, <2>2, <2>4 DEF Spares, Lives
    <2>7. \A v \in Impls : Undisturbed(v) /\ Current(r, v) => \A q \in Pids : ~Lives(q, v)
        BY <1>2, <2>3 DEF Phase, Gone
    <2>8. MaySignal(r) /\ \A v \in Impls : Undisturbed(v) /\ Current(r, v) => Arrives(r, v)
        BY <2>3, <2>4, <2>7 DEF MaySignal, Arrives, Lives
    <2>9. MayClaim(r)
        <3>1. Version(r)' = Version(r)
            BY <2>2 DEF Version
        <3> QED BY <2>2, <2>3, <2>4, <3>1 DEF MayClaim, Uses, Claimed
    <2> QED BY <2>3, <2>4, <2>5, <2>6, <2>8, <2>9, Advancing
<1>5. CASE StartWrites(r)
    <2>1. /\ Goto(r, "write", "sleep") /\ UNCHANGED <<procVars, stops, starts, pid, overlapped>>
          /\ file' = [file EXCEPT ![Version(r)] = pid[r]]
        BY <1>5 DEF StartWrites
    <2>2. Moves(r) /\ at[r] = "write" /\ at'[r] = "sleep"
        BY <2>1, Going DEF StartPlaces
    <2>3. OutsideTyped' /\ Remembers
        BY <1>2, <2>1 DEF OutsideTyped, RunsTyped, Remembers, procVars
    <2>4. file'[Version(r)] = pid[r] /\ \A v \in Impls : v # Version(r) => file'[v] = file[v]
        BY <1>2, <2>1 DEF OutsideTyped
    <2>5. Spares(r)
        BY <1>2, <2>1, <2>4 DEF Spares, Lives, procVars
    <2>6. \A v \in Impls : Undisturbed(v) /\ Current(r, v) => \A p \in Pids : Lives(p, v) => p = pid[r]
        BY <1>2, <2>2 DEF Phase
    <2>7. MaySignal(r) /\ \A v \in Impls : Undisturbed(v) /\ Current(r, v) => Arrives(r, v)
        BY <1>2, <2>1, <2>2, <2>4, <2>6 DEF MaySignal, Arrives, Lives, procVars
    <2>8. MayClaim(r)
        BY <2>1, <2>2, <2>4 DEF MayClaim, Uses, Claimed, Version
    <2> QED BY <2>2, <2>3, <2>5, <2>7, <2>8, Advancing
<1> QED BY <1>3, <1>4, <1>5

\* A run that begins makes a version disturbed that another run is concerned with.
LEMMA Beginning ==
    ASSUME IInv, NEW r \in Runs, NEW toStop \in Seq(Impls), NEW toStart,
           toStart = {} \/ \E v \in Impls : toStart = {v},
           toStop # <<>> \/ toStart # {}, Begin(r, toStop, toStart)
    PROVE  IInv'
<1>1. Typed /\ RunsTyped /\ OutsideTyped /\ Checked /\ \A q \in Runs : Agenda(q)
    BY DEF IInv, Typed
<1>2. /\ at[r] = "idle" /\ UNCHANGED <<procVars, file, pid>> /\ OthersWait(r)
      /\ at'[r] = (IF toStop # <<>> THEN "file" ELSE "look")
      /\ stops'[r] = toStop /\ starts'[r] = toStart
    BY <1>1 DEF Begin, RunsTyped, OthersWait
<1>3. RunsTyped' /\ OutsideTyped'
    BY <1>1, <1>2 DEF Begin, RunsTyped, OutsideTyped, procVars, StopPlaces, StartPlaces
<1>4. Agenda(r)'
    BY <1>2 DEF Agenda, StopPlaces, StartPlaces
<1>5. \A q \in Runs : Agenda(q)'
    BY <1>1, <1>2, <1>4 DEF OthersWait, Agenda
<1>6. Checked' /\ Inherited'
    <2>1. Checked'
        BY <1>1, <1>2 DEF OthersWait, Checked, AboutToSignal, procVars
    <2>2. Remembers /\ MayClaim(r)
        BY <1>2 DEF Remembers, MayClaim, Claimed, Uses, procVars
    <2> QED BY <1>2, <2>1, <2>2, InheritedKept
<1>7. ASSUME NEW v \in Impls, Undisturbed(v)' PROVE Kept(v)'
    <2>1. Undisturbed(v) /\ (Concerns(r, v)' => \A q \in Runs : ~Concerns(q, v))
        BY <1>2, <1>7 DEF Begin, Undisturbed, Concerns
    <2>2. Kept(v)
        BY <2>1 DEF IInv
    <2>3. \A q \in Runs \ {r} : (Concerns(q, v)' <=> Concerns(q, v)) /\ (Current(q, v)' <=> Current(q, v))
        BY <1>2 DEF OthersWait, Concerns, Current
    <2>4. OneRun(v)'
        BY <2>1, <2>2, <2>3 DEF Kept, OneRun
    <2>5. \A q \in Runs : Phase(q, v)'
        BY <1>2, <2>2, <2>3 DEF Kept, Phase, Gone, Lives, OthersWait, procVars
    <2>6. Known(v)'
        BY <1>2, <2>2, <2>3 DEF Kept, Known, Lives, OthersWait, procVars
    <2> QED BY <2>4, <2>5, <2>6 DEF Kept
<1> QED BY <1>3, <1>5, <1>6, <1>7 DEF IInv, Typed

LEMMA BeginInv ==
    ASSUME IInv, NEW r \in Runs, Operator(r)
    PROVE  IInv'
<1>1. Versions \in Seq(Impls) /\ Versions # <<>> /\ Versions[1] \in Impls
    <2>1. Versions \in Seq(STRING) /\ Versions # <<>>
        BY ScriptsAssumption
    <2>2. Len(Versions) \in Nat /\ Len(Versions) >= 1 /\ DOMAIN Versions = 1..Len(Versions)
        BY <2>1
    <2>3. \A i \in 1..Len(Versions) : Versions[i] \in Impls
        BY <2>2 DEF Impls, ToSet
    <2> QED BY <2>1, <2>2, <2>3
<1>2. \A v \in Impls : <<v>> \in Seq(Impls) /\ <<v>> # <<>>
    OBVIOUS
<1>3. <<>> \in Seq(Impls)
    OBVIOUS
<1>4. CASE Stop(r)
    BY <1>1, <1>2, <1>4, Beginning DEF Stop
<1>5. CASE Restart(r)
    BY <1>1, <1>2, <1>5, Beginning DEF Restart
<1>6. CASE \E v \in Impls : Start(r, v)
    BY <1>3, <1>6, Beginning DEF Start
<1> QED BY <1>4, <1>5, <1>6 DEF Operator

\* The world launches no proxy; whom it gives a pid that a stop is about to signal is
\* remembered.
LEMMA WorldInv ==
    ASSUME IInv, \/ UNCHANGED vars
                 \/ \E p \in Pids : World(p)
    PROVE  IInv'
<1>1. /\ Typed /\ RunsTyped /\ OutsideTyped /\ Checked /\ Inherited
      /\ {"free", "foreign", "lookalike"} \cap Impls = {}
    BY ScriptsAssumption DEF IInv, Typed
<1>2. UNCHANGED <<file, at, stops, starts, pid, overlapped>>
    BY DEF World, vars, runVars
<1>3. OutsideTyped' /\ Checked' /\ Inherited' /\ NoNewProxy
    <2>1. \A v, p : Claimed(v, p)' <=> Claimed(v, p)
        BY <1>2 DEF Claimed, Uses, Target, Version
    <2>2. \A r \in Runs : AboutToSignal(r)' => AboutToSignal(r) /\ pid[r] \in Pids /\ pid'[r] = pid[r]
        BY <1>2 DEF IInv, Agenda, AboutToSignal
    <2>3. ASSUME OutsideTyped', NEW p \in Pids,
                 \A q \in Pids \ {p} : /\ kind'[q] = kind[q] /\ exposed'[q] = exposed[q] /\ heir'[q] = heir[q]
                                       /\ q \in dying' <=> q \in dying,
                 kind'[p] # "free" =>
                     \/ /\ kind'[p] = kind[p] /\ exposed'[p] = exposed[p] /\ heir'[p] = heir[p]
                        /\ p \in dying => p \in dying'
                     \/ /\ kind'[p] \in {"foreign", "lookalike"}
                        /\ exposed'[p] = {r \in Runs : AboutToSignal(r) /\ pid[r] = p}
                        /\ heir'[p] = {v \in Impls : Claimed(v, p)}
          PROVE  OutsideTyped' /\ Checked' /\ Inherited' /\ NoNewProxy
        <3>1. Checked'
            BY <1>1, <2>2, <2>3 DEF Checked
        <3>2. Inherited'
            BY <1>1, <2>1, <2>3 DEF Inherited
        <3>3. NoNewProxy
            BY <1>1, <2>3 DEF NoNewProxy, Lives
        <3> QED BY <2>3, <3>1, <3>2, <3>3
    <2>4. CASE UNCHANGED procVars
        <3>1. OutsideTyped'
            BY <1>1, <1>2, <2>4 DEF OutsideTyped, procVars
        <3>2. Checked'
            BY <1>1, <2>2, <2>4 DEF Checked, procVars
        <3>3. Inherited'
            BY <1>1, <2>1, <2>4 DEF Inherited, procVars
        <3>4. NoNewProxy
            BY <2>4 DEF NoNewProxy, Lives, procVars
        <3> QED BY <3>1, <3>2, <3>3, <3>4
    <2>5. ASSUME NEW p \in Pids, Ends(p) PROVE OutsideTyped' /\ Checked' /\ Inherited' /\ NoNewProxy
        <3>1. OutsideTyped' /\ kind'[p] = "free"
            BY <1>1, <1>2, <2>5 DEF Ends, OutsideTyped
        <3>2. \A q \in Pids \ {p} : /\ kind'[q] = kind[q] /\ exposed'[q] = exposed[q] /\ heir'[q] = heir[q]
                                    /\ q \in dying' <=> q \in dying
            BY <1>1, <2>5 DEF Ends, OutsideTyped
        <3> QED BY <2>3, <3>1, <3>2
    <2>6. ASSUME NEW p \in Pids, Falls(p) PROVE OutsideTyped' /\ Checked' /\ Inherited' /\ NoNewProxy
        <3>1. /\ OutsideTyped' /\ UNCHANGED <<kind, exposed, heir>> /\ dying' = dying \cup {p}
            BY <1>1, <1>2, <2>6 DEF Falls, OutsideTyped
        <3>2. /\ kind'[p] = kind[p] /\ exposed'[p] = exposed[p] /\ heir'[p] = heir[p]
              /\ p \in dying => p \in dying'
              /\ \A q \in Pids \ {p} : /\ kind'[q] = kind[q] /\ exposed'[q] = exposed[q] /\ heir'[q] = heir[q]
                                       /\ q \in dying' <=> q \in dying
            BY <3>1
        <3> QED BY <2>3, <3>1, <3>2
    <2>7. ASSUME NEW p \in Pids, NEW what \in {"foreign", "lookalike"}, Begins(p, what)
          PROVE  OutsideTyped' /\ Checked' /\ Inherited' /\ NoNewProxy
        <3>1. what \notin Impls
            BY <1>1
        <3>2. /\ OutsideTyped' /\ kind'[p] = what /\ UNCHANGED dying
              /\ exposed'[p] = {r \in Runs : AboutToSignal(r) /\ pid[r] = p}
              /\ heir'[p] = {v \in Impls : Claimed(v, p)}
              /\ \A q \in Pids \ {p} : kind'[q] = kind[q] /\ exposed'[q] = exposed[q] /\ heir'[q] = heir[q]
            BY <1>1, <1>2, <2>7, <3>1 DEF Begins, OutsideTyped
        <3> QED BY <2>3, <3>2
    <2> QED BY <2>4, <2>5, <2>6, <2>7 DEF World, Dies, OtherBegins, vars
<1>4. \A r \in Runs : Agenda(r)'
    BY <1>2 DEF IInv, Agenda
<1>5. ASSUME NEW v \in Impls, Undisturbed(v)' PROVE Kept(v)'
    <2>1. Kept(v)
        BY <1>2, <1>5 DEF IInv, Undisturbed
    <2>2. \A r \in Runs : (Concerns(r, v)' <=> Concerns(r, v)) /\ (Current(r, v)' <=> Current(r, v))
        BY <1>2 DEF Concerns, Current
    <2>3. OneRun(v)'
        BY <2>1, <2>2 DEF Kept, OneRun
    <2>4. \A r \in Runs : Phase(r, v)'
        BY <1>2, <1>3, <2>1, <2>2 DEF Kept, Phase, Gone, NoNewProxy
    <2>5. Known(v)'
        BY <1>2, <1>3, <2>1, <2>2 DEF Kept, Known, NoNewProxy
    <2> QED BY <2>3, <2>4, <2>5 DEF Kept
<1> QED BY <1>1, <1>2, <1>3, <1>4, <1>5 DEF IInv, Typed, RunsTyped

LEMMA InitInv == Init => IInv
<1> SUFFICES ASSUME Init PROVE IInv
    OBVIOUS
<1>1. <<>> \in Seq(Impls) /\ ToSet(<<>>) = {}
    BY EmptySeq DEF ToSet
<1>2. Typed
    BY <1>1 DEF Init, Typed, OutsideTyped, RunsTyped
<1>3. \A r \in Runs : Agenda(r)
    BY DEF Init, Agenda, StopPlaces, StartPlaces
<1>4. Checked /\ Inherited
    BY DEF Init, Checked, AboutToSignal, Inherited
<1>5. ASSUME NEW v \in Impls PROVE Kept(v)
    <2>1. \A r \in Runs : ~Concerns(r, v) /\ ~Current(r, v)
        BY <1>1 DEF Init, Concerns, Current, StopPlaces, StartPlaces
    <2>2. \A p \in Pids : ~Lives(p, v)
        BY ScriptsAssumption DEF Init, Lives
    <2> QED BY <2>1, <2>2 DEF Kept, OneRun, Known, Phase
<1> QED BY <1>2, <1>3, <1>4, <1>5 DEF IInv

-----------------------------------------------------------------------------
(* The theorems.                                                           *)

\* The inductive invariant: what each run is to do, and what it knows of the proxies of
\* the version it is about.
THEOREM Invariant == Spec => []IInv
<1>1. IInv /\ [Next]_vars => IInv'
    <2> SUFFICES ASSUME IInv, [Next]_vars PROVE IInv'
        OBVIOUS
    <2>1. CASE \E r \in Runs : Operator(r)
        BY <2>1, BeginInv
    <2>2. ASSUME NEW r \in Runs, Script(r) PROVE IInv'
        BY <2>2, StopLooks, StopWaits, StopActs, StartReads, StartActs DEF Script
    <2>3. CASE UNCHANGED vars \/ \E p \in Pids : World(p)
        BY <2>3, WorldInv
    <2> QED BY <2>1, <2>2, <2>3 DEF Next
<1> QED BY InitInv, <1>1, PTL DEF Spec

\* Besides the proxies of its version a stop signals only what was given the pid of a
\* dead one that a pid file or a run still had, and looks like a proxy or was given it
\* after the check.
THEOREM OnlyHeirsAreSignalled == Spec => []OnlyHeirsAreHit
<1>1. IInv => OnlyHeirsAreHit
    <2> SUFFICES ASSUME IInv, NEW r \in Runs, AboutToSignal(r), kind[pid[r]] \notin {"free", Target(r)}
                 PROVE  Target(r) \in heir[pid[r]] /\ (kind[pid[r]] = "foreign" => r \in exposed[pid[r]])
        BY DEF OnlyHeirsAreHit
    <2>1. Target(r) \in Impls /\ pid[r] \in Pids
        BY Here DEF AboutToSignal, StopPlaces, Agenda
    <2>2. Claimed(Target(r), pid[r])
        BY DEF AboutToSignal, Claimed, Uses
    <2> QED BY <2>1, <2>2 DEF IInv, Checked, Inherited
<1> QED BY <1>1, Invariant, PTL

\* Between the runs for a version, which did not overlap, each of its proxies that
\* lives is in its pid file.
THEOREM NoProxyIsLost == Spec => []Tracked
<1>1. IInv => Tracked
    <2> SUFFICES ASSUME IInv, NEW v \in Impls, Undisturbed(v), \A r \in Runs : ~Concerns(r, v),
                        NEW p \in Pids, Lives(p, v)
                 PROVE  file[v] = p
        BY DEF Tracked
    <2>1. \A r \in Runs : ~Current(r, v)
        BY CurrentConcerns DEF IInv
    <2> QED BY <2>1 DEF IInv, Kept, Known
<1> QED BY <1>1, Invariant, PTL

\* A start that no other run overlapped launches its proxy when none of the version
\* is left, but for what is dying.
THEOREM StartsAlone == Spec => []LaunchesAlone
<1>1. IInv => LaunchesAlone
    <2> SUFFICES ASSUME IInv, NEW r \in Runs, at[r] = "launch", Undisturbed(Version(r))
                 PROVE  \A p \in Pids : ~Lives(p, Version(r))
        BY DEF LaunchesAlone
    <2>1. Version(r) \in Impls /\ Current(r, Version(r))
        BY Here DEF StartPlaces
    <2>2. Phase(r, Version(r))
        BY <2>1, Here
    <2> QED BY <2>1, <2>2 DEF Phase, Gone
<1> QED BY <1>1, Invariant, PTL


-----------------------------------------------------------------------------
(* The scripts take no lock, and no run waits for another one.             *)

\* How far a run is from the end of the version it is about.
LinesLeft(r) ==
    CASE at[r] = "file" -> 14
      [] at[r] = "cat" -> 13
      [] at[r] = "check" -> 12
      [] at[r] = "term" -> 11
      [] at[r] = "poll" -> 10
      [] at[r] = "rm" -> 9
      [] at[r] = "look" -> 8
      [] at[r] = "old" -> 7
      [] at[r] = "refuse" -> 6
      [] at[r] = "clear" -> 5
      [] at[r] = "launch" -> 4
      [] at[r] = "write" -> 3
      [] at[r] = "sleep" -> 2
      [] at[r] = "drop" -> 1
      [] OTHER -> 0

\* Versions first, and then lines.
Nearer(r) ==
    \/ Len(stops'[r]) < Len(stops[r])
    \/ Len(stops'[r]) = Len(stops[r]) /\ LinesLeft(r)' < LinesLeft(r)

Waits(r) == UNCHANGED <<at[r], stops[r], starts[r], pid[r]>>

Measured == \A r \in Runs : Len(stops[r]) \in Nat /\ LinesLeft(r) \in Nat


LEMMA LinesAreNat == \A r : LinesLeft(r) \in Nat
BY DEF LinesLeft

\* A line that is not the last one of a script for a version.
LEMMA NextLine ==
    ASSUME IInv, NEW r \in Runs, NEW here, NEW there, Goto(r, here, there), UNCHANGED stops,
           <<here, there>> \in
             {<<"file", "cat">>, <<"cat", "check">>, <<"check", "term">>, <<"check", "rm">>,
              <<"term", "poll">>, <<"poll", "rm">>, <<"look", "old">>, <<"look", "launch">>,
              <<"old", "refuse">>, <<"refuse", "clear">>, <<"clear", "launch">>,
              <<"launch", "write">>, <<"write", "sleep">>, <<"sleep", "drop">>}
    PROVE  Nearer(r)
<1>1. at[r] = here /\ at'[r] = there
    BY DEF IInv, Typed, RunsTyped, Goto
<1>2. LinesLeft(r)' < LinesLeft(r)
    BY <1>1 DEF LinesLeft
<1> QED BY <1>2 DEF Nearer

\* The last one, or the exit of the script.
LEMMA LastLine ==
    ASSUME IInv, NEW r \in Runs, at[r] # "idle",
           Exit(r) \/ (at[r] \in StopPlaces /\ NextFile(r))
    PROVE  Nearer(r)
<1>1. Typed /\ RunsTyped /\ Agenda(r)
    BY Here
<1>2. Len(stops[r]) \in Nat
    BY <1>1, LenProperties DEF RunsTyped
<1>3. CASE Exit(r)
    <2>1. stops'[r] = <<>> /\ at'[r] = "idle"
        BY <1>1, <1>3 DEF Exit, RunsTyped
    <2>2. Len(stops'[r]) = 0
        BY <2>1, EmptySeq
    <2>3. LinesLeft(r)' < LinesLeft(r)
        BY <1>1, <2>1 DEF LinesLeft, RunsTyped, StopPlaces, StartPlaces
    <2> QED BY <1>2, <2>2, <2>3 DEF Nearer
<1>4. CASE ~Exit(r)
    <2>1. at[r] \in StopPlaces /\ stops' = [stops EXCEPT ![r] = Tail(stops[r])]
        BY <1>4 DEF NextFile
    <2>2. stops[r] \in Seq(Impls) /\ stops[r] # <<>>
        BY <1>1, <2>1 DEF RunsTyped, Agenda
    <2>3. stops'[r] = Tail(stops[r])
        BY <1>1, <2>1 DEF RunsTyped
    <2>4. Len(Tail(stops[r])) = Len(stops[r]) - 1
        BY <2>2
    <2> QED BY <1>2, <2>3, <2>4 DEF Nearer
<1> QED BY <1>3, <1>4

\* Every line a run executes brings it nearer to its end, and no other run, operator or
\* process can send it back or make it execute one twice (bin/start.sh, bin/stop.sh and
\* bin/restart.sh).
THEOREM RunsEnd ==
    Spec => []Measured /\ [][\A r \in Runs : at[r] # "idle" => Nearer(r) \/ Waits(r)]_vars
<1>1. IInv => Measured
    BY LinesAreNat, LenProperties DEF IInv, Typed, RunsTyped, Measured
<1>2. ASSUME IInv, NEW r \in Runs, Script(r)
      PROVE  Nearer(r) /\ \A q \in Runs \ {r} : Waits(q)
    <2>1. Typed /\ RunsTyped
        BY <1>2 DEF IInv, Typed
    <2>2. \A q \in Runs \ {r} : Waits(q)
        BY <1>2, <2>1 DEF Script, StopFile, StopCat, StopCheck, StopTerm, StopSees, StopForces, StopRm,
           StartFile, StartCat, StartCheck, StartClears, Launch, StartWrites, StartLooks, StartDrops,
           NextFile, Exit, Goto, RunsTyped, Waits
    <2>3. CASE StopFile(r) \/ StopCat(r) \/ StopRm(r)
        BY <1>2, <2>2, <2>3, NextLine, LastLine DEF StopFile, StopCat, StopRm, StopPlaces
    <2>4. CASE StopCheck(r) \/ StopTerm(r) \/ StopSees(r) \/ StopForces(r)
        BY <1>2, <2>2, <2>4, NextLine DEF StopCheck, StopTerm, StopSees, StopForces, Goto
    <2>5. CASE StartFile(r) \/ StartClears(r) \/ Launch(r) \/ StartWrites(r)
        BY <1>2, <2>2, <2>5, NextLine DEF StartFile, StartClears, Launch, StartWrites, Goto
    <2>6. CASE StartCat(r) \/ StartCheck(r) \/ StartLooks(r) \/ StartDrops(r)
        BY <1>2, <2>2, <2>6, NextLine, LastLine DEF StartCat, StartCheck, StartLooks, StartDrops
    <2> QED BY <1>2, <2>2, <2>3, <2>4, <2>5, <2>6 DEF Script
<1>3. ASSUME IInv, NEW r \in Runs, Operator(r), NEW q \in Runs, at[q] # "idle"
      PROVE  Waits(q)
    BY <1>3 DEF Operator, Stop, Restart, Start, Begin, IInv, Typed, RunsTyped, Waits
<1>4. ASSUME NEW p \in Pids, World(p), NEW q \in Runs
      PROVE  Waits(q)
    BY <1>4 DEF World, runVars, Waits
<1>5. IInv /\ [Next]_vars => [\A r \in Runs : at[r] # "idle" => Nearer(r) \/ Waits(r)]_vars
    BY <1>2, <1>3, <1>4 DEF Next
<1> QED BY <1>1, <1>5, Invariant, PTL DEF Spec

=============================================================================
