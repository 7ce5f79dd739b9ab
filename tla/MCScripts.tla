----------------------------- MODULE MCScripts -----------------------------
(* Scripts for TLC: two versions, two pids, two runs at a time.            *)
EXTENDS Scripts, TLC

MCVersions == <<"go", "python">>

\* No property is temporal, and no pid nor run is told from another.
Interchangeable == Permutations(Pids) \cup Permutations(Runs)

=============================================================================
