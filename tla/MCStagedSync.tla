---------------------------- MODULE MCStagedSync ----------------------------
(* TLC instances of StagedSync: the sets of the .cfg files are model values, *)
(* and interchangeable ones are permuted where only safety is checked.       *)
EXTENDS StagedSync, TLC

Symmetry == Permutations(Runs) \cup Permutations(Paths)

\* Liveness takes no symmetry set: of two initial states that differ only in
\* the names of the paths one is enough, and one path at least is shared.
SharedPath == CHOOSE p \in Paths : TRUE

WavesInit == Init /\ tree[Local][SharedPath] # Absent

WavesSpec == WavesInit /\ [][Next]_vars /\ Fairness

=============================================================================
