-------------------------- MODULE MCRecoveryMarker --------------------------
(* Recovery by hand while the machine stays up: one attempt and every clear; *)
(* or power losses: all attempts, and no clear.  Together they do lose the   *)
(* guard: a quarantine is made without a sync of the directory.              *)
EXTENDS RecoveryMarker, TLC
CONSTANTS a1, a2, k1, k2, i1, i2
VARIABLE mode

Alone(a) == \A b \in Attempts \ {a} : pc[b] = "idle"

MCInit == Init /\ mode \in {"hand", "power"}
ByHand == mode = "hand" /\ Work({a \in Attempts : Alone(a)}, Clears \cup {a \in Attempts : Alone(a)})
ByPower == mode = "power" /\ (Work(Attempts, Attempts) \/ PowerLoss)
MCNext == UNCHANGED mode /\ (ByHand \/ ByPower)
MCSpec == MCInit /\ [][MCNext]_<<vars, mode>>

Symmetry == Permutations(Attempts) \cup Permutations(Clears)
=============================================================================
