-------------------------- MODULE AtomicCheckpoint --------------------------
(***************************************************************************)
(* What the commit of one side promises, without how: nothing on disk      *)
(* changes before the marker says committing; while it does, every change  *)
(* of the plan moves forward only, one at a time; and the marker says      *)
(* committed only when all of them are there.  A commit that fails stops   *)
(* where it is.  Entries that somebody else touches are foreign: nothing   *)
(* is promised of them.                                                    *)
(***************************************************************************)
EXTENDS Naturals

CONSTANT Entries

VARIABLES
  phase,     \* "prepared", "committing" or "committed"
  stage,     \* stage[e]: 0 as it was, 1 under way, 2 as planned
  foreign    \* entries somebody else has touched

vars == <<phase, stage, foreign>>

(* Entries without a change are as planned from the start. *)
Init ==
  /\ phase = "prepared"
  /\ stage \in [Entries -> {0, 2}]
  /\ foreign = {}

Fence ==
  /\ phase = "prepared"
  /\ phase' = "committing"
  /\ UNCHANGED <<stage, foreign>>

Advance ==
  /\ phase = "committing"
  /\ \E e \in Entries \ foreign : \E n \in {1, 2} :
       /\ stage[e] < n
       /\ stage' = [stage EXCEPT ![e] = n]
  /\ UNCHANGED <<phase, foreign>>

Settle ==
  /\ phase = "committing"
  /\ \A e \in Entries \ foreign : stage[e] = 2
  /\ phase' = "committed"
  /\ UNCHANGED <<stage, foreign>>

(* Foreign entries may look like anything, and may change with any step. *)
Outside ==
  /\ foreign \subseteq foreign'
  /\ foreign' \subseteq Entries
  /\ stage' \in [Entries -> 0..2]
  /\ \A e \in Entries \ foreign' : stage'[e] = stage[e]
  /\ UNCHANGED phase

Next == Fence \/ Advance \/ Settle \/ Outside

Spec == Init /\ [][Next]_vars

=============================================================================
