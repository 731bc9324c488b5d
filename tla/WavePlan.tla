------------------------------ MODULE WavePlan ------------------------------
(***************************************************************************)
(* How a run is to be applied (sync.rs and orchestrator.rs): which strategy *)
(* the peers and the configured controls allow, and how the actions are cut *)
(* into staging waves that fit the space above the reserve on both sides.   *)
(*                                                                         *)
(* An action is [path, side, dir, flip, out, size]: a sequence of names,    *)
(* the side it changes ("both" if both already agree), whether a directory  *)
(* is among what changes, whether a directory makes way for something else  *)
(* ("none", "seen" in a change of one side that is not the one applied, or  *)
(* "applied"), and the output it stages ("none", "file" or "diff").         *)
(***************************************************************************)
EXTENDS Naturals, Integers, Sequences, FiniteSets, SequencesExt, FiniteSetsExt

Sides == {"local", "remote"}

Minus(a, b) == IF a > b THEN a - b ELSE 0
Smaller(a, b) == IF a < b THEN a ELSE b

(* StagingPolicy::budget; a limit of -1 is none *)
Budget(free, reserve, limit, cow) ==
  LET usable == Minus(free, reserve) IN
  [usable |-> usable, cow |-> cow,
   budget |-> IF limit < 0 THEN usable ELSE Smaller(limit, usable)]

Outputs(acts, G, s) == {i \in G : acts[i].side = s /\ acts[i].out # "none"}
BytesIn(acts, G, s) == SumFunction([i \in Outputs(acts, G, s) |-> acts[i].size])

-----------------------------------------------------------------------------
(* plan_staging_waves *)

StartsWith(p, d) == Len(d) <= Len(p) /\ SubSeq(p, 1, Len(d)) = d

(* A change of a directory, and the actions below it that follow.           *)
GroupAt(acts, i) ==
  IF ~acts[i].dir THEN {i}
  ELSE {j \in i..Len(acts) : \A k \in i..j : StartsWith(acts[k].path, acts[i].path)}

Groups(acts) ==
  LET from[i \in 1..(Len(acts) + 1)] ==
        IF i > Len(acts) THEN <<>>
        ELSE <<GroupAt(acts, i)>> \o from[i + Cardinality(GroupAt(acts, i))]
  IN from[1]

(* validate_staging_group_side *)
CowOnly(acts, G, s, b) == BytesIn(acts, G, s) > b.usable
GroupFits(acts, G, s, b) ==
  LET outs == Outputs(acts, G, s) IN
  IF CowOnly(acts, G, s, b)
  THEN Cardinality(outs) = 1 /\ b.cow /\ \A i \in outs : acts[i].out = "diff"
  ELSE BytesIn(acts, G, s) > b.budget => Cardinality(outs) = 1
Oversize(acts, G, s, b) == BytesIn(acts, G, s) > b.budget
Isolated(acts, G, B) == \E s \in Sides : Oversize(acts, G, s, B[s])

Plannable(acts, B) ==
  /\ \A i \in 1..Len(acts) : acts[i].flip = "none"
  /\ \A n \in 1..Len(Groups(acts)) : \A s \in Sides : GroupFits(acts, Groups(acts)[n], s, B[s])

(* staging_wave_from_group: the flags are of the budget at planning time *)
WaveOf(acts, G, B) ==
  [acts |-> G,
   over |-> [s \in Sides |-> Oversize(acts, G, s, B[s])],
   cow |-> [s \in Sides |-> CowOnly(acts, G, s, B[s])]]

(* Mutant: what one side alone can hold keeps the wave open.                *)
JoinsOneSided(acts, open, G, B) ==
  \E s \in Sides : BytesIn(acts, open \cup G, s) <= B[s].budget

Joins(acts, open, G, B) ==
  \A s \in Sides : BytesIn(acts, open \cup G, s) <= B[s].budget

Close(w) == IF w.open = {} THEN w.shut ELSE Append(w.shut, w.open)

(* Groups join the open wave while both sides stay within their budgets; an *)
(* isolated group closes it and is a wave of its own.                       *)
AddGroup(acts, B, w, G) ==
  IF Isolated(acts, G, B) THEN [shut |-> Append(Close(w), G), open |-> {}]
  ELSE IF w.open = {} \/ Joins(acts, w.open, G, B) THEN [w EXCEPT !.open = @ \cup G]
  ELSE [shut |-> Close(w), open |-> G]
Cut(acts, B) ==
  LET g == Groups(acts)
      cut[n \in 0..Len(g)] ==
        IF n = 0 THEN [shut |-> <<>>, open |-> {}] ELSE AddGroup(acts, B, cut[n - 1], g[n])
  IN Close(cut[Len(g)])
Waves(acts, B) == LET cut == Cut(acts, B) IN [n \in DOMAIN cut |-> WaveOf(acts, cut[n], B)]

-----------------------------------------------------------------------------
(* validate_wave_side_capacity: space and inodes as they are now.  A side   *)
(* that cannot tell its free inodes reports none.                           *)
CapacityFits(acts, w, s, b, inodes, known) ==
  LET bytes == BytesIn(acts, w.acts, s) IN
  /\ bytes > b.usable => w.cow[s]
  /\ bytes > b.budget => w.over[s]
  /\ known \/ inodes # 0 => Cardinality(Outputs(acts, w.acts, s)) <= inodes

(* validate_wave_capacity; an older peer does not tell its free inodes      *)
WaveFits(acts, w, B, inodes, caps) ==
  \A s \in Sides : CapacityFits(acts, w, s, B[s], inodes[s], s = "local" \/ "inodes" \in caps)

(* Mutant: a migration is not asked about.                                  *)
CanUsePlanInMigration(caps, count, migration) == count > 1 => "checkpoints" \in caps

(* can_use_staging_plan: the state of a migration has no partial results    *)
CanUsePlan(caps, count, migration) == count > 1 => ~migration /\ "checkpoints" \in caps

(* can_stream_details: no directory that goes gives way to what is streamed *)
CanStream(acts, caps) ==
  "batches" \in caps /\ \A i \in 1..Len(acts) : acts[i].flip # "applied"

(* actions_have_directory_to_nondirectory_change *)
DirectoryMakesWay(acts) == \E i \in 1..Len(acts) : acts[i].flip # "none"

(* select_apply_strategy, and the decisions after it.                       *)
(* A control that was configured is never given up for a strategy that      *)
(* does not know it.                                                        *)
Strategy(acts, B, caps, configured, migration, inodes) ==
  LET instead == IF configured THEN "refused" ELSE "legacy"
  IN IF ~CanStream(acts, caps) THEN instead
     ELSE IF "staged" \notin caps \/ DirectoryMakesWay(acts) THEN instead
     ELSE IF ~Plannable(acts, B) THEN "refused"
     ELSE IF \E n \in DOMAIN Waves(acts, B) : ~WaveFits(acts, Waves(acts, B)[n], B, inodes, caps)
          THEN "refused"
     ELSE IF CanUsePlan(caps, Len(Waves(acts, B)), migration) THEN "staged" ELSE instead
=============================================================================
