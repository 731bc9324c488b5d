--------------------------- MODULE DetailStreamProofs ---------------------------
(***************************************************************************)
(* A staged run, for any job, peer and filesystem, whatever users do to the *)
(* files and others to the space: a control that was configured is enforced *)
(* or the run refused, the plan is sound, what is staged is byte for byte   *)
(* what the plan says, staging keeps the reserve, and a run that nobody     *)
(* disturbs fails only for want of space.                                   *)
(***************************************************************************)
EXTENDS DetailStream, StagingProofs

(* What select_apply_strategy and can_use_staging_plan guarantee.           *)
LEMMA StrategyKeepsControls ==
  ASSUME NEW as, NEW B, NEW caps, NEW configured, NEW migration, NEW inodes
  PROVE  LET how == Strategy(as, B, caps, configured, migration, inodes) IN
         /\ how = "legacy" => ~configured
         /\ how = "staged" => CanUsePlan(caps, Len(Waves(as, B)), migration)
  <1> DEFINE how == Strategy(as, B, caps, configured, migration, inodes)
             instead == IF configured THEN "refused" ELSE "legacy"
             n == Len(Waves(as, B))
  <1>1. \/ how = instead
        \/ how = "refused"
        \/ how = "staged" /\ CanUsePlan(caps, n, migration)
    <2> HIDE DEF n, instead
    <2> QED
      BY DEF Strategy, n, instead
  <1> QED
    BY <1>1

(* After planning only the place of the client changes, and never back to a *)
(* choice of strategy.                                                      *)
LEMMA StrategyStays ==
  ASSUME ControlsEnforced, job' = job, plan' = plan,
         at' = at \/ at' # "legacy"
  PROVE  ControlsEnforced'
  BY DEF ControlsEnforced

LEMMA StopStays ==
  ASSUME NEW end, Stop(end), end # "legacy"
  PROVE  job' = job /\ plan' = plan /\ at' # "legacy"
  BY DEF Stop, runVars

LEMMA FetchStays ==
  ASSUME Fetch \/ \E s \in Sides : ThreadStarts(s) \/ ThreadSends(s)
  PROVE  job' = job /\ plan' = plan /\ (at' = at \/ at' # "legacy")
  <1>1. ASSUME NEW f, NEW p, Deliver(f, p)
        PROVE  job' = job /\ plan' = plan /\ at' # "legacy"
    BY <1>1 DEF Deliver, runVars
  <1>2. CASE FetchHeld \/ FetchBytes \/ FetchDiff \/ FetchNext
    BY <1>1, <1>2 DEF FetchHeld, FetchBytes, FetchDiff, FetchNext
  <1>3. CASE FetchFails
    BY <1>3, StopStays DEF FetchFails
  <1>4. CASE FetchEnd \/ \E s \in Sides : ThreadStarts(s) \/ ThreadSends(s)
    BY <1>4 DEF FetchEnd, ThreadStarts, ThreadSends, runVars
  <1> QED
    BY <1>2, <1>3, <1>4 DEF Fetch

LEMMA ApplyStays ==
  ASSUME ApplyFrame
  PROVE  job' = job /\ plan' = plan /\ at' # "legacy"
  <1>1. CASE BeginOutput \/ WriteOutput \/ EndOutput
    <2>1. Applied
      BY <1>1 DEF BeginOutput, WriteOutput, EndOutput
    <2> QED
      BY <2>1 DEF Applied, runVars
  <1>2. CASE ApplyFails
    BY <1>2, StopStays DEF ApplyFails
  <1> QED
    BY <1>1, <1>2 DEF ApplyFrame

LEMMA WaveStays ==
  ASSUME \/ CheckWave \/ CheckWaveFails \/ WavesDone \/ Sign \/ SignFails
         \/ CommitWave \/ FenceFails
         \/ \E s \in Sides : \/ FinishPreparation(s) \/ FinishFails(s) \/ Take(s)
                             \/ \E i \in 1..Len(acts) : Edit(s, i)
  PROVE  job' = job /\ plan' = plan /\ (at' = at \/ at' # "legacy")
  <1>1. CASE SignFails \/ FenceFails \/ \E s \in Sides : FinishFails(s)
    BY <1>1, StopStays DEF SignFails, FenceFails, FinishFails
  <1>2. CASE CheckWave \/ CheckWaveFails \/ WavesDone \/ Sign \/ CommitWave
    BY <1>2 DEF CheckWave, CheckWaveFails, WavesDone, Sign, CommitWave, runVars
  <1>3. CASE \E s \in Sides : \/ FinishPreparation(s) \/ Take(s)
                              \/ \E i \in 1..Len(acts) : Edit(s, i)
    BY <1>3 DEF FinishPreparation, Take, Edit, runVars
  <1> QED
    BY <1>1, <1>2, <1>3

LEMMA PlanningKeepsControls ==
  ASSUME ControlsEnforced, Planning
  PROVE  ControlsEnforced'
  <1> DEFINE how == Strategy(acts, Budgets, job.caps, job.configured, job.migration, job.inodes)
  <1>1. /\ job' = job
        /\ at' = IF how # "staged" THEN how ELSE IF job.dry THEN "dry" ELSE "wave"
        /\ plan' = IF how = "staged" THEN Waves(acts, Budgets) ELSE <<>>
    BY DEF Planning
  <1>2. /\ how = "legacy" => ~job.configured
        /\ how = "staged" => CanUsePlan(job.caps, Len(Waves(acts, Budgets)), job.migration)
    BY StrategyKeepsControls
  <1>3. CASE how = "staged"
    <2>1. at' # "legacy" /\ plan' = Waves(acts, Budgets)
      BY <1>1, <1>3
    <2> QED
      BY <1>1, <1>2, <1>3, <2>1 DEF ControlsEnforced, CanUsePlan
  <1>4. CASE how # "staged"
    <2>1. at' = how /\ Len(plan') = 0
      BY <1>1, <1>4
    <2> QED
      BY <1>1, <1>2, <2>1 DEF ControlsEnforced
  <1> QED
    BY <1>3, <1>4

(* README.md promises that a configured limit or reserve is never ignored:  *)
(* the run is staged under it, or refused.  And a run of several waves has a *)
(* peer that can save each wave, and no migration.                          *)
THEOREM ControlsAlwaysEnforced == Spec => []ControlsEnforced
  <1>1. Init => ControlsEnforced
    BY DEF Init, ControlsEnforced
  <1>2. ControlsEnforced /\ [Next]_vars => ControlsEnforced'
    <2> SUFFICES ASSUME ControlsEnforced, [Next]_vars
                 PROVE  ControlsEnforced'
      OBVIOUS
    <2>1. CASE Planning
      BY <2>1, PlanningKeepsControls
    <2>2. CASE Next /\ ~Planning /\ ~UNCHANGED vars
      <3>1. job' = job /\ plan' = plan /\ (at' = at \/ at' # "legacy")
        BY <2>2, FetchStays, ApplyStays, WaveStays DEF Next
      <3> QED
        BY <3>1, StrategyStays
    <2>3. CASE UNCHANGED vars
      BY <2>3 DEF vars, ControlsEnforced
    <2> QED
      BY <2>1, <2>2, <2>3
  <1> QED
    BY <1>1, <1>2, PTL DEF Spec
-----------------------------------------------------------------------------
(* What Jobs promises of a job.                                             *)
LEMMA JobFacts ==
  ASSUME NEW j \in Jobs
  PROVE  /\ Len(j.acts) \in Nat /\ HasPaths(j.acts, Len(j.acts)) /\ HasSizes(j.acts, Len(j.acts))
         /\ j.free \in [Sides -> Nat] /\ j.reserve \in Nat /\ j.limit \in Int /\ j.noise \in Nat
         /\ \A i \in 1..Len(j.acts) : IsAction(j.acts[i])
  <1> DEFINE L == Len(j.acts)
  <1>1. IsJob(j)
    BY JobsAssumption
  <1>2. DOMAIN j.acts = 1..L /\ \A i \in 1..L : IsAction(j.acts[i])
    BY <1>1 DEF IsJob
  <1>3. L \in Nat
    BY <1>1 DEF IsJob
  <1>4. \A i \in 1..L : j.acts[i].path \in Seq(Nat)
    BY <1>2 DEF IsAction
  <1>5. ASSUME NEW i \in 1..L PROVE j.acts[i].size \in Nat
    <2> DEFINE a == j.acts[i]
    <2>1. IsAction(a)
      BY <1>2
    <2> HIDE DEF a
    <2> DEFINE n == a.size
               f == a.new
    <2>2. /\ a.out = "none" => n = 0
          /\ a.out # "none" => n = Len(f) /\ f \in Seq(Bytes)
      BY <2>1 DEF IsAction, IsFile
    <2> HIDE DEF n, f
    <2>3. f \in Seq(Bytes) => Len(f) \in Nat
      BY LenProperties
    <2>4. n \in Nat
      BY <2>2, <2>3
    <2> QED
      BY <2>4 DEF a, n
  <1> QED
    BY <1>1, <1>2, <1>3, <1>4, <1>5 DEF HasPaths, HasSizes, IsJob
-----------------------------------------------------------------------------
(* The plan is that of the job's actions and space until a wave is committed *)
(* or the run disturbed.                                                    *)
Early == at \in {"wave", "dry"} /\ wave = 1 /\ used = 0
PlanKept ==
  /\ job \in Jobs /\ wave \in Nat /\ used \in Nat
  /\ at # "plan" => wave >= 1
  /\ at = "plan" => wave = 0 /\ used = 0
  /\ at = "plan" \/ Early => free = job.free
  /\ Early => plan = Waves(acts, Budgets) /\ Plannable(acts, Budgets)

LEMMA StaysEarly ==
  ASSUME PlanKept, job' = job, wave' = wave, used' = used, at' \notin {"plan", "wave", "dry"}, at # "plan"
  PROVE  PlanKept'
  BY DEF PlanKept, Early

LEMMA StopLeaves ==
  ASSUME NEW end, Stop(end), end \in {"failed"}
  PROVE  job' = job /\ wave' = wave /\ used' = used /\ at' = "failed"
  BY DEF Stop, runVars

LEMMA FetchLeaves ==
  ASSUME Fetch \/ \E s \in Sides : ThreadStarts(s) \/ ThreadSends(s)
  PROVE  /\ job' = job /\ wave' = wave /\ used' = used
         /\ at # "plan" /\ at' \notin {"plan", "wave", "dry"}
  <1>1. ASSUME NEW f, NEW p, Deliver(f, p)
        PROVE  job' = job /\ wave' = wave /\ used' = used /\ at' \in {"fetch", "apply"}
    BY <1>1 DEF Deliver, runVars
  <1>2. CASE FetchHeld \/ FetchBytes \/ FetchDiff \/ FetchNext
    BY <1>1, <1>2 DEF FetchHeld, FetchBytes, FetchDiff, FetchNext, Fetching
  <1>3. CASE FetchFails
    BY <1>3, StopLeaves DEF FetchFails, Fetching
  <1>4. CASE FetchEnd \/ \E s \in Sides : ThreadStarts(s) \/ ThreadSends(s)
    BY <1>4 DEF FetchEnd, ThreadStarts, ThreadSends, runVars, Fetching
  <1> QED
    BY <1>2, <1>3, <1>4 DEF Fetch

LEMMA ApplyLeaves ==
  ASSUME ApplyFrame
  PROVE  /\ job' = job /\ wave' = wave /\ used' = used
         /\ at # "plan" /\ at' \notin {"plan", "wave", "dry"}
  <1>1. CASE BeginOutput \/ WriteOutput \/ EndOutput
    <2>1. Applied /\ Applying
      BY <1>1 DEF BeginOutput, WriteOutput, EndOutput
    <2> QED
      BY <2>1 DEF Applied, Applying, runVars
  <1>2. CASE ApplyFails
    BY <1>2, StopLeaves DEF ApplyFails, Applying
  <1> QED
    BY <1>1, <1>2 DEF ApplyFrame

LEMMA WaveLeaves ==
  ASSUME \/ CheckWave \/ CheckWaveFails \/ WavesDone \/ Sign \/ SignFails \/ FenceFails
         \/ \E s \in Sides : FinishPreparation(s) \/ FinishFails(s)
  PROVE  /\ job' = job /\ wave' = wave /\ used' = used
         /\ at # "plan" /\ at' \notin {"plan", "wave", "dry"}
  <1>1. CASE SignFails \/ FenceFails \/ \E s \in Sides : FinishFails(s)
    BY <1>1, StopLeaves DEF SignFails, FenceFails, FinishFails, Sides
  <1>2. CASE CheckWave \/ CheckWaveFails \/ WavesDone \/ Sign
    BY <1>2 DEF CheckWave, CheckWaveFails, WavesDone, Sign, runVars
  <1>3. CASE \E s \in Sides : FinishPreparation(s)
    BY <1>3 DEF FinishPreparation, runVars, Sides
  <1> QED
    BY <1>1, <1>2, <1>3

LEMMA PlanningKeepsPlan ==
  ASSUME PlanKept, Planning
  PROVE  PlanKept'
  <1> DEFINE how == Strategy(acts, Budgets, job.caps, job.configured, job.migration, job.inodes)
  <1>1. /\ at = "plan" /\ job' = job /\ used' = used /\ wave' = 1 /\ free' = free
        /\ at' = IF how # "staged" THEN how ELSE IF job.dry THEN "dry" ELSE "wave"
        /\ plan' = IF how = "staged" THEN Waves(acts, Budgets) ELSE <<>>
    BY DEF Planning, spaceVars
  <1>2. how \in {"refused", "legacy", "staged"} /\ (how = "staged" => Plannable(acts, Budgets))
    BY DEF Strategy
  <1>3. acts' = acts /\ Budgets' = Budgets
    BY <1>1 DEF acts, Budgets
  <1>4. Early' => how = "staged"
    BY <1>1, <1>2 DEF Early
  <1>5. at' # "plan"
    BY <1>1, <1>2
  <1> HIDE DEF how
  <1>6. Early' => plan' = Waves(acts, Budgets)' /\ Plannable(acts, Budgets)'
    BY <1>1, <1>2, <1>3, <1>4
  <1> QED
    BY <1>1, <1>5, <1>6 DEF PlanKept

LEMMA CommitKeepsPlan ==
  ASSUME PlanKept, CommitWave
  PROVE  PlanKept'
  <1>1. at = "fence" /\ at' = "wave" /\ wave' = wave + 1 /\ job' = job /\ used' = used
    BY DEF CommitWave
  <1>2. wave' \in Nat /\ wave' >= 1 /\ wave' # 1
    BY <1>1 DEF PlanKept
  <1> QED
    BY <1>1, <1>2 DEF PlanKept, Early

LEMMA DisturbKeepsPlan ==
  ASSUME PlanKept, \E s \in Sides : Take(s) \/ \E i \in 1..Len(acts) : Edit(s, i)
  PROVE  PlanKept'
  <1>1. at' = at /\ at # "plan" /\ wave' = wave /\ job' = job /\ used' = used + 1
    BY DEF Take, Edit, Disturb
  <1>2. used' \in Nat /\ used' # 0
    BY <1>1 DEF PlanKept
  <1> QED
    BY <1>1, <1>2 DEF PlanKept, Early

LEMMA InitKeepsPlan ==
  ASSUME Init
  PROVE  PlanKept
  BY DEF Init, PlanKept, Early

LEMMA StutterKeepsPlan ==
  ASSUME PlanKept, UNCHANGED vars
  PROVE  PlanKept'
  <1>1. /\ job' = job /\ at' = at /\ wave' = wave /\ used' = used /\ plan' = plan /\ free' = free
    BY DEF vars
  <1>2. acts' = acts /\ Budgets' = Budgets
    BY <1>1 DEF acts, Budgets
  <1>3. Waves(acts, Budgets)' = Waves(acts, Budgets) /\ Plannable(acts, Budgets)' = Plannable(acts, Budgets)
    BY <1>2
  <1> QED
    BY <1>1, <1>3 DEF PlanKept, Early

LEMMA NextKeepsPlan ==
  ASSUME PlanKept, [Next]_vars
  PROVE  PlanKept'
  <1>1. CASE \/ Fetch \/ ApplyFrame
             \/ CheckWave \/ CheckWaveFails \/ WavesDone \/ Sign \/ SignFails \/ FenceFails
             \/ \E s \in Sides : ThreadStarts(s) \/ ThreadSends(s) \/ FinishPreparation(s) \/ FinishFails(s)
    <2>1. /\ job' = job /\ wave' = wave /\ used' = used
          /\ at # "plan" /\ at' \notin {"plan", "wave", "dry"}
      BY <1>1, FetchLeaves, ApplyLeaves, WaveLeaves
    <2> QED
      BY <2>1, StaysEarly
  <1>2. CASE Planning
    BY <1>2, PlanningKeepsPlan
  <1>3. CASE CommitWave
    BY <1>3, CommitKeepsPlan
  <1>4. CASE \E s \in Sides : Take(s) \/ \E i \in 1..Len(acts) : Edit(s, i)
    BY <1>4, DisturbKeepsPlan
  <1>5. CASE UNCHANGED vars
    BY <1>5, StutterKeepsPlan
  <1> QED
    BY <1>1, <1>2, <1>3, <1>4, <1>5 DEF Next

LEMMA BudgetsAreNumbers ==
  ASSUME NEW f \in [Sides -> Nat], job \in Jobs, free = f
  PROVE  /\ HasBudgets(Budgets)
         /\ \A s \in Sides : Budgets[s].usable = Above(s) /\ Budgets[s].cow = job.cow[s]
                             /\ Budgets[s].budget <= Budgets[s].usable
  <1>1. job.reserve \in Nat /\ job.limit \in Int /\ Block \in Nat
    BY JobFacts, DeltaAssumption
  <1>2. ASSUME NEW s \in Sides
        PROVE  /\ Budgets[s].budget \in Int /\ Budgets[s].usable \in Int
               /\ Budgets[s].cow = job.cow[s] /\ Budgets[s].budget <= Budgets[s].usable
    <2> DEFINE u == Minus(Block * free[s], job.reserve)
               l == job.limit
    <2>1. free[s] \in Nat
      OBVIOUS
    <2>2. Block * free[s] \in Nat
      BY <1>1, <2>1
    <2>3. u \in Int
      <3> DEFINE x == Block * free[s]
                 y == job.reserve
      <3>1. x \in Nat /\ y \in Nat
        BY <1>1, <2>2
      <3> HIDE DEF x, y
      <3>2. Minus(x, y) \in Int
        BY <3>1 DEF Minus
      <3> QED
        BY <3>2 DEF x, y
    <2>4. Budgets[s] = [usable |-> u, cow |-> job.cow[s], budget |-> IF l < 0 THEN u ELSE Smaller(l, u)]
      BY DEF Budgets, Budget
    <2>5. l \in Int
      BY <1>1
    <2> HIDE DEF u, l
    <2> QED
      BY <2>3, <2>4, <2>5 DEF Smaller
  <1> QED
    BY <1>2 DEF HasBudgets, Above

EarlyCut(c, b, a) ==
  /\ DOMAIN plan = 1..Len(c) /\ Len(plan) = Len(c) /\ Len(c) \in Nat
  /\ \A n \in 1..Len(c) : plan[n] = WaveOf(acts, c[n], Budgets)
  /\ Plannable(acts, Budgets) /\ HasBudgets(Budgets) /\ HasSizes(acts, Len(acts))
  /\ Laid(acts, Budgets, Len(acts), b, c, a)

(* The cut and the bounds of a plan.                                        *)
LEMMA EarlyPlan ==
  ASSUME PlanKept, Early
  PROVE  \E c, b, a : EarlyCut(c, b, a)
  <1> DEFINE c == Cut(acts, Budgets)
             L == Len(acts)
  <1>1. plan = Waves(acts, Budgets) /\ Plannable(acts, Budgets) /\ job \in Jobs /\ free = job.free
    BY DEF PlanKept, Early
  <1>2. L \in Nat /\ HasPaths(acts, L) /\ HasSizes(acts, L) /\ job.free \in [Sides -> Nat]
    BY <1>1, JobFacts DEF acts
  <1>3. HasBudgets(Budgets)
    BY <1>1, <1>2, BudgetsAreNumbers
  <1>4. PICK b, a : Laid(acts, Budgets, L, b, c, a)
    <2> HIDE DEF L
    <2> QED
      BY <1>2, <1>3, CutLaid
  <1>5. LaidAs(acts, Budgets, L, b, c, a, Len(Groups(acts)), Len(c))
    BY <1>4, LaidFacts
  <1>6. c \in Seq(SUBSET Nat) /\ Len(c) \in Nat
    BY <1>5 DEF LaidAs
  <1>7. plan = [n \in DOMAIN c |-> WaveOf(acts, c[n], Budgets)]
    BY <1>1 DEF Waves
  <1> HIDE DEF c, L
  <1>8. DOMAIN c = 1..Len(c)
    BY <1>6
  <1>9. DOMAIN plan = 1..Len(c) /\ \A n \in 1..Len(c) : plan[n] = WaveOf(acts, c[n], Budgets)
    BY <1>7, <1>8
  <1>10. Len(plan) = Len(c)
    <2> DEFINE N == Len(c)
    <2>1. plan = [n \in 1..N |-> WaveOf(acts, c[n], Budgets)] /\ N \in Nat
      BY <1>6, <1>7, <1>8
    <2> HIDE DEF N
    <2> QED
      BY <2>1 DEF N
  <1> QED
    BY <1>1, <1>2, <1>3, <1>4, <1>6, <1>9, <1>10 DEF EarlyCut, L
-----------------------------------------------------------------------------
LEMMA WithinIs ==
  ASSUME NEW L \in Nat, HasSizes(acts, L), NEW B, HasBudgets(B), NEW G \in SUBSET (1..L)
  PROVE  Within(G, B) <=> ~Isolated(acts, G, B)
  <1>1. ASSUME NEW s \in Sides
        PROVE  BytesIn(acts, G, s) <= B[s].budget <=> ~(BytesIn(acts, G, s) > B[s].budget)
    <2> DEFINE y == BytesIn(acts, G, s)
               z == B[s].budget
    <2>1. y \in Nat /\ z \in Int
      BY BytesMore DEF HasBudgets
    <2> HIDE DEF y, z
    <2>2. y <= z <=> ~(y > z)
      BY <2>1
    <2> QED
      BY <2>2 DEF y, z
  <1> QED
    BY <1>1 DEF Within, Isolated, Oversize

(* A wave that does not fit a budget is one output, which a clone may hold. *)
LEMMA EarlyFits ==
  ASSUME NEW c, NEW b, NEW a, EarlyCut(c, b, a), job \in Jobs, free = job.free,
         NEW n \in DOMAIN plan, NEW s \in Sides,
         BytesIn(acts, plan[n].acts, s) > Budgets[s].budget
  PROVE  LET outs == Outputs(acts, plan[n].acts, s) IN
         /\ Cardinality(outs) = 1 /\ plan[n].over[s]
         /\ BytesIn(acts, plan[n].acts, s) > Above(s) =>
              plan[n].cow[s] /\ job.cow[s] /\ \A i \in outs : acts[i].out = "diff"
  <1> DEFINE G == c[n]
  <1>1. n \in 1..Len(c) /\ plan[n] = WaveOf(acts, G, Budgets)
    BY DEF EarlyCut
  <1>2. /\ plan[n].acts = G /\ plan[n].over[s] = Oversize(acts, G, s, Budgets[s])
        /\ plan[n].cow[s] = CowOnly(acts, G, s, Budgets[s])
    BY <1>1 DEF WaveOf
  <1>3. Oversize(acts, G, s, Budgets[s]) /\ Isolated(acts, G, Budgets)
    BY <1>2 DEF Oversize, Isolated
  <1>4. PICK k \in 1..Len(Groups(acts)) : G = Groups(acts)[k]
    <2>1. Laid(acts, Budgets, Len(acts), b, c, a)
      BY DEF EarlyCut
    <2>2. \E k \in 1..Len(Groups(acts)) : c[n] = Groups(acts)[k]
      BY <1>1, <1>3, <2>1, LaidAlone
    <2> QED
      BY <2>2
  <1>5. GroupFits(acts, G, s, Budgets[s])
    BY <1>4 DEF EarlyCut, Plannable
  <1>6. /\ Budgets[s].usable = Above(s) /\ Budgets[s].cow = job.cow[s]
    <2>1. job.free \in [Sides -> Nat]
      BY JobFacts
    <2> QED
      BY <2>1, BudgetsAreNumbers
  <1> HIDE DEF G
  <1>7. BytesIn(acts, G, s) > Budgets[s].budget
    BY <1>2
  <1>8. CowOnly(acts, G, s, Budgets[s]) <=> BytesIn(acts, G, s) > Above(s)
    BY <1>6 DEF CowOnly
  <1>9. /\ Cardinality(Outputs(acts, G, s)) = 1
        /\ CowOnly(acts, G, s, Budgets[s]) =>
             job.cow[s] /\ \A i \in Outputs(acts, G, s) : acts[i].out = "diff"
    BY <1>5, <1>6, <1>7 DEF GroupFits
  <1> QED
    BY <1>2, <1>3, <1>8, <1>9

LEMMA EarlyFewest ==
  ASSUME NEW c, NEW b, NEW a, EarlyCut(c, b, a), NEW C \in Cuts, Allowed(C, Budgets)
  PROVE  Len(plan) + 1 <= Cardinality(C)
  <1> DEFINE N == Len(Groups(acts))
             L == Len(acts)
  <1>1. /\ Laid(acts, Budgets, L, b, c, a) /\ Len(plan) = Len(c)
        /\ HasBudgets(Budgets) /\ HasSizes(acts, L)
    BY DEF EarlyCut
  <1>2. LaidAs(acts, Budgets, L, b, c, a, N, Len(c))
    BY <1>1, LaidFacts
  <1>3. C \in SUBSET (0..N) /\ 0 \in C /\ N \in C
    BY DEF Cuts
  <1> HIDE DEF N, L
  <1>4. /\ L \in Nat /\ N \in Nat /\ Setting(acts, Budgets, Groups(acts), b, N, L)
    BY <1>2 DEF LaidAs
  <1>5. ASSUME NEW x \in C, NEW y \in C, x < y, \A z \in C : ~(x < z /\ z < y)
        PROVE  ~Isolated(acts, Between(acts, x, y), Budgets) \/ y = x + 1
    <2>1. GroupsBetween(x, y) = Between(acts, x, y)
      BY DEF GroupsBetween, Between
    <2>2. Within(GroupsBetween(x, y), Budgets) \/ y = x + 1
      BY <1>5 DEF Allowed
    <2>3. Between(acts, x, y) \in SUBSET (1..L)
      <3>1. x \in 0..N /\ y \in 0..N
        BY <1>3
      <3>2. Between(acts, x, y) \subseteq 1..L
        BY <1>4, <1>5, <3>1, SpanBetween
      <3> QED
        BY <3>2
    <2> QED
      BY <1>1, <1>4, <2>1, <2>2, <2>3, WithinIs
  <1>6. Fitting(acts, Budgets, N, C)
    BY <1>3, <1>5 DEF Fitting
  <1>7. Len(c) + 1 <= Cardinality(C)
    BY <1>1, <1>6, LaidFewest DEF N
  <1> QED
    BY <1>1, <1>7

LEMMA PlanKeptIsSound ==
  ASSUME PlanKept
  PROVE  PlanSound
  <1> SUFFICES ASSUME at \in {"wave", "dry"}, wave = 1, used = 0
               PROVE  /\ UNION {plan[n].acts : n \in DOMAIN plan} = 1..Len(acts)
                      /\ \A m, n \in DOMAIN plan : m < n =>
                           \A i \in plan[m].acts, j \in plan[n].acts : i < j
                      /\ \A n \in DOMAIN plan :
                           /\ \A k \in 1..Len(Groups(acts)) :
                                Groups(acts)[k] \cap plan[n].acts \in {{}, Groups(acts)[k]}
                           /\ \A s \in Sides : LET outs == Outputs(acts, plan[n].acts, s) IN
                                BytesIn(acts, plan[n].acts, s) > Budgets[s].budget =>
                                  /\ Cardinality(outs) = 1 /\ plan[n].over[s]
                                  /\ BytesIn(acts, plan[n].acts, s) > Above(s) =>
                                       plan[n].cow[s] /\ job.cow[s] /\ \A i \in outs : acts[i].out = "diff"
                      /\ \A c \in Cuts : Allowed(c, Budgets) => Len(plan) + 1 <= Cardinality(c)
    BY DEF PlanSound
  <1>1. Early /\ job \in Jobs /\ free = job.free
    BY DEF Early, PlanKept
  <1>2. PICK c, b, a : EarlyCut(c, b, a)
    BY <1>1, EarlyPlan
  <1>3. /\ DOMAIN plan = 1..Len(c) /\ \A n \in 1..Len(c) : plan[n].acts = c[n]
        /\ Laid(acts, Budgets, Len(acts), b, c, a)
    BY <1>2 DEF EarlyCut, WaveOf
  <1>4. UNION {plan[n].acts : n \in DOMAIN plan} = 1..Len(acts)
    <2>1. {plan[n].acts : n \in DOMAIN plan} = {c[n] : n \in 1..Len(c)}
      BY <1>3
    <2> QED
      BY <1>3, <2>1, LaidCovers
  <1>5. ASSUME NEW m \in DOMAIN plan, NEW n \in DOMAIN plan, m < n,
               NEW i \in plan[m].acts, NEW j \in plan[n].acts
        PROVE  i < j
    <2>1. i \in c[m] /\ j \in c[n] /\ m \in 1..Len(c) /\ n \in 1..Len(c)
      BY <1>3
    <2> QED
      BY <1>3, <1>5, <2>1, LaidInOrder
  <1>6. ASSUME NEW n \in DOMAIN plan, NEW k \in 1..Len(Groups(acts))
        PROVE  Groups(acts)[k] \cap plan[n].acts \in {{}, Groups(acts)[k]}
    <2>1. n \in 1..Len(c) /\ plan[n].acts = c[n]
      BY <1>3
    <2>2. Groups(acts)[k] \cap c[n] \in {{}, Groups(acts)[k]}
      BY <1>3, <2>1, LaidWhole
    <2> QED
      BY <2>1, <2>2
  <1>7. ASSUME NEW n \in DOMAIN plan, NEW s \in Sides,
               BytesIn(acts, plan[n].acts, s) > Budgets[s].budget
        PROVE  LET outs == Outputs(acts, plan[n].acts, s) IN
               /\ Cardinality(outs) = 1 /\ plan[n].over[s]
               /\ BytesIn(acts, plan[n].acts, s) > Above(s) =>
                    plan[n].cow[s] /\ job.cow[s] /\ \A i \in outs : acts[i].out = "diff"
    BY <1>1, <1>2, <1>7, EarlyFits
  <1>8. ASSUME NEW C \in Cuts, Allowed(C, Budgets)
        PROVE  Len(plan) + 1 <= Cardinality(C)
    BY <1>2, <1>8, EarlyFewest
  <1> QED
    BY <1>4, <1>5, <1>6, <1>7, <1>8

(* The waves that plan_staging_waves cuts for any actions and any space are *)
(* the actions in order, cut between dependency groups, each within both    *)
(* budgets or one output too large for one, and no such cut has fewer.      *)
THEOREM PlanAlwaysSound == Spec => []PlanSound
  <1>1. Init => PlanKept
    BY InitKeepsPlan
  <1>2. PlanKept /\ [Next]_vars => PlanKept'
    BY NextKeepsPlan
  <1>3. PlanKept => PlanSound
    BY PlanKeptIsSound
  <1> QED
    BY <1>1, <1>2, <1>3, PTL DEF Spec
-----------------------------------------------------------------------------
(* The invariant of a run. *)
Byte == Bytes \cup {"gone"}
OpNames == {"FileBegin", "FileBytes", "FileEnd", "DiffBegin", "DiffEnd", "copy", "bytes"}
Carried ==
  [act : Nat \ {0}, op : OpNames, offset : Nat, len : Nat, bytes : Seq(Byte)]
Producers ==
  [next : Nat, act : Nat, kind : {"none", "file", "diff"}, pos : Nat, left : Nat,
   thread : {"none", "start", "run", "dead"},
   queue : Seq(Carried), chan : Seq(Carried), held : Seq(Carried)]

Flowing == {"fetch", "apply"}
Busy == {"fetch", "apply", "finish", "finish remote", "fence"}

(* A wave that is under way is one of the plan.                             *)
Setup ==
  /\ PlanKept
  /\ Len(plan) \in Nat /\ \A n \in 1..Len(plan) : plan[n].acts \subseteq 1..Len(acts)
  /\ at \in Busy \cup {"sign"} => wave \in 1..Len(plan)

Disk ==
  /\ files \in [Sides -> [1..Len(acts) -> Seq(Byte)]]
  /\ free \in [Sides -> Nat] /\ eaten \in [Sides -> Nat]
  /\ mon \in [Sides -> [known : BOOLEAN, credit : Nat]]

(* What travels between the sides has the form of a frame.                  *)
Stream ==
  /\ turn \in Sides /\ batch \in Seq(Carried) /\ prod \in [Sides -> Producers]
  /\ at \in Flowing =>
       /\ \A i \in Diffs : \A b \in DOMAIN sigs[i] : sigs[i][b] \in Nat
       /\ \A s \in Sides :
            /\ prod[s].kind # "none" => prod[s].act \in 1..Len(acts)
            /\ prod[s].thread = "start" => prod[s].kind = "diff" /\ prod[s].act \in Diffs

(* An open output has what the verifier has seen; what is made is exact.    *)
OpenSound(s) ==
  /\ open[s] \in [act : Nat, out : Holds(Byte)] /\ SoundOutput(Byte, open[s].out)
  /\ open[s].act = 0 => open[s] = NoOutput
  /\ open[s].act # 0 =>
       /\ open[s].act \in Todo(s) /\ upto[s] = open[s].act /\ mon[s].known
       /\ acts[open[s].act].out # "diff" => ~open[s].out.clone
MadeSound(s) ==
  /\ DOMAIN made[s] = {i \in Todo(s) : i < upto[s]}
  /\ \A i \in DOMAIN made[s] : SoundOutput(Byte, made[s][i]) /\ made[s][i].data = acts[i].new
  /\ DOMAIN made[s] # {} => mon[s].known
Complete(s) == open[s] = NoOutput /\ \A i \in Todo(s) : i < upto[s]
Staged ==
  /\ upto \in [Sides -> Nat] /\ DOMAIN open = Sides /\ DOMAIN made = Sides
  /\ at \notin Busy => \A s \in Sides : open[s] = NoOutput /\ made[s] = None
  /\ at \in Busy => \A s \in Sides : OpenSound(s) /\ MadeSound(s)
  /\ at = "finish remote" => Complete("local")
  /\ at = "fence" => \A s \in Sides : Complete(s)

(* A credit is above the reserve, with what was taken since the last look.  *)
Covered ==
  at \in Busy => \A s \in Sides :
    mon[s].known => Block * (free[s] + eaten[s]) >= job.reserve + mon[s].credit

DetailInv == Setup /\ Disk /\ Stream /\ Staged /\ Covered

LEMMA SidesAre ==
  "local" \in Sides /\ "remote" \in Sides /\ (\A s \in Sides : Other(s) \in Sides /\ Other(s) # s)
  BY DEF Sides, Other

LEMMA FileType ==
  ASSUME NEW f, IsFile(f)
  PROVE  f \in Seq(Byte)
  <1>1. CASE f = Gone
    <2>1. "gone" \in Byte
      BY DEF Byte
    <2>2. <<"gone">> \in Seq(Byte)
      BY <2>1, OneOp
    <2> QED
      BY <1>1, <2>2 DEF Gone
  <1>2. CASE f \in Seq(Bytes)
    <2>1. Len(f) \in Nat /\ f \in [1..Len(f) -> Bytes]
      BY <1>2, LenProperties
    <2>2. f \in [1..Len(f) -> Byte]
      BY <2>1 DEF Byte
    <2> QED
      BY <2>1, <2>2, SeqDef
  <1> QED
    BY <1>1, <1>2 DEF IsFile

(* What Setup says of the actions of a job and of its wave.                 *)
Grounds ==
  /\ job \in Jobs /\ Len(acts) \in Nat /\ job.reserve \in Nat /\ job.limit \in Int /\ job.noise \in Nat
  /\ \A i \in 1..Len(acts) : IsAction(acts[i]) /\ acts[i].new \in Seq(Byte)
  /\ at \in Busy \cup {"sign"} =>
       /\ Wave.acts \subseteq 1..Len(acts) /\ Diffs \subseteq 1..Len(acts)
       /\ \A s \in Sides : \A i \in Todo(s) :
            /\ i \in 1..Len(acts) /\ i \in Wave.acts /\ acts[i].side = s
            /\ acts[i].out \in {"file", "diff"}

LEMMA GroundsHold ==
  ASSUME Setup
  PROVE  Grounds
  <1>1. job \in Jobs
    BY DEF Setup, PlanKept
  <1>2. /\ Len(acts) \in Nat /\ job.reserve \in Nat /\ job.limit \in Int /\ job.noise \in Nat
        /\ \A i \in 1..Len(acts) : IsAction(acts[i])
    BY <1>1, JobFacts DEF acts
  <1>3. ASSUME NEW i \in 1..Len(acts) PROVE acts[i].new \in Seq(Byte)
    BY <1>2, FileType DEF IsAction
  <1>4. ASSUME at \in Busy \cup {"sign"}
        PROVE  Wave.acts \subseteq 1..Len(acts) /\ Diffs \subseteq 1..Len(acts)
    <2>1. wave \in 1..Len(plan)
      BY <1>4 DEF Setup
    <2>2. plan[wave].acts \subseteq 1..Len(acts)
      BY <2>1 DEF Setup
    <2>3. Wave.acts \subseteq 1..Len(acts)
      BY <2>2 DEF Wave
    <2> QED
      BY <2>3 DEF Diffs
  <1>5. ASSUME at \in Busy \cup {"sign"}, NEW s \in Sides, NEW i \in Todo(s)
        PROVE  /\ i \in 1..Len(acts) /\ i \in Wave.acts /\ acts[i].side = s
               /\ acts[i].out \in {"file", "diff"}
    <2>1. i \in Wave.acts /\ acts[i].side = s /\ acts[i].out # "none"
      BY <1>5 DEF Todo, Outputs
    <2>2. i \in 1..Len(acts)
      BY <1>4, <1>5, <2>1
    <2> QED
      BY <1>2, <2>1, <2>2 DEF IsAction
  <1> QED
    BY <1>1, <1>2, <1>3, <1>4, <1>5 DEF Grounds
-----------------------------------------------------------------------------
(* Setup *)

PlanIsTyped(p, L) == Len(p) \in Nat /\ \A n \in 1..Len(p) : p[n].acts \subseteq 1..L

LEMMA WavesTyped ==
  ASSUME NEW as, NEW L \in Nat, HasPaths(as, L), NEW B
  PROVE  PlanIsTyped(Waves(as, B), L)
  <1> DEFINE c == Cut(as, B)
             p == Waves(as, B)
             g == Groups(as)
  <1>1. c \in Seq(SUBSET (1..L))
    <2>1. g \in Seq(SUBSET (1..L))
      BY GroupsType
    <2>2. CutRan(as, L, B, g)
      <3> HIDE DEF g
      <3>1. g = Groups(as)
        BY DEF g
      <3> QED
        BY <2>1, <3>1, CutRuns
    <2>3. PICK w : CutRun(as, L, B, g, w) /\ Cut(as, B) = Close(w[Len(g)])
      BY <2>2 DEF CutRan
    <2>4. w[Len(g)] \in Pieces(L)
      <3> HIDE DEF g
      <3>1. Len(g) \in Nat
        BY <2>1, LenProperties
      <3>2. Len(g) \in 0..Len(g)
        BY <3>1
      <3> QED
        BY <2>3, <3>2 DEF CutRun
    <2> QED
      BY <2>3, <2>4, CloseType
  <1>2. Len(c) \in Nat /\ DOMAIN c = 1..Len(c) /\ \A n \in 1..Len(c) : c[n] \in SUBSET (1..L)
    <2> HIDE DEF c
    <2> QED
      BY <1>1, LenProperties, ElementOfSeq
  <1>3. p = [n \in 1..Len(c) |-> WaveOf(as, c[n], B)]
    BY <1>2 DEF Waves
  <1> HIDE DEF c, p
  <1>4. \A n \in 1..Len(c) : p[n].acts = c[n]
    BY <1>3 DEF WaveOf
  <1>5. Len(p) = Len(c)
    <2> DEFINE N == Len(c)
    <2>1. p = [n \in 1..N |-> WaveOf(as, c[n], B)] /\ N \in Nat
      BY <1>2, <1>3
    <2> HIDE DEF N
    <2> QED
      BY <2>1 DEF N
  <1> QED
    BY <1>2, <1>4, <1>5 DEF p, PlanIsTyped

LEMMA SetupKept ==
  ASSUME Setup, PlanKept', job' = job, plan' = plan, wave' = wave,
         at' \in Busy \cup {"sign"} => at \in Busy \cup {"sign"} \/ wave \in 1..Len(plan)
  PROVE  Setup'
  <1>1. acts' = acts
    BY DEF acts
  <1>2. Len(plan') \in Nat /\ \A n \in 1..Len(plan') : plan'[n].acts \subseteq 1..Len(acts')
    BY <1>1 DEF Setup
  <1>3. at' \in Busy \cup {"sign"} => wave' \in 1..Len(plan')
    BY DEF Setup
  <1> QED
    BY <1>2, <1>3 DEF Setup

LEMMA StrategyIs ==
  ASSUME NEW as, NEW B, NEW caps, NEW cf, NEW mig, NEW ino
  PROVE  Strategy(as, B, caps, cf, mig, ino) \in {"staged", "legacy", "refused"}
  BY DEF Strategy

LEMMA PlanningKeepsSetup ==
  ASSUME Setup, PlanKept', Planning
  PROVE  Setup'
  <1> DEFINE how == Strategy(acts, Budgets, job.caps, job.configured, job.migration, job.inodes)
  <1>1. how \in {"staged", "legacy", "refused"}
    BY StrategyIs
  <1>2. job' = job /\ at' = (IF how # "staged" THEN how ELSE IF job.dry THEN "dry" ELSE "wave")
        /\ plan' = (IF how = "staged" THEN Waves(acts, Budgets) ELSE <<>>)
    BY DEF Planning
  <1> HIDE DEF how
  <1>3. at' \notin Busy \cup {"sign"}
    BY <1>1, <1>2 DEF Busy
  <1>4. acts' = acts
    BY <1>2 DEF acts
  <1>5. PlanIsTyped(plan', Len(acts))
    <2>1. CASE how = "staged"
      <3>1. Len(acts) \in Nat /\ HasPaths(acts, Len(acts))
        BY JobFacts DEF Setup, PlanKept, acts
      <3> QED
        BY <1>2, <2>1, <3>1, WavesTyped
    <2>2. CASE how # "staged"
      <3>1. Len(plan') = 0
        BY <1>2, <2>2, EmptySeq
      <3> QED
        BY <3>1 DEF PlanIsTyped
    <2> QED
      BY <2>1, <2>2
  <1> QED
    BY <1>3, <1>4, <1>5 DEF Setup, PlanIsTyped

Disturbance == \E s \in Sides : Take(s) \/ \E i \in 1..Len(acts) : Edit(s, i)

LEMMA FlowKeepsSetup ==
  ASSUME Setup, PlanKept',
         Fetch \/ ApplyFrame \/ \E s \in Sides : ThreadStarts(s) \/ ThreadSends(s)
  PROVE  Setup'
  <1>1. job' = job /\ plan' = plan /\ wave' = wave /\ at \in Flowing
    <2>1. CASE Fetch
      BY <2>1 DEF Fetch, FetchHeld, FetchBytes, FetchDiff, FetchNext, FetchEnd, FetchFails,
                  Fetching, Deliver, Stop, runVars, Flowing
    <2>2. CASE ApplyFrame
      BY <2>2 DEF ApplyFrame, BeginOutput, WriteOutput, EndOutput, ApplyFails, Applying,
                  Applied, Stop, runVars, Flowing
    <2>3. CASE \E s \in Sides : ThreadStarts(s) \/ ThreadSends(s)
      BY <2>3 DEF ThreadStarts, ThreadSends, runVars, Flowing
    <2> QED
      BY <2>1, <2>2, <2>3
  <1>2. at \in Busy \cup {"sign"}
    BY <1>1 DEF Flowing, Busy
  <1> QED
    BY <1>1, <1>2, SetupKept

LEMMA WaveKeepsSetup ==
  ASSUME Setup, PlanKept',
         \/ CheckWave \/ CheckWaveFails \/ WavesDone \/ Sign \/ SignFails \/ FenceFails
         \/ \E s \in Sides : FinishPreparation(s) \/ FinishFails(s)
  PROVE  Setup'
  <1>1. job' = job /\ plan' = plan /\ wave' = wave
    BY DEF CheckWave, CheckWaveFails, WavesDone, Sign, SignFails, FenceFails, FinishPreparation,
           FinishFails, Stop, runVars
  <1>2. CASE CheckWave
    <2>1. wave \in 1..Len(plan)
      <3>1. at # "plan" /\ wave <= Len(plan)
        BY <1>2 DEF CheckWave
      <3>2. wave \in Nat /\ wave >= 1 /\ Len(plan) \in Nat
        BY <3>1 DEF Setup, PlanKept
      <3> QED
        BY <3>1, <3>2
    <2> QED
      BY <1>1, <2>1, SetupKept
  <1>3. CASE CheckWaveFails \/ WavesDone \/ SignFails \/ FenceFails \/ \E s \in Sides : FinishFails(s)
    <2>1. at' \notin Busy \cup {"sign"}
      BY <1>3 DEF CheckWaveFails, WavesDone, SignFails, FenceFails, FinishFails, Stop, Busy
    <2> QED
      BY <1>1, <2>1, SetupKept
  <1>4. CASE Sign \/ \E s \in Sides : FinishPreparation(s)
    <2>1. at \in Busy \cup {"sign"}
      BY <1>4 DEF Sign, FinishPreparation, Busy
    <2> QED
      BY <1>1, <2>1, SetupKept
  <1> QED
    BY <1>2, <1>3, <1>4

LEMMA NextKeepsSetup ==
  ASSUME Setup, [Next]_vars
  PROVE  Setup'
  <1>1. PlanKept'
    BY NextKeepsPlan DEF Setup
  <1>2. CASE Planning
    BY <1>1, <1>2, PlanningKeepsSetup
  <1>3. CASE Fetch \/ ApplyFrame \/ \E s \in Sides : ThreadStarts(s) \/ ThreadSends(s)
    BY <1>1, <1>3, FlowKeepsSetup
  <1>4. CASE \/ CheckWave \/ CheckWaveFails \/ WavesDone \/ Sign \/ SignFails \/ FenceFails
             \/ \E s \in Sides : FinishPreparation(s) \/ FinishFails(s)
    BY <1>1, <1>4, WaveKeepsSetup
  <1>5. CASE CommitWave
    <2>1. job' = job /\ plan' = plan /\ at' \notin Busy \cup {"sign"}
      BY <1>5 DEF CommitWave, Busy
    <2> QED
      BY <1>1, <2>1 DEF Setup, acts
  <1>6. CASE Disturbance
    <2>1. job' = job /\ plan' = plan /\ wave' = wave /\ at' = at
      BY <1>6 DEF Disturbance, Take, Edit
    <2> QED
      BY <1>1, <2>1, SetupKept
  <1>7. CASE UNCHANGED vars
    <2>1. job' = job /\ plan' = plan /\ wave' = wave /\ at' = at
      BY <1>7 DEF vars
    <2> QED
      BY <1>1, <2>1, SetupKept
  <1> QED
    BY <1>2, <1>3, <1>4, <1>5, <1>6, <1>7 DEF Next, Disturbance
-----------------------------------------------------------------------------
(* Steps that leave a part as it is. *)

LEMMA DiskSame ==
  ASSUME Disk, UNCHANGED <<job, files, free, eaten, mon>>
  PROVE  Disk'
  BY DEF Disk, acts

LEMMA CoveredSame ==
  ASSUME Covered, UNCHANGED <<job, free, eaten, mon>>, at' \in Busy => at \in Busy
  PROVE  Covered'
  BY DEF Covered

LEMMA NotCovered ==
  ASSUME at' \notin Busy
  PROVE  Covered'
  BY DEF Covered

LEMMA StreamSame ==
  ASSUME Stream, UNCHANGED <<job, plan, wave, sigs, turn, prod, batch>>, at' \in Flowing => at \in Flowing
  PROVE  Stream'
  <1>1. Diffs' = Diffs /\ acts' = acts
    BY DEF Diffs, acts, Wave
  <1> QED
    BY <1>1 DEF Stream

LEMMA StreamRests ==
  ASSUME Stream, turn' \in Sides, batch' \in Seq(Carried), prod' = prod, at' \notin Flowing
  PROVE  Stream'
  BY DEF Stream

(* An output stays sound as long as the credit is known.                    *)
LEMMA SoundSame ==
  ASSUME NEW s \in Sides, job' = job, plan' = plan, wave' = wave, upto'[s] = upto[s],
         open'[s] = open[s], made'[s] = made[s], mon[s].known => mon'[s].known
  PROVE  /\ OpenSound(s) => OpenSound(s)'
         /\ MadeSound(s) => MadeSound(s)'
         /\ Complete(s) => Complete(s)'
  <1>1. Todo(s)' = Todo(s) /\ acts' = acts
    BY DEF Todo, acts, Wave
  <1> QED
    BY <1>1 DEF OpenSound, MadeSound, Complete

LEMMA StagedSame ==
  ASSUME Staged, UNCHANGED <<job, plan, wave, upto, open, made>>,
         \A s \in Sides : mon[s].known => mon'[s].known,
         at' \in Busy <=> at \in Busy,
         at' = "finish remote" => Complete("local"),
         at' = "fence" => \A s \in Sides : Complete(s)
  PROVE  Staged'
  <1>1. \A s \in Sides : /\ OpenSound(s) => OpenSound(s)'
                         /\ MadeSound(s) => MadeSound(s)'
                         /\ Complete(s) => Complete(s)'
    BY SoundSame
  <1>2. upto' \in [Sides -> Nat] /\ DOMAIN open' = Sides /\ DOMAIN made' = Sides
    BY DEF Staged
  <1>3. at' \notin Busy => \A s \in Sides : open'[s] = NoOutput /\ made'[s] = None
    BY DEF Staged
  <1>4. at' \in Busy => \A s \in Sides : OpenSound(s)' /\ MadeSound(s)'
    BY <1>1 DEF Staged
  <1>5. at' = "finish remote" => Complete("local")'
    BY <1>1, SidesAre
  <1>6. at' = "fence" => \A s \in Sides : Complete(s)'
    BY <1>1
  <1> QED
    BY <1>2, <1>3, <1>4, <1>5, <1>6 DEF Staged

(* Nothing is staged outside a wave.                                        *)
LEMMA StagedNot ==
  ASSUME at' \notin Busy, upto' \in [Sides -> Nat], DOMAIN open' = Sides, DOMAIN made' = Sides,
         \A s \in Sides : open'[s] = NoOutput /\ made'[s] = None
  PROVE  Staged'
  <1>1. at' # "finish remote" /\ at' # "fence"
    BY DEF Busy
  <1> QED
    BY <1>1 DEF Staged
-----------------------------------------------------------------------------
(* What is staged. *)

LEMMA NothingStaged ==
  ASSUME NEW s \in Sides, open[s] = NoOutput, DOMAIN made[s] = {}
  PROVE  OwnedBlocks(s) = 0
  <1> DEFINE f == [i \in DOMAIN made[s] |-> Cardinality(made[s][i].owned)]
  <1>1. Cardinality(open[s].out.owned) = 0
    <2>1. open[s].out = Fresh
      BY DEF NoOutput
    <2>2. Fresh.owned = {}
      BY DEF Fresh
    <2> QED
      BY <2>1, <2>2, FS_EmptySet
  <1>2. DOMAIN f = {}
    OBVIOUS
  <1>3. SumFunction(f) = 0
    <2> HIDE DEF f
    <2> QED
      BY <1>2, SumEmpty DEF SumFunction
  <1> QED
    BY <1>1, <1>3 DEF OwnedBlocks

LEMMA OwnedType ==
  ASSUME Setup, Staged, NEW s \in Sides
  PROVE  OwnedBlocks(s) \in Nat /\ (OwnedBlocks(s) > 0 => at \in Busy /\ mon[s].known)
  <1>1. CASE at \notin Busy
    <2>1. open[s] = NoOutput /\ made[s] = None
      BY <1>1 DEF Staged
    <2>2. DOMAIN made[s] = {}
      BY <2>1 DEF None
    <2>3. OwnedBlocks(s) = 0
      BY <2>1, <2>2, NothingStaged
    <2> QED
      BY <2>3
  <1>2. CASE at \in Busy
    <2>1. OpenSound(s) /\ MadeSound(s)
      BY <1>2 DEF Staged
    <2> DEFINE f == [i \in DOMAIN made[s] |-> Cardinality(made[s][i].owned)]
    <2>2. Cardinality(open[s].out.owned) \in Nat
      <3>1. IsFiniteSet(open[s].out.owned)
        BY <2>1 DEF OpenSound, SoundOutput
      <3> QED
        BY <3>1, FS_CardinalityType
    <2>3. IsFiniteSet(DOMAIN made[s])
      <3>1. DOMAIN made[s] \subseteq 1..Len(acts) /\ Len(acts) \in Nat
        BY <1>2, <2>1, GroundsHold DEF Grounds, MadeSound
      <3>2. IsFiniteSet(1..Len(acts))
        BY <3>1, FS_Interval
      <3> QED
        BY <3>1, <3>2, FS_Subset
    <2>4. \A i \in DOMAIN made[s] : f[i] \in Nat
      <3> SUFFICES ASSUME NEW i \in DOMAIN made[s] PROVE Cardinality(made[s][i].owned) \in Nat
        OBVIOUS
      <3>1. IsFiniteSet(made[s][i].owned)
        BY <2>1 DEF MadeSound, SoundOutput
      <3> QED
        BY <3>1, FS_CardinalityType
    <2>5. SumFunction(f) \in Nat
      <3>1. DOMAIN f = DOMAIN made[s]
        OBVIOUS
      <3> HIDE DEF f
      <3> QED
        BY <2>3, <2>4, <3>1, SumType DEF SumFunction
    <2>6. OwnedBlocks(s) \in Nat
      BY <2>2, <2>5 DEF OwnedBlocks
    <2>7. ASSUME ~mon[s].known PROVE OwnedBlocks(s) = 0
      <3>1. open[s] = NoOutput /\ DOMAIN made[s] = {}
        BY <2>1, <2>7 DEF OpenSound, MadeSound
      <3> QED
        BY <3>1, NothingStaged
    <2> QED
      BY <1>2, <2>6, <2>7
  <1> QED
    BY <1>1, <1>2

LEMMA StopKeeps ==
  ASSUME Setup, Disk, Stream, Staged, Stop("failed")
  PROVE  Disk' /\ Stream' /\ Staged' /\ Covered'
  <1>1. at' \notin Busy /\ at' \notin Flowing
    BY DEF Stop, Busy, Flowing
  <1>2. Disk'
    <2>1. \A s \in Sides : OwnedBlocks(s) \in Nat /\ free[s] \in Nat
      BY OwnedType DEF Disk
    <2>2. free' = [s \in Sides |-> free[s] + OwnedBlocks(s)]
      BY DEF Stop
    <2>3. free' \in [Sides -> Nat]
      BY <2>1, <2>2
    <2> QED
      BY <2>3 DEF Stop, Disk, runVars, acts
  <1>3. Stream'
    <2>1. <<>> \in Seq(Carried)
      BY EmptySeq
    <2> QED
      BY <1>1, <2>1, StreamRests DEF Stop, Stream
  <1>4. Staged'
    <2>1. \A s \in Sides : open'[s] = NoOutput /\ made'[s] = None
      BY <1>1 DEF Stop, EachSide
    <2>2. DOMAIN open' = Sides /\ DOMAIN made' = Sides /\ upto' \in [Sides -> Nat]
      BY <1>1 DEF Stop, EachSide, Staged
    <2> QED
      BY <1>1, <2>1, <2>2, StagedNot
  <1> QED
    BY <1>1, <1>2, <1>3, <1>4, NotCovered
-----------------------------------------------------------------------------
(* The start of a run and of a wave. *)

LEMMA InitHolds ==
  ASSUME Init
  PROVE  DetailInv
  <1>1. PlanKept
    BY InitKeepsPlan
  <1>2. at = "plan" /\ at \notin Busy /\ at \notin Flowing /\ job \in Jobs /\ plan = <<>>
    BY DEF Init, Busy, Flowing
  <1>3. Setup
    <2>1. Len(plan) = 0
      BY <1>2, EmptySeq
    <2>2. at \notin Busy \cup {"sign"}
      BY <1>2
    <2> QED
      BY <1>1, <2>1, <2>2 DEF Setup
  <1>4. Disk
    <2>1. \A i \in 1..Len(acts) : acts[i].old \in Seq(Byte) /\ acts[i].new \in Seq(Byte)
      <3>1. \A i \in 1..Len(acts) : IsAction(acts[i])
        BY <1>3, GroundsHold DEF Grounds
      <3> QED
        BY <3>1, FileType DEF IsAction
    <2>2. files = [s \in Sides |-> [i \in 1..Len(acts) |->
                     IF s = acts[i].side THEN acts[i].old ELSE acts[i].new]]
      BY DEF Init, acts
    <2>3. files \in [Sides -> [1..Len(acts) -> Seq(Byte)]]
      BY <2>1, <2>2
    <2>4. free \in [Sides -> Nat]
      BY <1>2, JobFacts DEF Init
    <2>5. eaten \in [Sides -> Nat] /\ mon \in [Sides -> [known : BOOLEAN, credit : Nat]]
      BY DEF Init, EachSide, NoCredit
    <2> QED
      BY <2>3, <2>4, <2>5 DEF Disk
  <1>5. Stream
    <2>1. <<>> \in Seq(Carried)
      BY EmptySeq
    <2>2. Idle \in Producers
      BY <2>1 DEF Idle, Producers
    <2>3. prod \in [Sides -> Producers] /\ turn \in Sides /\ batch \in Seq(Carried)
      BY <2>1, <2>2, SidesAre DEF Init, EachSide
    <2> QED
      BY <1>2, <2>3 DEF Stream
  <1>6. Staged
    <2>1. upto \in [Sides -> Nat]
      BY DEF Init, EachSide
    <2>2. DOMAIN open = Sides /\ DOMAIN made = Sides /\ \A s \in Sides : open[s] = NoOutput /\ made[s] = None
      BY DEF Init, EachSide
    <2> QED
      BY <1>2, <2>1, <2>2 DEF Staged
  <1>7. Covered
    BY <1>2 DEF Covered
  <1> QED
    BY <1>3, <1>4, <1>5, <1>6, <1>7 DEF DetailInv

(* Planning, and the check of a wave: nothing but the plan changes.         *)
LEMMA WaveKeeps ==
  ASSUME Disk, Stream, Staged, Planning \/ CheckWave \/ CheckWaveFails \/ WavesDone
  PROVE  Disk' /\ Stream' /\ Staged' /\ Covered'
  <1>1. /\ at \notin Busy /\ at' \notin Busy /\ at' \notin Flowing
        /\ UNCHANGED <<job, files, free, eaten, mon, turn, batch, prod, upto, open, made>>
    <2>1. CASE Planning
      <3> DEFINE how == Strategy(acts, Budgets, job.caps, job.configured, job.migration, job.inodes)
      <3>1. how \in {"staged", "legacy", "refused"}
        BY StrategyIs
      <3>2. /\ at = "plan" /\ at' = (IF how # "staged" THEN how ELSE IF job.dry THEN "dry" ELSE "wave")
            /\ UNCHANGED <<job, files, free, eaten, mon, turn, batch, prod, upto, open, made>>
        BY <2>1 DEF Planning, streamVars, applyVars, spaceVars
      <3> HIDE DEF how
      <3> QED
        BY <3>1, <3>2 DEF Busy, Flowing
    <2>2. CASE CheckWave \/ CheckWaveFails \/ WavesDone
      BY <2>2 DEF CheckWave, CheckWaveFails, WavesDone, Busy, Flowing, runVars, streamVars, applyVars, spaceVars
    <2> QED
      BY <2>1, <2>2
  <1>2. Disk'
    BY <1>1, DiskSame
  <1>3. Stream'
    BY <1>1, StreamRests DEF Stream
  <1>4. Staged'
    BY <1>1, StagedNot DEF Staged
  <1> QED
    BY <1>1, <1>2, <1>3, <1>4, NotCovered

(* The signatures of a wave say where blocks are.                           *)
LEMMA SignKeeps ==
  ASSUME Setup, Disk, Stream, Staged, Sign
  PROVE  Disk' /\ Stream' /\ Staged' /\ Covered'
  <1>1. /\ at = "sign" /\ at' = "fetch" /\ UNCHANGED <<job, plan, wave, files, free, eaten, batch, open, made>>
        /\ turn' = "remote" /\ prod' = EachSide(Idle) /\ mon' = EachSide(NoCredit) /\ upto' = EachSide(1)
        /\ sigs' = [i \in Diffs |-> Signature(files[acts[i].side][i])]
    BY DEF Sign, runVars
  <1>2. at \notin Busy /\ at' \in Busy /\ at' \in Flowing /\ at \in Busy \cup {"sign"}
    BY <1>1 DEF Busy, Flowing
  <1>3. Disk'
    <2>1. mon' \in [Sides -> [known : BOOLEAN, credit : Nat]]
      BY <1>1 DEF EachSide, NoCredit
    <2> QED
      BY <1>1, <2>1 DEF Disk, acts
  <1>4. Stream'
    <2>1. Diffs' = Diffs /\ acts' = acts
      BY <1>1 DEF Diffs, Wave, acts
    <2>2. ASSUME NEW i \in Diffs PROVE \A b \in DOMAIN sigs'[i] : sigs'[i][b] \in Nat
      <3>1. acts[i].side \in Sides /\ i \in 1..Len(acts)
        BY <1>2, GroundsHold DEF Diffs, Grounds
      <3>2. files[acts[i].side][i] \in Seq(Byte)
        BY <3>1 DEF Disk
      <3>3. sigs'[i] = Signature(files[acts[i].side][i])
        BY <1>1
      <3>4. Located(Byte, files[acts[i].side][i], Signature(files[acts[i].side][i]))
        BY <3>2, SignatureLocated
      <3> QED
        BY <3>3, <3>4 DEF Located
    <2>3. <<>> \in Seq(Carried)
      BY EmptySeq
    <2>4. Idle \in Producers /\ Idle.kind = "none" /\ Idle.thread = "none"
      BY <2>3 DEF Idle, Producers
    <2>5. prod' \in [Sides -> Producers]
      BY <1>1, <2>4 DEF EachSide
    <2>6. \A s \in Sides : prod'[s] = Idle
      BY <1>1 DEF EachSide
    <2>7. turn' \in Sides /\ batch' \in Seq(Carried)
      BY <1>1, SidesAre DEF Stream
    <2> QED
      BY <2>1, <2>2, <2>4, <2>5, <2>6, <2>7 DEF Stream
  <1>5. Staged'
    <2>1. \A s \in Sides : open'[s] = NoOutput /\ made'[s] = None
      BY <1>1, <1>2 DEF Staged
    <2>2. upto' \in [Sides -> Nat] /\ DOMAIN open' = Sides /\ DOMAIN made' = Sides
      BY <1>1, <1>2 DEF EachSide, Staged
    <2>3. ASSUME NEW s \in Sides PROVE OpenSound(s)' /\ MadeSound(s)'
      <3>1. open'[s] = NoOutput /\ made'[s] = None /\ upto'[s] = 1
        BY <1>1, <2>1 DEF EachSide
      <3>2. OpenSound(s)'
        <4>1. SoundOutput(Byte, Fresh)
          BY FreshSound
        <4>2. Fresh \in Holds(Byte)
          BY <4>1 DEF SoundOutput
        <4>3. NoOutput.act = 0 /\ NoOutput.out = Fresh /\ NoOutput \in [act : Nat, out : Holds(Byte)]
          BY <4>2 DEF NoOutput
        <4> QED
          BY <3>1, <4>1, <4>3 DEF OpenSound
      <3>3. DOMAIN made'[s] = {}
        BY <3>1 DEF None
      <3>4. Todo(s)' = Todo(s)
        BY <1>1 DEF Todo, Wave, acts
      <3>5. \A i \in Todo(s) : ~(i < 1)
        <4>1. \A i \in Todo(s) : i \in Nat /\ i >= 1
          BY <1>2, GroundsHold DEF Grounds
        <4> QED
          BY <4>1
      <3>6. MadeSound(s)'
        BY <3>1, <3>3, <3>4, <3>5 DEF MadeSound
      <3> QED
        BY <3>2, <3>6
    <2>4. at' # "finish remote" /\ at' # "fence"
      BY <1>1
    <2> QED
      BY <1>2, <2>2, <2>3, <2>4 DEF Staged
  <1>6. Covered'
    <2>1. \A s \in Sides : ~mon'[s].known
      BY <1>1 DEF EachSide, NoCredit
    <2> QED
      BY <2>1 DEF Covered
  <1> QED
    BY <1>3, <1>4, <1>5, <1>6
-----------------------------------------------------------------------------
(* The producers. *)

LEMMA FrameType ==
  ASSUME NEW i \in Nat \ {0}, NEW op \in OpNames
  PROVE  Frame(i, op) \in Carried
  <1>1. <<>> \in Seq(Byte)
    BY EmptySeq
  <1> QED
    BY <1>1 DEF Frame, Carried

LEMMA CarriedFields ==
  ASSUME NEW f \in Carried
  PROVE  /\ f.act \in Nat \ {0} /\ f.op \in OpNames /\ f.offset \in Nat /\ f.len \in Nat
         /\ f.bytes \in Seq(Byte)
  BY DEF Carried

LEMMA ProducerFields ==
  ASSUME NEW p \in Producers
  PROVE  /\ p.next \in Nat /\ p.act \in Nat /\ p.kind \in {"none", "file", "diff"} /\ p.pos \in Nat
         /\ p.left \in Nat /\ p.thread \in {"none", "start", "run", "dead"}
         /\ p.queue \in Seq(Carried) /\ p.chan \in Seq(Carried) /\ p.held \in Seq(Carried)
  BY DEF Producers

(* A delivered frame and the producer p that is left of it.                 *)
ProducerSound(p) ==
  /\ p \in Producers
  /\ p.kind # "none" => p.act \in 1..Len(acts)
  /\ p.thread = "start" => p.kind = "diff" /\ p.act \in Diffs

LEMMA ProducersSound ==
  ASSUME Stream, at \in Flowing
  PROVE  turn \in Sides /\ ProducerSound(P) /\ \A s \in Sides : ProducerSound(prod[s])
  BY DEF Stream, ProducerSound, P

LEMMA DeliverKeeps ==
  ASSUME Stream, at \in Flowing, NEW f \in Carried, NEW p, ProducerSound(p), Deliver(f, p)
  PROVE  Stream'
  <1>1. UNCHANGED <<job, plan, wave, sigs, turn>>
    BY DEF Deliver, runVars
  <1>2. Diffs' = Diffs /\ acts' = acts
    BY <1>1 DEF Diffs, Wave, acts
  <1> DEFINE q == [p EXCEPT !.held = <<f>>]
  <1>3. q \in Producers /\ q.kind = p.kind /\ q.act = p.act /\ q.thread = p.thread
    <2>1. p \in Producers /\ <<f>> \in Seq(Carried)
      BY OneOp DEF ProducerSound
    <2> QED
      BY <2>1 DEF Producers
  <1>4. ProducerSound(q)
    BY <1>3 DEF ProducerSound
  <1>5. turn \in Sides /\ prod \in [Sides -> Producers] /\ batch \in Seq(Carried)
    BY DEF Stream
  <1>6. \/ prod' = [prod EXCEPT ![turn] = p] /\ batch' = Append(batch, f)
        \/ prod' = [prod EXCEPT ![turn] = q] /\ batch' = batch
    BY DEF Deliver
  <1> HIDE DEF q
  <1>7. PICK x : ProducerSound(x) /\ prod' = [prod EXCEPT ![turn] = x]
    BY <1>4, <1>6
  <1>8. batch' \in Seq(Carried)
    <2>1. Append(batch, f) \in Seq(Carried)
      BY <1>5, AppendProperties
    <2> QED
      BY <1>5, <1>6, <2>1
  <1>9. prod' \in [Sides -> Producers]
    BY <1>5, <1>7 DEF ProducerSound
  <1>10. \A s \in Sides : ProducerSound(prod'[s])
    <2>1. \A s \in Sides : prod'[s] = x \/ prod'[s] = prod[s]
      BY <1>5, <1>7
    <2> QED
      BY <1>7, <2>1, ProducersSound
  <1>11. \A i \in Diffs : \A b \in DOMAIN sigs[i] : sigs[i][b] \in Nat
    BY DEF Stream
  <1> QED
    BY <1>1, <1>2, <1>5, <1>8, <1>9, <1>10, <1>11 DEF Stream, ProducerSound

(* A step of the flow that touches neither space nor outputs.               *)
LEMMA FlowLeaves ==
  ASSUME Disk, Staged, Covered, at \in Flowing, at' \in Flowing \cup {"finish"},
         UNCHANGED <<runVars, applyVars, spaceVars>>
  PROVE  Disk' /\ Staged' /\ Covered'
  <1>1. UNCHANGED <<job, plan, wave, files, free, eaten, mon, upto, open, made>>
    BY DEF runVars, applyVars, spaceVars
  <1>2. at \in Busy /\ at' \in Busy /\ at' # "finish remote" /\ at' # "fence"
    BY DEF Flowing, Busy
  <1>3. \A s \in Sides : mon[s].known => mon'[s].known
    BY <1>1
  <1> QED
    BY <1>1, <1>2, <1>3, DiskSame, StagedSame, CoveredSame

LEMMA SmallerType ==
  ASSUME NEW a \in Nat, NEW b \in Nat
  PROVE  Smaller(a, b) \in Nat /\ Smaller(a, b) <= a /\ Smaller(a, b) <= b
  BY DEF Smaller

LEMMA FetchKeeps ==
  ASSUME Setup, Disk, Stream, FetchHeld \/ FetchBytes \/ FetchDiff \/ FetchNext
  PROVE  Stream'
  <1>1. at = "fetch" /\ at \in Flowing /\ at \in Busy
    BY DEF FetchHeld, FetchBytes, FetchDiff, FetchNext, Fetching, Flowing, Busy
  <1>2. turn \in Sides /\ ProducerSound(P)
    BY <1>1, ProducersSound
  <1> DEFINE p == P
  <1>3. /\ p \in Producers /\ p.next \in Nat /\ p.act \in Nat /\ p.pos \in Nat /\ p.left \in Nat
        /\ p.kind \in {"none", "file", "diff"} /\ p.thread \in {"none", "start", "run", "dead"}
        /\ p.queue \in Seq(Carried) /\ p.chan \in Seq(Carried) /\ p.held \in Seq(Carried)
        /\ p.kind # "none" => p.act \in 1..Len(acts)
        /\ p.thread = "start" => p.kind = "diff" /\ p.act \in Diffs
    BY <1>2, ProducerFields DEF ProducerSound
  <1>4. Len(acts) \in Nat /\ \A i \in 1..Len(acts) : i \in Nat \ {0}
    BY GroundsHold DEF Grounds
  <1> HIDE DEF p
  <1>5. CASE FetchHeld
    <2> DEFINE q == [p EXCEPT !.held = <<>>]
    <2>1. Deliver(Head(p.held), q) /\ p.held # <<>>
      BY <1>5 DEF FetchHeld, p
    <2>2. Head(p.held) \in Carried
      BY <1>3, <2>1, HeadTailProperties
    <2>3. ProducerSound(q)
      <3>1. <<>> \in Seq(Carried)
        BY EmptySeq
      <3> QED
        BY <1>3, <3>1 DEF Producers, ProducerSound
    <2> HIDE DEF q
    <2> QED
      BY <1>1, <2>1, <2>2, <2>3, DeliverKeeps
  <1>6. CASE FetchBytes
    <2>0. p.kind = "file"
      BY <1>6 DEF FetchBytes, p
    <2>1. p.thread # "start" /\ p.act \in 1..Len(acts) /\ p.act \in Nat \ {0}
      BY <1>3, <1>4, <2>0
    <2> DEFINE n == Smaller(Chunk, p.left)
               b == Slice(files[turn][p.act], p.pos, n)
               q == [p EXCEPT !.kind = "none"]
               r == [p EXCEPT !.pos = @ + Len(b), !.left = @ - Len(b)]
               f == [Frame(p.act, "FileBytes") EXCEPT !.bytes = b]
    <2>2. Deliver(Frame(p.act, "FileEnd"), q) \/ Deliver(f, r)
      BY <1>6 DEF FetchBytes, p
    <2>3. n \in Nat /\ n <= p.left
      <3>1. Chunk \in Nat
        BY DeltaAssumption
      <3> QED
        BY <1>3, <3>1, SmallerType
    <2>4. files[turn][p.act] \in Seq(Byte)
      BY <1>2, <2>1 DEF Disk
    <2> DEFINE z == files[turn][p.act]
    <2>5. b \in Seq(Byte) /\ Len(b) <= n /\ Len(b) \in Nat
      <3> HIDE DEF n, z
      <3>1. b \in Seq(Byte) /\ Len(b) <= n
        BY <1>3, <2>3, <2>4, SliceType DEF z
      <3> QED
        BY <3>1, LenProperties
    <2>6. Frame(p.act, "FileEnd") \in Carried /\ Frame(p.act, "FileBytes") \in Carried
      BY <2>1, FrameType DEF OpNames
    <2> HIDE DEF b
    <2>7. f \in Carried
      BY <2>5, <2>6 DEF Carried
    <2>8. ProducerSound(q)
      BY <1>3, <2>1 DEF Producers, ProducerSound
    <2>9. ProducerSound(r)
      <3>1. p.pos + Len(b) \in Nat /\ p.left - Len(b) \in Nat
        <4> HIDE DEF n
        <4> QED
          BY <1>3, <2>3, <2>5
      <3> DEFINE u == p.pos + Len(b)
                 v == p.left - Len(b)
      <3>2. r = [[p EXCEPT !.pos = u] EXCEPT !.left = v]
        OBVIOUS
      <3> HIDE DEF u, v
      <3>3. u \in Nat /\ v \in Nat
        BY <3>1 DEF u, v
      <3> HIDE DEF r
      <3>4. r \in Producers /\ r.kind = p.kind /\ r.act = p.act /\ r.thread = p.thread
        BY <1>3, <3>2, <3>3 DEF Producers
      <3> QED
        BY <1>3, <3>4 DEF ProducerSound
    <2> HIDE DEF f, q, r
    <2> QED
      BY <1>1, <2>2, <2>6, <2>7, <2>8, <2>9, DeliverKeeps
  <1>7. CASE FetchDiff
    <2> DEFINE f == Head(p.chan)
               k == IF f.op = "DiffEnd" THEN "none" ELSE p.kind
               t == IF f.op = "DiffEnd" THEN "none" ELSE p.thread
               q == [p EXCEPT !.chan = Tail(@),
                              !.kind = IF f.op = "DiffEnd" THEN "none" ELSE @,
                              !.thread = IF f.op = "DiffEnd" THEN "none" ELSE @]
    <2>1. p.chan # <<>> /\ Deliver(f, q)
      BY <1>7 DEF FetchDiff, p
    <2>2. f \in Carried /\ Tail(p.chan) \in Seq(Carried)
      BY <1>3, <2>1, HeadTailProperties
    <2>3. q = [[[p EXCEPT !.chan = Tail(p.chan)] EXCEPT !.kind = k] EXCEPT !.thread = t]
      OBVIOUS
    <2>4. (k = "none" /\ t = "none") \/ (k = p.kind /\ t = p.thread)
      OBVIOUS
    <2> HIDE DEF f, k, t, q
    <2>5. q \in Producers /\ q.kind = k /\ q.thread = t /\ q.act = p.act
      BY <1>3, <2>2, <2>3, <2>4 DEF Producers
    <2>6. ProducerSound(q)
      BY <1>3, <2>4, <2>5 DEF ProducerSound
    <2> QED
      BY <1>1, <2>1, <2>2, <2>6, DeliverKeeps
  <1>8. CASE FetchNext
    <2> DEFINE i == Following
               q == [p EXCEPT !.next = i + 1, !.act = i, !.kind = acts[i].out]
               r == [q EXCEPT !.thread = "start"]
               m == [q EXCEPT !.pos = 0, !.left = Len(files[turn][i])]
    <2>1. /\ Ahead # {} /\ p.kind = "none"
          /\ \/ acts[i].out = "diff" /\ Deliver(Frame(i, "DiffBegin"), r)
             \/ acts[i].out # "diff" /\ Deliver(Frame(i, "FileBegin"), m)
      BY <1>8 DEF FetchNext, p
    <2>2. i \in Ahead
      <3>1. Ahead \subseteq Nat
        <4>1. Ahead \subseteq Todo(Other(turn))
          BY DEF Ahead
        <4>2. \A j \in Todo(Other(turn)) : j \in Nat
          BY <1>1, <1>2, <1>4, GroundsHold, SidesAre DEF Grounds
        <4> QED
          BY <4>1, <4>2
      <3>2. \E x \in Ahead : \A y \in Ahead : x <= y
        BY <2>1, <3>1, NatMin
      <3> QED
        BY <3>2 DEF Following
    <2>3. /\ i \in 1..Len(acts) /\ i \in Nat \ {0} /\ acts[i].side \in Sides /\ i \in Wave.acts
          /\ acts[i].out \in {"file", "diff"}
      <3>1. i \in Todo(Other(turn)) /\ Other(turn) \in Sides
        BY <1>2, <2>2, SidesAre DEF Ahead
      <3> HIDE DEF i
      <3> QED
        BY <1>1, <1>4, <3>1, GroundsHold DEF Grounds
    <2>4. acts[i].out = "diff" => i \in Diffs
      BY <2>3 DEF Diffs
    <2>5. files[turn][i] \in Seq(Byte)
      BY <1>2, <2>3 DEF Disk
    <2>6. Len(files[turn][i]) \in Nat
      BY <2>5, LenProperties
    <2> HIDE DEF i
    <2>7. q \in Producers /\ q.kind = acts[i].out /\ q.act = i /\ q.thread = p.thread
      <3> DEFINE o == acts[i].out
                 x == i + 1
      <3>1. q = [[[p EXCEPT !.next = x] EXCEPT !.act = i] EXCEPT !.kind = o] /\ x \in Nat /\ i \in Nat
            /\ o \in {"none", "file", "diff"}
        BY <2>3
      <3> HIDE DEF q, o, x
      <3>2. q \in Producers /\ q.kind = o /\ q.act = i /\ q.thread = p.thread
        BY <1>3, <3>1 DEF Producers
      <3> QED
        BY <3>2 DEF o
    <2>8. p.thread # "start"
      BY <1>3, <2>1
    <2> HIDE DEF q
    <2>9. acts[i].out = "diff" => ProducerSound(r)
      <3>1. r \in Producers /\ r.kind = q.kind /\ r.act = q.act
        BY <2>7 DEF Producers
      <3> QED
        BY <2>3, <2>4, <2>7, <3>1 DEF ProducerSound
    <2>10. ProducerSound(m)
      <3> DEFINE l == Len(files[turn][i])
      <3>1. m = [[q EXCEPT !.pos = 0] EXCEPT !.left = l] /\ l \in Nat
        BY <2>6
      <3> HIDE DEF l, m
      <3>2. m \in Producers /\ m.kind = q.kind /\ m.act = q.act /\ m.thread = q.thread
        BY <2>7, <3>1 DEF Producers
      <3> QED
        BY <2>3, <2>7, <2>8, <3>2 DEF ProducerSound
    <2>11. Frame(i, "DiffBegin") \in Carried /\ Frame(i, "FileBegin") \in Carried
      BY <2>3, FrameType DEF OpNames
    <2> HIDE DEF r, m
    <2> QED
      BY <1>1, <2>1, <2>9, <2>10, <2>11, DeliverKeeps
  <1> QED
    BY <1>5, <1>6, <1>7, <1>8

LEMMA FetchEndKeeps ==
  ASSUME Stream, FetchEnd
  PROVE  Stream' /\ at \in Flowing /\ at' \in Flowing \cup {"finish"}
         /\ UNCHANGED <<runVars, applyVars, spaceVars>>
  <1>1. at = "fetch" /\ UNCHANGED <<runVars, applyVars, spaceVars>> /\ UNCHANGED <<sigs, prod, batch>>
    BY DEF FetchEnd, Fetching
  <1>2. turn' \in {turn, Other(turn)} /\ at' \in {"apply", "finish", "fetch"}
    BY DEF FetchEnd
  <1>3. turn' \in Sides
    BY <1>2, SidesAre DEF Stream
  <1>4. Diffs' = Diffs /\ acts' = acts
    BY <1>1 DEF runVars, Diffs, Wave, acts
  <1> QED
    BY <1>1, <1>2, <1>3, <1>4 DEF Stream, Flowing

(* The frames of a difference have the form of frames, whatever is compared. *)
LEMMA FramesType ==
  ASSUME NEW V, NEW sig, \A b \in DOMAIN sig : sig[b] \in Nat, NEW r \in Seq(V)
  PROVE  Frames(sig, r) \in Seq(Ops(V))
  <1>1. Brings(V, Ops(V), sig)
    BY OpsBring
  <1>2. Joinable(V, Ops(V))
    <2>1. ASSUME NEW f \in Ops(V), NEW g \in Ops(V)
          PROVE  CopyOf(f.offset, f.len + g.len) \in Ops(V)
      <3>1. f.offset \in Nat /\ f.len + g.len \in Nat
        BY DEF Ops
      <3> QED
        BY <3>1, CopyType
    <2> QED
      BY <2>1 DEF Joinable
  <1> QED
    BY <1>1, <1>2, FramesMake

LEMMA OpsAreBytes ==
  ASSUME NEW f \in Ops(Byte), NEW i \in Nat \ {0}
  PROVE  Framed(i, f) \in Carried
  BY DEF Ops, Framed, Carried, OpNames

LEMMA ThreadKeeps ==
  ASSUME Setup, Disk, Stream, NEW s \in Sides, ThreadStarts(s) \/ ThreadSends(s)
  PROVE  Stream' /\ at \in Flowing /\ at' \in Flowing \cup {"finish"}
         /\ UNCHANGED <<runVars, applyVars, spaceVars>>
  <1>1. /\ at \in Flowing /\ at' = at /\ UNCHANGED <<runVars, applyVars, spaceVars>>
        /\ UNCHANGED <<job, plan, wave, sigs, turn, batch>>
    BY DEF ThreadStarts, ThreadSends, Flowing, runVars
  <1>2. Diffs' = Diffs /\ acts' = acts
    BY <1>1 DEF Diffs, Wave, acts
  <1> DEFINE p == prod[s]
  <1>3. ProducerSound(p) /\ prod \in [Sides -> Producers]
    BY <1>1, ProducersSound DEF Stream
  <1>4. /\ p \in Producers /\ p.queue \in Seq(Carried) /\ p.chan \in Seq(Carried)
        /\ p.kind # "none" => p.act \in 1..Len(acts)
        /\ p.thread = "start" => p.kind = "diff" /\ p.act \in Diffs
    BY <1>3, ProducerFields DEF ProducerSound
  <1>5. CASE ThreadStarts(s)
    <2> DEFINE i == p.act
               fs == Frames(sigs[i], files[s][i])
               c == [n \in DOMAIN fs |-> Framed(i, fs[n])] \o <<Frame(i, "DiffEnd")>>
               t == IF files[s][i] = Gone THEN "dead" ELSE "run"
               u == IF files[s][i] = Gone THEN <<>> ELSE c
               q == [[p EXCEPT !.thread = t] EXCEPT !.queue = u]
    <2>1. p.thread = "start" /\ prod' = [[prod EXCEPT ![s].thread = t] EXCEPT ![s].queue = u]
      BY <1>5 DEF ThreadStarts
    <2>2. i \in Diffs
      BY <1>4, <2>1
    <2>3. i \in 1..Len(acts) /\ i \in Nat \ {0}
      <3>1. at \in Busy \cup {"sign"}
        BY <1>1 DEF Flowing, Busy
      <3>2. Diffs \subseteq 1..Len(acts) /\ Len(acts) \in Nat
        BY <3>1, GroundsHold DEF Grounds
      <3> HIDE DEF i
      <3> QED
        BY <2>2, <3>2
    <2>4. \A b \in DOMAIN sigs[i] : sigs[i][b] \in Nat
      BY <1>1, <2>2 DEF Stream
    <2>5. files[s][i] \in Seq(Byte)
      BY <2>3 DEF Disk
    <2>6. fs \in Seq(Ops(Byte))
      <3> HIDE DEF i
      <3> QED
        BY <2>4, <2>5, FramesType
    <2>7. Frame(i, "DiffEnd") \in Carried
      BY <2>3, FrameType DEF OpNames
    <2> HIDE DEF fs, i
    <2>8. c \in Seq(Carried)
      <3> DEFINE e == [n \in DOMAIN fs |-> Framed(i, fs[n])]
                 N == Len(fs)
      <3>1. N \in Nat /\ DOMAIN fs = 1..N /\ \A n \in 1..N : fs[n] \in Ops(Byte)
        BY <2>6, LenProperties, ElementOfSeq
      <3> HIDE DEF N
      <3>2. \A n \in 1..N : Framed(i, fs[n]) \in Carried
        BY <2>3, <3>1, OpsAreBytes
      <3>3. e \in [1..N -> Carried]
        BY <3>1, <3>2
      <3>4. e \in Seq(Carried)
        BY <3>1, <3>3, SeqDef
      <3>5. <<Frame(i, "DiffEnd")>> \in Seq(Carried)
        BY <2>7, OneOp
      <3> HIDE DEF e
      <3> QED
        BY <3>4, <3>5, ConcatProperties DEF e
    <2> HIDE DEF c
    <2>9. u \in Seq(Carried) /\ t \in {"dead", "run"}
      BY <2>8, EmptySeq
    <2> HIDE DEF u, t
    <2>10. q \in Producers /\ q.thread = t /\ q.kind = p.kind /\ q.act = p.act
      <3> HIDE DEF p
      <3> QED
        BY <1>4, <2>9 DEF Producers
    <2>11. prod' = [prod EXCEPT ![s] = q]
      <3> DEFINE a == [prod EXCEPT ![s].thread = t]
                 x == [p EXCEPT !.thread = t]
      <3>1. a = [prod EXCEPT ![s] = x]
        BY <1>3
      <3>2. prod' = [a EXCEPT ![s] = [a[s] EXCEPT !.queue = u]]
        <4> HIDE DEF x
        <4> QED
          BY <1>3, <2>1
      <3>3. a[s] = x
        <4> HIDE DEF x, a
        <4> QED
          BY <1>3, <3>1
      <3> QED
        <4> HIDE DEF x, a
        <4>1. prod' = [a EXCEPT ![s] = [x EXCEPT !.queue = u]]
          BY <3>2, <3>3
        <4>2. prod' = [prod EXCEPT ![s] = [x EXCEPT !.queue = u]]
          BY <1>3, <3>1, <4>1
        <4> QED
          BY <4>2 DEF x
    <2> HIDE DEF q
    <2>12. ProducerSound(q)
      BY <1>4, <2>9, <2>10 DEF ProducerSound
    <2>13. prod' \in [Sides -> Producers] /\ \A r \in Sides : prod'[r] = q \/ prod'[r] = prod[r]
      BY <1>3, <2>10, <2>11
    <2>14. \A r \in Sides : ProducerSound(prod'[r])
      BY <1>1, <2>12, <2>13, ProducersSound
    <2> QED
      BY <1>1, <1>2, <2>13, <2>14 DEF Stream, ProducerSound
  <1>6. CASE ThreadSends(s)
    <2> DEFINE a == Append(p.chan, Head(p.queue))
               b == Tail(p.queue)
               q == [[p EXCEPT !.chan = a] EXCEPT !.queue = b]
    <2>1. p.queue # <<>> /\ prod' = [[prod EXCEPT ![s].chan = Append(@, Head(prod[s].queue))]
                                        EXCEPT ![s].queue = Tail(@)]
      BY <1>6 DEF ThreadSends
    <2>2. a \in Seq(Carried) /\ b \in Seq(Carried)
      BY <1>4, <2>1, HeadTailProperties, AppendProperties
    <2>3. prod' = [prod EXCEPT ![s] = q]
      <3> DEFINE x == [p EXCEPT !.chan = a]
                 y == [prod EXCEPT ![s] = x]
      <3>1. [prod EXCEPT ![s].chan = Append(@, Head(prod[s].queue))] = y
        BY <1>3
      <3>2. y[s] = x /\ x.queue = p.queue
        BY <1>3, <1>4 DEF Producers
      <3>3. prod' = [y EXCEPT ![s] = [x EXCEPT !.queue = b]]
        <4>1. prod' = [y EXCEPT ![s].queue = Tail(@)]
          BY <2>1, <3>1
        <4> HIDE DEF x, y
        <4>2. prod' = [y EXCEPT ![s] = [y[s] EXCEPT !.queue = Tail(y[s].queue)]]
          BY <4>1
        <4> QED
          BY <3>2, <4>2
      <3> HIDE DEF x
      <3>4. prod' = [prod EXCEPT ![s] = [x EXCEPT !.queue = b]]
        BY <1>3, <3>3
      <3> QED
        BY <3>4 DEF x
    <2> HIDE DEF a, b
    <2>4. q \in Producers /\ q.thread = p.thread /\ q.kind = p.kind /\ q.act = p.act
      <3> HIDE DEF p
      <3> QED
        BY <1>4, <2>2 DEF Producers
    <2> HIDE DEF q
    <2>5. ProducerSound(q)
      BY <1>4, <2>4 DEF ProducerSound
    <2>6. prod' \in [Sides -> Producers] /\ \A r \in Sides : prod'[r] = q \/ prod'[r] = prod[r]
      BY <1>3, <2>3, <2>4
    <2>7. \A r \in Sides : ProducerSound(prod'[r])
      BY <1>1, <2>5, <2>6, ProducersSound
    <2> QED
      BY <1>1, <1>2, <2>6, <2>7 DEF Stream, ProducerSound
  <1> QED
    BY <1>5, <1>6
-----------------------------------------------------------------------------
(* The space monitor: what a check grants is above the reserve. *)

LEMMA AboveIs ==
  ASSUME Setup, Disk, NEW s \in Sides
  PROVE  /\ Above(s) \in Nat /\ free[s] \in Nat /\ job.reserve \in Nat
         /\ Block * free[s] \in Nat
         /\ Above(s) > 0 => Block * free[s] = job.reserve + Above(s)
  <1>1. free[s] \in Nat /\ job.reserve \in Nat /\ Block \in Nat
    BY GroundsHold, DeltaAssumption DEF Disk, Grounds
  <1>2. Above(s) = Minus(Block * free[s], job.reserve)
    BY DEF Above, Budgets, Budget
  <1> DEFINE x == Block * free[s]
             y == job.reserve
             z == Above(s)
  <1>3. x \in Nat
    BY <1>1
  <1>4. z = (IF x > y THEN x - y ELSE 0)
    BY <1>2 DEF Minus
  <1> HIDE DEF x, y, z
  <1>5. y \in Nat
    BY <1>1 DEF y
  <1>6. z \in Nat /\ (z > 0 => x = y + z)
    BY <1>3, <1>4, <1>5
  <1> QED
    BY <1>1, <1>3, <1>6 DEF x, y, z

LEMMA CostIs ==
  ASSUME NEW n \in Nat
  PROVE  /\ Round(n) = Block * UpTo(n) /\ Round(n) \in Nat /\ Cost(n) \in Nat
         /\ Cost(n) >= Round(n) /\ Cost(n) >= Block /\ (n = 0 => Round(n) = 0)
  <1>1. Round(n) = Block * UpTo(n)
    BY DEF Round, Blocks, UpTo
  <1>2. Block \in Nat /\ UpTo(n) \in Nat /\ Block * UpTo(n) \in Nat /\ (n = 0 => UpTo(n) = 0)
    BY UpToIs, DeltaAssumption
  <1>3. n = 0 => Round(n) = 0
    BY <1>1, <1>2
  <1>4. Cost(n) = IF Round(n) > Block THEN Round(n) ELSE Block
    BY DEF Cost
  <1> DEFINE r == Round(n)
  <1>5. r \in Nat
    BY <1>1, <1>2
  <1> HIDE DEF r
  <1>6. (IF r > Block THEN r ELSE Block) \in Nat /\ (IF r > Block THEN r ELSE Block) >= r
        /\ (IF r > Block THEN r ELSE Block) >= Block
    BY <1>2, <1>5
  <1> QED
    BY <1>1, <1>3, <1>4, <1>5, <1>6 DEF r

(* With e blocks taken since the last look, n bytes and the credit c are    *)
(* above the reserve.                                                       *)
Backed(s, e, n, c) == c \in Nat /\ Block * (free[s] + e) >= job.reserve + Round(n) + c

LEMMA LookIs ==
  ASSUME Setup, Disk, NEW s \in Sides, NEW n \in Nat, Look(s, n).ok
  PROVE  Look(s, n).looked /\ Backed(s, 0, n, Look(s, n).credit)
  <1> DEFINE a == Above(s)
             r == Round(n)
             t == Cost(n)
             k == Larger(Credit, t)
             m == Minus(a, Block)
             x == Smaller(m, k)
             c == Minus(x, t)
  <1>1. Look(s, n).looked /\ Look(s, n).credit = c /\ r + Block <= a
    BY DEF Look
  <1>2. a \in Nat /\ (a > 0 => Block * free[s] = job.reserve + a) /\ free[s] \in Nat /\ job.reserve \in Nat
    BY AboveIs
  <1>3. r \in Nat /\ t \in Nat /\ t >= r
    BY CostIs
  <1>4. Block \in Nat \ {0} /\ Credit \in Nat
    BY BlockIs, JobsAssumption
  <1>5. /\ m = (IF a > Block THEN a - Block ELSE 0) /\ k = (IF Credit > t THEN Credit ELSE t)
        /\ x = (IF m < k THEN m ELSE k) /\ c = (IF x > t THEN x - t ELSE 0)
    BY DEF Minus, Larger, Smaller
  <1>6. free[s] + 0 = free[s]
    BY <1>2
  <1> HIDE DEF a, r, t, k, m, x, c
  <1>7. a > 0 /\ m = a - Block
    BY <1>1, <1>2, <1>3, <1>4, <1>5
  <1>8. k \in Nat
    BY <1>3, <1>4, <1>5
  <1>9. m \in Nat /\ x \in Nat /\ x <= m
    BY <1>1, <1>2, <1>3, <1>4, <1>5, <1>7, <1>8
  <1>10. c \in Nat /\ a >= r + c
    BY <1>1, <1>2, <1>3, <1>4, <1>5, <1>7, <1>9
  <1> DEFINE y == Block * free[s]
  <1>11. y = job.reserve + a /\ Block * (free[s] + 0) = y
    BY <1>2, <1>6, <1>7
  <1> HIDE DEF y
  <1>12. y >= job.reserve + r + c
    BY <1>2, <1>3, <1>10, <1>11
  <1> QED
    BY <1>1, <1>10, <1>11, <1>12 DEF Backed, r

LEMMA CheckIs ==
  ASSUME Setup, Disk, NEW s \in Sides, NEW n \in Nat, NEW e \in Nat, NEW m, m.credit \in Nat,
         m.known => Backed(s, e, 0, m.credit), Check(s, m, n).ok
  PROVE  Backed(s, IF Check(s, m, n).looked THEN 0 ELSE e, n, Check(s, m, n).credit)
  <1>1. CASE m.known /\ Cost(n) <= m.credit
    <2> DEFINE t == Cost(n)
               r == Round(n)
               c == m.credit - t
               z == job.reserve
               b == Block * (free[s] + e)
               o == Round(0)
    <2>1. ~Check(s, m, n).looked /\ Check(s, m, n).credit = c
      BY <1>1 DEF Check
    <2>2. t \in Nat /\ r \in Nat /\ t >= r /\ t <= m.credit /\ o = 0
      BY <1>1, CostIs
    <2>3. z \in Nat /\ b \in Nat /\ b >= z + o + m.credit
      <3>1. free[s] \in Nat /\ Block \in Nat /\ z \in Nat
        BY AboveIs, DeltaAssumption
      <3>2. b >= z + o + m.credit
        BY <1>1 DEF Backed
      <3> QED
        BY <3>1, <3>2
    <2> HIDE DEF t, r, z, b, o
    <2>4. c \in Nat /\ b >= z + r + c
      BY <2>2, <2>3
    <2> QED
      BY <2>1, <2>4 DEF Backed, b, z, r
  <1>2. CASE ~(m.known /\ Cost(n) <= m.credit)
    <2>1. Check(s, m, n) = Look(s, n)
      BY <1>2 DEF Check
    <2> QED
      BY <2>1, LookIs
  <1> QED
    BY <1>1, <1>2

LEMMA BeginCheckIs ==
  ASSUME Setup, Disk, NEW s \in Sides, NEW n,
         mon[s].known => Backed(s, eaten[s], 0, mon[s].credit), BeginCheck(s, n).ok
  PROVE  Backed(s, IF BeginCheck(s, n).looked THEN 0 ELSE eaten[s], 0, BeginCheck(s, n).credit)
  <1>1. mon[s].credit \in Nat /\ eaten[s] \in Nat
    BY DEF Disk
  <1>2. CASE FlushFirst(s, n)
    <2> DEFINE l == Recheck(s)
               m == Looked(s, l)
               c == Check(s, m, 0)
    <2>1. BeginCheck(s, n) = [[c EXCEPT !.ok = @ /\ l.ok] EXCEPT !.looked = TRUE]
      <3>1. BeginCheck(s, n) = [c EXCEPT !.ok = @ /\ (FlushFirst(s, n) => l.ok),
                                         !.looked = @ \/ FlushFirst(s, n)]
        BY <1>2 DEF BeginCheck
      <3> HIDE DEF c, l
      <3> QED
        BY <1>2, <3>1
    <2>2. DOMAIN c = {"ok", "looked", "credit"}
      BY DEF Check, Look
    <2>3. c.ok /\ l.ok /\ BeginCheck(s, n).looked /\ BeginCheck(s, n).credit = c.credit
      <3> HIDE DEF c, l
      <3> QED
        BY <2>1, <2>2
    <2>4. Backed(s, 0, 0, l.credit)
      BY <2>3, LookIs DEF Recheck
    <2>5. m.credit = l.credit /\ m.credit \in Nat
      BY <2>4 DEF Looked, Backed
    <2>6. Backed(s, IF c.looked THEN 0 ELSE 0, 0, c.credit)
      <3> HIDE DEF m, l
      <3> QED
        BY <2>3, <2>4, <2>5, CheckIs
    <2> HIDE DEF c
    <2> QED
      BY <2>3, <2>6
  <1>3. CASE ~FlushFirst(s, n)
    <2> DEFINE c == Check(s, mon[s], 0)
    <2>1. DOMAIN c = {"ok", "looked", "credit"}
      BY DEF Check, Look
    <2>2. BeginCheck(s, n) = [c EXCEPT !.ok = @ /\ (FlushFirst(s, n) => Recheck(s).ok),
                                       !.looked = @ \/ FlushFirst(s, n)]
      BY <1>3 DEF BeginCheck
    <2> HIDE DEF c
    <2>3. BeginCheck(s, n).ok <=> c.ok
      BY <1>3, <2>1, <2>2
    <2>4. (BeginCheck(s, n).looked <=> c.looked) /\ BeginCheck(s, n).credit = c.credit
      BY <1>3, <2>1, <2>2
    <2>5. Backed(s, IF c.looked THEN 0 ELSE eaten[s], 0, c.credit)
      BY <1>1, <2>3, CheckIs DEF c
    <2> QED
      BY <2>4, <2>5
  <1> QED
    BY <1>2, <1>3

LEMMA CoveredIs ==
  ASSUME Setup, Disk, Covered, at \in Busy, NEW s \in Sides
  PROVE  mon[s].known => Backed(s, eaten[s], 0, mon[s].credit)
  <1> SUFFICES ASSUME mon[s].known PROVE Backed(s, eaten[s], 0, mon[s].credit)
    OBVIOUS
  <1> DEFINE b == Block * (free[s] + eaten[s])
             c == mon[s].credit
             o == Round(0)
             z == job.reserve
  <1>1. b >= z + c
    BY DEF Covered
  <1>2. c \in Nat /\ z \in Nat /\ o = 0
    BY AboveIs, CostIs DEF Disk
  <1> HIDE DEF b, c, o, z
  <1>3. b >= z + o + c
    BY <1>1, <1>2
  <1> QED
    BY <1>2, <1>3 DEF Backed, b, c, o, z

(* Paying for n bytes with k blocks, of which extra were not asked for.     *)
LEMMA PaidKeeps ==
  ASSUME Setup, Disk, Covered, at \in Busy, NEW s \in Sides, NEW c, NEW n \in Nat, NEW k \in Nat,
         NEW extra \in Nat, k <= free[s], k <= UpTo(n) + extra,
         Backed(s, IF c.looked THEN 0 ELSE eaten[s], n, c.credit),
         Paid(s, c), Eaten(s, c, extra), free' = [free EXCEPT ![s] = @ - k],
         UNCHANGED <<job, files>>
  PROVE  Disk' /\ Covered' /\ mon'[s].known /\ \A r \in Sides : mon[r].known => mon'[r].known
  <1> DEFINE e == IF c.looked THEN 0 ELSE eaten[s]
  <1>1. free[s] \in Nat /\ e \in Nat /\ c.credit \in Nat /\ eaten[s] \in Nat
    BY DEF Disk, Backed
  <1>2. mon' = [mon EXCEPT ![s] = [known |-> TRUE, credit |-> c.credit]]
    BY DEF Paid
  <1>3. eaten' = [eaten EXCEPT ![s] = e + extra]
    BY DEF Eaten
  <1>4. Block * (free[s] + e) >= job.reserve + Round(n) + c.credit
    BY DEF Backed
  <1> HIDE DEF e
  <1>5. free[s] - k \in Nat /\ e + extra \in Nat
    BY <1>1
  <1>6. Disk'
    <2>1. free' \in [Sides -> Nat]
      BY <1>5 DEF Disk
    <2>2. eaten' \in [Sides -> Nat]
      BY <1>3, <1>5 DEF Disk
    <2>3. mon' \in [Sides -> [known : BOOLEAN, credit : Nat]]
      BY <1>1, <1>2 DEF Disk
    <2> QED
      BY <2>1, <2>2, <2>3 DEF Disk, acts
  <1>7. mon'[s] = [known |-> TRUE, credit |-> c.credit] /\ \A r \in Sides : r # s => mon'[r] = mon[r]
    BY <1>2 DEF Disk
  <1>8. free'[s] = free[s] - k /\ eaten'[s] = e + extra
        /\ \A r \in Sides : r # s => free'[r] = free[r] /\ eaten'[r] = eaten[r]
    BY <1>3 DEF Disk
  <1>9. Block * (free'[s] + eaten'[s]) >= job.reserve + c.credit
    <2> DEFINE x == free[s] + e
               y == extra - k
               a == Block * x
               b == Block * y
               u == UpTo(n)
               w == Block * u
               d == Block * (0 - y)
    <2>1. x \in Int /\ y \in Int /\ u \in Nat /\ 0 - y <= u /\ Block \in Nat \ {0} /\ job.reserve \in Nat
          /\ 0 - y \in Int
      <3>1. u \in Nat /\ Block \in Nat \ {0} /\ job.reserve \in Nat /\ k <= u + extra
        BY UpToIs, AboveIs, BlockIs
      <3> HIDE DEF u
      <3> QED
        BY <1>1, <3>1
    <2>2. Block * (x + y) = a + b
      <3> HIDE DEF x, y
      <3> QED
        BY <2>1, Multiples
    <2>3. d <= w
      <3> DEFINE z == 0 - y
      <3>1. z \in Int /\ z <= u
        BY <2>1
      <3> HIDE DEF z, u
      <3> QED
        BY <2>1, <3>1, Multiples DEF z
    <2>4. b + d = 0
      <3> HIDE DEF y
      <3> QED
        BY <2>1
    <2>5. w = Round(n) /\ w \in Nat
      BY CostIs
    <2>6. free'[s] + eaten'[s] = x + y
      BY <1>1, <1>8
    <2>7. a \in Int /\ b \in Int /\ d \in Int
      <3> HIDE DEF x, y
      <3> QED
        BY <2>1
    <2>8. a >= job.reserve + w + c.credit
      BY <1>4, <2>5
    <2> HIDE DEF a, b, d, w, x, y
    <2>9. a + b >= job.reserve + c.credit
      BY <1>1, <2>1, <2>3, <2>4, <2>5, <2>7, <2>8
    <2> QED
      BY <2>2, <2>6, <2>9
  <1>10. Covered'
    <2> SUFFICES ASSUME NEW r \in Sides, mon'[r].known
                 PROVE  Block * (free'[r] + eaten'[r]) >= job'.reserve + mon'[r].credit
      BY DEF Covered
    <2>1. CASE r = s
      BY <1>7, <1>9, <2>1
    <2>2. CASE r # s
      BY <1>7, <1>8, <2>2 DEF Covered
    <2> QED
      BY <2>1, <2>2
  <1> QED
    BY <1>6, <1>7, <1>10

(* The next frame. *)
LEMMA NextFrame ==
  ASSUME Stream, Applying
  PROVE  /\ at = "apply" /\ at \in Flowing /\ at \in Busy
         /\ F \in Carried /\ T \in Sides /\ Tail(batch) \in Seq(Carried)
         /\ F.act \in Nat \ {0} /\ F.op \in OpNames /\ F.offset \in Nat /\ F.len \in Nat
         /\ F.bytes \in Seq(Byte)
  <1>1. at = "apply" /\ batch # <<>> /\ batch \in Seq(Carried) /\ turn \in Sides
    BY DEF Applying, Stream
  <1>2. F \in Carried /\ Tail(batch) \in Seq(Carried)
    BY <1>1, HeadTailProperties DEF F
  <1>3. T \in Sides
    BY <1>1, SidesAre DEF T
  <1> QED
    BY <1>1, <1>2, <1>3, CarriedFields DEF Flowing, Busy

LEMMA AppliedKeeps ==
  ASSUME Stream, Applying, Applied
  PROVE  /\ Stream' /\ at' \in Flowing /\ at' \in Busy /\ at' # "finish remote" /\ at' # "fence"
         /\ UNCHANGED <<job, wave, plan, files>>
  <1>1. /\ at \in Flowing /\ T \in Sides /\ Tail(batch) \in Seq(Carried)
    BY NextFrame
  <1>2. batch' = Tail(batch) /\ at' \in Flowing /\ turn' \in {T, turn} /\ UNCHANGED <<runVars, sigs, prod>>
    BY DEF Applied, Flowing
  <1>3. Diffs' = Diffs /\ acts' = acts
    BY <1>2 DEF runVars, Diffs, Wave, acts
  <1>4. Stream'
    BY <1>1, <1>2, <1>3 DEF Stream
  <1> QED
    BY <1>2, <1>4 DEF Flowing, Busy, runVars

(* What changes on the side of the frame leaves the other side as it is.    *)
LEMMA OneSideStaged ==
  ASSUME Staged, at \in Busy, at' \in Flowing, UNCHANGED <<job, wave, plan>>, NEW s \in Sides,
         upto' \in [Sides -> Nat], DOMAIN open' = Sides, DOMAIN made' = Sides,
         \A r \in Sides : r # s => open'[r] = open[r] /\ made'[r] = made[r] /\ upto'[r] = upto[r],
         \A r \in Sides : mon[r].known => mon'[r].known,
         OpenSound(s)', MadeSound(s)'
  PROVE  Staged'
  <1>1. \A r \in Sides : OpenSound(r) /\ MadeSound(r)
    BY DEF Staged
  <1>2. \A r \in Sides : OpenSound(r)' /\ MadeSound(r)'
    BY <1>1, SoundSame
  <1> QED
    BY <1>2 DEF Staged, Flowing, Busy
-----------------------------------------------------------------------------
(* The applier. *)

LEMMA BeginKeeps ==
  ASSUME DetailInv, BeginOutput
  PROVE  Disk' /\ Stream' /\ Staged' /\ Covered'
  <1>1. /\ Applying /\ BeginFits /\ Applied
        /\ upto' = [upto EXCEPT ![T] = F.act] /\ UNCHANGED <<free, made>>
        /\ open' = [open EXCEPT ![T] =
              [act |-> F.act,
               out |-> IF F.op = "DiffBegin" /\ job.cow[T] THEN CloneOf(files[T][F.act]) ELSE Fresh]]
    BY DEF BeginOutput
  <1>2. Setup /\ Disk /\ Stream /\ Staged /\ Covered
    BY DEF DetailInv
  <1>3. /\ at \in Busy /\ T \in Sides /\ F.act \in Nat \ {0}
    BY <1>1, <1>2, NextFrame
  <1>4. /\ Stream' /\ at' \in Flowing /\ UNCHANGED <<job, wave, plan, files>>
    BY <1>1, <1>2, AppliedKeeps
  <1>0. PICK s \in Sides : s = T
    BY <1>3
  <1> DEFINE c == BeginCheck(s, acts[F.act].size)
             i == F.act
             out == IF F.op = "DiffBegin" /\ job.cow[s] THEN CloneOf(files[s][F.act]) ELSE Fresh
  <1>5. /\ open[s].act = 0 /\ i \in Todo(s) /\ i >= upto[s] /\ Skipped(s, i) = {} /\ c.ok
        /\ F.op = (IF acts[i].out = "diff" THEN "DiffBegin" ELSE "FileBegin")
    BY <1>0, <1>1 DEF BeginFits
  <1>6. Paid(s, c) /\ Eaten(s, c, 0)
    BY <1>0 DEF BeginOutput
  <1>7. Backed(s, IF c.looked THEN 0 ELSE eaten[s], 0, c.credit)
    <2>1. mon[s].known => Backed(s, eaten[s], 0, mon[s].credit)
      BY <1>2, <1>3, CoveredIs
    <2>2. BeginCheck(s, acts[F.act].size).ok /\ c = BeginCheck(s, acts[F.act].size)
      BY <1>5
    <2> QED
      BY <1>2, <2>1, <2>2, BeginCheckIs
  <1>8. i \in 1..Len(acts) /\ files[s][i] \in Seq(Byte)
    <2>1. i \in 1..Len(acts)
      BY <1>2, <1>3, <1>5, GroundsHold DEF Grounds
    <2> QED
      BY <1>2, <1>3, <2>1 DEF Disk
  <1>9. SoundOutput(Byte, out) /\ (acts[i].out # "diff" => ~out.clone)
    <2>1. SoundOutput(Byte, Fresh) /\ ~Fresh.clone
      BY FreshSound
    <2>2. SoundOutput(Byte, CloneOf(files[s][i]))
      BY <1>8, CloneSound
    <2>3. out = CloneOf(files[s][i]) \/ out = Fresh
      OBVIOUS
    <2>4. acts[i].out # "diff" => out = Fresh
      BY <1>5
    <2> QED
      BY <2>1, <2>2, <2>3, <2>4
  <1>10. /\ upto \in [Sides -> Nat] /\ DOMAIN open = Sides /\ DOMAIN made = Sides
         /\ MadeSound(s) /\ s \in Sides
    BY <1>2, <1>3 DEF Staged
  <1> DEFINE o == [act |-> i, out |-> out]
  <1>11. open' = [open EXCEPT ![s] = o] /\ upto' = [upto EXCEPT ![s] = i] /\ made' = made
    BY <1>0, <1>1
  <1>12. Disk' /\ Covered' /\ mon'[s].known /\ \A r \in Sides : mon[r].known => mon'[r].known
    <2>1. free[s] \in Nat
      BY <1>2, <1>10 DEF Disk
    <2>2. free' = [free EXCEPT ![s] = @ - 0]
      <3>1. [free EXCEPT ![s] = @ - 0] = free
        <4>1. free[s] - 0 = free[s] /\ free \in [Sides -> Nat]
          BY <1>2, <2>1 DEF Disk
        <4> QED
          BY <4>1
      <3> QED
        BY <1>1, <3>1
    <2>3. UpTo(0) \in Nat
      BY UpToIs
    <2>4. 0 <= free[s] /\ 0 <= UpTo(0) + 0
      <3> DEFINE u == UpTo(0)
      <3> HIDE DEF u
      <3> QED
        BY <2>1, <2>3 DEF u
    <2> HIDE DEF c
    <2> QED
      BY <1>2, <1>3, <1>4, <1>6, <1>7, <1>10, <2>2, <2>4, PaidKeeps
  <1>13. Todo(s)' = Todo(s) /\ acts' = acts
    BY <1>4 DEF Todo, acts, Wave
  <1>14. OpenSound(s)'
    <2>1. open'[s] = o /\ upto'[s] = i
      BY <1>10, <1>11
    <2>2. out \in Holds(Byte)
      BY <1>9 DEF SoundOutput
    <2> HIDE DEF out, i
    <2>3. o \in [act : Nat, out : Holds(Byte)] /\ o.act = i /\ o.out = out /\ i # 0
      BY <1>3, <2>2 DEF i
    <2> HIDE DEF o
    <2>4. Todo(s)' = Todo(s) /\ acts' = acts /\ i \in Todo(s) /\ mon'[s].known
      BY <1>5, <1>12, <1>13
    <2> QED
      BY <1>9, <2>1, <2>3, <2>4 DEF OpenSound
  <1>15. MadeSound(s)'
    <2> DEFINE u == upto[s]
    <2>1. \A j \in Todo(s) : j \in Nat
      BY <1>2, <1>3, GroundsHold DEF Grounds
    <2>2. \A j \in Todo(s) : ~(u <= j /\ j < i)
      BY <1>5 DEF Skipped
    <2>3. u \in Nat /\ i \in Nat /\ i >= u
      BY <1>3, <1>5, <1>10
    <2>4. made'[s] = made[s] /\ upto'[s] = i
      BY <1>10, <1>11
    <2>5. DOMAIN made[s] = {j \in Todo(s) : j < u}
      BY <1>10 DEF MadeSound
    <2> HIDE DEF i, u
    <2>6. {j \in Todo(s) : j < u} = {j \in Todo(s) : j < i}
      BY <2>1, <2>2, <2>3
    <2>7. DOMAIN made'[s] = {j \in Todo(s) : j < i}
      BY <2>4, <2>5, <2>6
    <2>8. \A j \in DOMAIN made'[s] : SoundOutput(Byte, made'[s][j]) /\ made'[s][j].data = acts[j].new
      BY <1>10, <2>4 DEF MadeSound
    <2> QED
      BY <1>12, <1>13, <2>4, <2>7, <2>8 DEF MadeSound
  <1>16. Staged'
    <2>1. i \in Nat
      BY <1>3
    <2> HIDE DEF i, o
    <2>2. upto' \in [Sides -> Nat] /\ DOMAIN open' = Sides /\ DOMAIN made' = Sides
      BY <1>10, <1>11, <2>1
    <2>3. \A r \in Sides : r # s => open'[r] = open[r] /\ made'[r] = made[r] /\ upto'[r] = upto[r]
      BY <1>10, <1>11
    <2> QED
      BY <1>2, <1>3, <1>4, <1>12, <1>14, <1>15, <2>2, <2>3, OneSideStaged
  <1> QED
    BY <1>4, <1>12, <1>16

LEMMA WriteKeeps ==
  ASSUME DetailInv, WriteOutput
  PROVE  Disk' /\ Stream' /\ Staged' /\ Covered'
  <1>1. /\ Applying /\ Moves /\ WriteFits /\ Applied
        /\ free' = [free EXCEPT ![T] = @ - NewBlocks]
        /\ open' = [open EXCEPT ![T].out = Written] /\ UNCHANGED <<upto, made>>
    BY DEF WriteOutput
  <1>2. Setup /\ Disk /\ Stream /\ Staged /\ Covered
    BY DEF DetailInv
  <1>3. /\ at \in Busy /\ T \in Sides /\ F.act \in Nat \ {0} /\ F.offset \in Nat /\ F.len \in Nat
        /\ F.bytes \in Seq(Byte)
    BY <1>1, <1>2, NextFrame
  <1>4. /\ Stream' /\ at' \in Flowing /\ at' \in Busy /\ UNCHANGED <<job, wave, plan, files>>
    BY <1>1, <1>2, AppliedKeeps
  <1>0. PICK s \in Sides : s = T
    BY <1>3
  <1> DEFINE i == F.act
             n == Length(F)
             o == open[s].out
             w == Written
             c == WriteCheck
             k == NewBlocks
             extra == IF o.clone /\ k > Blocks(Size(F)) THEN 1 ELSE 0
  <1>5. open[s].act = i /\ c.ok /\ k <= free[s]
    BY <1>0, <1>1 DEF WriteFits
  <1>6. Paid(s, c) /\ Eaten(s, c, extra)
    BY <1>0 DEF WriteOutput
  <1>7. /\ upto \in [Sides -> Nat] /\ DOMAIN open = Sides /\ DOMAIN made = Sides
        /\ OpenSound(s) /\ MadeSound(s)
    BY <1>2, <1>3 DEF Staged
  <1>8. /\ open[s].act # 0 /\ i \in Todo(s) /\ upto[s] = i /\ mon[s].known
        /\ SoundOutput(Byte, o) /\ (acts[i].out # "diff" => ~o.clone)
        /\ open[s] \in [act : Nat, out : Holds(Byte)]
    BY <1>3, <1>5, <1>7 DEF OpenSound
  <1>9. files[s][i] \in Seq(Byte)
    <2>1. i \in 1..Len(acts)
      BY <1>2, <1>3, <1>8, GroundsHold DEF Grounds
    <2> QED
      BY <1>2, <2>1 DEF Disk
  <1>10. Moved(Byte, o, F, w)
    <2>1. w = Apply(o, F, files[s][i])
      BY <1>0 DEF Written
    <2> HIDE DEF w, o, i
    <2> QED
      BY <1>3, <1>8, <1>9, <2>1, ApplySound
  <1>11. k = Taken(o, w) /\ Size(F) = n /\ Blocks(Size(F)) = UpTo(n)
    BY <1>0 DEF NewBlocks, Taken, Size, Length, Blocks, UpTo
  <1>12. n \in Nat /\ k \in 0..(UpTo(n) + Extra(o)) /\ (InPlace(o, F) => w.owned = o.owned)
         /\ SoundOutput(Byte, w) /\ w.clone = o.clone
    BY <1>10, <1>11 DEF Moved
  <1>13. UpTo(n) \in Nat /\ k \in Nat /\ extra \in Nat /\ k <= UpTo(n) + extra
    <2> DEFINE u == UpTo(n)
    <2>1. u \in Nat
      BY <1>12, UpToIs
    <2>2. Extra(o) = (IF o.clone THEN 1 ELSE 0) /\ extra = (IF o.clone /\ k > u THEN 1 ELSE 0)
      BY <1>11 DEF Extra
    <2>3. k \in 0..(u + Extra(o))
      BY <1>12
    <2> HIDE DEF u, k, extra, o
    <2>4. k \in Nat /\ extra \in Nat /\ k <= u + extra
      BY <2>1, <2>2, <2>3
    <2> QED
      BY <2>1, <2>4 DEF u
  (* What is in place takes nothing and is not checked.                     *)
  <1>14. \E m \in Nat : k <= UpTo(m) + extra /\ Backed(s, IF c.looked THEN 0 ELSE eaten[s], m, c.credit)
    <2>1. mon[s].known => Backed(s, eaten[s], 0, mon[s].credit)
      BY <1>2, <1>3, CoveredIs
    <2>2. mon[s].credit \in Nat /\ eaten[s] \in Nat
      BY <1>2 DEF Disk
    <2>3. CASE InPlace(o, F)
      <3>1. c = [ok |-> TRUE, looked |-> FALSE, credit |-> mon[s].credit]
        BY <1>0, <2>3 DEF WriteCheck
      <3>2. k = 0
        <4>1. IsFiniteSet(o.owned)
          BY <1>8 DEF SoundOutput
        <4>2. Cardinality(o.owned) \in Nat
          BY <4>1, FS_CardinalityType
        <4>3. k = Cardinality(o.owned) - Cardinality(o.owned)
          BY <1>11, <1>12, <2>3 DEF Taken
        <4> HIDE DEF k, o
        <4> QED
          BY <4>2, <4>3
      <3>3. UpTo(0) \in Nat
        BY UpToIs
      <3> DEFINE z == UpTo(0)
      <3> HIDE DEF z, k, extra, c
      <3>4. k <= z + extra
        BY <1>13, <3>2, <3>3 DEF z
      <3>5. Backed(s, IF c.looked THEN 0 ELSE eaten[s], 0, c.credit)
        BY <1>8, <2>1, <3>1
      <3> QED
        BY <3>4, <3>5 DEF z
    <2>4. CASE ~InPlace(o, F)
      <3>1. c = Check(s, mon[s], n)
        BY <1>0, <1>11, <2>4 DEF WriteCheck
      <3>2. Backed(s, IF c.looked THEN 0 ELSE eaten[s], n, c.credit)
        <4> HIDE DEF n, c
        <4> QED
          BY <1>2, <1>5, <1>12, <2>1, <2>2, <3>1, CheckIs
      <3> QED
        BY <1>12, <1>13, <3>2
    <2> QED
      BY <2>3, <2>4
  <1>15. Disk' /\ Covered' /\ mon'[s].known /\ \A r \in Sides : mon[r].known => mon'[r].known
    <2>1. PICK m \in Nat : k <= UpTo(m) + extra /\ Backed(s, IF c.looked THEN 0 ELSE eaten[s], m, c.credit)
      BY <1>14
    <2>2. free' = [free EXCEPT ![s] = @ - k]
      BY <1>0, <1>1
    <2> HIDE DEF c, k, extra
    <2> QED
      BY <1>2, <1>3, <1>4, <1>5, <1>6, <1>13, <2>1, <2>2, PaidKeeps
  <1>16. Todo(s)' = Todo(s) /\ acts' = acts
    BY <1>4 DEF Todo, acts, Wave
  <1>17. DOMAIN open' = Sides /\ open'[s] = [act |-> i, out |-> w] /\ \A r \in Sides : r # s => open'[r] = open[r]
    <2>1. open' = [open EXCEPT ![s].out = w]
      BY <1>0, <1>1
    <2>2. open[s] = [act |-> i, out |-> o]
      BY <1>5, <1>8
    <2> HIDE DEF w, o, i
    <2>3. open'[s] = [open[s] EXCEPT !.out = w]
      BY <1>7, <2>1
    <2> QED
      BY <1>7, <2>1, <2>2, <2>3
  <1>18. OpenSound(s)'
    <2>1. w \in Holds(Byte)
      BY <1>12 DEF SoundOutput
    <2> DEFINE q == [act |-> i, out |-> w]
    <2> HIDE DEF w, i, o
    <2>2. q \in [act : Nat, out : Holds(Byte)] /\ q.act = i /\ q.out = w /\ i # 0
      BY <1>3, <2>1 DEF i
    <2> HIDE DEF q
    <2>3. open'[s] = q /\ upto'[s] = i
      BY <1>1, <1>8, <1>17 DEF q
    <2>4. Todo(s)' = Todo(s) /\ acts' = acts /\ i \in Todo(s) /\ mon'[s].known
          /\ (acts[i].out # "diff" => ~w.clone)
      BY <1>8, <1>12, <1>15, <1>16
    <2> QED
      BY <1>12, <2>2, <2>3, <2>4 DEF OpenSound
  <1>19. MadeSound(s)'
    BY <1>1, <1>7, <1>15, <1>16 DEF MadeSound
  <1>20. Staged'
    <2>1. upto' \in [Sides -> Nat] /\ DOMAIN made' = Sides
          /\ \A r \in Sides : r # s => open'[r] = open[r] /\ made'[r] = made[r] /\ upto'[r] = upto[r]
      BY <1>1, <1>7, <1>17
    <2> QED
      BY <1>2, <1>3, <1>4, <1>15, <1>17, <1>18, <1>19, <2>1, OneSideStaged
  <1> QED
    BY <1>4, <1>15, <1>20

LEMMA EndKeeps ==
  ASSUME DetailInv, EndOutput
  PROVE  Disk' /\ Stream' /\ Staged' /\ Covered'
  <1>1. /\ Applying /\ Ends /\ EndFits /\ Applied /\ UNCHANGED free
        /\ made' = [made EXCEPT ![T] = [j \in DOMAIN made[T] \cup {F.act} |->
             IF j = F.act THEN Finished(open[T].out, F.op) ELSE made[T][j]]]
        /\ open' = [open EXCEPT ![T] = NoOutput] /\ upto' = [upto EXCEPT ![T] = F.act + 1]
        /\ (IF Full THEN Paid(T, Recheck(T)) /\ Eaten(T, Recheck(T), 0) ELSE UNCHANGED <<mon, eaten>>)
    BY DEF EndOutput
  <1>2. Setup /\ Disk /\ Stream /\ Staged /\ Covered
    BY DEF DetailInv
  <1>3. /\ at \in Busy /\ T \in Sides /\ F.act \in Nat \ {0}
    BY <1>1, <1>2, NextFrame
  <1>4. /\ Stream' /\ at' \in Flowing /\ at' \in Busy /\ UNCHANGED <<job, wave, plan, files>>
    BY <1>1, <1>2, AppliedKeeps
  <1>0. PICK s \in Sides : s = T
    BY <1>3
  <1> DEFINE i == F.act
             o == open[s].out
             w == Finished(o, F.op)
  <1>5. /\ open[s].act = i /\ F.op = (IF acts[i].out = "diff" THEN "DiffEnd" ELSE "FileEnd")
        /\ o.seen = acts[i].new /\ (Full => Recheck(s).ok)
    BY <1>0, <1>1 DEF EndFits
  <1>6. /\ upto \in [Sides -> Nat] /\ DOMAIN open = Sides /\ DOMAIN made = Sides
        /\ OpenSound(s) /\ MadeSound(s)
    BY <1>2, <1>3 DEF Staged
  <1>7. /\ i \in Todo(s) /\ upto[s] = i /\ mon[s].known
        /\ SoundOutput(Byte, o) /\ (acts[i].out # "diff" => ~o.clone)
    BY <1>3, <1>5, <1>6 DEF OpenSound
  <1>8. SoundOutput(Byte, w) /\ w.data = acts[i].new
    <2>1. CASE acts[i].out = "diff"
      <3>1. w = Truncate(o)
        BY <1>5, <2>1 DEF Finished
      <3> HIDE DEF o, w
      <3> QED
        BY <1>5, <1>7, <3>1, TruncateSound
    <2>2. CASE acts[i].out # "diff"
      <3>1. w = o
        BY <1>5, <2>2 DEF Finished
      <3> HIDE DEF o, w
      <3> QED
        BY <1>5, <1>7, <2>2, <3>1, TruncateSound
    <2> QED
      BY <2>1, <2>2
  <1>9. Disk' /\ Covered' /\ mon'[s].known /\ \A r \in Sides : mon[r].known => mon'[r].known
    <2>1. CASE Full
      <3> DEFINE c == Recheck(s)
      <3>1. Paid(s, c) /\ Eaten(s, c, 0) /\ c.ok
        BY <1>0, <1>1, <1>5, <2>1
      <3>2. c.looked /\ Backed(s, 0, 0, c.credit)
        BY <1>2, <3>1, LookIs DEF Recheck
      <3>3. free[s] \in Nat /\ free \in [Sides -> Nat]
        BY <1>2 DEF Disk
      <3>4. free' = [free EXCEPT ![s] = @ - 0]
        <4>1. free[s] - 0 = free[s]
          BY <3>3
        <4> QED
          BY <1>1, <3>3, <4>1
      <3> DEFINE u == UpTo(0)
      <3>5. u \in Nat
        BY UpToIs
      <3> HIDE DEF u, c
      <3>6. 0 <= free[s] /\ 0 <= u + 0
        BY <3>3, <3>5
      <3>7. Backed(s, IF c.looked THEN 0 ELSE eaten[s], 0, c.credit)
        BY <3>2
      <3> QED
        BY <1>2, <1>3, <1>4, <3>1, <3>4, <3>6, <3>7, PaidKeeps DEF u
    <2>2. CASE ~Full
      <3>1. UNCHANGED <<job, files, free, eaten, mon>>
        BY <1>1, <1>4, <2>2
      <3> QED
        BY <1>2, <1>3, <1>7, <3>1, DiskSame, CoveredSame
    <2> QED
      BY <2>1, <2>2
  <1>10. Todo(s)' = Todo(s) /\ acts' = acts
    BY <1>4 DEF Todo, acts, Wave
  <1>11. /\ DOMAIN open' = Sides /\ DOMAIN made' = Sides /\ upto' \in [Sides -> Nat]
         /\ open'[s] = NoOutput /\ upto'[s] = i + 1
         /\ made'[s] = [j \in DOMAIN made[s] \cup {i} |-> IF j = i THEN w ELSE made[s][j]]
         /\ \A r \in Sides : r # s => open'[r] = open[r] /\ made'[r] = made[r] /\ upto'[r] = upto[r]
    <2>1. i + 1 \in Nat
      BY <1>3
    <2> HIDE DEF w
    <2>2. made' = [made EXCEPT ![s] = [j \in DOMAIN made[s] \cup {i} |-> IF j = i THEN w ELSE made[s][j]]]
      BY <1>0, <1>1 DEF w
    <2> HIDE DEF i
    <2> QED
      BY <1>0, <1>1, <1>6, <2>1, <2>2 DEF i
  <1>12. OpenSound(s)'
    <2>1. SoundOutput(Byte, Fresh)
      BY FreshSound
    <2>2. Fresh \in Holds(Byte)
      BY <2>1 DEF SoundOutput
    <2>3. NoOutput.act = 0 /\ NoOutput.out = Fresh /\ NoOutput \in [act : Nat, out : Holds(Byte)]
      BY <2>2 DEF NoOutput
    <2> QED
      BY <1>11, <2>1, <2>3 DEF OpenSound
  <1>13. MadeSound(s)'
    <2> DEFINE m == made[s]
               x == [j \in DOMAIN m \cup {i} |-> IF j = i THEN w ELSE m[j]]
    <2>1. DOMAIN x = DOMAIN m \cup {i} /\ \A j \in DOMAIN x : x[j] = IF j = i THEN w ELSE m[j]
      <3> HIDE DEF w, i, m
      <3> QED
        OBVIOUS
    <2>2. DOMAIN m = {j \in Todo(s) : j < i}
      BY <1>6, <1>7 DEF MadeSound
    <2>3. \A j \in Todo(s) : j \in Nat
      BY <1>2, <1>3, GroundsHold DEF Grounds
    <2>4. \A j \in DOMAIN m : SoundOutput(Byte, m[j]) /\ m[j].data = acts[j].new
      BY <1>6 DEF MadeSound
    <2>5. made'[s] = x /\ upto'[s] = i + 1
      BY <1>11
    <2>6. i \in Todo(s) /\ SoundOutput(Byte, w) /\ w.data = acts[i].new
      BY <1>7, <1>8
    <2> HIDE DEF x, w, i, m
    <2>7. DOMAIN x = {j \in Todo(s) : j < i + 1}
      BY <2>1, <2>2, <2>3, <2>6
    <2>8. \A j \in DOMAIN x : SoundOutput(Byte, x[j]) /\ x[j].data = acts[j].new
      BY <2>1, <2>4, <2>6
    <2> QED
      BY <1>9, <1>10, <2>5, <2>7, <2>8 DEF MadeSound
  <1>14. Staged'
    BY <1>2, <1>3, <1>4, <1>9, <1>11, <1>12, <1>13, OneSideStaged
  <1> QED
    BY <1>4, <1>9, <1>14
-----------------------------------------------------------------------------
(* The end of a wave. *)

LEMMA FinishKeeps ==
  ASSUME DetailInv, NEW s \in Sides, FinishPreparation(s)
  PROVE  Disk' /\ Stream' /\ Staged' /\ Covered'
  <1>1. /\ at = (IF s = "local" THEN "finish" ELSE "finish remote") /\ FinishFits(s)
        /\ Paid(s, Recheck(s)) /\ Eaten(s, Recheck(s), 0)
        /\ at' = (IF s = "local" THEN "finish remote" ELSE "fence")
        /\ UNCHANGED <<job, wave, plan, files, turn, prod, batch, upto, open, made, free>>
    BY DEF FinishPreparation, runVars, streamVars
  <1>2. Setup /\ Disk /\ Stream /\ Staged /\ Covered
    BY DEF DetailInv
  <1>3. at \in Busy /\ at' \in Busy /\ at' \notin Flowing
    BY <1>1 DEF Busy, Flowing
  <1>4. Disk' /\ Covered' /\ \A r \in Sides : mon[r].known => mon'[r].known
    <2> DEFINE c == Recheck(s)
    <2>1. Paid(s, c) /\ Eaten(s, c, 0) /\ c.ok
      BY <1>1 DEF FinishFits
    <2>2. c.looked /\ Backed(s, 0, 0, c.credit)
      BY <1>2, <2>1, LookIs DEF Recheck
    <2>3. free[s] \in Nat /\ free \in [Sides -> Nat]
      BY <1>2 DEF Disk
    <2>4. free' = [free EXCEPT ![s] = @ - 0]
      <3>1. free[s] - 0 = free[s]
        BY <2>3
      <3> QED
        BY <1>1, <2>3, <3>1
    <2> DEFINE u == UpTo(0)
    <2>5. u \in Nat
      BY UpToIs
    <2> HIDE DEF u, c
    <2>6. 0 <= free[s] /\ 0 <= u + 0
      BY <2>3, <2>5
    <2>7. Backed(s, IF c.looked THEN 0 ELSE eaten[s], 0, c.credit)
      BY <2>2
    <2> QED
      BY <1>1, <1>2, <1>3, <2>1, <2>4, <2>6, <2>7, PaidKeeps DEF u
  <1>5. Stream'
    BY <1>1, <1>2, <1>3, StreamRests DEF Stream
  <1>6. Complete(s)
    <2>1. open[s].act = 0 /\ \A i \in Todo(s) : i < upto[s]
      BY <1>1 DEF FinishFits
    <2>2. OpenSound(s)
      BY <1>2, <1>3 DEF Staged
    <2> QED
      BY <2>1, <2>2 DEF OpenSound, Complete
  <1>7. at' = "finish remote" => Complete("local")
    BY <1>1, <1>6
  <1>8. at' = "fence" => \A r \in Sides : Complete(r)
    <2>1. at' = "fence" => s = "remote" /\ at = "finish remote"
      BY <1>1 DEF Sides
    <2>2. at' = "fence" => Complete("local") /\ Complete("remote")
      BY <1>2, <1>6, <2>1 DEF Staged
    <2> QED
      BY <2>2 DEF Sides
  <1>9. Staged'
    BY <1>1, <1>2, <1>3, <1>4, <1>7, <1>8, StagedSame
  <1> QED
    BY <1>4, <1>5, <1>9

LEMMA FreedType ==
  ASSUME Setup, Disk, at \in Busy, NEW s \in Sides
  PROVE  Freed(s) \in Nat
  <1> DEFINE G == {j \in Wave.acts : acts[j].side = s}
             f == [i \in G |->
                    IF files[s][i] = Gone THEN 0
                    ELSE IF i \in DOMAIN made[s] /\ made[s][i].clone
                    THEN Cardinality({b \in Touched(0, Len(files[s][i])) :
                           b \in made[s][i].owned \/ b \notin Touched(0, Len(made[s][i].data))})
                    ELSE Blocks(Len(files[s][i]))]
  <1>1. G \subseteq 1..Len(acts) /\ Len(acts) \in Nat
    BY GroundsHold DEF Grounds
  <1>2. IsFiniteSet(G)
    <2>1. IsFiniteSet(1..Len(acts))
      BY <1>1, FS_Interval
    <2> QED
      BY <1>1, <2>1, FS_Subset
  <1>3. \A i \in G : f[i] \in Nat
    <2> SUFFICES ASSUME NEW i \in G PROVE f[i] \in Nat
      OBVIOUS
    <2>1. Len(files[s][i]) \in Nat
      <3>1. files[s][i] \in Seq(Byte)
        BY <1>1 DEF Disk
      <3> QED
        BY <3>1, LenProperties
    <2> DEFINE n == Len(files[s][i])
               B == {b \in Touched(0, n) :
                      b \in made[s][i].owned \/ b \notin Touched(0, Len(made[s][i].data))}
    <2>2. Cardinality(B) \in Nat
      <3>1. IsFiniteSet(Touched(0, n))
        BY <2>1, TouchedType
      <3>2. B \subseteq Touched(0, n)
        OBVIOUS
      <3> HIDE DEF B, n
      <3> QED
        BY <3>1, <3>2, FS_Subset, FS_CardinalityType
    <2>3. Blocks(n) \in Nat
      <3>1. Blocks(n) = UpTo(n)
        BY DEF Blocks, UpTo
      <3> QED
        BY <2>1, <3>1, UpToIs
    <2>4. f[i] = 0 \/ f[i] = Cardinality(B) \/ f[i] = Blocks(n)
      OBVIOUS
    <2> HIDE DEF f, B, n
    <2> QED
      BY <2>2, <2>3, <2>4
  <1>4. DOMAIN f = G /\ Freed(s) = SumFunction(f)
    BY DEF Freed
  <1> HIDE DEF f, G
  <1> QED
    BY <1>2, <1>3, <1>4, SumType DEF SumFunction

LEMMA CommitKeeps ==
  ASSUME DetailInv, CommitWave
  PROVE  Disk' /\ Stream' /\ Staged' /\ Covered'
  <1>1. /\ at = "fence" /\ at' = "wave" /\ UNCHANGED <<job, plan, turn, prod, batch, upto, open, mon>>
        /\ eaten' = EachSide(0) /\ made' = EachSide(None)
        /\ free' = [s \in Sides |-> free[s] + Freed(s)]
        /\ files' = [s \in Sides |-> [i \in DOMAIN files[s] |->
             IF i \in DOMAIN made[s] THEN made[s][i].data
             ELSE IF i \in Wave.acts /\ acts[i].side = s THEN acts[i].new ELSE files[s][i]]]
    BY DEF CommitWave, streamVars
  <1>2. Setup /\ Disk /\ Stream /\ Staged /\ Covered
    BY DEF DetailInv
  <1>3. at \in Busy /\ at' \notin Busy /\ at' \notin Flowing
    BY <1>1 DEF Busy, Flowing
  <1>4. Disk'
    <2>1. free' \in [Sides -> Nat]
      <3>1. \A s \in Sides : free[s] + Freed(s) \in Nat
        BY <1>2, <1>3, FreedType DEF Disk
      <3> QED
        BY <1>1, <3>1
    <2>2. eaten' \in [Sides -> Nat]
      BY <1>1 DEF EachSide
    <2>3. files' \in [Sides -> [1..Len(acts) -> Seq(Byte)]]
      <3>1. ASSUME NEW s \in Sides, NEW i \in 1..Len(acts)
            PROVE  (IF i \in DOMAIN made[s] THEN made[s][i].data
                    ELSE IF i \in Wave.acts /\ acts[i].side = s THEN acts[i].new ELSE files[s][i])
                   \in Seq(Byte)
        <4>1. acts[i].new \in Seq(Byte)
          BY <1>2, GroundsHold DEF Grounds
        <4>3. files[s][i] \in Seq(Byte)
          BY <1>2 DEF Disk
        <4>2. i \in DOMAIN made[s] => made[s][i].data = acts[i].new
          BY <1>2, <1>3 DEF Staged, MadeSound
        <4> QED
          BY <4>1, <4>2, <4>3
      <3>2. \A s \in Sides : DOMAIN files[s] = 1..Len(acts)
        BY <1>2 DEF Disk
      <3> QED
        BY <1>1, <3>1, <3>2
    <2> QED
      BY <1>1, <1>2, <2>1, <2>2, <2>3 DEF Disk, acts
  <1>5. Stream'
    BY <1>1, <1>2, <1>3, StreamRests DEF Stream
  <1>6. Staged'
    <2>1. \A s \in Sides : open[s] = NoOutput
      BY <1>1, <1>2 DEF Staged, Complete
    <2>2. DOMAIN open = Sides /\ upto \in [Sides -> Nat]
      BY <1>2 DEF Staged
    <2>3. DOMAIN made' = Sides /\ \A s \in Sides : made'[s] = None
      BY <1>1 DEF EachSide
    <2> QED
      BY <1>1, <1>3, <2>1, <2>2, <2>3, StagedNot
  <1> QED
    BY <1>3, <1>4, <1>5, <1>6, NotCovered

(* What users do to files, and others to the space, is not a run's.         *)
LEMMA DisturbanceKeeps ==
  ASSUME DetailInv, Disturbance
  PROVE  Disk' /\ Stream' /\ Staged' /\ Covered'
  <1>1. Setup /\ Disk /\ Stream /\ Staged /\ Covered
    BY DEF DetailInv
  <1>2. UNCHANGED <<job, at, wave, plan, sigs, turn, prod, batch, upto, open, made, mon>>
    BY DEF Disturbance, Take, Edit, streamVars, applyVars, spaceVars
  <1>3. Stream'
    BY <1>1, <1>2, StreamSame
  <1>4. Staged'
    <2>1. at' = "finish remote" => Complete("local")
      BY <1>1, <1>2 DEF Staged
    <2>2. at' = "fence" => \A s \in Sides : Complete(s)
      BY <1>1, <1>2 DEF Staged
    <2> QED
      BY <1>1, <1>2, <2>1, <2>2, StagedSame
  <1>5. CASE \E s \in Sides : Take(s)
    <2>1. PICK s \in Sides : Take(s)
      BY <1>5
    <2>2. /\ free[s] > 0 /\ free' = [free EXCEPT ![s] = @ - 1] /\ eaten' = [eaten EXCEPT ![s] = @ + 1]
          /\ UNCHANGED files
      BY <2>1 DEF Take
    <2>3. free \in [Sides -> Nat] /\ eaten \in [Sides -> Nat] /\ free[s] \in Nat /\ eaten[s] \in Nat
      BY <1>1 DEF Disk
    <2>4. free[s] - 1 \in Nat /\ eaten[s] + 1 \in Nat
      BY <2>2, <2>3
    <2>5. Disk'
      BY <1>1, <1>2, <2>2, <2>3, <2>4 DEF Disk, acts
    <2>6. \A r \in Sides : free'[r] + eaten'[r] = free[r] + eaten[r]
      <3> SUFFICES ASSUME NEW r \in Sides PROVE free'[r] + eaten'[r] = free[r] + eaten[r]
        OBVIOUS
      <3>1. CASE r = s
        <4>1. free'[r] = free[s] - 1 /\ eaten'[r] = eaten[s] + 1
          BY <2>2, <2>3, <3>1
        <4> QED
          BY <2>3, <3>1, <4>1
      <3>2. CASE r # s
        BY <2>2, <2>3, <3>2
      <3> QED
        BY <3>1, <3>2
    <2>7. Covered'
      BY <1>1, <1>2, <2>6 DEF Covered
    <2> QED
      BY <1>3, <1>4, <2>5, <2>7
  <1>6. CASE \E s \in Sides : \E i \in 1..Len(acts) : Edit(s, i)
    <2>1. PICK s \in Sides, i \in 1..Len(acts) : Edit(s, i)
      BY <1>6
    <2>2. PICK c \in Strange : files' = [files EXCEPT ![s][i] = c]
      BY <2>1 DEF Edit
    <2>3. UNCHANGED <<free, eaten>>
      BY <2>1 DEF Edit, spaceVars
    <2>4. c \in Seq(Byte)
      BY JobsAssumption, FileType
    <2>5. files' \in [Sides -> [1..Len(acts) -> Seq(Byte)]]
      BY <1>1, <2>2, <2>4 DEF Disk
    <2>6. Disk'
      BY <1>1, <1>2, <2>3, <2>5 DEF Disk, acts
    <2>7. Covered'
      BY <1>1, <1>2, <2>3, CoveredSame
    <2> QED
      BY <1>3, <1>4, <2>6, <2>7
  <1> QED
    BY <1>5, <1>6 DEF Disturbance

LEMMA NextKeepsDetail ==
  ASSUME DetailInv, [Next]_vars
  PROVE  DetailInv'
  <1>1. Setup /\ Disk /\ Stream /\ Staged /\ Covered
    BY DEF DetailInv
  <1>2. Setup'
    BY <1>1, NextKeepsSetup
  <1> SUFFICES Disk' /\ Stream' /\ Staged' /\ Covered'
    BY <1>2 DEF DetailInv
  <1>3. CASE Planning \/ CheckWave \/ CheckWaveFails \/ WavesDone
    BY <1>1, <1>3, WaveKeeps
  <1>4. CASE Sign
    BY <1>1, <1>4, SignKeeps
  <1>5. CASE SignFails \/ FetchFails \/ ApplyFails \/ FenceFails \/ \E s \in Sides : FinishFails(s)
    <2>1. Stop("failed")
      BY <1>5 DEF SignFails, FetchFails, ApplyFails, FenceFails, FinishFails
    <2> QED
      BY <1>1, <2>1, StopKeeps
  <1>6. CASE FetchHeld \/ FetchBytes \/ FetchDiff \/ FetchNext
    <2>1. /\ at \in Flowing /\ at' \in Flowing \cup {"finish"}
          /\ UNCHANGED <<runVars, applyVars, spaceVars>>
      BY <1>6 DEF FetchHeld, FetchBytes, FetchDiff, FetchNext, Fetching, Deliver, Flowing
    <2> QED
      BY <1>1, <1>6, <2>1, FetchKeeps, FlowLeaves
  <1>7. CASE FetchEnd
    BY <1>1, <1>7, FetchEndKeeps, FlowLeaves
  <1>8. CASE \E s \in Sides : ThreadStarts(s) \/ ThreadSends(s)
    BY <1>1, <1>8, ThreadKeeps, FlowLeaves
  <1>9. CASE BeginOutput \/ WriteOutput \/ EndOutput
    BY <1>9, BeginKeeps, WriteKeeps, EndKeeps
  <1>10. CASE \E s \in Sides : FinishPreparation(s)
    BY <1>10, FinishKeeps
  <1>11. CASE CommitWave
    BY <1>11, CommitKeeps
  <1>12. CASE Disturbance
    BY <1>12, DisturbanceKeeps
  <1>13. CASE UNCHANGED vars
    <2>1. UNCHANGED <<job, at, wave, plan, files, free, sigs, turn, prod, batch, upto, open, made, mon, eaten>>
      BY <1>13 DEF vars
    <2>2. at' = "finish remote" => Complete("local")
      BY <1>1, <2>1 DEF Staged
    <2>3. at' = "fence" => \A s \in Sides : Complete(s)
      BY <1>1, <2>1 DEF Staged
    <2>4. Staged'
      BY <1>1, <2>1, <2>2, <2>3, StagedSame
    <2> QED
      BY <1>1, <2>1, <2>4, DiskSame, StreamSame, CoveredSame
  <1> QED
    BY <1>3, <1>4, <1>5, <1>6, <1>7, <1>8, <1>9, <1>10, <1>11, <1>12, <1>13
       DEF Next, Fetch, ApplyFrame, Disturbance

(* The invariant of a run: frames have the form of frames, an open output   *)
(* holds what its verifier has seen, what is made is exact, and a credit of  *)
(* the space monitor is above the reserve.                                   *)
THEOREM DetailIsSound == Spec => []DetailInv
  <1>1. Init => DetailInv
    BY InitHolds
  <1>2. DetailInv /\ [Next]_vars => DetailInv'
    BY NextKeepsDetail
  <1> QED
    BY <1>1, <1>2, PTL DEF Spec

(* What is staged is byte for byte what the plan says, however the files it  *)
(* is made from and the disks change meanwhile, and whatever the job.        *)
THEOREM OutputsAlwaysExact == Spec => []OutputsExact
  <1>1. DetailInv => OutputsExact
    <2> SUFFICES ASSUME DetailInv, NEW s \in Sides
                 PROVE  /\ \A i \in DOMAIN made[s] : made[s][i].data = acts[i].new
                        /\ at = "fence" => DOMAIN made[s] = Todo(s)
      BY DEF OutputsExact
    <2>1. Staged
      BY DEF DetailInv
    <2>2. CASE at \in Busy
      <3>1. MadeSound(s) /\ (at = "fence" => Complete(s))
        BY <2>1, <2>2 DEF Staged
      <3> QED
        BY <3>1 DEF MadeSound, Complete
    <2>3. CASE at \notin Busy
      <3>1. made[s] = None /\ at # "fence"
        BY <2>1, <2>3 DEF Staged, Busy
      <3> QED
        BY <3>1 DEF None
    <2> QED
      BY <2>2, <2>3
  <1> QED
    BY <1>1, DetailIsSound, PTL

(* Staging never consumes the reserve, for any job, credit and block size.   *)
THEOREM ReserveAlwaysKept == Spec => []ReserveKept
  <1>1. DetailInv => ReserveKept
    <2> SUFFICES ASSUME DetailInv, NEW s \in Sides, OwnedBlocks(s) > 0
                 PROVE  Block * (free[s] + eaten[s]) >= job.reserve
      BY DEF ReserveKept
    <2>1. Setup /\ Disk /\ Staged /\ Covered
      BY DEF DetailInv
    <2>2. at \in Busy /\ mon[s].known
      BY <2>1, OwnedType
    <2> DEFINE b == Block * (free[s] + eaten[s])
               c == mon[s].credit
               r == job.reserve
    <2>3. b >= r + c
      BY <2>1, <2>2 DEF Covered
    <2>4. r \in Nat /\ c \in Nat /\ b \in Nat
      BY <2>1, GroundsHold, DeltaAssumption DEF Disk, Grounds
    <2> HIDE DEF b, c, r
    <2>5. b >= r
      BY <2>3, <2>4
    <2> QED
      BY <2>5 DEF b, r
  <1> QED
    BY <1>1, DetailIsSound, PTL

-----------------------------------------------------------------------------
(* Frames and outputs agree.  An applier stands at an action, or between    *)
(* two, with so many bytes of it; a frame takes it from there to the next   *)
(* place, and only the right frame does.                                    *)
Standing == [act : Nat, upto : Nat, pos : Nat]
BeginOp(a) == IF a.out = "diff" THEN "DiffBegin" ELSE "FileBegin"
EndOp(a) == IF a.out = "diff" THEN "DiffEnd" ELSE "FileEnd"
MoveOps(a) == IF a.out = "diff" THEN {"bytes", "copy"} ELSE {"FileBytes"}
Outside(i) == [act |-> 0, upto |-> i, pos |-> 0]
Inside(i, n) == [act |-> i, upto |-> i, pos |-> n]

TakesBegin(as, todo, a, f, b) ==
  /\ f.op = BeginOp(as[f.act]) /\ a.act = 0 /\ f.act \in todo /\ a.upto <= f.act
  /\ \A j \in todo : j < a.upto \/ j >= f.act
  /\ b = Inside(f.act, 0)
TakesBytes(as, a, f, b) ==
  LET x == Piece(as[f.act].old, f)
      y == as[f.act].new IN
  /\ f.op \in MoveOps(as[f.act]) /\ a = Inside(f.act, a.pos)
  /\ a.pos + Len(x) <= Len(y) /\ x = Slice(y, a.pos, Len(x)) /\ Length(f) <= Len(x) + Window
  /\ b = Inside(f.act, a.pos + Len(x))
TakesEnd(as, a, f, b) ==
  /\ f.op = EndOp(as[f.act]) /\ a = Inside(f.act, Len(as[f.act].new)) /\ b = Outside(f.act + 1)
Takes(as, todo, a, f, b) ==
  TakesBegin(as, todo, a, f, b) \/ TakesBytes(as, a, f, b) \/ TakesEnd(as, a, f, b)

(* The frames fs take it from a to b.                                       *)
Trace(as, todo, a, fs, b, g) ==
  /\ g \in [0..Len(fs) -> Standing] /\ g[0] = a /\ g[Len(fs)] = b
  /\ \A n \in 1..Len(fs) : Takes(as, todo, g[n - 1], fs[n], g[n])
Carries(as, todo, a, fs, b) == \E g : Trace(as, todo, a, fs, b, g)

LEMMA CarriesNone ==
  ASSUME NEW as, NEW todo, NEW a \in Standing
  PROVE  Carries(as, todo, a, <<>>, a)
  <1> DEFINE e == <<>>
             g == [n \in 0..Len(e) |-> a]
  <1>1. Len(e) = 0
    BY EmptySeq
  <1>2. g \in [0..Len(e) -> Standing] /\ g[0] = a /\ g[Len(e)] = a
    BY <1>1
  <1>3. \A n \in 1..Len(e) : Takes(as, todo, g[n - 1], e[n], g[n])
    BY <1>1
  <1> HIDE DEF g, e
  <1>4. Carries(as, todo, a, e, a)
    BY <1>2, <1>3 DEF Carries, Trace
  <1> QED
    BY <1>4 DEF e

LEMMA CarriesFrom ==
  ASSUME NEW as, NEW todo, NEW a, NEW b, NEW S, NEW fs \in Seq(S), Carries(as, todo, a, fs, b)
  PROVE  /\ a \in Standing /\ b \in Standing
         /\ fs = <<>> => a = b
  <1>1. PICK g : Trace(as, todo, a, fs, b, g)
    BY DEF Carries
  <1>2. Len(fs) \in Nat /\ (fs = <<>> => Len(fs) = 0)
    BY LenProperties, EmptySeq
  <1> QED
    BY <1>1, <1>2 DEF Trace

LEMMA CarriesNext ==
  ASSUME NEW as, NEW todo, NEW a, NEW S, NEW fs \in Seq(S), NEW b, Carries(as, todo, a, fs, b),
         NEW f \in S, NEW c \in Standing, Takes(as, todo, b, f, c)
  PROVE  Carries(as, todo, a, Append(fs, f), c)
  <1> DEFINE N == Len(fs)
             hs == Append(fs, f)
  <1>1. PICK g : Trace(as, todo, a, fs, b, g)
    BY DEF Carries
  <1>2. N \in Nat
    BY LenProperties
  <1>3. Len(hs) = N + 1 /\ hs[N + 1] = f /\ \A n \in 1..N : hs[n] = fs[n]
    BY AppendProperties
  <1>4. /\ g \in [0..N -> Standing] /\ g[0] = a /\ g[N] = b
        /\ \A n \in 1..N : Takes(as, todo, g[n - 1], fs[n], g[n])
    BY <1>1 DEF Trace
  <1> DEFINE h == [n \in 0..(N + 1) |-> IF n = N + 1 THEN c ELSE g[n]]
  <1> HIDE DEF N, hs
  <1>5. h \in [0..(N + 1) -> Standing] /\ h[0] = a /\ h[N + 1] = c
    <2>1. \A n \in 0..(N + 1) : n # N + 1 => n \in 0..N
      BY <1>2
    <2>2. 0 \in 0..(N + 1) /\ 0 # N + 1 /\ N + 1 \in 0..(N + 1)
      BY <1>2
    <2> QED
      BY <2>1, <2>2, <1>4
  <1>6. ASSUME NEW n \in 1..(N + 1) PROVE Takes(as, todo, h[n - 1], hs[n], h[n])
    <2>1. n - 1 \in 0..(N + 1) /\ n - 1 # N + 1 /\ n \in 0..(N + 1) /\ n - 1 \in 0..N
      BY <1>2
    <2>2. h[n - 1] = g[n - 1]
      BY <2>1
    <2>3. CASE n = N + 1
      <3>1. n - 1 = N
        BY <1>2, <2>3
      <3>2. h[n - 1] = b /\ h[n] = c /\ hs[n] = f
        BY <2>1, <2>2, <2>3, <3>1, <1>3, <1>4
      <3> HIDE DEF h
      <3> QED
        BY <3>2
    <2>4. CASE n # N + 1
      <3>1. n \in 1..N
        BY <1>2, <2>4
      <3>2. h[n] = g[n] /\ hs[n] = fs[n]
        BY <2>1, <2>4, <3>1, <1>3
      <3> HIDE DEF h
      <3> QED
        BY <2>2, <3>1, <3>2, <1>4
    <2> QED
      BY <2>3, <2>4
  <1> HIDE DEF h
  <1>7. Trace(as, todo, a, hs, c, h)
    BY <1>3, <1>5, <1>6 DEF Trace
  <1> QED
    BY <1>7 DEF Carries, hs

(* The first of them takes it to where the others take it from.             *)
Onward(as, todo, a, fs, b) ==
  \E c : c \in Standing /\ Takes(as, todo, a, Head(fs), c) /\ Carries(as, todo, c, Tail(fs), b)
LEMMA CarriesHead ==
  ASSUME NEW as, NEW todo, NEW a, NEW S, NEW fs \in Seq(S), fs # <<>>, NEW b, Carries(as, todo, a, fs, b)
  PROVE  Onward(as, todo, a, fs, b)
  <1> DEFINE N == Len(fs)
             hs == Tail(fs)
  <1>1. PICK g : Trace(as, todo, a, fs, b, g)
    BY DEF Carries
  <1>2. N \in Nat \ {0}
    BY LenProperties, EmptySeq
  <1>3. Len(hs) = N - 1 /\ (\A n \in 1..(N - 1) : hs[n] = fs[n + 1]) /\ Head(fs) = fs[1]
    BY HeadTailProperties
  <1>4. /\ g \in [0..N -> Standing] /\ g[0] = a /\ g[N] = b
        /\ \A n \in 1..N : Takes(as, todo, g[n - 1], fs[n], g[n])
    BY <1>1 DEF Trace
  <1> DEFINE h == [n \in 0..(N - 1) |-> g[n + 1]]
             c == g[1]
  <1> HIDE DEF N, hs
  <1>5. c \in Standing /\ Takes(as, todo, a, Head(fs), c)
    <2>1. 1 \in 1..N /\ 1 \in 0..N /\ 1 - 1 = 0
      BY <1>2
    <2>2. Takes(as, todo, g[1 - 1], fs[1], g[1])
      <3>1. \A n \in 1..N : Takes(as, todo, g[n - 1], fs[n], g[n])
        BY <1>4
      <3> QED
        BY ONLY <2>1, <3>1
    <2>3. g[1 - 1] = g[0]
      BY ONLY <2>1
    <2> QED
      BY <2>1, <2>2, <2>3, <1>3, <1>4 DEF c
  <1>6. h \in [0..(N - 1) -> Standing] /\ h[0] = c /\ h[N - 1] = b
    <2>1. \A n \in 0..(N - 1) : n + 1 \in 0..N
      BY <1>2
    <2>2. 0 \in 0..(N - 1) /\ N - 1 \in 0..(N - 1) /\ 0 + 1 = 1 /\ N - 1 + 1 = N
      BY <1>2
    <2> QED
      BY <2>1, <2>2, <1>4
  <1>7. ASSUME NEW n \in 1..(N - 1) PROVE Takes(as, todo, h[n - 1], hs[n], h[n])
    <2> DEFINE m == n + 1
    <2>1. n - 1 \in 0..(N - 1) /\ n \in 0..(N - 1) /\ n - 1 + 1 = m - 1 /\ m \in 1..N
      BY <1>2
    <2>2. h[n - 1] = g[m - 1] /\ h[n] = g[m] /\ hs[n] = fs[m]
      <3>1. h[n - 1] = g[n - 1 + 1] /\ h[n] = g[n + 1] /\ hs[n] = fs[n + 1]
        BY <2>1, <1>3
      <3> HIDE DEF h
      <3>2. g[n - 1 + 1] = g[m - 1]
        BY ONLY <2>1
      <3> QED
        BY <3>1, <3>2
    <2> HIDE DEF h, m
    <2>3. Takes(as, todo, g[m - 1], fs[m], g[m])
      BY <2>1, <1>4
    <2> QED
      BY <2>2, <2>3
  <1> HIDE DEF h, c
  <1>8. Trace(as, todo, c, hs, b, h)
    BY <1>3, <1>6, <1>7 DEF Trace
  <1>9. Carries(as, todo, c, hs, b)
    BY <1>8 DEF Carries
  <1> QED
    BY <1>5, <1>9 DEF Onward, hs

LEMMA SliceMiddle ==
  ASSUME NEW V, NEW a \in Seq(V), NEW b \in Seq(V), NEW c \in Seq(V)
  PROVE  /\ Slice(a \o (b \o c), Len(a), Len(b)) = b
         /\ Len(a) + Len(b) <= Len(a \o (b \o c)) /\ Len(a \o b) = Len(a) + Len(b)
  <1> DEFINE y == b \o c
             x == a \o y
             l == Len(a)
             m == Len(b)
             z == Slice(x, l, m)
  <1>1. l \in Nat /\ m \in Nat /\ Len(c) \in Nat
    BY LenProperties
  <1>2. /\ y \in Seq(V) /\ Len(y) = m + Len(c)
        /\ \A i \in 1..(m + Len(c)) : y[i] = IF i <= m THEN b[i] ELSE c[i - m]
    BY ConcatProperties
  <1> HIDE DEF y
  <1>3. /\ x \in Seq(V) /\ Len(x) = l + Len(y)
        /\ \A i \in 1..(l + Len(y)) : x[i] = IF i <= l THEN a[i] ELSE y[i - l]
    <2>1. a \in Seq(V) /\ y \in Seq(V)
      BY <1>2
    <2> QED
      BY ONLY <2>1, ConcatProperties
  <1> HIDE DEF x
  <1>4. /\ z \in Seq(V) /\ (l + m <= Len(x) => Len(z) = m)
        /\ \A i \in 1..Len(z) : z[i] = x[l + i]
    <2>1. x \in Seq(V) /\ l \in Nat /\ m \in Nat
      BY <1>1, <1>3
    <2> HIDE DEF l, m
    <2> QED
      BY <2>1, SliceType
  <1>5. Len(a \o b) = l + m
    BY ConcatProperties
  <1> HIDE DEF z, l, m
  <1>6. l + m <= Len(x) /\ Len(z) = m
    BY <1>1, <1>2, <1>3, <1>4
  <1>7. ASSUME NEW i \in 1..m PROVE z[i] = b[i]
    <2> DEFINE k == l + i
    <2>1. z[i] = x[k]
      BY <1>4, <1>6
    <2>2. k \in 1..(l + Len(y)) /\ ~(k <= l) /\ k - l = i /\ i \in 1..(m + Len(c)) /\ i <= m
      BY <1>1, <1>2
    <2> HIDE DEF k
    <2>3. x[k] = y[k - l]
      <3>1. \A n \in 1..(l + Len(y)) : x[n] = IF n <= l THEN a[n] ELSE y[n - l]
        BY <1>3
      <3> QED
        BY ONLY <3>1, <2>2
    <2>4. y[k - l] = y[i]
      BY ONLY <2>2
    <2>5. y[i] = b[i]
      BY <1>2, <2>2
    <2> QED
      BY <2>1, <2>3, <2>4, <2>5
  <1>8. z = b
    <2>1. z \in Seq(V) /\ b \in Seq(V) /\ Len(z) = Len(b)
      BY <1>4, <1>6 DEF m
    <2>2. \A i \in 1..Len(z) : z[i] = b[i]
      BY <1>6, <1>7
    <2> QED
      BY <2>1, <2>2, SeqEqual
  <1> QED
    BY <1>5, <1>6, <1>8 DEF x, y, z, l, m

Thrice(V, x, a, b, c) ==
  a \in Seq(V) /\ b \in Seq(V) /\ c \in Seq(V) /\ x = (a \o b) \o c
LEMMA Regroup ==
  ASSUME NEW V, NEW x, NEW a, NEW b, NEW c, Thrice(V, x, a, b, c)
  PROVE  x = a \o (b \o c) /\ b \o c \in Seq(V)
  <1>1. a \in Seq(V) /\ b \in Seq(V) /\ c \in Seq(V)
    BY DEF Thrice
  <1>2. (a \o b) \o c = a \o (b \o c)
    BY ONLY <1>1, ConcatAssociative
  <1>3. b \o c \in Seq(V)
    BY ONLY <1>1, ConcatProperties
  <1> QED
    BY <1>2, <1>3 DEF Thrice

(* What grows to x is at every step the beginning of x.                     *)
Completes(V, g, n, x) == \E z \in Seq(V) : x = g[n] \o z
Builds(s, fs, g, x) ==
  /\ Len(fs) \in Nat /\ Len(g[0]) = 0 /\ \A n \in 0..Len(fs) : Len(g[n]) \in Nat
  /\ \A n \in 1..Len(fs) :
       LET p == Piece(s, fs[n]) IN
       /\ Len(g[n]) = Len(g[n - 1]) + Len(p) /\ Len(g[n - 1]) + Len(p) <= Len(x)
       /\ p = Slice(x, Len(g[n - 1]), Len(p))
LEMMA GrowsBuilds ==
  ASSUME NEW V, NEW s \in Seq(V), NEW fs \in Seq(Ops(V)), NEW g, Grows(V, s, fs, g),
         NEW x, x = g[Len(fs)]
  PROVE  Builds(s, fs, g, x)
  <1> DEFINE N == Len(fs)
  <1>1. N \in Nat /\ \A n \in 1..N : fs[n] \in Ops(V)
    BY LenProperties, ElementOfSeq
  <1>2. /\ g \in [0..N -> Seq(V)] /\ g[0] = <<>> /\ x = g[N]
        /\ \A n \in 1..N : g[n] = g[n - 1] \o Piece(s, fs[n])
    BY DEF Grows
  <1> HIDE DEF N
  <1>3. \A n \in 1..N : Piece(s, fs[n]) \in Seq(V)
    BY <1>1, PieceType
  <1> DEFINE D == 0..N
             m == [n \in D |-> N - n]
             A == {n \in D : Completes(V, g, n, x)}
  <1>4. m \in [D -> Nat]
    BY <1>1
  <1>5. ASSUME NEW n \in D, \A y \in D : m[y] < m[n] => y \in A PROVE n \in A
    <2>1. CASE n = N
      <3>1. x = g[n] /\ x \in Seq(V)
        BY <2>1, <1>2
      <3>2. <<>> \in Seq(V) /\ x = x \o <<>>
        BY <3>1, EmptySeq, ConcatEmptySeq
      <3>3. Completes(V, g, n, x)
        BY <3>1, <3>2 DEF Completes
      <3> QED
        BY <3>3
    <2>2. CASE n # N
      <3> DEFINE k == n + 1
      <3>1. k \in 1..N /\ k \in D /\ k - 1 = n /\ N - k < N - n /\ n \in 0..N
        BY <1>1, <2>2
      <3>2. k \in A
        <4>1. m[k] < m[n]
          BY <3>1
        <4> HIDE DEF m, A, k
        <4> QED
          BY <3>1, <4>1, <1>5
      <3>3. PICK z \in Seq(V) : x = g[k] \o z
        BY <3>2 DEF Completes
      <3> DEFINE p == Piece(s, fs[k])
      <3>4. p \in Seq(V) /\ g[k] = g[n] \o p
        <4> HIDE DEF k
        <4>1. g[k] = g[k - 1] \o Piece(s, fs[k])
          BY <1>2, <3>1
        <4>2. g[k - 1] = g[n]
          BY ONLY <3>1
        <4> QED
          BY <1>3, <3>1, <4>1, <4>2
      <3>5. g[n] \in Seq(V)
        BY <1>2, <3>1
      <3> HIDE DEF p, k
      <3> DEFINE q == g[n]
      <3>6. x = q \o (p \o z) /\ p \o z \in Seq(V)
        <4>1. q \in Seq(V) /\ p \in Seq(V) /\ z \in Seq(V) /\ x = (q \o p) \o z
          BY <3>3, <3>4, <3>5
        <4> HIDE DEF q
        <4>2. Thrice(V, x, q, p, z)
          BY ONLY <4>1 DEF Thrice
        <4> QED
          BY ONLY <4>2, Regroup
      <3>7. Completes(V, g, n, x)
        BY <3>6 DEF Completes
      <3> QED
        BY <3>7
    <2> QED
      BY <2>1, <2>2
  <1>6. \A n \in D : n \in A
    <2> HIDE DEF D, m, A
    <2> QED
      BY <1>4, <1>5, MeasureInduction
  <1>7. \A n \in 0..N : Completes(V, g, n, x)
    BY <1>6
  <1>8. ASSUME NEW n \in 1..N
        PROVE  LET p == Piece(s, fs[n]) IN
               /\ Len(g[n]) = Len(g[n - 1]) + Len(p) /\ Len(g[n - 1]) + Len(p) <= Len(x)
               /\ p = Slice(x, Len(g[n - 1]), Len(p))
    <2> DEFINE p == Piece(s, fs[n])
               a == g[n - 1]
    <2>1. n - 1 \in 0..N /\ n \in 0..N
      BY <1>1
    <2>2. p \in Seq(V) /\ a \in Seq(V) /\ g[n] = a \o p
      BY <1>2, <1>3, <2>1
    <2>3. PICK z \in Seq(V) : x = g[n] \o z
      BY <1>7, <2>1 DEF Completes
    <2> HIDE DEF p, a
    <2>4. x = a \o (p \o z)
      <3>1. a \in Seq(V) /\ p \in Seq(V) /\ z \in Seq(V) /\ x = (a \o p) \o z
        BY <2>2, <2>3
      <3>2. Thrice(V, x, a, p, z)
        BY ONLY <3>1 DEF Thrice
      <3> QED
        BY ONLY <3>2, Regroup
    <2>5. Slice(x, Len(a), Len(p)) = p /\ Len(a) + Len(p) <= Len(x) /\ Len(g[n]) = Len(a) + Len(p)
      BY <2>2, <2>4, SliceMiddle
    <2> QED
      BY <2>5 DEF p, a
  <1>9. Len(g[0]) = 0 /\ \A n \in 0..N : Len(g[n]) \in Nat
    BY <1>2, LenProperties, EmptySeq
  <1> QED
    BY <1>1, <1>8, <1>9 DEF N, Builds

(* The frames of a diff take the applier through its action.                *)
DiffFrames(i, fs) == [n \in DOMAIN fs |-> Framed(i, fs[n])] \o <<Frame(i, "DiffEnd")>>
LEMMA DiffCarries ==
  ASSUME NEW as, NEW todo, NEW i \in Nat \ {0}, as[i].out = "diff",
         as[i].old \in Seq(Byte), as[i].new \in Seq(Byte),
         NEW fs, fs = Frames(Signature(as[i].old), as[i].new)
  PROVE  /\ DiffFrames(i, fs) \in Seq(Carried)
         /\ Carries(as, todo, Inside(i, 0), DiffFrames(i, fs), Outside(i + 1))
         /\ \A n \in DOMAIN DiffFrames(i, fs) : DiffFrames(i, fs)[n].op \in {"copy", "bytes", "DiffEnd"}
  <1> DEFINE s == as[i].old
             x == as[i].new
             N == Len(fs)
             hs == [n \in DOMAIN fs |-> Framed(i, fs[n])]
             e == Frame(i, "DiffEnd")
  <1>1. Yields(Byte, s, fs, x)
    BY DeltaIsExact
  <1>2. fs \in Seq(Ops(Byte))
    BY <1>1, YieldsType
  <1>3. fs \in Seq(Near(Byte, Len(s)))
    BY FramesNear
  <1>4. PICK g : Grows(Byte, s, fs, g) /\ x = g[Len(fs)]
    BY <1>1 DEF Yields
  <1> DEFINE p(n) == Piece(s, fs[n])
  <1>5. /\ N \in Nat /\ Len(g[0]) = 0 /\ \A n \in 0..N : Len(g[n]) \in Nat
        /\ \A n \in 1..N :
              /\ Len(g[n]) = Len(g[n - 1]) + Len(p(n)) /\ Len(g[n - 1]) + Len(p(n)) <= Len(x)
              /\ p(n) = Slice(x, Len(g[n - 1]), Len(p(n)))
    <2> HIDE DEF s, x
    <2>1. s \in Seq(Byte)
      BY DEF s
    <2>2. Builds(s, fs, g, x)
      BY <1>2, <1>4, <2>1, GrowsBuilds
    <2> QED
      BY <2>2 DEF Builds
  <1>6. DOMAIN fs = 1..N /\ \A n \in 1..N : fs[n] \in Ops(Byte) /\ fs[n] \in Near(Byte, Len(s))
    BY <1>2, <1>3, LenProperties, ElementOfSeq
  <1>7. hs \in Seq(Carried) /\ Len(hs) = N /\ \A n \in 1..N : hs[n] = Framed(i, fs[n])
    <2> HIDE DEF N
    <2>1. \A n \in 1..N : Framed(i, fs[n]) \in Carried
      BY <1>6, OpsAreBytes
    <2>2. hs \in [1..N -> Carried]
      BY <1>6, <2>1
    <2>3. hs \in Seq(Carried)
      BY <1>5, <2>2, SeqDef
    <2>4. DOMAIN hs = 1..N /\ DOMAIN hs = 1..Len(hs) /\ Len(hs) \in Nat
      <3>1. DOMAIN hs = 1..N
        BY <2>2
      <3> HIDE DEF hs
      <3> QED
        BY <2>3, <3>1, LenProperties
    <2>5. Len(hs) = N
      <3> DEFINE l == Len(hs)
      <3> HIDE DEF hs, l
      <3>1. l \in Nat /\ N \in Nat /\ 1..N = 1..l
        BY <2>4, <1>5 DEF l
      <3>2. l = N
        BY ONLY <3>1
      <3> QED
        BY <3>2 DEF l
    <2> QED
      BY <1>6, <2>3, <2>5
  <1> HIDE DEF hs
  <1>8. ASSUME NEW n \in 1..N
        PROVE  /\ hs[n].act = i /\ hs[n].op \in {"copy", "bytes"}
               /\ Piece(s, hs[n]) = p(n) /\ Length(hs[n]) <= Len(p(n)) + Window
    <2> DEFINE f == fs[n]
               h == hs[n]
    <2>1. /\ h.act = i /\ h.op = f.op /\ h.offset = f.offset /\ h.len = f.len /\ h.bytes = f.bytes
      <3>1. h = Framed(i, f)
        BY <1>7
      <3> HIDE DEF h, f
      <3> QED
        BY <3>1 DEF Framed
    <2>2. f \in Ops(Byte) /\ f \in Near(Byte, Len(s))
      BY <1>6
    <2> HIDE DEF h, f
    <2>3. Piece(s, h) = Piece(s, f) /\ Length(h) = Length(f) /\ h.op \in {"copy", "bytes"}
      BY <2>1, <2>2 DEF Piece, Length, Ops
    <2>4. Length(f) <= Len(Piece(s, f)) + Window
      <3>1. Window \in Nat /\ Len(s) \in Nat
        BY DeltaAssumption, LenProperties
      <3>2. CASE f.op # "copy"
        <4>1. f.bytes \in Seq(Byte) /\ Len(f.bytes) \in Nat
          BY <2>2, LenProperties DEF Ops
        <4> DEFINE l == Len(f.bytes)
        <4>2. Length(f) = l /\ Len(Piece(s, f)) = l
          BY <3>2 DEF Length, Piece
        <4> HIDE DEF l
        <4> QED
          BY <3>1, <4>1, <4>2 DEF l
      <3>3. CASE f.op = "copy"
        <4> DEFINE o == f.offset
                   l == f.len
                   L == Len(s)
                   e2 == Least(o + l, L)
                   q == SubSeq(s, o + 1, e2)
        <4>1. o \in Nat /\ l \in Nat /\ L \in Nat /\ o + l <= L + Window /\ Window \in Nat
          BY <2>2, <3>1, <3>3 DEF Near, Ops
        <4>2. Length(f) = l /\ Piece(s, f) = q
          BY <3>3 DEF Length, Piece, Slice
        <4> HIDE DEF o, l, L
        <4>3. e2 \in Nat /\ e2 <= o + l /\ e2 <= L /\ (e2 = o + l \/ e2 = L)
          BY <4>1 DEF Least
        <4> HIDE DEF e2
        <4>4. Len(q) = IF o + 1 <= e2 THEN e2 - (o + 1) + 1 ELSE 0
          <5>1. \A k \in (o + 1)..e2 : s[k] \in Byte
            <6>1. \A k \in (o + 1)..e2 : k \in 1..L
              BY <4>1, <4>3
            <6> QED
              BY <6>1, ElementOfSeq DEF L
          <5> QED
            BY <4>1, <4>3, <5>1, SubSeqProperties
        <4> DEFINE w == Len(q)
        <4> HIDE DEF q, w
        <4>5. l <= w + Window
          BY <4>1, <4>3, <4>4 DEF w
        <4> QED
          BY <4>2, <4>5 DEF w
      <3> QED
        BY <3>2, <3>3
    <2> QED
      BY <2>1, <2>3, <2>4 DEF h, f
  <1> DEFINE t == [n \in 0..N |-> Inside(i, Len(g[n]))]
  <1> HIDE DEF N, p
  <1>9. t \in [0..N -> Standing] /\ t[0] = Inside(i, 0) /\ t[N] = Inside(i, Len(x))
    <2>1. \A n \in 0..N : Inside(i, Len(g[n])) \in Standing
      BY <1>5 DEF Inside, Standing
    <2>2. 0 \in 0..N /\ N \in 0..N
      BY <1>5
    <2>3. Len(g[N]) = Len(x)
      BY <1>4 DEF N
    <2> QED
      BY <2>1, <2>2, <2>3, <1>5
  <1>10. ASSUME NEW n \in 1..N PROVE Takes(as, todo, t[n - 1], hs[n], t[n])
    <2> DEFINE a == Len(g[n - 1])
               q == p(n)
               h == hs[n]
    <2>1. n - 1 \in 0..N /\ n \in 0..N /\ a \in Nat
      BY <1>5
    <2>2. t[n - 1] = Inside(i, a) /\ t[n] = Inside(i, Len(g[n]))
      BY <2>1
    <2>3. Len(g[n]) = a + Len(q) /\ a + Len(q) <= Len(x) /\ q = Slice(x, a, Len(q))
      BY <1>5
    <2>4. h.act = i /\ h.op \in {"copy", "bytes"} /\ Piece(s, h) = q /\ Length(h) <= Len(q) + Window
      BY <1>8
    <2> HIDE DEF t, a, q, h
    <2>5. Inside(i, a).pos = a
      BY DEF Inside
    <2>6. MoveOps(as[i]) = {"bytes", "copy"}
      BY DEF MoveOps
    <2>7. t[n - 1].pos = a
      BY <2>2, <2>5
    <2>8. TakesBytes(as, t[n - 1], h, t[n])
      BY <2>2, <2>3, <2>4, <2>6, <2>7 DEF TakesBytes
    <2> QED
      BY <2>8 DEF Takes, h
  <1> HIDE DEF t
  <1>11. Carries(as, todo, Inside(i, 0), hs, Inside(i, Len(x)))
    <2>1. Trace(as, todo, Inside(i, 0), hs, Inside(i, Len(x)), t)
      BY <1>7, <1>9, <1>10 DEF Trace
    <2> QED
      BY <2>1 DEF Carries
  <1>12. e \in Carried /\ e.op = "DiffEnd" /\ e.act = i
    BY FrameType DEF OpNames, Frame
  <1> HIDE DEF e, s, x
  <1>13. Takes(as, todo, Inside(i, Len(x)), e, Outside(i + 1)) /\ Outside(i + 1) \in Standing
    <2>1. TakesEnd(as, Inside(i, Len(x)), e, Outside(i + 1))
      BY <1>12 DEF TakesEnd, EndOp, x
    <2>2. Outside(i + 1) \in Standing
      BY DEF Outside, Standing
    <2> QED
      BY <2>1, <2>2 DEF Takes
  <1>14. DiffFrames(i, fs) = Append(hs, e)
    BY <1>7, <1>12, AppendIsConcat DEF DiffFrames, hs, e
  <1>15. Append(hs, e) \in Seq(Carried) /\ Carries(as, todo, Inside(i, 0), Append(hs, e), Outside(i + 1))
    BY <1>7, <1>11, <1>12, <1>13, CarriesNext, AppendProperties
  <1>16. ASSUME NEW n \in DOMAIN Append(hs, e) PROVE Append(hs, e)[n].op \in {"copy", "bytes", "DiffEnd"}
    <2>1. DOMAIN Append(hs, e) = 1..(N + 1) /\ Append(hs, e)[N + 1] = e /\ \A k \in 1..N : Append(hs, e)[k] = hs[k]
      <3>1. Append(hs, e) \in Seq(Carried) /\ Len(Append(hs, e)) = Len(hs) + 1
            /\ Append(hs, e)[Len(hs) + 1] = e /\ \A k \in 1..Len(hs) : Append(hs, e)[k] = hs[k]
        BY <1>7, <1>12, AppendProperties
      <3>2. DOMAIN Append(hs, e) = 1..Len(Append(hs, e))
        BY <3>1, LenProperties
      <3> QED
        BY <3>1, <3>2, <1>7
    <2>2. n = N + 1 \/ n \in 1..N
      BY <1>5, <1>16, <2>1
    <2> QED
      BY <1>8, <1>12, <2>1, <2>2
  <1> QED
    BY <1>14, <1>15, <1>16

-----------------------------------------------------------------------------
(* The space that the outputs of a wave take. *)

LEMMA SumScale ==
  ASSUME NEW S, IsFiniteSet(S), NEW k \in Nat, NEW f, NEW g,
         \A x \in S : f[x] \in Nat /\ g[x] = k * f[x]
  PROVE  SumFunctionOnSet(g, S) = k * SumFunctionOnSet(f, S)
  <1> DEFINE D == SUBSET S
             m == [s \in D |-> Cardinality(s)]
             sumf(s) == SumFunctionOnSet(f, s)
             sumg(s) == SumFunctionOnSet(g, s)
             A == {s \in D : sumg(s) = k * sumf(s)}
  <1>0. \A x \in S : f[x] \in Nat /\ g[x] \in Nat
    <2> SUFFICES ASSUME NEW x \in S PROVE g[x] \in Nat
      OBVIOUS
    <2> DEFINE y == f[x]
    <2>1. y \in Nat /\ g[x] = k * y
      OBVIOUS
    <2> HIDE DEF y
    <2> QED
      BY <2>1
  <1>1. m \in [D -> Nat]
    <2>1. m \in [D -> 0..Cardinality(S)] /\ Cardinality(S) \in Nat
      BY SubsetSizes
    <2> HIDE DEF m, D
    <2> QED
      BY <2>1
  <1>2. ASSUME NEW s \in D
        PROVE  /\ IsFiniteSet(s) /\ sumf(s) \in Nat /\ sumg(s) \in Nat
               /\ \A x \in s : sumf(s) = f[x] + sumf(s \ {x}) /\ sumg(s) = g[x] + sumg(s \ {x})
    <2>1. IsFiniteSet(s) /\ (\A x \in s : f[x] \in Nat) /\ (\A x \in s : g[x] \in Nat)
      BY <1>0, FS_Subset
    <2> QED
      BY <2>1, SumType, SumRemove
  <1>3. ASSUME NEW s \in D, \A t \in D : m[t] < m[s] => t \in A
        PROVE  s \in A
    <2>1. CASE s = {}
      <3>1. sumf(s) = 0 /\ sumg(s) = 0
        BY <2>1, SumEmpty
      <3> QED
        BY <3>1
    <2>2. CASE s # {}
      <3>1. PICK x : x \in s
        BY <2>2
      <3>2. s \ {x} \in D /\ Cardinality(s \ {x}) < Cardinality(s)
        <4>1. IsFiniteSet(s)
          BY <1>2
        <4>2. Cardinality(s \ {x}) < Cardinality(s)
          BY ONLY <4>1, <3>1, RemoveIsLess
        <4> QED
          BY <4>2
      <3>3. s \ {x} \in A
        BY <1>3, <3>2
      <3> DEFINE a == sumf(s \ {x})
                 b == sumg(s \ {x})
                 y == f[x]
      <3>4. /\ sumf(s) = y + a /\ sumg(s) = k * y + b
            /\ a \in Nat /\ b \in Nat /\ y \in Nat
        BY <1>2, <3>1, <3>2
      <3>5. b = k * a
        BY <3>3
      <3> HIDE DEF sumf, sumg, a, b, y
      <3>6. sumg(s) = k * sumf(s)
        BY <3>4, <3>5
      <3> QED
        BY <3>6
    <2> QED
      BY <2>1, <2>2
  <1>4. \A s \in D : s \in A
    <2> HIDE DEF D, m, A
    <2> QED
      BY <1>1, <1>3, MeasureInduction
  <1>5. S \in D
    OBVIOUS
  <1> QED
    BY <1>4, <1>5

(* In blocks: what the outputs of a side take, what its wave asks for, and   *)
(* what the outputs that are made have taken.                               *)
Weight(s) == [i \in Todo(s) |-> UpTo(acts[i].size)]
Worth(s) == SumFunction(Weight(s))
Spare(s) == IF Todo(s) = {} THEN 0 ELSE 1 + UpTo(Window)
Asked(s) == 1 + Spare(s) + Worth(s)
MadeBlocks(s) == SumFunction([i \in DOMAIN made[s] |-> Cardinality(made[s][i].owned)])
Fits(s) == Needs(Wave, s) <= Minus(Block * room[s], job.reserve)

LEMMA TodoFacts ==
  ASSUME Setup, at \in Busy \cup {"sign"}, NEW s \in Sides
  PROVE  /\ IsFiniteSet(Todo(s)) /\ Todo(s) \subseteq 1..Len(acts) /\ Len(acts) \in Nat
         /\ \A i \in Todo(s) : /\ acts[i].size = Len(acts[i].new) /\ acts[i].size \in Nat
                               /\ acts[i].new \in Seq(Byte) /\ acts[i].old \in Seq(Byte) /\ IsAction(acts[i])
                               /\ i \in Nat \ {0} /\ i \in Wave.acts /\ acts[i].side = s
                               /\ acts[i].out \in {"file", "diff"} /\ acts[i].new # Gone
                               /\ acts[i].out = "diff" => acts[i].old # Gone /\ i \in Diffs
  <1>1. /\ Len(acts) \in Nat /\ \A i \in 1..Len(acts) : IsAction(acts[i]) /\ acts[i].new \in Seq(Byte)
        /\ \A i \in Todo(s) : /\ i \in 1..Len(acts) /\ i \in Wave.acts /\ acts[i].side = s
                              /\ acts[i].out \in {"file", "diff"}
    BY GroundsHold DEF Grounds
  <1>2. Todo(s) \subseteq 1..Len(acts)
    BY <1>1
  <1>3. IsFiniteSet(Todo(s))
    <2>1. IsFiniteSet(1..Len(acts))
      BY <1>1, FS_Interval
    <2> QED
      BY <1>2, <2>1, FS_Subset
  <1>4. ASSUME NEW i \in Todo(s)
        PROVE  /\ acts[i].size = Len(acts[i].new) /\ acts[i].size \in Nat
               /\ acts[i].new \in Seq(Byte) /\ acts[i].old \in Seq(Byte) /\ IsAction(acts[i])
               /\ i \in Nat \ {0} /\ i \in Wave.acts /\ acts[i].side = s
               /\ acts[i].out \in {"file", "diff"} /\ acts[i].new # Gone
               /\ acts[i].out = "diff" => acts[i].old # Gone /\ i \in Diffs
    <2>1. /\ IsAction(acts[i]) /\ acts[i].new \in Seq(Byte) /\ acts[i].out \in {"file", "diff"}
          /\ i \in 1..Len(acts) /\ i \in Wave.acts /\ acts[i].side = s
      BY <1>1, <1>4
    <2>2. acts[i].size = Len(acts[i].new) /\ acts[i].new # Gone /\ IsFile(acts[i].old)
          /\ (acts[i].out = "diff" => acts[i].old # Gone)
      BY <2>1 DEF IsAction
    <2>3. acts[i].old \in Seq(Byte)
      BY <2>2, FileType
    <2>4. Len(acts[i].new) \in Nat
      BY <2>1, LenProperties
    <2>5. i \in Nat \ {0}
      BY <1>1, <2>1
    <2>6. acts[i].out = "diff" => i \in Diffs
      BY <2>1 DEF Diffs
    <2> QED
      BY <2>1, <2>2, <2>3, <2>4, <2>5, <2>6
  <1> QED
    BY <1>1, <1>2, <1>3, <1>4

LEMMA WeightIs ==
  ASSUME Setup, at \in Busy \cup {"sign"}, NEW s \in Sides
  PROVE  /\ DOMAIN Weight(s) = Todo(s)
         /\ \A i \in Todo(s) : Weight(s)[i] = UpTo(acts[i].size) /\ Weight(s)[i] \in Nat
         /\ Worth(s) = SumFunctionOnSet(Weight(s), Todo(s)) /\ Worth(s) \in Nat
         /\ UpTo(Window) \in Nat /\ Spare(s) \in Nat /\ Asked(s) \in Nat /\ Asked(s) >= 1
  <1>1. DOMAIN Weight(s) = Todo(s)
    BY DEF Weight
  <1>2. ASSUME NEW i \in Todo(s) PROVE Weight(s)[i] = UpTo(acts[i].size) /\ Weight(s)[i] \in Nat
    <2>1. acts[i].size \in Nat
      BY TodoFacts
    <2> QED
      BY <2>1, UpToIs DEF Weight
  <1>3. Worth(s) = SumFunctionOnSet(Weight(s), Todo(s))
    BY <1>1 DEF Worth, SumFunction
  <1>4. SumFunctionOnSet(Weight(s), Todo(s)) \in Nat
    BY <1>2, TodoFacts, SumType
  <1>5. UpTo(Window) \in Nat
    BY UpToIs, DeltaAssumption
  <1>6. Spare(s) \in Nat
    BY <1>5 DEF Spare
  <1> QED
    BY <1>1, <1>2, <1>3, <1>4, <1>5, <1>6 DEF Asked

LEMMA NeedsIs ==
  ASSUME Setup, at \in Busy \cup {"sign"}, NEW s \in Sides
  PROVE  Needs(Wave, s) = Block * Asked(s)
  <1> DEFINE G == Todo(s)
             f == Weight(s)
             g == [i \in G |-> Round(acts[i].size)]
             b == Block
             u == UpTo(Window)
             w == Worth(s)
  <1>1. /\ DOMAIN f = G /\ \A i \in G : f[i] = UpTo(acts[i].size) /\ f[i] \in Nat
    BY WeightIs
  <1>2. w = SumFunctionOnSet(f, G) /\ w \in Nat /\ u \in Nat
    BY WeightIs
  <1>3. b \in Nat \ {0}
    BY BlockIs
  <1>4. ASSUME NEW i \in G PROVE g[i] = b * f[i]
    <2>1. acts[i].size \in Nat
      BY TodoFacts
    <2>2. Round(acts[i].size) = Block * UpTo(acts[i].size)
      BY <2>1, CostIs
    <2> QED
      BY <1>1, <2>2
  <1>5. IsFiniteSet(G)
    BY TodoFacts
  <1>6. Round(Window) = b * u
    BY DeltaAssumption, CostIs
  <1>7. SumFunction(g) = SumFunctionOnSet(g, G)
    <2>1. DOMAIN g = G
      OBVIOUS
    <2> HIDE DEF g, G
    <2> QED
      BY <2>1 DEF SumFunction
  <1> HIDE DEF f, g
  <1>8. SumFunctionOnSet(g, G) = b * SumFunctionOnSet(f, G)
    <2> HIDE DEF G, b
    <2> QED
      BY <1>1, <1>3, <1>4, <1>5, SumScale
  <1>9. Needs(Wave, s) = b + (IF G = {} THEN 0 ELSE b + Round(Window)) + SumFunction(g)
    BY DEF Needs, Todo, g
  <1>10. Asked(s) = 1 + (IF G = {} THEN 0 ELSE 1 + u) + w
    BY DEF Asked, Spare
  <1> HIDE DEF G, b, u, w
  <1>11. Needs(Wave, s) = b + (IF G = {} THEN 0 ELSE b + b * u) + b * w
    BY <1>2, <1>6, <1>7, <1>8, <1>9
  <1>12. CASE G = {}
    <2>1. Needs(Wave, s) = b + 0 + b * w /\ Asked(s) = 1 + w
      BY <1>2, <1>10, <1>11, <1>12
    <2>2. b * (1 + w) = b * 1 + b * w
      BY <1>2, <1>3, Multiples
    <2>3. b * w \in Nat
      BY <1>2, <1>3
    <2>4. Needs(Wave, s) = b * Asked(s)
      BY <1>3, <2>1, <2>2, <2>3
    <2> QED
      BY <2>4 DEF b
  <1>13. CASE G # {}
    <2> DEFINE v == 1 + u
               x == 1 + v
    <2>1. Needs(Wave, s) = b + (b + b * u) + b * w /\ Asked(s) = x + w
      BY <1>2, <1>10, <1>11, <1>13
    <2>2. b * (1 + u) = b * 1 + b * u
      BY <1>2, <1>3, Multiples
    <2>3. b * (1 + v) = b * 1 + b * v
      BY <1>2, <1>3, Multiples
    <2>4. b * (x + w) = b * x + b * w
      BY <1>2, <1>3, Multiples
    <2>5. b * w \in Nat /\ b * u \in Nat
      BY <1>2, <1>3
    <2>6. b * v = b + b * u
      BY <1>3, <2>2
    <2> HIDE DEF v
    <2>7. b * x = b + (b + b * u)
      BY <1>3, <2>3, <2>6
    <2> HIDE DEF x
    <2>8. Needs(Wave, s) = b * Asked(s)
      BY <2>1, <2>4, <2>7
    <2> QED
      BY <2>8 DEF b
  <1> QED
    BY <1>12, <1>13

(* With b blocks staged and b + k asked for, k blocks are above the reserve. *)
LEMMA SpaceLeft ==
  ASSUME Setup, Disk, at \in Busy \cup {"sign"}, NEW s \in Sides, room[s] \in Nat, Fits(s),
         NEW b \in Nat, free[s] + b = room[s], NEW k \in Nat \ {0}, b + k <= Asked(s)
  PROVE  Above(s) >= Block * k
  <1> DEFINE c == Block
             a == Asked(s)
             x == c * room[s]
             y == job.reserve
             z == Above(s)
             r == room[s]
             f == free[s]
  <1>1. c \in Nat \ {0} /\ a \in Nat /\ y \in Nat /\ z \in Nat /\ f \in Nat
    BY BlockIs, WeightIs, AboveIs
  <1>2. c * a <= Minus(x, y)
    BY NeedsIs DEF Fits
  <1>3. z = Minus(c * f, y)
    BY DEF Above, Budgets, Budget
  <1>4. x \in Nat /\ r \in Nat /\ x = c * r
    BY <1>1
  <1> HIDE DEF c, a, y, z, f, r, x
  <1>5. c * a >= c * (b + k) /\ c * (b + k) = c * b + c * k /\ c * b \in Nat /\ c * k \in Nat /\ c * k >= c
    <2> DEFINE l == b + k
    <2>1. l \in Nat /\ l <= a
      BY <1>1 DEF a
    <2> HIDE DEF l
    <2>2. c * l <= c * a /\ c * a \in Nat /\ c * l \in Nat
      BY <1>1, <2>1, Multiples
    <2>3. c * (b + k) = c * b + c * k /\ c * b \in Nat /\ c * k \in Nat
      BY <1>1, Multiples
    <2>4. c * 1 <= c * k
      BY <1>1, Multiples
    <2> QED
      BY <1>1, <2>2, <2>3, <2>4 DEF l
  <1>6. x > y /\ x >= y + c * b + c * k
    <2> DEFINE u == c * a
               v == c * b
               w == c * k
    <2>1. u \in Nat /\ v \in Nat /\ w \in Nat /\ u >= v + w /\ w > 0 /\ u <= Minus(x, y)
      BY <1>1, <1>2, <1>5
    <2> HIDE DEF u, v, w
    <2>2. x > y /\ x >= y + v + w
      BY <1>1, <1>4, <2>1 DEF Minus
    <2> QED
      BY <2>2 DEF v, w
  <1>7. x = c * f + c * b
    <2>1. r = f + b
      BY DEF r, f
    <2>2. c * (f + b) = c * f + c * b
      BY <1>1, Multiples
    <2> QED
      BY <1>4, <2>1, <2>2
  <1>8. z >= c * k
    <2> DEFINE u == c * f
               v == c * b
               w == c * k
    <2>1. u \in Nat /\ v \in Nat /\ w \in Nat /\ w > 0 /\ x = u + v /\ x >= y + v + w /\ z = Minus(u, y)
      BY <1>1, <1>3, <1>5, <1>6, <1>7
    <2> HIDE DEF u, v, w
    <2>2. z >= w
      BY <1>1, <2>1 DEF Minus
    <2> QED
      BY <2>2 DEF w
  <1> QED
    BY <1>8 DEF z, c

LEMMA RoomEnough ==
  ASSUME Setup, at \in Busy \cup {"sign"}, NEW s \in Sides, room[s] \in Nat, Fits(s),
         NEW b \in Nat, b <= Asked(s)
  PROVE  b <= room[s]
  <1> DEFINE c == Block
             a == Asked(s)
             r == room[s]
             x == c * r
             y == job.reserve
  <1>1. c \in Nat \ {0} /\ a \in Nat /\ y \in Nat /\ r \in Nat
    BY BlockIs, WeightIs, GroundsHold DEF Grounds
  <1>2. c * a <= Minus(x, y)
    BY NeedsIs DEF Fits
  <1> HIDE DEF c, a, y, r
  <1>3. c * a \in Nat /\ x \in Nat
    BY <1>1
  <1>4. c * a <= c * r
    <2> DEFINE u == c * a
    <2>1. u \in Nat /\ u <= Minus(x, y)
      BY <1>2, <1>3
    <2> HIDE DEF u, x
    <2>2. u <= x
      BY <1>1, <1>3, <2>1 DEF Minus
    <2> QED
      BY <2>2 DEF u, x
  <1>5. a <= r
    <2>1. c * a < c * r + c
      <3> DEFINE u == c * a
                 v == c * r
      <3>1. u \in Nat /\ v \in Nat /\ u <= v
        BY <1>3, <1>4
      <3> HIDE DEF u, v
      <3>2. u < v + c
        BY <1>1, <3>1
      <3> QED
        BY <3>2 DEF u, v
    <2> QED
      BY <1>1, <2>1, Multiples
  <1> QED
    BY <1>1, <1>5 DEF a, r

(* Where nobody disturbs, what is staged is all that was taken since the    *)
(* wave was checked, and an output has no more blocks than it has bytes for. *)
Light(s) ==
  /\ open[s].out.owned \subseteq Touched(0, open[s].out.pos)
  /\ open[s].act # 0 =>
       LET x == acts[open[s].act].new
           n == open[s].out.pos
       IN n <= Len(x) /\ open[s].out.seen = Slice(x, 0, n)
  /\ \A i \in DOMAIN made[s] : made[s][i].owned \subseteq Touched(0, acts[i].size)
Counted(s) == room[s] \in Nat /\ free[s] + OwnedBlocks(s) = room[s] /\ Light(s)
Accounted == at \in Busy \cup {"sign"} => \A s \in Sides : Counted(s)

LEMMA PartTakes ==
  ASSUME NEW n \in Nat, NEW B, B \subseteq Touched(0, n)
  PROVE  Cardinality(B) \in Nat /\ Cardinality(B) <= UpTo(n) /\ UpTo(n) \in Nat /\ IsFiniteSet(B)
  <1>1. IsFiniteSet(Touched(0, n))
    BY TouchedType
  <1>2. IsFiniteSet(B) /\ Cardinality(B) <= Cardinality(Touched(0, n))
    BY <1>1, FS_Subset
  <1>3. Cardinality(Touched(0, n)) = UpTo(n)
    BY TouchedFirst
  <1> QED
    BY <1>2, <1>3, FS_CardinalityType, UpToIs

LEMMA MadeTakes ==
  ASSUME Setup, Staged, at \in Busy, NEW s \in Sides, Light(s)
  PROVE  /\ MadeBlocks(s) \in Nat /\ MadeBlocks(s) <= Worth(s)
         /\ \A i \in Todo(s) \ DOMAIN made[s] : MadeBlocks(s) + UpTo(acts[i].size) <= Worth(s)
  <1> DEFINE D == DOMAIN made[s]
             f == [i \in D |-> Cardinality(made[s][i].owned)]
             h == Weight(s)
             S == Todo(s)
  <1>1. D \subseteq S
    <2>1. MadeSound(s)
      BY DEF Staged
    <2> QED
      BY <2>1 DEF MadeSound
  <1>2. IsFiniteSet(S) /\ IsFiniteSet(D)
    <2>1. IsFiniteSet(S)
      BY TodoFacts
    <2> QED
      BY <1>1, <2>1, FS_Subset
  <1>3. \A i \in S : h[i] \in Nat /\ h[i] = UpTo(acts[i].size)
    BY WeightIs
  <1>4. ASSUME NEW i \in D PROVE f[i] \in Nat /\ f[i] <= h[i]
    <2>1. made[s][i].owned \subseteq Touched(0, acts[i].size)
      BY DEF Light
    <2>2. acts[i].size \in Nat
      BY <1>1, TodoFacts
    <2>3. Cardinality(made[s][i].owned) \in Nat /\ Cardinality(made[s][i].owned) <= UpTo(acts[i].size)
      BY <2>1, <2>2, PartTakes
    <2> QED
      BY <1>1, <1>3, <2>3
  <1>5. MadeBlocks(s) = SumFunctionOnSet(f, D)
    <2>1. DOMAIN f = D
      OBVIOUS
    <2>2. MadeBlocks(s) = SumFunction(f)
      BY DEF MadeBlocks
    <2> HIDE DEF f, D
    <2> QED
      BY <2>1, <2>2 DEF SumFunction
  <1>6. Worth(s) = SumFunctionOnSet(h, S) /\ Worth(s) \in Nat
    BY WeightIs
  <1> HIDE DEF f, h, D, S
  <1>7. \A i \in D : f[i] \in Nat /\ h[i] \in Nat /\ f[i] <= h[i]
    BY <1>1, <1>3, <1>4
  <1>8. /\ SumFunctionOnSet(f, D) \in Nat /\ SumFunctionOnSet(h, D) \in Nat
        /\ SumFunctionOnSet(f, D) <= SumFunctionOnSet(h, D)
    BY <1>2, <1>7, SumMonotone, SumType
  <1>9. SumFunctionOnSet(h, D) <= SumFunctionOnSet(h, S)
    BY <1>1, <1>2, <1>3, SumOfPart
  <1>10. ASSUME NEW i \in S \ D PROVE MadeBlocks(s) + UpTo(acts[i].size) <= Worth(s)
    <2> DEFINE R == S \ {i}
               x == SumFunctionOnSet(h, D)
               y == SumFunctionOnSet(h, R)
    <2>1. SumFunctionOnSet(h, S) = h[i] + y
      BY <1>2, <1>3, SumRemove
    <2>2. IsFiniteSet(R) /\ D \in SUBSET R /\ \A k \in R : h[k] \in Nat
      <3>1. R \in SUBSET S
        OBVIOUS
      <3>2. IsFiniteSet(R)
        BY <1>2, <3>1, FS_Subset
      <3> QED
        BY <1>1, <1>3, <3>2
    <2> HIDE DEF R
    <2>3. SumFunctionOnSet(h, D) <= SumFunctionOnSet(h, R) /\ SumFunctionOnSet(h, R) \in Nat
      BY <2>2, SumOfPart, SumType
    <2>4. x <= y /\ y \in Nat /\ x \in Nat
      BY <1>8, <2>3
    <2>5. h[i] = UpTo(acts[i].size) /\ h[i] \in Nat
      BY <1>3
    <2> HIDE DEF x, y
    <2> DEFINE m == MadeBlocks(s)
               l == h[i]
               w == Worth(s)
    <2>6. w = l + y /\ m <= x /\ m \in Nat
      BY <1>5, <1>6, <1>8, <2>1 DEF x
    <2> HIDE DEF m, w
    <2>7. m + l <= w
      BY <2>4, <2>5, <2>6
    <2> QED
      BY <2>5, <2>7 DEF m, w
  <1> DEFINE a == SumFunctionOnSet(f, D)
             b == SumFunctionOnSet(h, D)
             c == SumFunctionOnSet(h, S)
  <1>11. a \in Nat /\ b \in Nat /\ c \in Nat /\ a <= b /\ b <= c
    BY <1>6, <1>8, <1>9
  <1> HIDE DEF a, b, c
  <1>12. a <= c
    BY <1>11
  <1>13. MadeBlocks(s) \in Nat /\ MadeBlocks(s) <= Worth(s)
    BY <1>5, <1>6, <1>11, <1>12 DEF a, c
  <1> QED
    BY <1>10, <1>13 DEF S, D

(* An output B that ends at n, with what is made, is within what is asked.   *)
LEMMA OutputTakes ==
  ASSUME Setup, Staged, at \in Busy, NEW s \in Sides, Light(s), open[s].act # 0,
         NEW n \in Nat, n <= acts[open[s].act].size, NEW B, B \subseteq Touched(0, n)
  PROVE  LET b == Cardinality(B) + MadeBlocks(s) IN
         /\ b \in Nat /\ b <= Worth(s) /\ Todo(s) # {}
         /\ b + UpTo(acts[open[s].act].size) <= Worth(s) + UpTo(n)
  <1> DEFINE i == open[s].act
             x == Cardinality(B)
             m == MadeBlocks(s)
             u == UpTo(n)
             z == UpTo(acts[i].size)
             w == Worth(s)
  <1>1. i \in Todo(s) /\ i \notin DOMAIN made[s]
    <2>1. OpenSound(s) /\ MadeSound(s)
      BY DEF Staged
    <2>2. i \in Todo(s) /\ upto[s] = i
      BY <2>1 DEF OpenSound
    <2>3. i \in Nat
      BY <2>2, TodoFacts
    <2> HIDE DEF i
    <2>4. ~(i < i)
      BY <2>3
    <2> QED
      BY <2>1, <2>2, <2>4 DEF MadeSound
  <1>2. acts[i].size \in Nat
    BY <1>1, TodoFacts
  <1>3. x \in Nat /\ x <= u /\ u \in Nat
    BY PartTakes
  <1>4. u <= z /\ z \in Nat
    BY <1>2, UpToMore
  <1>5. m \in Nat /\ m + z <= w
    BY <1>1, MadeTakes
  <1>6. w \in Nat
    BY WeightIs
  <1>7. Todo(s) # {}
    BY <1>1
  <1> HIDE DEF x, m, u, z, w
  <1>8. x + m \in Nat /\ x + m <= w /\ x + m + z <= w + u
    BY <1>3, <1>4, <1>5, <1>6
  <1> QED
    BY <1>7, <1>8 DEF x, m, u, z, w, i

LEMMA OwnedSmall ==
  ASSUME Setup, Staged, at \in Busy, NEW s \in Sides, Light(s)
  PROVE  OwnedBlocks(s) \in Nat /\ OwnedBlocks(s) <= Worth(s)
         /\ OwnedBlocks(s) = Cardinality(open[s].out.owned) + MadeBlocks(s)
  <1>1. OwnedBlocks(s) = Cardinality(open[s].out.owned) + MadeBlocks(s)
    BY DEF OwnedBlocks, MadeBlocks
  <1>2. OpenSound(s)
    BY DEF Staged
  <1>3. CASE open[s].act = 0
    <2>1. open[s].out = Fresh
      BY <1>2, <1>3 DEF OpenSound, NoOutput
    <2>2. Cardinality(open[s].out.owned) = 0
      BY <2>1, FreshSound, FS_EmptySet
    <2>3. MadeBlocks(s) \in Nat /\ MadeBlocks(s) <= Worth(s)
      BY MadeTakes
    <2> QED
      BY <1>1, <2>2, <2>3
  <1>4. CASE open[s].act # 0
    <2>1. open[s].out.pos \in Nat /\ open[s].act \in Todo(s)
      BY <1>2, <1>4, SoundParts DEF OpenSound
    <2>2. open[s].out.pos <= acts[open[s].act].size
      BY <1>4, <2>1, TodoFacts DEF Light
    <2>3. open[s].out.owned \subseteq Touched(0, open[s].out.pos)
      BY DEF Light
    <2> QED
      BY <1>1, <1>4, <2>1, <2>2, <2>3, OutputTakes
  <1> QED
    BY <1>1, <1>3, <1>4

(* So there is room for a look at the disk,                                 *)
LEMMA CanLook ==
  ASSUME Setup, Disk, Staged, at \in Busy, NEW s \in Sides, Counted(s), Fits(s)
  PROVE  /\ Recheck(s).ok /\ \A m : Check(s, m, 0).ok
         /\ \A n : BeginCheck(s, n).ok
  <1> DEFINE b == OwnedBlocks(s)
             w == Worth(s)
             a == Asked(s)
             v == Spare(s)
  <1>1. b \in Nat /\ b <= w /\ w \in Nat /\ v \in Nat /\ a = 1 + v + w
    BY OwnedSmall, WeightIs DEF Counted, Asked
  <1> HIDE DEF w, a, v
  <1>2. b + 1 <= a
    BY <1>1
  <1>3. Above(s) >= Block * 1
    <2>1. b + 1 <= Asked(s) /\ b \in Nat /\ free[s] + b = room[s]
      BY <1>1, <1>2 DEF a, Counted
    <2> HIDE DEF b
    <2> QED
      BY <2>1, SpaceLeft DEF Counted
  <1>4. Look(s, 0).ok
    <2> DEFINE z == Above(s)
               o == Round(0)
    <2>1. o = 0 /\ z \in Nat /\ Block \in Nat /\ z >= Block * 1
      BY <1>3, CostIs, AboveIs, BlockIs
    <2> HIDE DEF z, o
    <2>2. o + Block <= z
      BY <2>1
    <2> QED
      BY <2>2 DEF Look, z, o
  <1>5. ASSUME NEW m PROVE Check(s, m, 0).ok
    BY <1>4 DEF Check
  <1>6. ASSUME NEW n PROVE BeginCheck(s, n).ok
    <2> DEFINE m == IF FlushFirst(s, n) THEN Looked(s, Recheck(s)) ELSE mon[s]
               c == Check(s, m, 0)
               d == [c EXCEPT !.ok = @ /\ (FlushFirst(s, n) => Recheck(s).ok)]
    <2>1. c.ok /\ Recheck(s).ok
      BY <1>4, <1>5 DEF Recheck
    <2>2. DOMAIN c = {"ok", "looked", "credit"}
      BY DEF Check, Look
    <2>3. BeginCheck(s, n) = [d EXCEPT !.looked = @ \/ FlushFirst(s, n)]
      BY DEF BeginCheck
    <2> HIDE DEF c
    <2>4. d.ok /\ DOMAIN d = {"ok", "looked", "credit"}
      BY <2>1, <2>2
    <2> HIDE DEF d
    <2> QED
      BY <2>3, <2>4
  <1> QED
    BY <1>4, <1>5, <1>6 DEF Recheck

(* and for the next piece of l bytes, which a frame tells to be n.          *)
LEMMA CanWrite ==
  ASSUME Setup, Disk, Staged, at \in Busy, NEW s \in Sides, Counted(s), Fits(s), open[s].act # 0,
         NEW l \in Nat, NEW n \in Nat, n <= l + Window, open[s].out.pos + l <= acts[open[s].act].size
  PROVE  \A m : Check(s, m, n).ok
  <1> DEFINE i == open[s].act
             p == open[s].out.pos
             b == OwnedBlocks(s)
             w == Worth(s)
             a == Asked(s)
             u == UpTo(Window)
             k == UpTo(n)
             q == p + l
  <1>1. OpenSound(s) /\ Light(s)
    BY DEF Staged, Counted
  <1>2. p \in Nat /\ i \in Todo(s) /\ acts[i].size \in Nat
    <2>1. p \in Nat /\ i \in Todo(s)
      BY <1>1, SoundParts DEF OpenSound
    <2> QED
      BY <2>1, TodoFacts
  <1>3. p <= acts[i].size
    <2> DEFINE z == acts[i].size
    <2>1. z \in Nat /\ p + l <= z
      BY <1>2
    <2> HIDE DEF z, p
    <2>2. p <= z
      BY <1>2, <2>1 DEF p
    <2> QED
      BY <2>2 DEF z
  <1>4. /\ b \in Nat /\ Todo(s) # {} /\ b + UpTo(acts[i].size) <= w + UpTo(p)
    <2>1. open[s].out.owned \subseteq Touched(0, p)
      BY <1>1 DEF Light
    <2>2. LET c == Cardinality(open[s].out.owned) + MadeBlocks(s) IN
          c \in Nat /\ Todo(s) # {} /\ c + UpTo(acts[i].size) <= w + UpTo(p)
      BY <1>1, <1>2, <1>3, <2>1, OutputTakes
    <2>3. b = Cardinality(open[s].out.owned) + MadeBlocks(s)
      BY <1>1, OwnedSmall
    <2> QED
      BY <2>2, <2>3
  <1>5. /\ w \in Nat /\ u \in Nat /\ a = 1 + (1 + u) + w
    BY <1>4, WeightIs DEF Asked, Spare
  (* The last block of what is there may be the first of the piece.         *)
  <1>6. k <= UpTo(l) + u /\ UpTo(l) \in Nat /\ k \in Nat
    <2>1. Window \in Nat
      BY DeltaAssumption
    <2>2. l + Window \in Nat
      BY <2>1
    <2>3. UpTo(n) <= UpTo(l + Window) /\ UpTo(n) \in Nat /\ UpTo(l + Window) \in Nat
      <3> DEFINE x == l + Window
      <3>1. x \in Nat /\ n <= x
        BY <2>2
      <3> HIDE DEF x
      <3>2. UpTo(n) <= UpTo(x) /\ UpTo(n) \in Nat /\ UpTo(x) \in Nat
        BY <3>1, UpToMore
      <3> QED
        BY <3>2 DEF x
    <2>4. UpTo(l + Window) <= UpTo(l) + UpTo(Window) /\ UpTo(l) \in Nat
      BY <2>1, UpToAdds, UpToIs
    <2> DEFINE x == UpTo(l + Window)
               y == UpTo(l)
    <2>5. k <= x /\ x <= y + u /\ k \in Nat /\ x \in Nat /\ y \in Nat
      BY <2>3, <2>4
    <2> HIDE DEF x, y, k, u
    <2>6. k <= y + u
      BY <1>5, <2>5
    <2> QED
      BY <2>5, <2>6 DEF y
  <1>7. UpTo(p) + UpTo(l) <= UpTo(acts[i].size) + 1
    <2> DEFINE c == Block
               x == UpTo(p)
               y == UpTo(l)
               z == UpTo(acts[i].size)
               t == acts[i].size
    <2>1. /\ c \in Nat \ {0}
          /\ x \in Nat /\ c * x < p + c /\ c * x \in Nat
          /\ y \in Nat /\ c * y < l + c /\ c * y \in Nat
          /\ z \in Nat /\ t <= c * z /\ c * z \in Nat
      BY <1>2, BlockIs, UpToIs
    <2>2. t \in Nat /\ p + l <= t
      BY <1>2
    <2> HIDE DEF c, x, y, z, t, p
    <2>3. c * (x + y) = c * x + c * y
      BY <2>1, Multiples
    <2> DEFINE d == z + 1
               e == x + y
    <2>4. c * (z + 1) = c * z + c
      BY <2>1
    <2>5. c * e < c * d + c
      <3>1. c * e = c * x + c * y /\ c * d = c * z + c
        BY <2>3, <2>4
      <3> HIDE DEF d, e
      <3> QED
        BY <1>2, <2>1, <2>2, <3>1 DEF p
    <2>6. d \in Int /\ e \in Int
      BY <2>1
    <2> HIDE DEF d, e
    <2>7. e <= d
      BY <2>1, <2>5, <2>6, Multiples
    <2> QED
      BY <2>7 DEF d, e, x, y, z
  <1>8. Above(s) >= Block * (1 + k)
    <2> DEFINE h == 1 + k
               x == UpTo(p)
               y == UpTo(l)
               z == UpTo(acts[i].size)
    <2>1. x \in Nat /\ z \in Nat
      BY <1>2, UpToIs
    <2>2. b + z <= w + x /\ k <= y + u /\ x + y <= z + 1 /\ a = 1 + (1 + u) + w /\ b \in Nat
          /\ y \in Nat /\ k \in Nat /\ u \in Nat /\ w \in Nat
      BY <1>4, <1>5, <1>6, <1>7
    <2> HIDE DEF x, y, z, a, b, u, w, k
    <2>3. b + h <= a /\ h \in Nat \ {0}
      BY <2>1, <2>2
    <2>4. free[s] + b = room[s] /\ room[s] \in Nat
      BY DEF Counted, b
    <2> HIDE DEF h
    <2>5. Above(s) >= Block * h
      BY <2>2, <2>3, <2>4, SpaceLeft DEF a
    <2> QED
      BY <2>5 DEF h
  <1>9. Look(s, n).ok
    <2> DEFINE z == Above(s)
               o == Round(n)
               c == Block
    <2>1. o = c * k /\ z \in Nat /\ c \in Nat /\ k \in Nat /\ z >= c * (1 + k)
      BY <1>6, <1>8, CostIs, AboveIs, BlockIs
    <2> HIDE DEF z, o, c, k
    <2>2. c * (1 + k) = c + c * k /\ c * k \in Nat
      BY <2>1
    <2>3. o + c <= z
      BY <2>1, <2>2
    <2> QED
      BY <2>3 DEF Look, z, o, c
  <1> QED
    BY <1>9 DEF Check

LEMMA CanHold ==
  ASSUME Setup, Disk, Staged, at \in Busy, NEW s \in Sides, Counted(s), Fits(s), open[s].act # 0,
         NEW n \in Nat, n <= acts[open[s].act].size, NEW B, B \subseteq Touched(0, n)
  PROVE  /\ Cardinality(B) - Cardinality(open[s].out.owned) <= free[s]
         /\ Cardinality(B) \in Nat /\ Cardinality(open[s].out.owned) \in Nat
  <1> DEFINE x == Cardinality(B)
             y == Cardinality(open[s].out.owned)
             m == MadeBlocks(s)
             w == Worth(s)
             a == Asked(s)
             f == free[s]
             r == room[s]
  <1>1. Light(s) /\ free[s] + OwnedBlocks(s) = room[s] /\ room[s] \in Nat /\ OpenSound(s)
    BY DEF Counted, Staged
  <1>2. x + m \in Nat /\ x + m <= w
    BY <1>1, OutputTakes
  <1>3. x \in Nat
    BY PartTakes
  <1>4. y \in Nat
    <2>1. IsFiniteSet(open[s].out.owned)
      BY <1>1, SoundParts DEF OpenSound
    <2> QED
      BY <2>1, FS_CardinalityType
  <1>5. m \in Nat /\ OwnedBlocks(s) = y + m
    BY <1>1, MadeTakes, OwnedSmall
  <1>6. w \in Nat /\ a \in Nat /\ w <= a
    <2>1. w \in Nat /\ Spare(s) \in Nat /\ a = 1 + Spare(s) + w
      BY WeightIs DEF Asked
    <2> HIDE DEF w, a
    <2> QED
      BY <2>1
  <1>7. x + m <= r
    <2> DEFINE b == x + m
    <2>1. b \in Nat /\ b <= w
      BY <1>2
    <2> HIDE DEF b, w, a
    <2>2. b <= a
      BY <1>6, <2>1
    <2>3. b <= r
      BY <1>1, <2>1, <2>2, RoomEnough DEF a
    <2> QED
      BY <2>3 DEF b
  <1>8. f \in Nat /\ r \in Nat /\ f + (y + m) = r
    BY <1>1, <1>5 DEF Disk
  <1> HIDE DEF x, y, m, f, r
  <1>9. x - y <= f
    BY <1>3, <1>4, <1>5, <1>7, <1>8
  <1> QED
    BY <1>3, <1>4, <1>9 DEF x, y, f

-----------------------------------------------------------------------------
(* A producer and the applier of the other side keep step: the frames that  *)
(* are under way and those that are still to come take the applier through  *)
(* its outputs.                                                             *)

Parts == {f \in Carried : f.op \in {"copy", "bytes", "DiffEnd"}}
Silent(p) == p.chan = <<>> /\ p.queue = <<>>

(* With the frames that have left it at c, the producer p is between two    *)
(* outputs, in a file, or in a diff.                                        *)
Apart(todo, p, c) ==
  /\ p.thread = "none" /\ Silent(p) /\ c.act = 0 /\ c.pos = 0
  /\ c.upto <= p.next /\ \A j \in todo : j < c.upto \/ j >= p.next
InFile(as, p, c) ==
  p.thread = "none" /\ Silent(p) /\ c = Inside(p.act, p.pos) /\ p.pos + p.left = Len(as[p.act].new)
Remaining(as, todo, p, c) ==
  /\ p.chan \in Seq(Parts) /\ p.queue \in Seq(Parts)
  /\ \E b : Carries(as, todo, c, p.chan, b) /\ Carries(as, todo, b, p.queue, Outside(p.act + 1))
InDiff(as, todo, p, c) ==
  /\ c = Inside(p.act, c.pos)
  /\ \/ p.thread = "start" /\ Silent(p) /\ c.pos = 0
     \/ p.thread = "run" /\ Remaining(as, todo, p, c)
Follows(as, todo, p, c) ==
  /\ p.kind # "none" => p.act \in todo /\ p.kind = as[p.act].out /\ p.next = p.act + 1
  /\ p.kind = "none" => Apart(todo, p, c)
  /\ p.kind = "file" => InFile(as, p, c)
  /\ p.kind = "diff" => InDiff(as, todo, p, c)

(* From where the applier stands, with fs sent.                             *)
Leads(as, todo, from, fs, p) ==
  /\ \E a, c : /\ Carries(as, todo, from, fs, a) /\ Carries(as, todo, a, p.held, c)
               /\ Follows(as, todo, p, c)
  /\ p.held = <<>> \/ \E f \in Carried : p.held = <<f>>
Drained(todo, p) == p.held = <<>> /\ p.kind = "none" /\ \A j \in todo : j < p.next

LEMMA TakesKinds ==
  ASSUME NEW as, NEW todo, NEW a, NEW f, NEW b, Takes(as, todo, a, f, b)
  PROVE  /\ f.op \in OpNames
         /\ f.op \in {"FileBegin", "DiffBegin"} => TakesBegin(as, todo, a, f, b)
         /\ f.op \in {"FileBytes", "bytes", "copy"} => TakesBytes(as, a, f, b)
         /\ f.op \in {"FileEnd", "DiffEnd"} => TakesEnd(as, a, f, b)
  <1>1. TakesBegin(as, todo, a, f, b) => f.op \in {"FileBegin", "DiffBegin"}
    BY DEF TakesBegin, BeginOp
  <1>2. TakesBytes(as, a, f, b) => f.op \in {"FileBytes", "bytes", "copy"}
    BY DEF TakesBytes, MoveOps
  <1>3. TakesEnd(as, a, f, b) => f.op \in {"FileEnd", "DiffEnd"}
    BY DEF TakesEnd, EndOp
  <1>4. TakesBegin(as, todo, a, f, b) \/ TakesBytes(as, a, f, b) \/ TakesEnd(as, a, f, b)
    BY DEF Takes
  <1> HIDE DEF TakesBegin, TakesBytes, TakesEnd
  <1> QED
    BY <1>1, <1>2, <1>3, <1>4 DEF OpNames

LEMMA PartsType ==
  ASSUME NEW fs \in Seq(Parts)
  PROVE  fs \in Seq(Carried)
  <1>1. Parts \subseteq Carried
    BY DEF Parts
  <1> QED
    BY <1>1, SeqMonotonic

(* Nothing follows the end of a diff.                                       *)
LEMMA PartsEnd ==
  ASSUME NEW as, NEW todo, NEW k, NEW fs \in Seq(Parts), NEW b, Carries(as, todo, Outside(k), fs, b)
  PROVE  fs = <<>> /\ b = Outside(k)
  <1>1. CASE fs = <<>>
    <2> DEFINE e == Outside(k)
    <2>1. Carries(as, todo, e, fs, b) /\ fs \in Seq(Parts) /\ fs = <<>>
      BY <1>1
    <2> HIDE DEF e
    <2>2. e = b
      BY ONLY <2>1, CarriesFrom
    <2> QED
      BY <2>2, <1>1 DEF e
  <1>2. CASE fs # <<>>
    <2> DEFINE f == Head(fs)
    <2>1. f \in Parts
      BY <1>2, HeadTailProperties
    <2>2. Onward(as, todo, Outside(k), fs, b)
      BY <1>2, CarriesHead
    <2>3. PICK c : Takes(as, todo, Outside(k), f, c)
      BY <2>2 DEF Onward
    <2> HIDE DEF f
    <2>4. f.act \in Nat \ {0} /\ f.op \in {"copy", "bytes", "DiffEnd"}
      BY <2>1 DEF Parts, Carried
    <2>5. TakesBytes(as, Outside(k), f, c) \/ TakesEnd(as, Outside(k), f, c)
      BY <2>3, <2>4, TakesKinds
    <2>6. \E n : Outside(k) = Inside(f.act, n)
      BY <2>5 DEF TakesBytes, TakesEnd
    <2>7. f.act = 0
      BY <2>6 DEF Outside, Inside
    <2> QED
      BY <2>4, <2>7
  <1> QED
    BY <1>1, <1>2

LEMMA CarriesOne ==
  ASSUME NEW as, NEW todo, NEW a \in Standing, NEW f \in Carried, NEW c \in Standing, Takes(as, todo, a, f, c)
  PROVE  Carries(as, todo, a, <<f>>, c)
  <1> DEFINE e == <<>>
  <1>1. e \in Seq(Carried) /\ Append(e, f) = <<f>>
    BY EmptySeq
  <1>2. Carries(as, todo, a, e, a)
    BY CarriesNone
  <1> HIDE DEF e
  <1>3. Carries(as, todo, a, Append(e, f), c)
    BY <1>1, <1>2, CarriesNext
  <1> QED
    BY <1>1, <1>3

LEMMA CarriesOneBack ==
  ASSUME NEW as, NEW todo, NEW a, NEW f \in Carried, NEW c, Carries(as, todo, a, <<f>>, c)
  PROVE  a \in Standing /\ c \in Standing /\ Takes(as, todo, a, f, c)
  <1> DEFINE e == <<f>>
  <1>1. e \in Seq(Carried) /\ e # <<>> /\ Head(e) = f /\ Tail(e) = <<>>
    BY OneOp
  <1>2. <<>> \in Seq(Carried)
    BY EmptySeq
  <1> HIDE DEF e
  <1>3. Onward(as, todo, a, e, c) /\ a \in Standing /\ c \in Standing
    BY <1>1, CarriesHead, CarriesFrom DEF e
  <1>4. PICK d : d \in Standing /\ Takes(as, todo, a, f, d) /\ Carries(as, todo, d, <<>>, c)
    BY <1>1, <1>3 DEF Onward
  <1>5. d = c
    BY <1>2, <1>4, CarriesFrom
  <1> QED
    BY <1>3, <1>4, <1>5

(* A frame that the producer delivers, into the batch or into its hand.     *)
LEMMA LeadsMore ==
  ASSUME NEW as, NEW todo, NEW from, NEW fs \in Seq(Carried), NEW a, Carries(as, todo, from, fs, a),
         NEW f \in Carried, NEW d \in Standing, Takes(as, todo, a, f, d),
         NEW p \in Producers, p.held = <<>>, Follows(as, todo, p, d),
         NEW q, q = [p EXCEPT !.held = <<f>>]
  PROVE  Leads(as, todo, from, Append(fs, f), p) /\ Leads(as, todo, from, fs, q)
  <1>1. a \in Standing
    BY CarriesFrom
  <1>2. Carries(as, todo, from, Append(fs, f), d)
    BY CarriesNext
  <1>3. Carries(as, todo, d, <<>>, d)
    BY CarriesNone
  <1>4. Leads(as, todo, from, Append(fs, f), p)
    BY <1>2, <1>3 DEF Leads
  <1>5. Carries(as, todo, a, <<f>>, d)
    BY <1>1, CarriesOne
  <1>6. /\ q.held = <<f>> /\ q.next = p.next /\ q.act = p.act /\ q.kind = p.kind /\ q.pos = p.pos
        /\ q.left = p.left /\ q.thread = p.thread /\ q.queue = p.queue /\ q.chan = p.chan
    BY DEF Producers
  <1>7. Follows(as, todo, q, d)
    BY <1>6 DEF Follows, Apart, InFile, InDiff, Remaining, Silent
  <1>8. Leads(as, todo, from, fs, q)
    BY <1>5, <1>6, <1>7 DEF Leads
  <1> QED
    BY <1>4, <1>8

LEMMA LeadsHeld ==
  ASSUME NEW as, NEW todo, NEW from, NEW fs \in Seq(Carried), NEW p, Leads(as, todo, from, fs, p)
  PROVE  /\ from \in Standing
         /\ p.held = <<>> =>
              \E a \in Standing : Carries(as, todo, from, fs, a) /\ Follows(as, todo, p, a)
         /\ p.held # <<>> =>
              \E a, c \in Standing : /\ Carries(as, todo, from, fs, a) /\ Head(p.held) \in Carried
                                     /\ Takes(as, todo, a, Head(p.held), c) /\ Follows(as, todo, p, c)
  <1>1. PICK a, c : /\ Carries(as, todo, from, fs, a) /\ Carries(as, todo, a, p.held, c)
                    /\ Follows(as, todo, p, c)
    BY DEF Leads
  <1>2. from \in Standing /\ a \in Standing
    BY <1>1, CarriesFrom
  <1>3. CASE p.held = <<>>
    <2> DEFINE e == <<>>
    <2>1. e \in Seq(Carried)
      BY EmptySeq
    <2>2. Carries(as, todo, a, e, c) /\ e = <<>>
      BY <1>1, <1>3
    <2> HIDE DEF e
    <2>3. a = c
      BY ONLY <2>1, <2>2, CarriesFrom
    <2> QED
      BY <1>1, <1>2, <1>3, <2>3
  <1>4. CASE p.held # <<>>
    <2>1. PICK f \in Carried : p.held = <<f>>
      BY <1>4 DEF Leads
    <2>2. Carries(as, todo, a, <<f>>, c)
      BY <1>1, <2>1
    <2>3. c \in Standing /\ Takes(as, todo, a, f, c)
      BY <2>2, CarriesOneBack
    <2>4. Head(p.held) = f
      BY <2>1
    <2> QED
      BY <1>1, <1>2, <1>4, <2>3, <2>4
  <1> QED
    BY <1>2, <1>3, <1>4

LEMMA LeadsHead ==
  ASSUME NEW as, NEW todo, NEW from, NEW fs \in Seq(Carried), fs # <<>>, NEW p, Leads(as, todo, from, fs, p)
  PROVE  \E c \in Standing : Takes(as, todo, from, Head(fs), c) /\ Leads(as, todo, c, Tail(fs), p)
  <1>1. PICK a, d : /\ Carries(as, todo, from, fs, a) /\ Carries(as, todo, a, p.held, d)
                    /\ Follows(as, todo, p, d)
    BY DEF Leads
  <1>2. Onward(as, todo, from, fs, a)
    BY <1>1, CarriesHead
  <1>3. PICK c : c \in Standing /\ Takes(as, todo, from, Head(fs), c) /\ Carries(as, todo, c, Tail(fs), a)
    BY <1>2 DEF Onward
  <1>4. Leads(as, todo, c, Tail(fs), p)
    BY <1>1, <1>3 DEF Leads
  <1> QED
    BY <1>3, <1>4

(* When the producer has nothing left, the applier has everything.          *)
LEMMA LeadsDone ==
  ASSUME NEW as, NEW todo, todo \subseteq Nat, NEW from, NEW p \in Producers,
         Leads(as, todo, from, <<>>, p), Drained(todo, p)
  PROVE  from.act = 0 /\ \A j \in todo : j < from.upto
  <1> DEFINE e == <<>>
  <1>1. e \in Seq(Carried) /\ Leads(as, todo, from, e, p) /\ p.held = <<>> /\ p.kind = "none"
    BY EmptySeq DEF Drained
  <1>2. e = <<>>
    OBVIOUS
  <1> HIDE DEF e
  <1>3. PICK a \in Standing : Carries(as, todo, from, e, a) /\ Follows(as, todo, p, a)
    BY <1>1, LeadsHeld
  <1>4. from = a
    BY ONLY <1>1, <1>2, <1>3, CarriesFrom
  <1>5. Apart(todo, p, a)
    BY <1>1, <1>3 DEF Follows
  <1> DEFINE u == a.upto
             n == p.next
  <1>6. u \in Nat /\ n \in Nat
    BY <1>3, ProducerFields DEF Standing
  <1>7. a.act = 0 /\ (\A j \in todo : j < u \/ j >= n) /\ (\A j \in todo : j < n) /\ \A j \in todo : j \in Nat
    BY <1>5 DEF Apart, Drained
  <1> HIDE DEF u, n
  <1>8. \A j \in todo : j < u
    BY <1>6, <1>7
  <1> QED
    BY <1>4, <1>7, <1>8 DEF u

(* What a producer is apart from the frame in its hand.                     *)
LEMMA FollowsSame ==
  ASSUME NEW as, NEW todo, NEW p, NEW c, Follows(as, todo, p, c), NEW q,
         q.next = p.next, q.act = p.act, q.kind = p.kind, q.pos = p.pos, q.left = p.left,
         q.thread = p.thread, q.queue = p.queue, q.chan = p.chan
  PROVE  Follows(as, todo, q, c)
  BY DEF Follows, Apart, InFile, InDiff, Remaining, Silent

(* The thread of a diff, when it starts and when it sends.                  *)
LEMMA LeadsStarts ==
  ASSUME NEW as, NEW todo, NEW from, NEW fs, NEW p \in Producers, Leads(as, todo, from, fs, p),
         p.thread = "start", NEW q, NEW ds,
         q.next = p.next, q.act = p.act, q.kind = p.kind, q.pos = p.pos, q.left = p.left,
         q.thread = "run", q.queue = ds, q.chan = p.chan, q.held = p.held,
         ds \in Seq(Parts), Carries(as, todo, Inside(p.act, 0), ds, Outside(p.act + 1))
  PROVE  Leads(as, todo, from, fs, q)
  <1>1. PICK a, c : /\ Carries(as, todo, from, fs, a) /\ Carries(as, todo, a, p.held, c)
                    /\ Follows(as, todo, p, c)
    BY DEF Leads
  <1>2. p.kind \in {"none", "file", "diff"}
    BY ProducerFields
  <1>3. p.kind = "diff" /\ InDiff(as, todo, p, c)
    BY <1>1, <1>2 DEF Follows, Apart, InFile
  <1>4. c = Inside(p.act, c.pos) /\ Silent(p) /\ c.pos = 0
    BY <1>3 DEF InDiff
  <1>5. c = Inside(p.act, 0)
    BY <1>4
  <1>6. Carries(as, todo, c, <<>>, c) /\ <<>> \in Seq(Parts)
    <2>1. c \in Standing
      BY <1>5, ProducerFields DEF Standing, Inside
    <2> QED
      BY <2>1, CarriesNone, EmptySeq
  <1>7. Remaining(as, todo, q, c)
    BY <1>4, <1>5, <1>6 DEF Remaining, Silent
  <1>8. InDiff(as, todo, q, c)
    BY <1>4, <1>7 DEF InDiff
  <1>9. Follows(as, todo, q, c)
    BY <1>1, <1>3, <1>8 DEF Follows
  <1> QED
    BY <1>1, <1>9 DEF Leads

LEMMA LeadsSends ==
  ASSUME NEW as, NEW todo, NEW from, NEW fs, NEW p \in Producers, Leads(as, todo, from, fs, p),
         p.thread = "run", p.queue # <<>>, NEW q,
         q.next = p.next, q.act = p.act, q.kind = p.kind, q.pos = p.pos, q.left = p.left,
         q.thread = "run", q.queue = Tail(p.queue), q.chan = Append(p.chan, Head(p.queue)), q.held = p.held
  PROVE  Leads(as, todo, from, fs, q)
  <1>1. PICK a, c : /\ Carries(as, todo, from, fs, a) /\ Carries(as, todo, a, p.held, c)
                    /\ Follows(as, todo, p, c)
    BY DEF Leads
  <1>2. p.kind \in {"none", "file", "diff"}
    BY ProducerFields
  <1>3. p.kind = "diff" /\ InDiff(as, todo, p, c)
    BY <1>1, <1>2 DEF Follows, Apart, InFile
  <1>4. c = Inside(p.act, c.pos) /\ Remaining(as, todo, p, c)
    BY <1>3 DEF InDiff
  <1>5. p.chan \in Seq(Parts) /\ p.queue \in Seq(Parts)
    BY <1>4 DEF Remaining
  <1>6. PICK b : Carries(as, todo, c, p.chan, b) /\ Carries(as, todo, b, p.queue, Outside(p.act + 1))
    BY <1>4 DEF Remaining
  <1>7. Onward(as, todo, b, p.queue, Outside(p.act + 1))
    BY <1>5, <1>6, CarriesHead
  <1>8. PICK d : /\ d \in Standing /\ Takes(as, todo, b, Head(p.queue), d)
                 /\ Carries(as, todo, d, Tail(p.queue), Outside(p.act + 1))
    BY <1>7 DEF Onward
  <1>9. Head(p.queue) \in Parts /\ Tail(p.queue) \in Seq(Parts)
    BY <1>5, HeadTailProperties
  <1>10. q.chan \in Seq(Parts) /\ Carries(as, todo, c, q.chan, d)
    <2> DEFINE h == Head(p.queue)
    <2>1. h \in Parts /\ Takes(as, todo, b, h, d)
      BY <1>8, <1>9
    <2> HIDE DEF h
    <2>2. Append(p.chan, h) \in Seq(Parts)
      BY <1>5, <2>1, AppendProperties
    <2>3. Carries(as, todo, c, Append(p.chan, h), d)
      BY <1>5, <1>6, <1>8, <2>1, CarriesNext
    <2> QED
      BY <2>2, <2>3 DEF h
  <1>11. Remaining(as, todo, q, c)
    BY <1>8, <1>9, <1>10 DEF Remaining
  <1>12. InDiff(as, todo, q, c)
    BY <1>4, <1>11 DEF InDiff
  <1>13. Follows(as, todo, q, c)
    BY <1>1, <1>3, <1>12 DEF Follows
  <1> QED
    BY <1>1, <1>13 DEF Leads

(* A producer that reads a file,                                            *)
LEMMA FileMoves ==
  ASSUME NEW as, NEW todo, todo \subseteq Nat, NEW p \in Producers, NEW a \in Standing, Follows(as, todo, p, a),
         p.kind = "file", as[p.act].new \in Seq(Byte), p.act \in Nat \ {0},
         NEW b, b = Slice(as[p.act].new, p.pos, Smaller(Chunk, p.left))
  PROVE  /\ b = <<>> =>
              \E d \in Standing : /\ Takes(as, todo, a, Frame(p.act, "FileEnd"), d)
                                  /\ Follows(as, todo, [p EXCEPT !.kind = "none"], d)
         /\ b # <<>> =>
              \E d \in Standing :
                /\ Takes(as, todo, a, [Frame(p.act, "FileBytes") EXCEPT !.bytes = b], d)
                /\ Follows(as, todo, [p EXCEPT !.pos = @ + Len(b), !.left = @ - Len(b)], d)
  <1> DEFINE i == p.act
             x == as[p.act].new
             n == Smaller(Chunk, p.left)
             o == p.pos
             l == p.left
             L == Len(x)
  <1>1. /\ i \in todo /\ as[i].out = "file" /\ p.next = i + 1
        /\ p.thread = "none" /\ Silent(p) /\ a = Inside(i, o) /\ o + l = L
    BY DEF Follows, InFile
  <1>2. o \in Nat /\ l \in Nat /\ i \in Nat \ {0} /\ p.next \in Nat
    BY ProducerFields
  <1>3. Chunk \in Nat \ {0} /\ Window \in Nat /\ x \in Seq(Byte) /\ L \in Nat
    BY DeltaAssumption, LenProperties
  <1>4. n \in Nat /\ n <= l /\ (n = 0 => l = 0)
    BY <1>2, <1>3 DEF Smaller
  <1>5. b \in Seq(Byte) /\ Len(b) = n
    <2>1. b = Slice(x, o, n)
      OBVIOUS
    <2>2. o + n <= L
      <3> HIDE DEF o, n, l, L
      <3> QED
        BY <1>1, <1>2, <1>3, <1>4
    <2>3. o \in Nat /\ n \in Nat /\ x \in Seq(Byte) /\ o + n <= Len(x) /\ b = Slice(x, o, n)
      BY <1>2, <1>3, <1>4, <2>1, <2>2
    <2> HIDE DEF x, o, n
    <2>4. Slice(x, o, n) \in Seq(Byte) /\ Len(Slice(x, o, n)) = n
      BY ONLY <2>3, SliceType
    <2> QED
      BY <2>3, <2>4
  <1>6. CASE b = <<>>
    <2> DEFINE f == Frame(i, "FileEnd")
               d == Outside(i + 1)
               q == [p EXCEPT !.kind = "none"]
    <2>1. n = 0
      BY <1>5, <1>6, EmptySeq
    <2>2. a = Inside(i, L)
      <3>1. o = L
        <4> HIDE DEF o, n, l, L
        <4> QED
          BY <1>1, <1>2, <1>3, <1>4, <2>1
      <3> QED
        BY <1>1, <3>1
    <2>3. f.act = i /\ f.op = "FileEnd"
      BY DEF Frame
    <2>4. d \in Standing /\ d.act = 0 /\ d.pos = 0 /\ d.upto = i + 1
      BY <1>2 DEF Outside, Standing
    <2> HIDE DEF f
    <2>5. TakesEnd(as, a, f, d)
      BY <1>1, <2>2, <2>3 DEF TakesEnd, EndOp
    <2>6. /\ q.next = p.next /\ q.kind = "none" /\ q.thread = p.thread /\ q.queue = p.queue /\ q.chan = p.chan
      BY DEF Producers
    <2> HIDE DEF q, d, i
    <2>7. \A j \in todo : j < i + 1 \/ j >= i + 1
      BY <1>2
    <2>8. d.upto <= q.next
      BY <1>1, <1>2, <2>4, <2>6
    <2>9. \A j \in todo : j < d.upto \/ j >= q.next
      BY <1>1, <2>4, <2>6, <2>7
    <2>10. Apart(todo, q, d)
      BY <1>1, <2>4, <2>6, <2>8, <2>9 DEF Apart, Silent
    <2>11. Follows(as, todo, q, d)
      BY <2>6, <2>10 DEF Follows
    <2> QED
      BY <1>6, <2>4, <2>5, <2>11 DEF Takes, f, q, i
  <1>7. CASE b # <<>>
    <2> DEFINE f == [Frame(i, "FileBytes") EXCEPT !.bytes = b]
               u == o + n
               v == l - n
               d == Inside(i, u)
               q == [[p EXCEPT !.pos = u] EXCEPT !.left = v]
    <2>1. u \in Nat /\ v \in Nat /\ u + v = L /\ u <= L /\ n <= n + Window
      <3>1. o + l = L /\ o \in Nat /\ l \in Nat /\ L \in Nat /\ n \in Nat /\ n <= l /\ Window \in Nat
        BY <1>1, <1>2, <1>3, <1>4
      <3> HIDE DEF o, n, l, L
      <3> QED
        BY ONLY <3>1
    <2>2. f.act = i /\ f.op = "FileBytes" /\ f.bytes = b
      BY DEF Frame
    <2>3. a.pos = o /\ a = Inside(i, a.pos)
      BY <1>1 DEF Inside
    <2>4. d \in Standing
      <3> HIDE DEF u, i
      <3> QED
        BY <1>2, <2>1 DEF Inside, Standing
    <2>5. TakesBytes(as, a, f, d)
      <3>1. Piece(as[i].old, f) = b /\ Length(f) = n
        <4> HIDE DEF f
        <4> QED
          BY <1>5, <2>2 DEF Piece, Length
      <3>2. b = Slice(x, o, n) /\ n = Len(b)
        BY <1>5
      <3> HIDE DEF f, i, x, o, n
      <3>3. a.pos + Len(b) <= Len(x) /\ b = Slice(x, a.pos, Len(b)) /\ Length(f) <= Len(b) + Window
            /\ d = Inside(i, a.pos + Len(b))
        BY <2>1, <2>3, <3>1, <3>2 DEF L
      <3>4. f.op \in MoveOps(as[i])
        BY <1>1, <2>2 DEF MoveOps
      <3>5. x = as[i].new
        BY DEF x, i
      <3> QED
        BY <2>2, <2>3, <3>1, <3>3, <3>4, <3>5 DEF TakesBytes
    <2>6. [p EXCEPT !.pos = @ + Len(b), !.left = @ - Len(b)] = q
      <3>1. Len(b) = n
        BY <1>5
      <3> HIDE DEF n
      <3> QED
        BY <3>1
    <2>7. /\ q.next = p.next /\ q.kind = "file" /\ q.thread = p.thread /\ q.queue = p.queue /\ q.chan = p.chan
          /\ q.act = i /\ q.pos = u /\ q.left = v
      <3> HIDE DEF u, v
      <3> QED
        BY DEF Producers
    <2> HIDE DEF q, d, f
    <2>8. InFile(as, q, d)
      BY <1>1, <2>1, <2>7 DEF InFile, Silent, d
    <2>9. Follows(as, todo, q, d)
      BY <1>1, <2>7, <2>8 DEF Follows
    <2> QED
      BY <1>7, <2>4, <2>5, <2>6, <2>9 DEF Takes, f
  <1> QED
    BY <1>6, <1>7

(* that passes on what the thread has sent,                                 *)
LEMMA DiffMoves ==
  ASSUME NEW as, NEW todo, todo \subseteq Nat, NEW p \in Producers, NEW a \in Standing, Follows(as, todo, p, a),
         p.kind = "diff", p.chan # <<>>, NEW q,
         q.next = p.next, q.act = p.act, q.pos = p.pos, q.left = p.left, q.queue = p.queue,
         q.chan = Tail(p.chan),
         q.kind = (IF Head(p.chan).op = "DiffEnd" THEN "none" ELSE p.kind),
         q.thread = (IF Head(p.chan).op = "DiffEnd" THEN "none" ELSE p.thread)
  PROVE  \E d \in Standing : Takes(as, todo, a, Head(p.chan), d) /\ Follows(as, todo, q, d)
  <1> DEFINE i == p.act
             f == Head(p.chan)
  <1>1. /\ i \in todo /\ as[i].out = "diff" /\ p.next = i + 1 /\ InDiff(as, todo, p, a)
    BY DEF Follows
  <1>2. p.thread = "run" /\ Remaining(as, todo, p, a) /\ a = Inside(i, a.pos)
    BY <1>1 DEF InDiff, Silent
  <1>3. p.chan \in Seq(Parts) /\ p.queue \in Seq(Parts)
    BY <1>2 DEF Remaining
  <1>4. PICK b : Carries(as, todo, a, p.chan, b) /\ Carries(as, todo, b, p.queue, Outside(i + 1))
    BY <1>2 DEF Remaining
  <1>5. Onward(as, todo, a, p.chan, b)
    BY <1>3, <1>4, CarriesHead
  <1>6. PICK d : d \in Standing /\ Takes(as, todo, a, f, d) /\ Carries(as, todo, d, Tail(p.chan), b)
    BY <1>5 DEF Onward
  <1>7. f \in Parts /\ Tail(p.chan) \in Seq(Parts)
    BY <1>3, HeadTailProperties
  <1>8. f.op \in {"copy", "bytes", "DiffEnd"} /\ f.act \in Nat \ {0} /\ i \in Nat
    BY <1>7, ProducerFields DEF Parts, Carried
  <1>9. TakesBytes(as, a, f, d) \/ TakesEnd(as, a, f, d)
    BY <1>6, <1>8, TakesKinds
  <1>10. f.act = i
    <2>1. \E n, m : a = Inside(f.act, n) /\ a = Inside(i, m)
      BY <1>2, <1>9 DEF TakesBytes, TakesEnd
    <2> HIDE DEF f, i
    <2> QED
      BY <2>1 DEF Inside
  <1> HIDE DEF f
  <1>11. CASE f.op = "DiffEnd"
    <2>1. TakesEnd(as, a, f, d)
      BY <1>6, <1>11, TakesKinds
    <2>2. d = Outside(i + 1)
      BY <1>10, <2>1 DEF TakesEnd
    <2>3. Tail(p.chan) = <<>> /\ b = Outside(i + 1)
      BY <1>6, <1>7, <2>2, PartsEnd
    <2>4. p.queue = <<>>
      BY <1>3, <1>4, <2>3, PartsEnd
    <2>5. q.kind = "none" /\ q.thread = "none" /\ q.chan = <<>> /\ q.queue = <<>> /\ q.next = i + 1
      BY <1>1, <1>11, <2>3, <2>4 DEF f
    <2>6. d.act = 0 /\ d.pos = 0 /\ d.upto = i + 1
      BY <2>2 DEF Outside
    <2>7. (\A j \in todo : j < i + 1 \/ j >= i + 1) /\ i + 1 <= i + 1
      <3>1. i \in Nat /\ \A j \in todo : j \in Nat
        BY <1>8
      <3> HIDE DEF i
      <3>2. \A j \in todo : j < i + 1 \/ j >= i + 1
        BY ONLY <3>1
      <3>3. i + 1 <= i + 1
        BY ONLY <3>1
      <3> QED
        BY ONLY <3>2, <3>3
    <2>8. Apart(todo, q, d)
      BY <2>5, <2>6, <2>7 DEF Apart, Silent
    <2>9. Follows(as, todo, q, d)
      BY <2>5, <2>8 DEF Follows
    <2> QED
      BY <1>6, <2>9 DEF f
  <1>12. CASE f.op # "DiffEnd"
    <2>1. TakesBytes(as, a, f, d)
      BY <1>6, <1>8, <1>12, TakesKinds
    <2>2. d = Inside(i, d.pos)
      BY <1>10, <2>1 DEF TakesBytes, Inside
    <2>3. q.kind = "diff" /\ q.thread = "run" /\ q.chan = Tail(p.chan) /\ q.queue = p.queue
      BY <1>2, <1>12 DEF f
    <2>4. Remaining(as, todo, q, d)
      BY <1>3, <1>4, <1>6, <1>7, <2>3 DEF Remaining
    <2>5. InDiff(as, todo, q, d)
      BY <2>2, <2>3, <2>4 DEF InDiff
    <2>6. Follows(as, todo, q, d)
      BY <1>1, <2>3, <2>5 DEF Follows
    <2> QED
      BY <1>6, <2>6 DEF f
  <1> QED
    BY <1>11, <1>12

(* and that begins the next output i.                                       *)
LEMMA OutputStarts ==
  ASSUME NEW as, NEW todo, todo \subseteq Nat, NEW p \in Producers, NEW a \in Standing, Follows(as, todo, p, a),
         p.kind = "none", NEW i \in todo, i # 0, i >= p.next, \A j \in todo : j >= p.next => i <= j,
         as[i].out \in {"file", "diff"}, NEW f, f.act = i, f.op = BeginOp(as[i]), NEW q,
         q.next = i + 1, q.act = i, q.kind = as[i].out, q.queue = p.queue, q.chan = p.chan,
         as[i].out = "file" => q.thread = p.thread /\ q.pos = 0 /\ q.left = Len(as[i].new),
         as[i].out = "diff" => q.thread = "start",
         as[i].new \in Seq(Byte)
  PROVE  \E d \in Standing : Takes(as, todo, a, f, d) /\ Follows(as, todo, q, d)
  <1>1. Apart(todo, p, a)
    BY DEF Follows
  <1>2. p.thread = "none" /\ Silent(p) /\ a.act = 0 /\ a.pos = 0
        /\ a.upto <= p.next /\ \A j \in todo : j < a.upto \/ j >= p.next
    BY <1>1 DEF Apart
  <1> DEFINE d == Inside(i, 0)
             u == a.upto
             n == p.next
  <1>3. u \in Nat /\ n \in Nat /\ i \in Nat /\ \A j \in todo : j \in Nat
    BY ProducerFields DEF Standing
  <1>4. d \in Standing /\ d.pos = 0 /\ d.act = i
    BY <1>3 DEF Inside, Standing
  <1>5. u <= n /\ (\A j \in todo : j < u \/ j >= n) /\ i >= n /\ \A j \in todo : j >= n => i <= j
    BY <1>2
  <1>6. u <= i /\ \A j \in todo : j < u \/ j >= i
    <2> HIDE DEF u, n
    <2> QED
      BY <1>3, <1>5
  <1> HIDE DEF u, n
  <1>7. TakesBegin(as, todo, a, f, d)
    BY <1>2, <1>6 DEF TakesBegin, u
  <1>8. Silent(q)
    BY <1>2 DEF Silent
  <1>9. Follows(as, todo, q, d)
    <2>1. CASE as[i].out = "file"
      <3>1. Len(as[i].new) \in Nat
        BY LenProperties
      <3>2. q.pos + q.left = Len(as[q.act].new)
        <4> DEFINE l == Len(as[i].new)
        <4>1. l \in Nat /\ q.pos = 0 /\ q.left = l
          BY <2>1, <3>1
        <4> HIDE DEF l
        <4>2. q.pos + q.left = l
          BY <4>1
        <4> QED
          BY <4>2 DEF l
      <3>3. InFile(as, q, d)
        BY <1>2, <1>8, <2>1, <3>2 DEF InFile
      <3> QED
        BY <2>1, <3>3 DEF Follows
    <2>2. CASE as[i].out = "diff"
      <3>1. InDiff(as, todo, q, d)
        BY <1>4, <1>8, <2>2 DEF InDiff
      <3> QED
        BY <2>2, <3>1 DEF Follows
    <2> QED
      BY <2>1, <2>2
  <1> QED
    BY <1>4, <1>7, <1>9 DEF Takes

-----------------------------------------------------------------------------
(* What an output becomes. *)

(* A clone has what it was made of, beyond what the frames have made.       *)
Beyond(d, o, p) ==
  \A k \in Nat : k > p => (k <= Len(d) <=> k <= Len(o)) /\ (k <= Len(d) => d[k] = o[k])

LEMMA BeyondSlice ==
  ASSUME NEW V, NEW d \in Seq(V), NEW o \in Seq(V), NEW p \in Nat, NEW n \in Nat, Beyond(d, o, p)
  PROVE  Slice(d, p, n) = Slice(o, p, n)
  <1> DEFINE ld == Len(d)
             lo == Len(o)
             e == Least(p + n, ld)
             f == Least(p + n, lo)
  <1>1. ld \in Nat /\ lo \in Nat
    BY LenProperties
  <1>2. \A k \in Nat : k > p => (k <= ld <=> k <= lo) /\ (k <= ld => d[k] = o[k])
    BY DEF Beyond
  <1>3. Slice(d, p, n) = SubSeq(d, p + 1, e) /\ Slice(o, p, n) = SubSeq(o, p + 1, f)
    BY DEF Slice
  <1>4. CASE ld <= p
    <2>1. lo <= p
      <3> HIDE DEF ld, lo
      <3> QED
        BY <1>1, <1>2, <1>4
    <2>2. e < p + 1 /\ f < p + 1 /\ e \in Int /\ f \in Int /\ p + 1 \in Int
      <3> HIDE DEF ld, lo
      <3> QED
        BY <1>1, <1>4, <2>1 DEF Least
    <2>3. SubSeq(d, p + 1, e) = <<>> /\ SubSeq(o, p + 1, f) = <<>>
      <3> HIDE DEF e, f
      <3> QED
        BY <2>2, SubSeqEmpty
    <2> QED
      BY <1>3, <2>3
  <1>5. CASE ld > p
    <2>1. lo = ld
      <3> HIDE DEF ld, lo
      <3> QED
        BY <1>1, <1>2, <1>5
    <2>2. e = f /\ e \in Int /\ p + 1 \in Int /\ e <= ld
      <3> HIDE DEF ld, lo
      <3> QED
        BY <1>1, <1>5, <2>1 DEF Least
    <2>3. \A i \in (p + 1)..e : i \in 1..ld /\ i \in 1..lo /\ d[i] = o[i]
      <3> HIDE DEF e, f, ld, lo
      <3> SUFFICES ASSUME NEW i \in (p + 1)..e PROVE i \in 1..ld /\ i \in 1..lo /\ d[i] = o[i]
        OBVIOUS
      <3>1. i \in Nat /\ i > p /\ i <= ld /\ i \in 1..ld
        BY <1>1, <2>2
      <3>2. d[i] = o[i]
        BY <1>2, <3>1
      <3> QED
        BY <2>1, <3>1, <3>2
    <2>4. \A i \in (p + 1)..e : d[i] \in V /\ o[i] \in V
      BY <2>3, ElementOfSeq
    <2> DEFINE x == SubSeq(d, p + 1, e)
               y == SubSeq(o, p + 1, e)
               l == IF p + 1 <= e THEN e - (p + 1) + 1 ELSE 0
    <2>5. /\ x \in Seq(V) /\ y \in Seq(V) /\ Len(x) = l /\ Len(y) = l
          /\ \A i \in 1..(e - (p + 1) + 1) : x[i] = d[p + 1 + i - 1] /\ y[i] = o[p + 1 + i - 1]
      <3> HIDE DEF e
      <3> QED
        BY <2>2, <2>4, SubSeqProperties
    <2>6. \A i \in 1..l : p + 1 + i - 1 \in (p + 1)..e /\ i \in 1..(e - (p + 1) + 1)
      <3> HIDE DEF e
      <3> QED
        BY <2>2
    <2>7. \A i \in 1..l : x[i] = y[i]
      <3> SUFFICES ASSUME NEW i \in 1..l PROVE x[i] = y[i]
        OBVIOUS
      <3> DEFINE k == p + 1 + i - 1
      <3>1. k \in (p + 1)..e /\ i \in 1..(e - (p + 1) + 1)
        BY <2>6
      <3>2. x[i] = d[k] /\ y[i] = o[k]
        <4> HIDE DEF x, y, l, e
        <4> QED
          BY <2>5, <3>1
      <3>3. d[k] = o[k]
        <4> HIDE DEF k
        <4> QED
          BY <2>3, <3>1
      <3> QED
        BY <3>2, <3>3
    <2>8. x = y
      <3> HIDE DEF x, y, l
      <3> QED
        BY <2>5, <2>7, SeqEqual
    <2> QED
      BY <1>3, <2>2, <2>8
  <1> QED
    BY <1>1, <1>4, <1>5

LEMMA BeyondMore ==
  ASSUME NEW d, NEW o, NEW p \in Nat, Beyond(d, o, p), NEW q \in Nat, p <= q
  PROVE  Beyond(d, o, q)
  BY DEF Beyond

(* What y \o t has where t is the rest of d.                                *)
LEMMA BeyondWritten ==
  ASSUME NEW V, NEW d \in Seq(V), NEW o, NEW p \in Nat, Beyond(d, o, p), NEW y \in Seq(V), Len(y) >= p
  PROVE  Beyond(y \o SubSeq(d, Len(y) + 1, Len(d)), o, Len(y))
  <1> DEFINE m == Len(y)
             ld == Len(d)
             t == SubSeq(d, m + 1, ld)
             w == y \o t
             lt == IF m + 1 <= ld THEN ld - (m + 1) + 1 ELSE 0
  <1>1. m \in Nat /\ ld \in Nat /\ m >= p
    BY LenProperties
  <1>2. Beyond(d, o, m)
    <2> HIDE DEF m
    <2> QED
      BY <1>1, BeyondMore
  <1>3. \A i \in (m + 1)..ld : d[i] \in V
    <2>1. \A i \in (m + 1)..ld : i \in 1..ld
      <3> HIDE DEF m, ld
      <3> QED
        BY <1>1
    <2> QED
      BY <2>1, ElementOfSeq
  <1>4. /\ t \in Seq(V) /\ Len(t) = lt
        /\ \A i \in 1..(ld - (m + 1) + 1) : t[i] = d[m + 1 + i - 1]
    <2>1. m + 1 \in Int /\ ld \in Int
      <3> HIDE DEF m, ld
      <3> QED
        BY <1>1
    <2> HIDE DEF m, ld
    <2> QED
      BY <1>3, <2>1, SubSeqProperties
  <1>5. /\ Len(w) = m + lt
        /\ \A i \in 1..(m + lt) : w[i] = IF i <= m THEN y[i] ELSE t[i - m]
    <2>1. /\ Len(w) = Len(y) + Len(t)
          /\ \A i \in 1..(Len(y) + Len(t)) : w[i] = IF i <= Len(y) THEN y[i] ELSE t[i - Len(y)]
      <3> HIDE DEF t
      <3> QED
        BY <1>4, ConcatProperties
    <2> HIDE DEF w, t
    <2> QED
      BY <1>4, <2>1
  <1>6. ASSUME NEW k \in Nat, k > m
        PROVE  (k <= Len(w) <=> k <= ld) /\ (k <= Len(w) => w[k] = d[k])
    <2> DEFINE i == k - m
    <2>1. k <= m + lt <=> k <= ld
      <3> HIDE DEF m, ld
      <3> QED
        BY <1>1, <1>6
    <2>2. ASSUME k <= ld PROVE w[k] = d[k]
      <3>1. k \in 1..(m + lt) /\ ~(k <= m) /\ i \in 1..(ld - (m + 1) + 1) /\ m + 1 + i - 1 = k
        <4> HIDE DEF m, ld
        <4> QED
          BY <1>1, <1>6, <2>2
      <3>2. w[k] = t[i]
        <4> HIDE DEF w, t, m, lt
        <4> QED
          BY <1>5, <3>1
      <3>3. t[i] = d[m + 1 + i - 1]
        <4> HIDE DEF w, t, m, lt, ld, i
        <4> QED
          BY <1>4, <3>1
      <3> QED
        BY <3>1, <3>2, <3>3
    <2> QED
      BY <1>5, <2>1, <2>2
  <1>7. \A k \in Nat : k > m => (k <= Len(d) <=> k <= Len(o)) /\ (k <= Len(d) => d[k] = o[k])
    BY <1>2 DEF Beyond
  <1>8. \A k \in Nat : k > m => (k <= Len(w) <=> k <= Len(o)) /\ (k <= Len(w) => w[k] = o[k])
    <2> HIDE DEF w, m
    <2> QED
      BY <1>6, <1>7 DEF ld
  <1>9. Beyond(w, o, m)
    <2> HIDE DEF w, m
    <2> QED
      BY <1>8 DEF Beyond
  <1> QED
    BY <1>9

(* A frame adds its piece to the output.                                    *)
Piled(o, x, w, source) ==
  /\ w.pos = o.pos + Len(x) /\ w.seen = o.seen \o x /\ w.owned \subseteq o.owned \cup Touched(o.pos, Len(x))
  /\ w.clone = o.clone /\ (w.clone => Beyond(w.data, source, w.pos))
LEMMA WritePiles ==
  ASSUME NEW V, NEW o, SoundOutput(V, o), NEW source \in Seq(V), o.clone => Beyond(o.data, source, o.pos),
         NEW x \in Seq(V), NEW w, w = Write(o, x)
  PROVE  Piled(o, x, w, source)
  <1> DEFINE d == o.data
             p == o.pos
             n == Len(x)
             t == SubSeq(d, p + n + 1, Len(d))
             y == o.seen \o x
  <1>1. /\ o = [data |-> d, pos |-> p, seen |-> o.seen, owned |-> o.owned, clone |-> o.clone]
        /\ d \in Seq(V) /\ p \in Nat /\ o.seen \in Seq(V) /\ p = Len(o.seen) /\ Slice(d, 0, p) = o.seen
    BY SoundParts
  <1>2. n \in Nat
    BY LenProperties
  <1>3. w.seen = y /\ w.clone = o.clone /\ w.owned = o.owned \cup Touched(p, n)
    <2>1. SoundOutput(V, o) /\ x \in Seq(V)
      OBVIOUS
    <2>2. /\ Write(o, x).seen = o.seen \o x /\ Write(o, x).clone = o.clone
          /\ Write(o, x).owned = o.owned \cup Touched(o.pos, Len(x))
      BY ONLY <2>1, WriteSound
    <2> QED
      BY ONLY <2>2, w = Write(o, x)
  <1>4. w.data = y \o t /\ w.pos = p + n
    <2>1. Write(o, x) = [o EXCEPT !.data = Slice(d, 0, p) \o x \o t, !.pos = @ + n, !.seen = @ \o x,
                                  !.owned = @ \cup Touched(p, n)]
      BY DEF Write
    <2> DEFINE z == Slice(d, 0, p) \o x \o t
               U == o.owned \cup Touched(p, n)
               q == p + n
               s == o.seen \o x
    <2>2. w = [[[[o EXCEPT !.data = z] EXCEPT !.pos = q] EXCEPT !.seen = s] EXCEPT !.owned = U]
      <3> HIDE DEF t, n
      <3> QED
        BY <1>1, <2>1
    <2>3. z = y \o t
      BY <1>1
    <2> HIDE DEF z, U, q, s, t
    <2>4. w.data = z /\ w.pos = q
      BY <1>1, <2>2
    <2> QED
      BY <2>3, <2>4 DEF q
  <1>5. y \in Seq(V) /\ Len(y) = p + n
    BY <1>1, ConcatProperties
  <1>6. ASSUME o.clone PROVE Beyond(w.data, source, w.pos)
    <2>1. Beyond(d, source, p)
      BY <1>6
    <2>2. p <= Len(y)
      <3> HIDE DEF n, p
      <3> QED
        BY <1>1, <1>2, <1>5
    <2> HIDE DEF y, d, p
    <2>3. Beyond(y \o SubSeq(d, Len(y) + 1, Len(d)), source, Len(y))
      BY <1>1, <1>5, <2>1, <2>2, BeyondWritten
    <2> QED
      BY <1>4, <1>5, <2>3 DEF t
  <1> QED
    BY <1>3, <1>4, <1>6 DEF Piled

LEMMA AppliesPiece ==
  ASSUME NEW V, NEW o, SoundOutput(V, o), NEW source \in Seq(V), o.clone => Beyond(o.data, source, o.pos),
         NEW f, f.offset \in Nat, f.len \in Nat, f.bytes \in Seq(V), NEW w, w = Apply(o, f, source)
  PROVE  Piece(source, f) \in Seq(V) /\ Piled(o, Piece(source, f), w, source)
  <1> DEFINE x == Piece(source, f)
  <1>1. x \in Seq(V)
    BY SliceType DEF Piece
  <1>2. CASE InPlace(o, f)
    <2> DEFINE d == o.data
               p == o.pos
               b == Slice(d, p, f.len)
               n == Len(b)
    <2>1. f.op = "copy" /\ f.offset = p /\ o.clone
      BY <1>2 DEF InPlace
    <2>2. /\ o = [data |-> d, pos |-> p, seen |-> o.seen, owned |-> o.owned, clone |-> o.clone]
          /\ d \in Seq(V) /\ p \in Nat
      BY SoundParts
    <2>3. x = b
      <3>1. x = Slice(source, p, f.len)
        BY <2>1 DEF Piece
      <3>2. Beyond(d, source, p)
        BY <2>1
      <3> HIDE DEF x, d, p
      <3> QED
        BY <2>2, <3>1, <3>2, BeyondSlice
    <2>4. w = [[o EXCEPT !.pos = p + n] EXCEPT !.seen = o.seen \o b]
      BY <1>2, <2>1 DEF Apply
    <2>5. w.data = d /\ w.pos = p + n /\ w.seen = o.seen \o b /\ w.owned = o.owned /\ w.clone = o.clone
      <3> HIDE DEF b, n
      <3> QED
        BY <2>2, <2>4
    <2>6. n \in Nat
      BY <1>1, <2>3, LenProperties
    <2>7. Beyond(d, source, p + n)
      <3>1. p + n \in Nat /\ p <= p + n
        <4> HIDE DEF n, p
        <4> QED
          BY <2>2, <2>6
      <3> HIDE DEF n, d, p
      <3> QED
        BY <2>1, <2>2, <3>1, BeyondMore DEF d, p
    <2> HIDE DEF x
    <2> QED
      BY <1>1, <2>3, <2>5, <2>7 DEF Piled, x
  <1>3. CASE ~InPlace(o, f)
    <2>1. w = Write(o, x)
      BY <1>3 DEF Apply, Piece
    <2> HIDE DEF x
    <2> QED
      BY <1>1, <2>1, WritePiles DEF x
  <1> QED
    BY <1>2, <1>3

-----------------------------------------------------------------------------
(* The invariant of a run that nobody disturbs. *)

(* Where the applier of a side stands, and the frames that its producer has  *)
(* sent to the other side.                                                  *)
Stand(s) == [act |-> open[s].act, upto |-> upto[s], pos |-> open[s].out.pos]
Sent(s) == IF s = turn THEN batch ELSE <<>>
InStep(s) ==
  /\ Leads(acts, Todo(Other(s)), Stand(Other(s)), Sent(s), prod[s])
  /\ s \in empty => Drained(Todo(Other(s)), prod[s])
Whole(s) ==
  open[s].out.clone => Beyond(open[s].out.data, acts[open[s].act].old, open[s].out.pos)
Signed == \A i \in Diffs : sigs[i] = Signature(acts[i].old)

(* No wave of the plan fails but for want of space, and the actions of a    *)
(* wave are still to be done when it starts.                                *)
PlanFits ==
  /\ \A m, n \in 1..Len(plan) : m # n => plan[m].acts \cap plan[n].acts = {}
  /\ \A n \in 1..Len(plan), s \in Sides :
       /\ job.limit >= 0 /\ BytesIn(acts, plan[n].acts, s) > job.limit => plan[n].over[s]
       /\ (s = "local" \/ "inodes" \in job.caps) \/ job.inodes[s] # 0 =>
            Cardinality(Outputs(acts, plan[n].acts, s)) <= job.inodes[s]
Intact ==
  \A s \in Sides, i \in 1..Len(acts) :
    /\ acts[i].side # s => files[s][i] = acts[i].new
    /\ acts[i].side = s /\ (\E n \in wave..Len(plan) : i \in plan[n].acts) => files[s][i] = acts[i].old

Steady ==
  /\ PlanFits /\ Intact /\ Accounted
  /\ at \notin Flowing => batch = <<>>
  /\ at \in Flowing => Signed /\ \A s \in Sides : InStep(s) /\ Whole(s)
  /\ at = "finish" => \A s \in Sides : Complete(s)
  /\ at = "finish remote" => Complete("remote")
Starved == \E s \in Sides : Needs(Wave, s) > Minus(Block * room[s], job.reserve)
Unchanged0 ==
  \A s \in Sides, i \in 1..Len(acts) : files[s][i] = IF acts[i].side = s THEN acts[i].old ELSE acts[i].new
Undisturbed ==
  used = 0 =>
    /\ at = "plan" => Unchanged0 /\ batch = <<>>
    /\ at \in {"wave", "sign"} \cup Busy => Steady
    /\ at = "failed" => Starved

LEMMA StarvedOrFits ==
  ASSUME Setup, at \in Busy \cup {"sign"}, \A s \in Sides : room[s] \in Nat
  PROVE  Starved \/ \A s \in Sides : Fits(s)
  <1>1. SUFFICES ASSUME NEW s \in Sides, ~Starved PROVE Fits(s)
    OBVIOUS
  <1> DEFINE x == Needs(Wave, s)
             y == Minus(Block * room[s], job.reserve)
  <1>2. x \in Int
    <2>1. x = Block * Asked(s) /\ Asked(s) \in Nat
      BY NeedsIs, WeightIs
    <2>2. Block \in Nat
      BY BlockIs
    <2> HIDE DEF x
    <2> QED
      BY <2>1, <2>2
  <1>3. y \in Int
    <2> DEFINE r == job.reserve
               k == room[s]
    <2>1. Block \in Nat /\ r \in Nat /\ k \in Nat
      BY BlockIs, GroundsHold DEF Grounds
    <2> HIDE DEF r, k
    <2> DEFINE z == Block * k
    <2>2. z \in Nat
      BY <2>1
    <2> HIDE DEF z
    <2>3. Minus(z, r) \in Int
      BY <2>1, <2>2 DEF Minus
    <2> QED
      BY <2>3 DEF z, k, r
  <1>4. ~(x > y)
    BY <1>1 DEF Starved
  <1> HIDE DEF x, y
  <1>5. x <= y
    BY <1>2, <1>3, <1>4
  <1> QED
    BY <1>5 DEF x, y, Fits

(* Steps that leave a part as it is. *)

LEMMA RunSame ==
  ASSUME UNCHANGED <<job, plan, wave, files>>
  PROVE  /\ acts' = acts /\ Diffs' = Diffs /\ (\A s \in Sides : Todo(s)' = Todo(s))
         /\ PlanFits' = PlanFits /\ Intact' = Intact
  BY DEF acts, Diffs, Todo, Wave, PlanFits, Intact

LEMMA OwnedSame ==
  ASSUME NEW s \in Sides, open'[s] = open[s], made'[s] = made[s]
  PROVE  OwnedBlocks(s)' = OwnedBlocks(s)
  BY DEF OwnedBlocks

LEMMA CountedSame ==
  ASSUME NEW s \in Sides, UNCHANGED <<job, room>>, free'[s] = free[s], open'[s] = open[s], made'[s] = made[s],
         Counted(s)
  PROVE  Counted(s)'
  <1>1. OwnedBlocks(s)' = OwnedBlocks(s) /\ acts' = acts
    BY OwnedSame DEF acts
  <1>2. Light(s)'
    BY <1>1 DEF Counted, Light
  <1> QED
    BY <1>1, <1>2 DEF Counted

LEMMA WholeSame ==
  ASSUME NEW s \in Sides, job' = job, open'[s] = open[s], Whole(s)
  PROVE  Whole(s)'
  BY DEF Whole, acts

LEMMA InStepSame ==
  ASSUME NEW s \in Sides, UNCHANGED <<job, plan, wave>>, prod'[s] = prod[s],
         open'[Other(s)] = open[Other(s)], upto'[Other(s)] = upto[Other(s)],
         Sent(s)' = Sent(s), s \in empty' => s \in empty \/ Drained(Todo(Other(s)), prod[s]), InStep(s)
  PROVE  InStep(s)'
  <1>1. Other(s) \in Sides
    BY SidesAre
  <1>2. acts' = acts /\ Todo(Other(s))' = Todo(Other(s))
    BY DEF acts, Todo, Wave
  <1>3. Stand(Other(s))' = Stand(Other(s))
    BY DEF Stand
  <1> QED
    BY <1>2, <1>3 DEF InStep

(* A step of the flow that touches neither space nor outputs.               *)
LEMMA FlowSteady ==
  ASSUME Steady, at \in Flowing, at' \in Flowing, UNCHANGED <<runVars, sigs, applyVars, spaceVars>>,
         \A s \in Sides : InStep(s)'
  PROVE  Steady'
  <1>1. UNCHANGED <<job, plan, wave, files, used, room, sigs, upto, open, made, free>>
    BY DEF runVars, applyVars, spaceVars
  <1>2. PlanFits' /\ Intact' /\ acts' = acts /\ Diffs' = Diffs
    BY <1>1, RunSame DEF Steady
  <1>3. at \in Busy /\ at' \in Busy /\ at' # "finish" /\ at' # "finish remote"
    BY DEF Flowing, Busy
  <1>4. \A s \in Sides : Counted(s)
    BY <1>3 DEF Steady, Accounted
  <1>5. \A s \in Sides : Counted(s)'
    BY <1>1, <1>4, CountedSame
  <1>6. \A s \in Sides : Whole(s)'
    BY <1>1, WholeSame DEF Steady
  <1>7. Signed'
    BY <1>1, <1>2 DEF Steady, Signed
  <1>8. Accounted'
    BY <1>5 DEF Accounted
  <1> QED
    BY <1>2, <1>3, <1>6, <1>7, <1>8 DEF Steady

(* The producers. *)

LEMMA SteadyFlow ==
  ASSUME Setup, Stream, Steady, at \in Flowing, NEW s \in Sides
  PROVE  /\ s = turn => /\ Other(s) = T /\ prod[s] = P
                        /\ Leads(acts, Todo(T), Stand(T), batch, P)
         /\ P \in Producers /\ prod[s] \in Producers /\ T \in Sides /\ turn \in Sides
         /\ Todo(s) \subseteq 1..Len(acts) /\ Todo(s) \subseteq Nat
         /\ InStep(s) /\ Counted(s) /\ Whole(s)
  <1>1. turn \in Sides /\ P \in Producers /\ \A r \in Sides : prod[r] \in Producers
    BY ProducersSound DEF ProducerSound
  <1>2. T \in Sides
    BY <1>1, SidesAre DEF T
  <1>3. InStep(s) /\ Whole(s)
    BY DEF Steady
  <1>4. at \in Busy
    BY DEF Flowing, Busy
  <1>5. Counted(s)
    BY <1>4 DEF Steady, Accounted
  <1>6. Todo(s) \subseteq 1..Len(acts) /\ Todo(s) \subseteq Nat
    BY <1>4, TodoFacts
  <1>7. s = turn => Other(s) = T /\ prod[s] = P /\ Leads(acts, Todo(T), Stand(T), batch, P)
    BY <1>3 DEF T, P, InStep, Sent
  <1> QED
    BY <1>1, <1>2, <1>3, <1>5, <1>6, <1>7

(* A frame that takes the applier on from what was sent.                    *)
LEMMA DeliverSteady ==
  ASSUME Setup, Stream, Steady, Fetching, NEW f \in Carried, NEW p \in Producers, p.held = <<>>, Deliver(f, p),
         NEW a, Carries(acts, Todo(T), Stand(T), batch, a), NEW d \in Standing,
         Takes(acts, Todo(T), a, f, d), Follows(acts, Todo(T), p, d)
  PROVE  Steady'
  <1>1. at = "fetch" /\ at \in Flowing /\ turn \notin empty
    BY DEF Fetching, Flowing
  <1> DEFINE fits == batch = <<>> \/ Payload(batch) + Len(f.bytes) <= BatchBytes
             h == [p EXCEPT !.held = <<f>>]
  <1>2. /\ prod' = [prod EXCEPT ![turn] = IF fits THEN p ELSE h]
        /\ batch' = IF fits THEN Append(batch, f) ELSE batch
        /\ UNCHANGED <<runVars, sigs, turn, empty, applyVars, spaceVars>>
        /\ at' \in Flowing
    BY DEF Deliver, Flowing
  <1>3. batch \in Seq(Carried) /\ prod \in [Sides -> Producers] /\ turn \in Sides
    BY DEF Stream
  <1>4. Leads(acts, Todo(T), Stand(T), Append(batch, f), p) /\ Leads(acts, Todo(T), Stand(T), batch, h)
    BY <1>3, LeadsMore
  <1>5. UNCHANGED <<job, plan, wave, files, upto, open>>
    BY <1>2 DEF runVars, applyVars
  <1>6. ASSUME NEW s \in Sides PROVE InStep(s)'
    <2>1. CASE s = turn
      <3>1. Other(s) = T /\ T \in Sides
        BY <2>1, <1>1, SteadyFlow
      <3>2. acts' = acts /\ Todo(Other(s))' = Todo(Other(s)) /\ Stand(Other(s))' = Stand(Other(s))
        BY <1>5 DEF acts, Todo, Wave, Stand
      <3>3. Sent(s)' = batch' /\ s \notin empty'
        BY <1>1, <1>2, <2>1 DEF Sent
      <3>4. prod'[s] = IF fits THEN p ELSE h
        BY <1>2, <1>3, <2>1
      <3> HIDE DEF fits, h
      <3>5. Leads(acts, Todo(T), Stand(T), batch', prod'[s])
        BY <1>2, <1>4, <3>4
      <3> QED
        BY <3>1, <3>2, <3>3, <3>5 DEF InStep
    <2>2. CASE s # turn
      <3>1. prod'[s] = prod[s]
        BY <1>2, <1>3, <2>2
      <3>2. Sent(s)' = Sent(s)
        BY <1>2, <2>2 DEF Sent
      <3>3. s \in empty' => s \in empty
        BY <1>2
      <3>4. InStep(s)
        BY <1>1, SteadyFlow
      <3> QED
        BY <1>5, <3>1, <3>2, <3>3, <3>4, InStepSame
    <2> QED
      BY <2>1, <2>2
  <1> QED
    BY <1>1, <1>2, <1>6, FlowSteady

(* What the producer holds back.                                            *)
LEMMA HeldSteady ==
  ASSUME Setup, Stream, Steady, FetchHeld
  PROVE  Steady'
  <1>1. Fetching /\ P.held # <<>> /\ at \in Flowing /\ turn \in Sides
    BY DEF FetchHeld, Fetching, Flowing, Stream
  <1> DEFINE f == Head(P.held)
             p == [P EXCEPT !.held = <<>>]
  <1>2. Deliver(f, p)
    BY DEF FetchHeld
  <1>3. Leads(acts, Todo(T), Stand(T), batch, P) /\ P \in Producers /\ batch \in Seq(Carried)
    BY <1>1, SteadyFlow DEF Stream
  <1>4. PICK a, c \in Standing : /\ Carries(acts, Todo(T), Stand(T), batch, a) /\ f \in Carried
                                 /\ Takes(acts, Todo(T), a, f, c) /\ Follows(acts, Todo(T), P, c)
    BY <1>1, <1>3, LeadsHeld
  <1>5. /\ p \in Producers /\ p.held = <<>>
        /\ p.next = P.next /\ p.act = P.act /\ p.kind = P.kind /\ p.pos = P.pos /\ p.left = P.left
        /\ p.thread = P.thread /\ p.queue = P.queue /\ p.chan = P.chan
    <2> DEFINE q == P
    <2>1. q \in Producers /\ p = [q EXCEPT !.held = <<>>]
      BY <1>3
    <2>2. <<>> \in Seq(Carried)
      OBVIOUS
    <2> HIDE DEF q, p
    <2> QED
      BY <2>1, <2>2 DEF Producers, q
  <1> HIDE DEF p, f
  <1>6. Follows(acts, Todo(T), p, c)
    BY <1>4, <1>5, FollowsSame
  <1> QED
    BY <1>1, <1>2, <1>4, <1>5, <1>6, DeliverSteady

(* What is to be delivered follows what was sent.                           *)
LEMMA Ready ==
  ASSUME Setup, Stream, Steady, Fetching, P.held = <<>>
  PROVE  /\ at \in Flowing /\ turn \in Sides /\ P \in Producers /\ T \in Sides /\ turn # T
         /\ Todo(T) \subseteq Nat
         /\ \E a \in Standing : Carries(acts, Todo(T), Stand(T), batch, a) /\ Follows(acts, Todo(T), P, a)
  <1>1. at \in Flowing /\ turn \in Sides /\ batch \in Seq(Carried)
    BY DEF Fetching, Flowing, Stream
  <1>2. P \in Producers /\ T \in Sides /\ Leads(acts, Todo(T), Stand(T), batch, P)
    BY <1>1, SteadyFlow
  <1>3. Todo(T) \subseteq Nat
    BY <1>1, <1>2, SteadyFlow
  <1>4. \E a \in Standing : Carries(acts, Todo(T), Stand(T), batch, a) /\ Follows(acts, Todo(T), P, a)
    BY <1>1, <1>2, LeadsHeld
  <1>5. turn # T
    BY <1>1, SidesAre DEF T
  <1> QED
    BY <1>1, <1>2, <1>3, <1>4, <1>5

(* The files of an output, on either side, while nobody disturbs.           *)
LEMMA FilesAre ==
  ASSUME Setup, Steady, at \in Busy \cup {"sign"}, NEW s \in Sides, NEW i \in Todo(s)
  PROVE  files[s][i] = acts[i].old /\ \A r \in Sides : r # s => files[r][i] = acts[i].new
  <1>1. i \in Wave.acts /\ acts[i].side = s /\ i \in 1..Len(acts)
    BY TodoFacts
  <1>2. wave \in 1..Len(plan) /\ Len(plan) \in Nat
    BY DEF Setup
  <1>3. wave \in wave..Len(plan) /\ i \in plan[wave].acts
    BY <1>1, <1>2 DEF Wave
  <1>4. files[s][i] = acts[i].old
    BY <1>1, <1>3 DEF Steady, Intact
  <1>5. ASSUME NEW r \in Sides, r # s PROVE files[r][i] = acts[i].new
    BY <1>1, <1>5 DEF Steady, Intact
  <1> QED
    BY <1>4, <1>5

(* The action that a producer is in.                                        *)
LEMMA UnderWay ==
  ASSUME Setup, Stream, Steady, Fetching, P.held = <<>>, P.kind # "none"
  PROVE  /\ P.act \in Todo(T) /\ P.act \in Nat \ {0} /\ acts[P.act].new \in Seq(Byte)
         /\ files[turn][P.act] = acts[P.act].new /\ P.kind = acts[P.act].out
  <1>1. /\ at \in Flowing /\ turn \in Sides /\ T \in Sides /\ turn # T
        /\ \E a \in Standing : Follows(acts, Todo(T), P, a)
    BY Ready
  <1>2. at \in Busy
    BY <1>1 DEF Flowing, Busy
  <1>3. P.act \in Todo(T) /\ P.kind = acts[P.act].out
    BY <1>1 DEF Follows
  <1> DEFINE i == P.act
  <1> HIDE DEF i
  <1>4. i \in Todo(T)
    BY <1>3 DEF i
  <1>5. i \in Nat \ {0} /\ acts[i].new \in Seq(Byte)
    BY <1>1, <1>2, <1>4, TodoFacts
  <1>6. files[turn][i] = acts[i].new
    BY <1>1, <1>2, <1>4, FilesAre
  <1> QED
    BY <1>3, <1>4, <1>5, <1>6 DEF i

LEMMA BytesSteady ==
  ASSUME Setup, Stream, Steady, FetchBytes
  PROVE  Steady'
  <1>1. Fetching /\ P.held = <<>> /\ P.kind = "file"
    BY DEF FetchBytes
  <1>2. /\ P.act \in Todo(T) /\ P.act \in Nat \ {0} /\ acts[P.act].new \in Seq(Byte)
        /\ files[turn][P.act] = acts[P.act].new
    BY <1>1, UnderWay
  <1>3. P \in Producers /\ Todo(T) \subseteq Nat
    BY <1>1, Ready
  <1>4. PICK a \in Standing : Carries(acts, Todo(T), Stand(T), batch, a) /\ Follows(acts, Todo(T), P, a)
    BY <1>1, Ready
  <1> DEFINE p == P
             i == p.act
             n == Smaller(Chunk, p.left)
             b == Slice(acts[i].new, p.pos, n)
             q == [p EXCEPT !.kind = "none"]
             r == [p EXCEPT !.pos = @ + Len(b), !.left = @ - Len(b)]
             e == Frame(i, "FileEnd")
             f == [Frame(i, "FileBytes") EXCEPT !.bytes = b]
  <1>5. /\ b = <<>> => Deliver(e, q)
        /\ b # <<>> => Deliver(f, r)
    BY <1>2 DEF FetchBytes
  <1>6. /\ b = <<>> => \E d \in Standing : Takes(acts, Todo(T), a, e, d) /\ Follows(acts, Todo(T), q, d)
        /\ b # <<>> => \E d \in Standing : Takes(acts, Todo(T), a, f, d) /\ Follows(acts, Todo(T), r, d)
    BY <1>1, <1>2, <1>3, <1>4, FileMoves
  <1>7. /\ p.pos \in Nat /\ p.left \in Nat /\ p \in Producers /\ i \in Nat \ {0} /\ p.held = <<>>
    BY <1>1, <1>2, <1>3, ProducerFields
  <1>8. n \in Nat /\ n <= p.left
    <2>1. Chunk \in Nat
      BY DeltaAssumption
    <2> DEFINE l == p.left
    <2> HIDE DEF l
    <2> QED
      BY <1>7, <2>1, SmallerType DEF l
  <1>9. b \in Seq(Byte) /\ Len(b) <= n /\ Len(b) \in Nat
    <2> DEFINE x == acts[i].new
               o == p.pos
    <2>1. x \in Seq(Byte) /\ o \in Nat
      BY <1>2, <1>7
    <2> HIDE DEF x, o, n
    <2>2. b = Slice(x, o, n)
      BY DEF x, o
    <2>3. Slice(x, o, n) \in Seq(Byte) /\ Len(Slice(x, o, n)) <= n
      BY ONLY <1>8, <2>1, SliceType
    <2> HIDE DEF b
    <2> QED
      BY <2>2, <2>3, LenProperties
  <1>10. e \in Carried /\ Frame(i, "FileBytes") \in Carried
    BY <1>7, FrameType DEF OpNames
  <1> HIDE DEF b
  <1>11. f \in Carried
    BY <1>9, <1>10 DEF Carried
  <1>12. q \in Producers /\ q.held = <<>>
    <2> HIDE DEF p
    <2> QED
      BY <1>7 DEF Producers
  <1>13. r \in Producers /\ r.held = <<>>
    <2> DEFINE u == p.pos + Len(b)
               v == p.left - Len(b)
    <2>1. u \in Nat /\ v \in Nat
      <3> DEFINE o == p.pos
                 l == p.left
                 m == Len(b)
      <3>1. o \in Nat /\ l \in Nat /\ m \in Nat /\ n \in Nat /\ n <= l /\ m <= n
        BY <1>7, <1>8, <1>9
      <3> HIDE DEF o, l, m, n
      <3>2. o + m \in Nat /\ l - m \in Nat
        BY <3>1
      <3> QED
        BY <3>2 DEF o, l, m
    <2>2. r = [[p EXCEPT !.pos = u] EXCEPT !.left = v]
      OBVIOUS
    <2> HIDE DEF u, v, r, p
    <2> QED
      BY <1>7, <2>1, <2>2 DEF Producers
  <1> HIDE DEF e, f, q, r
  <1>14. CASE b = <<>>
    <2>1. PICK d \in Standing : Takes(acts, Todo(T), a, e, d) /\ Follows(acts, Todo(T), q, d)
      BY <1>6, <1>14
    <2> QED
      BY <1>1, <1>4, <1>5, <1>10, <1>12, <1>14, <2>1, DeliverSteady
  <1>15. CASE b # <<>>
    <2>1. PICK d \in Standing : Takes(acts, Todo(T), a, f, d) /\ Follows(acts, Todo(T), r, d)
      BY <1>6, <1>15
    <2> QED
      BY <1>1, <1>4, <1>5, <1>11, <1>13, <1>15, <2>1, DeliverSteady
  <1> QED
    BY <1>14, <1>15

LEMMA DiffSteady ==
  ASSUME Setup, Stream, Steady, FetchDiff
  PROVE  Steady'
  <1>1. Fetching /\ P.held = <<>> /\ P.kind = "diff" /\ P.chan # <<>>
    BY DEF FetchDiff
  <1>2. P \in Producers /\ Todo(T) \subseteq Nat
    BY <1>1, Ready
  <1>3. PICK a \in Standing : Carries(acts, Todo(T), Stand(T), batch, a) /\ Follows(acts, Todo(T), P, a)
    BY <1>1, Ready
  <1> DEFINE p == P
             f == Head(p.chan)
             k == IF f.op = "DiffEnd" THEN "none" ELSE p.kind
             t == IF f.op = "DiffEnd" THEN "none" ELSE p.thread
             c == Tail(p.chan)
             q == [p EXCEPT !.chan = Tail(@),
                            !.kind = IF f.op = "DiffEnd" THEN "none" ELSE @,
                            !.thread = IF f.op = "DiffEnd" THEN "none" ELSE @]
  <1>4. Deliver(f, q)
    BY DEF FetchDiff
  <1>5. p \in Producers /\ p.chan \in Seq(Carried) /\ p.kind \in {"none", "file", "diff"}
        /\ p.thread \in {"none", "start", "run", "dead"} /\ p.held = <<>> /\ p.chan # <<>>
    BY <1>1, <1>2, ProducerFields
  <1> HIDE DEF p
  <1>6. f \in Carried /\ c \in Seq(Carried)
    BY <1>5, HeadTailProperties
  <1>7. q = [[[p EXCEPT !.chan = c] EXCEPT !.kind = k] EXCEPT !.thread = t]
    OBVIOUS
  <1>8. k \in {"none", "file", "diff"} /\ t \in {"none", "start", "run", "dead"}
    BY <1>5
  <1> HIDE DEF q, k, t, c
  <1>9. /\ q \in Producers /\ q.held = <<>> /\ q.chan = c /\ q.kind = k /\ q.thread = t
        /\ q.next = p.next /\ q.act = p.act /\ q.pos = p.pos /\ q.left = p.left /\ q.queue = p.queue
    BY <1>5, <1>6, <1>7, <1>8 DEF Producers
  <1>10. \E d \in Standing : Takes(acts, Todo(T), a, f, d) /\ Follows(acts, Todo(T), q, d)
    <2>1. Follows(acts, Todo(T), p, a) /\ p.kind = "diff"
      BY <1>1, <1>3 DEF p
    <2>2. q.chan = Tail(p.chan) /\ q.kind = (IF Head(p.chan).op = "DiffEnd" THEN "none" ELSE p.kind)
          /\ q.thread = (IF Head(p.chan).op = "DiffEnd" THEN "none" ELSE p.thread)
      BY <1>9 DEF c, k, t
    <2> QED
      BY <1>2, <1>5, <1>9, <2>1, <2>2, DiffMoves
  <1>11. PICK d \in Standing : Takes(acts, Todo(T), a, f, d) /\ Follows(acts, Todo(T), q, d)
    BY <1>10
  <1> HIDE DEF f
  <1> QED
    BY <1>1, <1>3, <1>4, <1>6, <1>9, <1>11, DeliverSteady

LEMMA FollowingIs ==
  ASSUME Setup, Stream, Steady, Fetching, P.held = <<>>, Ahead # {}
  PROVE  /\ Following \in Todo(T) /\ Following >= P.next /\ Following \in Nat \ {0}
         /\ \A j \in Todo(T) : j >= P.next => Following <= j
         /\ acts[Following].new \in Seq(Byte) /\ acts[Following].out \in {"file", "diff"}
         /\ files[turn][Following] = acts[Following].new /\ acts[Following].new # Gone
  <1>1. /\ at \in Flowing /\ turn \in Sides /\ T \in Sides /\ turn # T /\ Todo(T) \subseteq Nat
    BY Ready
  <1>2. at \in Busy
    BY <1>1 DEF Flowing, Busy
  <1>3. Ahead = {i \in Todo(T) : i >= P.next}
    BY DEF Ahead, T
  <1>4. \E x \in Ahead : \A y \in Ahead : x <= y
    <2>1. Ahead \in SUBSET Nat
      BY <1>1, <1>3
    <2> QED
      BY <2>1, NatMin
  <1> DEFINE i == Following
  <1>5. i \in Ahead /\ \A y \in Ahead : i <= y
    BY <1>4 DEF Following
  <1> HIDE DEF i
  <1>6. i \in Todo(T) /\ i >= P.next /\ \A j \in Todo(T) : j >= P.next => i <= j
    BY <1>3, <1>5
  <1>7. /\ i \in Nat \ {0} /\ acts[i].new \in Seq(Byte) /\ acts[i].out \in {"file", "diff"} /\ acts[i].new # Gone
    BY <1>1, <1>2, <1>6, TodoFacts
  <1>8. files[turn][i] = acts[i].new
    BY <1>1, <1>2, <1>6, FilesAre
  <1> QED
    BY <1>6, <1>7, <1>8 DEF i

LEMMA NextSteady ==
  ASSUME Setup, Stream, Steady, FetchNext
  PROVE  Steady'
  <1>1. Fetching /\ P.held = <<>> /\ P.kind = "none" /\ Ahead # {}
    BY DEF FetchNext
  <1>2. P \in Producers /\ Todo(T) \subseteq Nat
    BY <1>1, Ready
  <1>3. PICK a \in Standing : Carries(acts, Todo(T), Stand(T), batch, a) /\ Follows(acts, Todo(T), P, a)
    BY <1>1, Ready
  <1> DEFINE p == P
             i == Following
             o == acts[i].out
             x == i + 1
             y == Len(acts[i].new)
             q == [p EXCEPT !.next = i + 1, !.act = i, !.kind = acts[i].out]
             r == [q EXCEPT !.thread = "start"]
             m == [q EXCEPT !.pos = 0, !.left = y]
             e == Frame(i, "DiffBegin")
             f == Frame(i, "FileBegin")
  <1>4. /\ i \in Todo(T) /\ i >= p.next /\ i \in Nat \ {0}
        /\ \A j \in Todo(T) : j >= p.next => i <= j
        /\ acts[i].new \in Seq(Byte) /\ o \in {"file", "diff"}
        /\ files[turn][i] = acts[i].new
    BY <1>1, FollowingIs
  <1>5. /\ o = "diff" => Deliver(e, r)
        /\ o # "diff" => Deliver(f, m)
    BY <1>4 DEF FetchNext
  <1>6. y \in Nat
    BY <1>4, LenProperties
  <1>7. p \in Producers /\ p.kind = "none" /\ p.held = <<>> /\ Follows(acts, Todo(T), p, a)
    BY <1>1, <1>2, <1>3
  <1> HIDE DEF p
  <1>8. /\ q \in Producers /\ q.held = <<>> /\ q.next = x /\ q.act = i /\ q.kind = o
        /\ q.thread = p.thread /\ q.queue = p.queue /\ q.chan = p.chan
    <2>1. q = [[[p EXCEPT !.next = x] EXCEPT !.act = i] EXCEPT !.kind = o] /\ x \in Nat /\ i \in Nat
          /\ o \in {"none", "file", "diff"}
      <3> HIDE DEF i
      <3> QED
        BY <1>4
    <2> HIDE DEF q, o, x, i
    <2> QED
      BY <1>7, <2>1 DEF Producers
  <1> HIDE DEF q
  <1>9. /\ r \in Producers /\ r.held = <<>> /\ r.next = x /\ r.act = i /\ r.kind = o
        /\ r.thread = "start" /\ r.queue = p.queue /\ r.chan = p.chan
    <2> HIDE DEF i, o, x
    <2> QED
      BY <1>8 DEF Producers
  <1>10. /\ m \in Producers /\ m.held = <<>> /\ m.next = x /\ m.act = i /\ m.kind = o
         /\ m.thread = p.thread /\ m.queue = p.queue /\ m.chan = p.chan /\ m.pos = 0 /\ m.left = y
    <2>1. m = [[q EXCEPT !.pos = 0] EXCEPT !.left = y]
      OBVIOUS
    <2> HIDE DEF i, o, x, y, m
    <2> QED
      BY <1>6, <1>8, <2>1 DEF Producers
  <1>11. e \in Carried /\ f \in Carried
    BY <1>4, FrameType DEF OpNames
  <1>12. e.act = i /\ e.op = "DiffBegin" /\ f.act = i /\ f.op = "FileBegin"
    BY DEF Frame
  <1> HIDE DEF e, f, m, r
  <1>13. CASE o = "diff"
    <2>1. \E d \in Standing : Takes(acts, Todo(T), a, e, d) /\ Follows(acts, Todo(T), r, d)
      <3>1. e.op = BeginOp(acts[i])
        BY <1>12, <1>13 DEF BeginOp
      <3> HIDE DEF i
      <3> QED
        BY <1>2, <1>4, <1>7, <1>9, <1>12, <1>13, <3>1, OutputStarts
    <2>2. PICK d \in Standing : Takes(acts, Todo(T), a, e, d) /\ Follows(acts, Todo(T), r, d)
      BY <2>1
    <2> QED
      BY <1>1, <1>3, <1>5, <1>9, <1>11, <1>13, <2>2, DeliverSteady
  <1>14. CASE o = "file"
    <2>1. \E d \in Standing : Takes(acts, Todo(T), a, f, d) /\ Follows(acts, Todo(T), m, d)
      <3>1. f.op = BeginOp(acts[i])
        BY <1>12, <1>14 DEF BeginOp
      <3> HIDE DEF i
      <3> QED
        BY <1>2, <1>4, <1>7, <1>10, <1>12, <1>14, <3>1, OutputStarts
    <2>2. PICK d \in Standing : Takes(acts, Todo(T), a, f, d) /\ Follows(acts, Todo(T), m, d)
      BY <2>1
    <2> QED
      BY <1>1, <1>3, <1>5, <1>10, <1>11, <1>14, <2>2, DeliverSteady
  <1> QED
    BY <1>4, <1>13, <1>14

(* A producer that is asked and has nothing says that it is empty.          *)
LEMMA EndDrained ==
  ASSUME Setup, Stream, Steady, FetchEnd
  PROVE  Drained(Todo(T), P) /\ at \in Flowing /\ turn \in Sides /\ T \in Sides /\ turn # T
  <1>1. Fetching /\ P.held = <<>> /\ P.kind = "none" /\ Ahead = {}
    BY DEF FetchEnd
  <1>2. at \in Flowing /\ turn \in Sides /\ P \in Producers /\ Todo(T) \subseteq Nat /\ T \in Sides /\ turn # T
    BY <1>1, Ready
  <1>3. ASSUME NEW j \in Todo(T) PROVE j < P.next
    <2> DEFINE n == P.next
    <2>1. ~(j >= n)
      BY <1>1, <1>3 DEF Ahead, T
    <2>2. n \in Nat /\ j \in Nat
      BY <1>2, ProducerFields
    <2> HIDE DEF n
    <2>3. j < n
      BY <2>1, <2>2
    <2> QED
      BY <2>3 DEF n
  <1> QED
    BY <1>1, <1>2, <1>3 DEF Drained

LEMMA DrainedIsComplete ==
  ASSUME Setup, Stream, Staged, Steady, at \in Flowing, NEW s \in Sides,
         Sent(Other(s)) = <<>>, Drained(Todo(s), prod[Other(s)])
  PROVE  Complete(s)
  <1>1. Other(s) \in Sides /\ Other(Other(s)) = s
    BY SidesAre DEF Other, Sides
  <1>2. at \in Busy
    BY DEF Flowing, Busy
  <1>3. InStep(Other(s)) /\ prod[Other(s)] \in Producers /\ Todo(s) \subseteq Nat
    BY <1>1, SteadyFlow
  <1>4. Leads(acts, Todo(s), Stand(s), <<>>, prod[Other(s)])
    BY <1>1, <1>3 DEF InStep
  <1>5. Stand(s).act = 0 /\ \A j \in Todo(s) : j < Stand(s).upto
    BY <1>3, <1>4, LeadsDone
  <1>6. open[s].act = 0 /\ \A j \in Todo(s) : j < upto[s]
    BY <1>5 DEF Stand
  <1>7. OpenSound(s)
    BY <1>2 DEF Staged
  <1> QED
    BY <1>6, <1>7 DEF OpenSound, Complete

LEMMA EndSteady ==
  ASSUME Setup, Stream, Staged, Steady, FetchEnd
  PROVE  Steady'
  <1>1. Drained(Todo(T), P) /\ at \in Flowing /\ turn \in Sides /\ T \in Sides /\ turn # T /\ T = Other(turn)
    BY EndDrained DEF T
  <1>2. UNCHANGED <<runVars, sigs, prod, batch, applyVars, spaceVars>>
    BY DEF FetchEnd
  <1>3. UNCHANGED <<job, plan, wave, files, used, room, sigs, upto, open, made, free, prod, batch>>
    BY <1>2 DEF runVars, applyVars, spaceVars
  <1>4. \A s \in Sides : InStep(s)
    BY <1>1, SteadyFlow
  <1>5. CASE batch # <<>>
    <2>1. at' = "apply" /\ turn' = turn /\ empty' = empty
      BY <1>5 DEF FetchEnd
    <2>2. \A s \in Sides : InStep(s)'
      <3>1. \A s \in Sides : Sent(s)' = Sent(s)
        BY <1>3, <2>1 DEF Sent
      <3> QED
        BY <1>3, <1>4, <2>1, <3>1, InStepSame
    <2> QED
      BY <1>1, <1>2, <2>1, <2>2, FlowSteady DEF Flowing
  <1>6. CASE batch = <<>>
    <2>1. empty' = empty \cup {turn} /\ at' = (IF T \in empty THEN "finish" ELSE "fetch")
      BY <1>1, <1>6 DEF FetchEnd
    <2>2. \A s \in Sides : Sent(s) = <<>> /\ Sent(s)' = <<>>
      BY <1>3, <1>6 DEF Sent
    <2>3. \A s \in Sides : InStep(s)'
      <3>1. ASSUME NEW s \in Sides, s = turn PROVE Drained(Todo(Other(s)), prod[s])
        BY <1>1, <3>1 DEF P
      <3>2. \A s \in Sides : s \in empty' => s \in empty \/ Drained(Todo(Other(s)), prod[s])
        BY <2>1, <3>1
      <3> QED
        BY <1>3, <1>4, <2>2, <3>2, InStepSame
    <2>4. CASE T \notin empty
      BY <1>1, <1>2, <2>1, <2>3, <2>4, FlowSteady DEF Flowing
    <2>5. CASE T \in empty
      <3>1. at' = "finish"
        BY <2>1, <2>5
      <3>2. Other(T) = turn
        BY <1>1 DEF Other, Sides
      <3>3. Complete(T)
        <4>1. Drained(Todo(T), prod[Other(T)]) /\ Sent(Other(T)) = <<>>
          BY <1>1, <2>2, <3>2 DEF P
        <4> QED
          BY <1>1, <4>1, DrainedIsComplete
      <3>4. Complete(turn)
        <4>1. Drained(Todo(turn), prod[T])
          BY <1>1, <1>4, <2>5, <3>2 DEF InStep
        <4> QED
          BY <1>1, <2>2, <4>1, DrainedIsComplete
      <3>5. \A s \in Sides : s = T \/ s = turn
        BY <1>1 DEF Sides
      <3>6. \A s \in Sides : Complete(s)'
        <4>1. \A s \in Sides : Todo(s)' = Todo(s) /\ open' = open /\ upto' = upto
          BY <1>3, RunSame
        <4> QED
          BY <3>3, <3>4, <3>5, <4>1 DEF Complete
      <3>7. PlanFits' /\ Intact'
        BY <1>3, RunSame DEF Steady
      <3>8. \A s \in Sides : Counted(s)'
        <4>1. \A s \in Sides : Counted(s)
          BY <1>1, SteadyFlow
        <4> QED
          BY <1>3, <4>1, CountedSame
      <3>9. Accounted'
        BY <3>8 DEF Accounted
      <3>10. at' \notin Flowing /\ at' # "finish remote" /\ batch' = <<>>
        BY <1>3, <1>6, <3>1 DEF Flowing
      <3> QED
        BY <3>6, <3>7, <3>9, <3>10 DEF Steady
    <2> QED
      BY <2>4, <2>5
  <1> QED
    BY <1>5, <1>6

(* The thread of a diff. *)

LEMMA ThreadSteady ==
  ASSUME Setup, Stream, Steady, at \in Flowing, at' = at, NEW s \in Sides, NEW q,
         prod' = [prod EXCEPT ![s] = q], UNCHANGED <<runVars, sigs, turn, empty, batch, applyVars, spaceVars>>,
         Leads(acts, Todo(Other(s)), Stand(Other(s)), Sent(s), q),
         q.held = prod[s].held, q.kind = prod[s].kind, q.next = prod[s].next
  PROVE  Steady'
  <1>1. UNCHANGED <<job, plan, wave, files, upto, open>>
    BY DEF runVars, applyVars
  <1>2. \A r \in Sides : InStep(r)
    BY SteadyFlow
  <1>3. prod \in [Sides -> Producers]
    BY DEF Stream
  <1>4. \A r \in Sides : Sent(r)' = Sent(r)
    BY DEF Sent
  <1>5. ASSUME NEW r \in Sides PROVE InStep(r)'
    <2>1. CASE r # s
      <3>1. prod'[r] = prod[r]
        BY <1>3, <2>1
      <3> QED
        BY <1>1, <1>2, <1>4, <3>1, InStepSame
    <2>2. CASE r = s
      <3>1. prod'[s] = q
        BY <1>3
      <3>2. acts' = acts /\ Todo(Other(s))' = Todo(Other(s)) /\ Stand(Other(s))' = Stand(Other(s))
        BY <1>1 DEF acts, Todo, Wave, Stand
      <3>3. s \in empty => Drained(Todo(Other(s)), q)
        BY <1>2 DEF InStep, Drained
      <3> QED
        BY <1>4, <2>2, <3>1, <3>2, <3>3 DEF InStep
    <2> QED
      BY <2>1, <2>2
  <1> QED
    BY <1>5, FlowSteady

LEMMA StartsSteady ==
  ASSUME Setup, Stream, Steady, NEW s \in Sides, ThreadStarts(s)
  PROVE  Steady'
  <1> DEFINE p == prod[s]
             i == p.act
             t == "run"
             u == DiffFrames(i, Frames(sigs[i], files[s][i]))
             q == [[p EXCEPT !.thread = t] EXCEPT !.queue = u]
             o == Other(s)
  <1>1. /\ at \in Flowing /\ at' = at /\ p.thread = "start"
        /\ UNCHANGED <<runVars, sigs, turn, empty, batch, applyVars, spaceVars>>
    BY DEF ThreadStarts, Flowing
  <1>2. p \in Producers /\ prod \in [Sides -> Producers] /\ o \in Sides /\ o # s /\ InStep(s) /\ Sent(s) \in Seq(Carried)
    <2>1. batch \in Seq(Carried) /\ <<>> \in Seq(Carried)
      BY EmptySeq DEF Stream
    <2>2. Sent(s) \in Seq(Carried)
      BY <2>1 DEF Sent
    <2> QED
      BY <1>1, <2>2, SteadyFlow, SidesAre DEF Stream
  <1>3. Leads(acts, Todo(o), Stand(o), Sent(s), p)
    BY <1>2 DEF InStep
  <1>4. i \in Todo(o) /\ acts[i].out = "diff"
    <2>1. p.kind = "diff"
      BY <1>1, ProducersSound DEF ProducerSound
    <2>2. PICK c : Follows(acts, Todo(o), p, c)
      BY <1>3 DEF Leads
    <2> QED
      BY <2>1, <2>2 DEF Follows
  <1>5. at \in Busy
    BY <1>1 DEF Flowing, Busy
  <1> HIDE DEF i
  <1>6. /\ acts[i].old \in Seq(Byte) /\ acts[i].new \in Seq(Byte) /\ acts[i].new # Gone /\ i \in Nat \ {0}
        /\ i \in Diffs
    BY <1>2, <1>4, <1>5, TodoFacts
  <1>7. files[s][i] = acts[i].new
    BY <1>2, <1>4, <1>5, FilesAre
  <1>8. sigs[i] = Signature(acts[i].old)
    BY <1>1, <1>6 DEF Steady, Signed
  <1>9. /\ u \in Seq(Carried) /\ Carries(acts, Todo(o), Inside(i, 0), u, Outside(i + 1))
        /\ \A n \in DOMAIN u : u[n].op \in {"copy", "bytes", "DiffEnd"}
    BY <1>4, <1>6, <1>7, <1>8, DiffCarries
  <1>10. u \in Seq(Parts)
    <2> HIDE DEF u
    <2>1. DOMAIN u = 1..Len(u) /\ Len(u) \in Nat /\ \A n \in 1..Len(u) : u[n] \in Carried
      BY <1>9, LenProperties, ElementOfSeq
    <2>2. \A n \in 1..Len(u) : u[n] \in Parts
      BY <1>9, <2>1 DEF Parts
    <2> QED
      BY <1>9, <2>1, <2>2, SeqDef
  <1>11. prod' = [prod EXCEPT ![s] = q]
    <2> DEFINE a == [prod EXCEPT ![s].thread = t]
               x == [p EXCEPT !.thread = t]
    <2>1. prod' = [a EXCEPT ![s].queue = u]
      <3>1. i = prod[s].act
        BY DEF i
      <3> QED
        BY <1>6, <1>7, <3>1 DEF ThreadStarts, DiffFrames
    <2> HIDE DEF u, t
    <2>2. a = [prod EXCEPT ![s] = x]
      BY <1>2
    <2>3. prod' = [a EXCEPT ![s] = [a[s] EXCEPT !.queue = u]]
      <3> HIDE DEF x
      <3> QED
        BY <1>2, <2>1
    <2>4. a[s] = x
      <3> HIDE DEF x, a
      <3> QED
        BY <1>2, <2>2
    <2> HIDE DEF x, a
    <2>5. prod' = [a EXCEPT ![s] = [x EXCEPT !.queue = u]]
      BY <2>3, <2>4
    <2>6. prod' = [prod EXCEPT ![s] = [x EXCEPT !.queue = u]]
      BY <1>2, <2>2, <2>5
    <2> QED
      BY <2>6 DEF x
  <1> HIDE DEF u
  <1>12. /\ q.next = p.next /\ q.act = p.act /\ q.kind = p.kind /\ q.pos = p.pos /\ q.left = p.left
         /\ q.thread = "run" /\ q.queue = u /\ q.chan = p.chan /\ q.held = p.held
    <2> HIDE DEF p
    <2> QED
      BY <1>2 DEF Producers
  <1> HIDE DEF q
  <1>13. Leads(acts, Todo(o), Stand(o), Sent(s), q)
    <2>1. Carries(acts, Todo(o), Inside(p.act, 0), u, Outside(p.act + 1))
      BY <1>9 DEF i
    <2> HIDE DEF p, o
    <2> QED
      BY <1>1, <1>2, <1>3, <1>10, <1>12, <2>1, LeadsStarts
  <1> QED
    BY <1>1, <1>11, <1>12, <1>13, ThreadSteady

LEMMA SendsSteady ==
  ASSUME Setup, Stream, Steady, NEW s \in Sides, ThreadSends(s)
  PROVE  Steady'
  <1> DEFINE p == prod[s]
             a == Append(p.chan, Head(p.queue))
             b == Tail(p.queue)
             q == [[p EXCEPT !.chan = a] EXCEPT !.queue = b]
             o == Other(s)
  <1>1. /\ at \in Flowing /\ at' = at /\ p.thread = "run" /\ p.queue # <<>>
        /\ UNCHANGED <<runVars, sigs, turn, empty, batch, applyVars, spaceVars>>
    BY DEF ThreadSends, Flowing
  <1>2. p \in Producers /\ prod \in [Sides -> Producers] /\ InStep(s)
    BY <1>1, SteadyFlow DEF Stream
  <1>3. Leads(acts, Todo(o), Stand(o), Sent(s), p)
    BY <1>2 DEF InStep
  <1>4. prod' = [prod EXCEPT ![s] = q]
    <2> DEFINE x == [p EXCEPT !.chan = a]
               y == [prod EXCEPT ![s] = x]
    <2>1. [prod EXCEPT ![s].chan = Append(@, Head(prod[s].queue))] = y
      BY <1>2
    <2>2. y[s] = x /\ x.queue = p.queue
      BY <1>2 DEF Producers
    <2>3. prod' = [y EXCEPT ![s] = [x EXCEPT !.queue = b]]
      <3>1. prod' = [y EXCEPT ![s].queue = Tail(@)]
        BY <2>1 DEF ThreadSends
      <3> HIDE DEF x, y
      <3>2. prod' = [y EXCEPT ![s] = [y[s] EXCEPT !.queue = Tail(y[s].queue)]]
        BY <3>1
      <3> QED
        BY <2>2, <3>2
    <2> HIDE DEF x
    <2>4. prod' = [prod EXCEPT ![s] = [x EXCEPT !.queue = b]]
      BY <1>2, <2>3
    <2> QED
      BY <2>4 DEF x
  <1>5. /\ q.next = p.next /\ q.act = p.act /\ q.kind = p.kind /\ q.pos = p.pos /\ q.left = p.left
        /\ q.thread = "run" /\ q.queue = b /\ q.chan = a /\ q.held = p.held
    <2> HIDE DEF p, a, b
    <2> QED
      BY <1>1, <1>2 DEF Producers
  <1>6. Leads(acts, Todo(o), Stand(o), Sent(s), q)
    <2>1. q.queue = Tail(p.queue) /\ q.chan = Append(p.chan, Head(p.queue))
      BY <1>5
    <2> HIDE DEF q, p, o
    <2> QED
      BY <1>1, <1>2, <1>3, <1>5, <2>1, LeadsSends
  <1> HIDE DEF q
  <1> QED
    BY <1>1, <1>4, <1>5, <1>6, ThreadSteady

(* The applier. *)

LEMMA HeadTakes ==
  ASSUME Setup, Stream, Steady, Applying
  PROVE  \E c \in Standing : Takes(acts, Todo(T), Stand(T), F, c) /\ Leads(acts, Todo(T), c, Tail(batch), P)
  <1>1. at \in Flowing /\ turn \in Sides /\ batch \in Seq(Carried) /\ batch # <<>>
    BY DEF Applying, Flowing, Stream
  <1>2. Leads(acts, Todo(T), Stand(T), batch, P)
    BY <1>1, SteadyFlow
  <1> QED
    BY <1>1, <1>2, LeadsHead DEF F

(* A frame that is applied takes the applier to c.                          *)
LEMMA AppliedSteady ==
  ASSUME Setup, Stream, Steady, Applying, Applied, NEW s \in Sides, s = T,
         NEW c, Leads(acts, Todo(s), c, Tail(batch), P), Stand(s)' = c, Counted(s)', Whole(s)',
         \A r \in Sides : r # s => /\ open'[r] = open[r] /\ made'[r] = made[r]
                                   /\ upto'[r] = upto[r] /\ free'[r] = free[r]
  PROVE  Steady'
  <1>1. at \in Flowing /\ turn \in Sides /\ at' \in Flowing /\ at' # "finish" /\ at' # "finish remote"
    BY DEF Applying, Applied, Flowing, Stream
  <1>2. /\ batch' = Tail(batch) /\ turn' = (IF batch' = <<>> /\ s \notin empty THEN s ELSE turn)
        /\ UNCHANGED <<job, plan, wave, files, used, room, sigs, prod, empty>>
    BY DEF Applied, runVars
  <1>3. s # turn /\ Other(s) = turn /\ Other(turn) = s /\ \A r \in Sides : r = s \/ r = turn
    BY <1>1 DEF T, Other, Sides
  <1>4. \A r \in Sides : InStep(r) /\ Counted(r) /\ Whole(r)
    BY <1>1, SteadyFlow
  <1>5. acts' = acts /\ Diffs' = Diffs /\ (\A r \in Sides : Todo(r)' = Todo(r)) /\ PlanFits' /\ Intact'
    BY <1>2, RunSame DEF Steady
  <1>6. InStep(s)'
    <2>1. Sent(s) = <<>> /\ Sent(s)' = <<>>
      BY <1>2, <1>3 DEF Sent
    <2>2. open'[Other(s)] = open[Other(s)] /\ upto'[Other(s)] = upto[Other(s)]
      BY <1>1, <1>3
    <2> QED
      BY <1>2, <1>4, <2>1, <2>2, InStepSame
  <1>0. PICK r \in Sides : r = turn
    BY <1>1
  <1>7. InStep(r)'
    <2>1. Other(r) = s /\ r # s
      BY <1>0, <1>3
    <2>2. P = prod[r]
      BY <1>0 DEF P
    <2>3. Sent(r)' = Tail(batch)
      BY <1>0, <1>2, <2>1 DEF Sent
    <2>4. r \in empty => Drained(Todo(s), prod[r])
      BY <1>4, <2>1 DEF InStep
    <2>5. Todo(s)' = Todo(s)
      BY <1>5
    <2>6. Leads(acts, Todo(s), Stand(s)', Tail(batch), prod[r])
      BY <2>2
    <2> QED
      BY <1>2, <1>5, <2>1, <2>3, <2>4, <2>5, <2>6 DEF InStep
  <1>8. \A q \in Sides : q = r \/ q = s
    BY <1>0, <1>3
  <1>9. Counted(r)' /\ Whole(r)'
    <2>1. r # s /\ Counted(r) /\ Whole(r)
      BY <1>0, <1>3, <1>4
    <2>2. Counted(r)'
      BY <1>2, <2>1, CountedSame
    <2>3. Whole(r)'
      BY <1>2, <2>1, WholeSame
    <2> QED
      BY <2>2, <2>3
  <1>10. \A q \in Sides : Counted(q)' /\ Whole(q)' /\ InStep(q)'
    BY <1>6, <1>7, <1>8, <1>9
  <1>11. Accounted'
    BY <1>10 DEF Accounted
  <1>12. Signed'
    BY <1>1, <1>2, <1>5 DEF Steady, Signed
  <1> QED
    BY <1>1, <1>5, <1>10, <1>11, <1>12 DEF Steady

LEMMA BeginSteady ==
  ASSUME DetailInv, Steady, BeginOutput
  PROVE  Steady'
  <1>1. /\ Applying /\ Begins /\ BeginFits /\ Applied
        /\ upto' = [upto EXCEPT ![T] = F.act] /\ UNCHANGED <<free, made>>
        /\ open' = [open EXCEPT ![T] =
              [act |-> F.act,
               out |-> IF F.op = "DiffBegin" /\ job.cow[T] THEN CloneOf(files[T][F.act]) ELSE Fresh]]
    BY DEF BeginOutput
  <1>2. Setup /\ Disk /\ Stream /\ Staged
    BY DEF DetailInv
  <1>3. /\ at \in Busy /\ at \in Flowing /\ T \in Sides /\ F.act \in Nat \ {0}
    BY <1>1, <1>2, NextFrame
  <1>4. UNCHANGED <<job, wave, plan, files, room>>
    BY <1>1 DEF Applied, runVars
  <1>0. PICK s \in Sides : s = T
    BY <1>3
  <1> DEFINE i == F.act
             out == IF F.op = "DiffBegin" /\ job.cow[s] THEN CloneOf(files[s][F.act]) ELSE Fresh
             o == [act |-> i, out |-> out]
  <1>5. open[s].act = 0 /\ i \in Todo(s)
    BY <1>0, <1>1 DEF BeginFits
  <1>6. files[s][i] = acts[i].old /\ acts[i].old \in Seq(Byte) /\ acts[i].new \in Seq(Byte)
    BY <1>2, <1>3, <1>5, FilesAre, TodoFacts
  <1>7. PICK c \in Standing : Takes(acts, Todo(s), Stand(s), F, c) /\ Leads(acts, Todo(s), c, Tail(batch), P)
    BY <1>0, <1>1, <1>2, HeadTakes
  <1>8. c = Inside(i, 0)
    BY <1>1, <1>7, TakesKinds DEF Begins, TakesBegin
  <1>9. DOMAIN open = Sides /\ upto \in [Sides -> Nat] /\ OpenSound(s) /\ Counted(s)
    BY <1>2, <1>3, SteadyFlow DEF Staged
  <1>10. open[s] = NoOutput
    BY <1>5, <1>9 DEF OpenSound
  <1>11. /\ open'[s] = o /\ upto'[s] = i /\ made' = made /\ free' = free
         /\ \A r \in Sides : r # s => open'[r] = open[r] /\ upto'[r] = upto[r]
    <2>1. open' = [open EXCEPT ![s] = o] /\ upto' = [upto EXCEPT ![s] = i]
      BY <1>0, <1>1
    <2> HIDE DEF o, i
    <2> QED
      BY <1>1, <1>9, <2>1
  <1>12. /\ out.owned = {} /\ out.pos = 0 /\ out.seen = <<>>
         /\ (out.clone => out.data = acts[i].old)
    <2> DEFINE z == acts[i].old
    <2>1. out = CloneOf(z) \/ out = Fresh
      BY <1>6
    <2> HIDE DEF out, z
    <2>2. Fresh.owned = {} /\ Fresh.pos = 0 /\ Fresh.seen = <<>> /\ ~Fresh.clone
      BY DEF Fresh
    <2>3. CloneOf(z) = [data |-> z, pos |-> 0, seen |-> <<>>, owned |-> {}, clone |-> TRUE]
      <3> DEFINE e == <<>>
      <3> HIDE DEF e
      <3>1. Fresh = [data |-> e, pos |-> 0, seen |-> e, owned |-> {}, clone |-> FALSE]
        BY DEF Fresh, e
      <3>2. CloneOf(z) = [[Fresh EXCEPT !.data = z] EXCEPT !.clone = TRUE]
        BY <3>1 DEF CloneOf
      <3>3. CloneOf(z) = [data |-> z, pos |-> 0, seen |-> e, owned |-> {}, clone |-> TRUE]
        BY <3>1, <3>2
      <3> QED
        BY <3>3 DEF e
    <2>4. CloneOf(z).owned = {} /\ CloneOf(z).pos = 0 /\ CloneOf(z).seen = <<>> /\ CloneOf(z).data = z
      BY <2>3
    <2>5. out.owned = {} /\ out.pos = 0 /\ out.seen = <<>> /\ (out.clone => out.data = z)
      BY <2>1, <2>2, <2>4
    <2> QED
      BY <2>5 DEF z
  <1> HIDE DEF out
  <1>13. o.act = i /\ o.out = out
    OBVIOUS
  <1> HIDE DEF o
  <1>14. Stand(s)' = c
    BY <1>8, <1>11, <1>12, <1>13 DEF Stand, Inside
  <1>15. acts' = acts
    BY <1>4 DEF acts
  <1>16. Counted(s)'
    <2>1. open[s].out.owned = {}
      BY <1>10 DEF NoOutput, Fresh
    <2>2. OwnedBlocks(s)' = OwnedBlocks(s)
      BY <1>11, <1>12, <1>13, <2>1 DEF OwnedBlocks
    <2>3. Light(s)'
      <3> DEFINE x == acts[i].new
      <3>1. Slice(x, 0, 0) = <<>> /\ 0 <= Len(x)
        <4>1. Len(x) \in Nat
          BY <1>6, LenProperties
        <4>2. Least(0 + 0, Len(x)) = 0
          BY <4>1 DEF Least
        <4>3. Slice(x, 0, 0) = SubSeq(x, 1, 0)
          BY <4>2 DEF Slice
        <4> QED
          BY <4>1, <4>3, SubSeqEmpty
      <3>2. \A j \in DOMAIN made[s] : made[s][j].owned \subseteq Touched(0, acts[j].size)
        BY <1>9 DEF Counted, Light
      <3> HIDE DEF i
      <3> QED
        BY <1>11, <1>12, <1>13, <1>15, <3>1, <3>2 DEF Light
    <2> QED
      BY <1>4, <1>9, <1>11, <2>2, <2>3 DEF Counted
  <1>17. Whole(s)'
    <2> HIDE DEF i
    <2>1. ASSUME out.clone PROVE Beyond(out.data, acts[i].old, out.pos)
      BY <1>12, <2>1 DEF Beyond
    <2> QED
      BY <1>11, <1>13, <1>15, <2>1 DEF Whole
  <1> HIDE DEF i
  <1> QED
    BY <1>0, <1>1, <1>2, <1>7, <1>11, <1>14, <1>16, <1>17, AppliedSteady

LEMMA WriteSteady ==
  ASSUME DetailInv, Steady, WriteOutput
  PROVE  Steady'
  <1>1. /\ Applying /\ Moves /\ WriteFits /\ Applied
        /\ free' = [free EXCEPT ![T] = @ - NewBlocks]
        /\ open' = [open EXCEPT ![T].out = Written] /\ UNCHANGED <<upto, made>>
    BY DEF WriteOutput
  <1>2. Setup /\ Disk /\ Stream /\ Staged
    BY DEF DetailInv
  <1>3. /\ at \in Busy /\ at \in Flowing /\ T \in Sides /\ F.act \in Nat \ {0} /\ F.offset \in Nat /\ F.len \in Nat
        /\ F.bytes \in Seq(Byte)
    BY <1>1, <1>2, NextFrame
  <1>4. UNCHANGED <<job, wave, plan, files, room>>
    BY <1>1 DEF Applied, runVars
  <1>0. PICK s \in Sides : s = T
    BY <1>3
  <1> DEFINE i == F.act
             o == open[s].out
             w == Written
             x == Piece(acts[i].old, F)
             y == acts[i].new
             k == NewBlocks
             l == Len(x)
             n == o.pos
  <1>5. open[s].act = i
    BY <1>0, <1>1 DEF WriteFits
  <1>6. DOMAIN open = Sides /\ upto \in [Sides -> Nat] /\ OpenSound(s) /\ Counted(s) /\ Whole(s)
    BY <1>2, <1>3, SteadyFlow DEF Staged
  <1>7. i \in Todo(s) /\ SoundOutput(Byte, o) /\ upto[s] = i /\ open[s] = [act |-> i, out |-> o]
    BY <1>3, <1>5, <1>6 DEF OpenSound
  <1>8. files[s][i] = acts[i].old /\ acts[i].old \in Seq(Byte) /\ y \in Seq(Byte)
    BY <1>2, <1>3, <1>7, FilesAre, TodoFacts
  <1>9. PICK c \in Standing : Takes(acts, Todo(s), Stand(s), F, c) /\ Leads(acts, Todo(s), c, Tail(batch), P)
    BY <1>0, <1>1, <1>2, HeadTakes
  <1>10. n + l <= Len(y) /\ x = Slice(y, n, l) /\ c = Inside(i, n + l)
    <2>1. TakesBytes(acts, Stand(s), F, c)
      BY <1>1, <1>9, TakesKinds DEF Moves
    <2>2. Stand(s).pos = n
      BY DEF Stand
    <2> QED
      BY <2>1, <2>2 DEF TakesBytes
  <1>11. x \in Seq(Byte) /\ Piled(o, x, w, acts[i].old)
    <2>1. w = Apply(o, F, acts[i].old)
      BY <1>0, <1>8 DEF Written
    <2>2. o.clone => Beyond(o.data, acts[i].old, o.pos)
      BY <1>5, <1>6 DEF Whole
    <2> DEFINE old == acts[i].old
    <2> HIDE DEF o, w, i, old
    <2> QED
      BY <1>3, <1>7, <1>8, <2>1, <2>2, AppliesPiece DEF old
  <1>12. l \in Nat /\ n \in Nat /\ Len(y) \in Nat
    BY <1>7, <1>8, <1>11, LenProperties, SoundParts
  <1>13. /\ open'[s] = [act |-> i, out |-> w] /\ upto' = upto /\ made' = made
         /\ free'[s] = free[s] - k /\ k = Cardinality(w.owned) - Cardinality(o.owned)
         /\ \A r \in Sides : r # s => open'[r] = open[r] /\ free'[r] = free[r]
    <2>1. open' = [open EXCEPT ![s].out = w] /\ free' = [free EXCEPT ![s] = @ - k] /\ free \in [Sides -> Nat]
      BY <1>0, <1>1, <1>2 DEF Disk
    <2>2. k = Cardinality(w.owned) - Cardinality(o.owned)
      BY <1>0 DEF NewBlocks
    <2> HIDE DEF w, o, i, k
    <2>3. open'[s] = [open[s] EXCEPT !.out = w]
      BY <1>6, <2>1
    <2> QED
      BY <1>1, <1>6, <1>7, <2>1, <2>2, <2>3
  <1>14. w.pos = n + l /\ w.seen = o.seen \o x /\ w.owned \subseteq o.owned \cup Touched(n, l)
         /\ w.clone = o.clone /\ (w.clone => Beyond(w.data, acts[i].old, w.pos))
    BY <1>11 DEF Piled
  <1>15. acts' = acts
    BY <1>4 DEF acts
  <1> DEFINE v == [act |-> i, out |-> w]
  <1>16. v.act = i /\ v.out = w
    OBVIOUS
  <1>17. open'[s] = v
    BY <1>13
  <1>18. Stand(s)' = c
    <2> HIDE DEF v, w, i
    <2> QED
      BY <1>7, <1>10, <1>13, <1>14, <1>16, <1>17 DEF Stand, Inside
  <1>19. /\ n <= Len(y) /\ o.seen = Slice(y, 0, n) /\ o.owned \subseteq Touched(0, n)
         /\ \A j \in DOMAIN made[s] : made[s][j].owned \subseteq Touched(0, acts[j].size)
         /\ room[s] \in Nat /\ free[s] + OwnedBlocks(s) = room[s]
    BY <1>3, <1>5, <1>6 DEF Counted, Light
  <1>20. /\ w.seen = Slice(y, 0, w.pos) /\ w.owned \subseteq Touched(0, w.pos)
    <2>1. Touched(0, n) \cup Touched(n, l) = Touched(0, n + l)
      BY <1>12, TouchedMore
    <2>2. Slice(y, 0, n) \o Slice(y, 0 + n, l) = Slice(y, 0, n + l)
      <3>1. y \in Seq(Byte) /\ n \in Nat /\ l \in Nat /\ 0 \in Nat
        BY <1>8, <1>12
      <3> HIDE DEF y, n, l
      <3> QED
        BY ONLY <3>1, SliceJoins
    <2>3. 0 + n = n
      BY <1>12
    <2> HIDE DEF w, o, n, l, x, y
    <2> QED
      BY <1>10, <1>14, <1>19, <2>1, <2>2, <2>3
  <1>21. Light(s)'
    <2> HIDE DEF w, v, i
    <2> QED
      BY <1>10, <1>13, <1>14, <1>15, <1>16, <1>17, <1>19, <1>20 DEF Light, i
  <1>22. Counted(s)'
    <2> DEFINE m == MadeBlocks(s)
               a == Cardinality(o.owned)
               b == Cardinality(w.owned)
    <2>1. OwnedBlocks(s) = a + m /\ OwnedBlocks(s)' = b + m
      <3> HIDE DEF w, v
      <3> QED
        BY <1>13, <1>16, <1>17 DEF OwnedBlocks, MadeBlocks
    <2>2. m \in Nat
      BY <1>2, <1>3, <1>6, MadeTakes DEF Counted
    <2>3. a \in Nat /\ free[s] \in Nat
      BY <1>2, <1>7, FS_CardinalityType, SoundParts DEF Disk
    <2>4. b \in Nat
      <3>1. IsFiniteSet(w.owned)
        <4>1. IsFiniteSet(Touched(0, w.pos))
          BY <1>12, <1>14, TouchedType
        <4> HIDE DEF w
        <4> QED
          BY <1>20, <4>1, FS_Subset
      <3> HIDE DEF w
      <3> QED
        BY <3>1, FS_CardinalityType
    <2> DEFINE g == free[s]
               h == room[s]
               e == free'[s]
    <2>5. e = g - (b - a) /\ g + (a + m) = h /\ h \in Nat
      BY <1>13, <1>19, <2>1
    <2> HIDE DEF m, a, b, g, h, e
    <2>6. e + (b + m) = h
      BY <2>2, <2>3, <2>4, <2>5 DEF g
    <2> QED
      BY <1>4, <1>19, <1>21, <2>1, <2>6 DEF Counted, e, h
  <1>23. Whole(s)'
    <2> HIDE DEF w, v, i
    <2> QED
      BY <1>14, <1>15, <1>16, <1>17 DEF Whole
  <1> HIDE DEF w, v, i, k, x, y, l, n, o
  <1> QED
    BY <1>0, <1>1, <1>2, <1>9, <1>13, <1>18, <1>22, <1>23, AppliedSteady

LEMMA SumAdds ==
  ASSUME NEW D, IsFiniteSet(D), NEW i, i \notin D, NEW f, NEW g,
         \A j \in D : f[j] \in Nat /\ f[j] = g[j], g[i] \in Nat
  PROVE  SumFunctionOnSet(g, D \cup {i}) = g[i] + SumFunctionOnSet(f, D)
  <1> DEFINE U == D \cup {i}
  <1>1. IsFiniteSet(U)
    BY FS_AddElement
  <1>2. \A j \in U : g[j] \in Nat
    OBVIOUS
  <1>3. i \in U /\ U \ {i} = D
    OBVIOUS
  <1> HIDE DEF U
  <1>4. SumFunctionOnSet(g, U) = g[i] + SumFunctionOnSet(g, U \ {i})
    BY <1>1, <1>2, <1>3, SumRemove
  <1>5. SumFunctionOnSet(f, D) = SumFunctionOnSet(g, D)
    BY SumSame
  <1> QED
    BY <1>3, <1>4, <1>5 DEF U

(* What is made has the blocks that the output had.                         *)
LEMMA MadeAdds ==
  ASSUME Setup, Staged, at \in Busy, NEW s \in Sides, NEW i, i \notin DOMAIN made[s],
         NEW w, IsFiniteSet(w.owned),
         made'[s] = [j \in DOMAIN made[s] \cup {i} |-> IF j = i THEN w ELSE made[s][j]]
  PROVE  MadeBlocks(s)' = Cardinality(w.owned) + MadeBlocks(s)
  <1> DEFINE m == made[s]
             D == DOMAIN m
             f == [j \in D |-> Cardinality(m[j].owned)]
             x == [j \in D \cup {i} |-> IF j = i THEN w ELSE m[j]]
             g == [j \in DOMAIN x |-> Cardinality(x[j].owned)]
  <1>1. MadeSound(s)
    BY DEF Staged
  <1>2. IsFiniteSet(D)
    <2>1. D \subseteq Todo(s) /\ IsFiniteSet(Todo(s))
      BY <1>1, TodoFacts DEF MadeSound
    <2> QED
      BY <2>1, FS_Subset
  <1>3. \A j \in D : Cardinality(m[j].owned) \in Nat
    BY <1>1, FS_CardinalityType DEF MadeSound, SoundOutput
  <1>4. Cardinality(w.owned) \in Nat
    BY FS_CardinalityType
  <1>5. MadeBlocks(s) = SumFunction(f) /\ MadeBlocks(s)' = SumFunction(g)
    <2>1. made'[s] = x
      OBVIOUS
    <2> HIDE DEF x
    <2> QED
      BY <2>1 DEF MadeBlocks
  <1>6. DOMAIN x = D \cup {i} /\ (\A j \in D : x[j] = m[j]) /\ x[i] = w
    <2> HIDE DEF D, m
    <2> QED
      BY DEF D, m
  <1> HIDE DEF x, D, m
  <1>7. DOMAIN f = D /\ DOMAIN g = D \cup {i}
    BY <1>6
  <1>8. \A j \in D : f[j] = Cardinality(m[j].owned) /\ g[j] = Cardinality(m[j].owned)
    BY <1>6
  <1>9. g[i] = Cardinality(w.owned)
    BY <1>6
  <1> HIDE DEF f, g
  <1>10. i \notin D
    BY DEF D, m
  <1>12. (\A j \in D : f[j] \in Nat /\ f[j] = g[j]) /\ g[i] \in Nat
    BY <1>3, <1>4, <1>8, <1>9
  <1>11. SumFunctionOnSet(g, D \cup {i}) = g[i] + SumFunctionOnSet(f, D)
    BY ONLY <1>2, <1>10, <1>12, SumAdds
  <1> QED
    BY <1>5, <1>7, <1>9, <1>11 DEF SumFunction

LEMMA OutputSteady ==
  ASSUME DetailInv, Steady, EndOutput
  PROVE  Steady'
  <1>1. /\ Applying /\ Ends /\ EndFits /\ Applied /\ UNCHANGED free
        /\ made' = [made EXCEPT ![T] = [j \in DOMAIN made[T] \cup {F.act} |->
             IF j = F.act THEN Finished(open[T].out, F.op) ELSE made[T][j]]]
        /\ open' = [open EXCEPT ![T] = NoOutput] /\ upto' = [upto EXCEPT ![T] = F.act + 1]
    BY DEF EndOutput
  <1>2. Setup /\ Disk /\ Stream /\ Staged
    BY DEF DetailInv
  <1>3. /\ at \in Busy /\ at \in Flowing /\ T \in Sides /\ F.act \in Nat \ {0}
    BY <1>1, <1>2, NextFrame
  <1>4. UNCHANGED <<job, wave, plan, files, room>>
    BY <1>1 DEF Applied, runVars
  <1>0. PICK s \in Sides : s = T
    BY <1>3
  <1> DEFINE i == F.act
             o == open[s].out
             w == Finished(o, F.op)
             D == DOMAIN made[s]
             x == [j \in D \cup {i} |-> IF j = i THEN w ELSE made[s][j]]
  <1>5. open[s].act = i
    BY <1>0, <1>1 DEF EndFits
  <1>6. /\ DOMAIN open = Sides /\ DOMAIN made = Sides /\ upto \in [Sides -> Nat]
        /\ OpenSound(s) /\ MadeSound(s) /\ Counted(s)
    BY <1>2, <1>3, SteadyFlow DEF Staged
  <1>7. i \in Todo(s) /\ SoundOutput(Byte, o) /\ upto[s] = i
    BY <1>3, <1>5, <1>6 DEF OpenSound
  <1>8. acts[i].size = Len(acts[i].new) /\ i \in Nat
    BY <1>2, <1>3, <1>7, TodoFacts
  <1>9. PICK c \in Standing : Takes(acts, Todo(s), Stand(s), F, c) /\ Leads(acts, Todo(s), c, Tail(batch), P)
    BY <1>0, <1>1, <1>2, HeadTakes
  <1>10. c = Outside(i + 1) /\ o.pos = Len(acts[i].new)
    <2>1. TakesEnd(acts, Stand(s), F, c)
      BY <1>1, <1>9, TakesKinds DEF Ends
    <2>2. Stand(s).pos = o.pos
      BY DEF Stand
    <2> QED
      BY <2>1, <2>2 DEF TakesEnd, Inside
  <1>11. w.owned = o.owned
    <2>1. Truncate(o).owned = o.owned
      BY <1>7, TruncateSound
    <2> QED
      BY <2>1 DEF Finished
  <1>12. /\ open'[s] = NoOutput /\ upto'[s] = i + 1 /\ made'[s] = x /\ free' = free
         /\ \A r \in Sides : r # s => open'[r] = open[r] /\ upto'[r] = upto[r] /\ made'[r] = made[r]
    <2>1. made' = [made EXCEPT ![s] = x] /\ open' = [open EXCEPT ![s] = NoOutput]
          /\ upto' = [upto EXCEPT ![s] = i + 1]
      BY <1>0, <1>1
    <2> HIDE DEF x, i
    <2> QED
      BY <1>1, <1>6, <2>1
  <1>13. i \notin D
    <2>1. D = {j \in Todo(s) : j < upto[s]}
      BY <1>6 DEF MadeSound
    <2> HIDE DEF D, i
    <2> QED
      BY <1>7, <1>8, <2>1
  <1>14. DOMAIN x = D \cup {i} /\ (\A j \in D : x[j] = made[s][j]) /\ x[i] = w
    <2> HIDE DEF w, i, D
    <2> QED
      BY <1>13
  <1>15. acts' = acts
    BY <1>4 DEF acts
  <1>16. IsFiniteSet(w.owned) /\ Cardinality(w.owned) \in Nat /\ w.owned = o.owned
    <2>1. IsFiniteSet(o.owned)
      BY <1>7, SoundParts
    <2> HIDE DEF w, o
    <2> QED
      BY <1>11, <2>1, FS_CardinalityType
  <1>17. MadeBlocks(s)' = Cardinality(w.owned) + MadeBlocks(s)
    <2> HIDE DEF w, i
    <2> QED
      BY <1>2, <1>3, <1>12, <1>13, <1>16, MadeAdds
  <1>18. MadeBlocks(s) \in Nat
    BY <1>2, <1>3, <1>6, MadeTakes DEF Counted
  <1>19. Fresh.owned = {} /\ Fresh.pos = 0 /\ ~Fresh.clone /\ NoOutput.out = Fresh /\ NoOutput.act = 0
    BY DEF Fresh, NoOutput
  <1>20. OwnedBlocks(s)' = OwnedBlocks(s)
    <2>1. OwnedBlocks(s) = Cardinality(o.owned) + MadeBlocks(s)
      BY DEF OwnedBlocks, MadeBlocks
    <2>2. OwnedBlocks(s)' = Cardinality(NoOutput.out.owned) + MadeBlocks(s)'
      BY <1>12 DEF OwnedBlocks, MadeBlocks
    <2>3. Cardinality(NoOutput.out.owned) = 0
      BY <1>19, FS_EmptySet
    <2> DEFINE a == Cardinality(w.owned)
               m == MadeBlocks(s)
    <2>4. OwnedBlocks(s)' = 0 + (a + m) /\ OwnedBlocks(s) = a + m /\ a \in Nat /\ m \in Nat
      BY <1>16, <1>17, <1>18, <2>1, <2>2, <2>3
    <2> HIDE DEF a, m
    <2> QED
      BY <2>4
  <1>21. Light(s)'
    <2>1. o.owned \subseteq Touched(0, acts[i].size) /\ \A j \in D : made[s][j].owned \subseteq Touched(0, acts[j].size)
      BY <1>6, <1>8, <1>10 DEF Counted, Light
    <2> HIDE DEF x, w, i, D, o
    <2>2. \A j \in DOMAIN x : x[j].owned \subseteq Touched(0, acts[j].size)
      BY <1>14, <1>16, <2>1
    <2>3. open'[s].act = 0 /\ open'[s].out.owned = {}
      BY <1>12, <1>19
    <2> QED
      BY <1>12, <1>15, <2>2, <2>3 DEF Light
  <1>22. Counted(s)'
    BY <1>4, <1>6, <1>12, <1>20, <1>21 DEF Counted
  <1>23. Whole(s)'
    BY <1>12, <1>19 DEF Whole
  <1>24. Stand(s)' = c
    <2> HIDE DEF i
    <2> QED
      BY <1>10, <1>12, <1>19 DEF Stand, Outside
  <1> HIDE DEF x, w, i, D, o
  <1>25. \A r \in Sides : r # s => /\ open'[r] = open[r] /\ made'[r] = made[r]
                                   /\ upto'[r] = upto[r] /\ free'[r] = free[r]
    BY <1>12
  <1> QED
    BY <1>0, <1>1, <1>2, <1>9, <1>22, <1>23, <1>24, <1>25, AppliedSteady

(* A wave before its first frame, and after its last. *)

LEMMA LeadsFirst ==
  ASSUME NEW as, NEW todo, todo \subseteq Nat
  PROVE  Leads(as, todo, Outside(1), <<>>, Idle)
  <1> DEFINE o == Outside(1)
  <1>1. o \in Standing
    BY DEF Outside, Standing
  <1>2. Idle.held = <<>> /\ Idle.kind = "none" /\ Idle.thread = "none" /\ Silent(Idle) /\ Idle.next = 1
    BY DEF Idle, Silent
  <1>3. o.act = 0 /\ o.pos = 0 /\ o.upto = 1
    BY DEF Outside
  <1> HIDE DEF o
  <1>4. Apart(todo, Idle, o)
    <2>1. \A j \in todo : j < 1 \/ j >= 1
      OBVIOUS
    <2> QED
      BY <1>2, <1>3, <2>1 DEF Apart
  <1>5. Follows(as, todo, Idle, o)
    BY <1>2, <1>4 DEF Follows
  <1>6. Carries(as, todo, o, <<>>, o)
    BY <1>1, CarriesNone
  <1>7. Leads(as, todo, o, <<>>, Idle)
    BY <1>2, <1>5, <1>6 DEF Leads
  <1> QED
    BY <1>7 DEF o

LEMMA SignSteady ==
  ASSUME DetailInv, Steady, Sign
  PROVE  Steady'
  <1>1. Setup /\ Staged
    BY DEF DetailInv
  <1>2. /\ at = "sign" /\ at' = "fetch" /\ prod' = EachSide(Idle) /\ empty' = {} /\ upto' = EachSide(1)
        /\ sigs' = [i \in Diffs |-> Signature(files[acts[i].side][i])]
        /\ UNCHANGED <<job, wave, plan, files, used, room, batch, open, made, free>>
    BY DEF Sign, runVars
  <1>3. at \notin Busy /\ at \notin Flowing /\ at' \in Flowing /\ at \in Busy \cup {"sign"}
    BY <1>2 DEF Busy, Flowing
  <1>4. /\ PlanFits' /\ Intact' /\ acts' = acts /\ Diffs' = Diffs /\ \A s \in Sides : Todo(s)' = Todo(s)
    BY <1>2, RunSame DEF Steady
  <1>5. \A s \in Sides : Counted(s)'
    BY <1>2, <1>3, CountedSame DEF Steady, Accounted
  <1>6. Signed'
    <2>1. SUFFICES ASSUME NEW i \in Diffs PROVE files[acts[i].side][i] = acts[i].old
      BY <1>2, <1>4 DEF Signed
    <2>2. acts[i].side \in Sides /\ i \in Wave.acts
      BY DEF Diffs
    <2>3. i \in 1..Len(acts)
      BY <1>1, <1>3, <2>2, GroundsHold DEF Grounds
    <2>4. wave \in wave..Len(plan)
      BY <1>1, <1>3 DEF Setup
    <2> QED
      BY <2>2, <2>3, <2>4 DEF Steady, Intact, Wave
  <1>7. ASSUME NEW s \in Sides PROVE InStep(s)'
    <2>1. PICK r \in Sides : r = Other(s)
      BY SidesAre
    <2>2. Stand(r)' = Outside(1)
      <3>1. open[r] = NoOutput /\ upto'[r] = 1
        BY <1>1, <1>2, <1>3 DEF Staged, EachSide
      <3>2. NoOutput.act = 0 /\ NoOutput.out.pos = 0
        BY DEF NoOutput, Fresh
      <3> QED
        BY <1>2, <3>1, <3>2 DEF Stand, Outside
    <2>3. batch = <<>>
      BY <1>3 DEF Steady
    <2>4. Sent(s)' = <<>> /\ prod'[s] = Idle /\ s \notin empty'
      BY <1>2, <2>3 DEF Sent, EachSide
    <2>5. Todo(r)' = Todo(r) /\ Todo(r) \subseteq Nat
      <3>1. Todo(r) \subseteq 1..Len(acts)
        BY <1>1, <1>3, TodoFacts
      <3> QED
        BY <1>4, <3>1
    <2>6. Leads(acts, Todo(r), Outside(1), <<>>, Idle)
      BY <2>5, LeadsFirst
    <2> QED
      BY <1>4, <2>1, <2>2, <2>4, <2>5, <2>6 DEF InStep
  <1>8. \A s \in Sides : Whole(s)'
    <2>1. ~NoOutput.out.clone
      BY DEF NoOutput, Fresh
    <2> QED
      BY <1>1, <1>2, <1>3, <2>1 DEF Staged, Whole
  <1>9. Accounted'
    BY <1>5 DEF Accounted
  <1> QED
    BY <1>2, <1>3, <1>4, <1>6, <1>7, <1>8, <1>9 DEF Steady

LEMMA CheckWaveSteady ==
  ASSUME DetailInv, Steady, CheckWave
  PROVE  Steady'
  <1>1. Staged /\ Disk /\ Setup
    BY DEF DetailInv
  <1>2. at = "wave" /\ at' = "sign" /\ room' = free
        /\ UNCHANGED <<job, wave, plan, files, used, batch, open, made, free>>
    BY DEF CheckWave, streamVars, applyVars, spaceVars
  <1>3. at \notin Busy /\ at \notin Flowing /\ at' \notin Flowing
    BY <1>2 DEF Busy, Flowing
  <1>4. PlanFits' /\ Intact' /\ acts' = acts
    BY <1>2, RunSame DEF Steady
  <1>5. ASSUME NEW s \in Sides PROVE Counted(s)'
    <2>1. open[s] = NoOutput /\ made[s] = None
      BY <1>1, <1>3 DEF Staged
    <2>2. DOMAIN made[s] = {}
      BY <2>1 DEF None
    <2>3. OwnedBlocks(s)' = 0
      <3>1. OwnedBlocks(s) = 0
        BY <2>1, <2>2, NothingStaged
      <3>2. OwnedBlocks(s)' = OwnedBlocks(s)
        BY <1>2, OwnedSame
      <3> QED
        BY <3>1, <3>2
    <2>4. room'[s] = free'[s] /\ free'[s] \in Nat
      BY <1>1, <1>2 DEF Disk
    <2>5. Light(s)'
      <3>1. NoOutput.act = 0 /\ NoOutput.out.owned = {}
        BY DEF NoOutput, Fresh
      <3> QED
        BY <1>2, <2>1, <2>2, <3>1 DEF Light
    <2> QED
      BY <2>3, <2>4, <2>5 DEF Counted
  <1>6. Accounted'
    BY <1>5 DEF Accounted
  <1>7. batch' = <<>>
    BY <1>2, <1>3 DEF Steady
  <1> QED
    BY <1>2, <1>3, <1>4, <1>6, <1>7 DEF Steady

LEMMA FinishSteady ==
  ASSUME DetailInv, Steady, NEW s \in Sides, FinishPreparation(s)
  PROVE  Steady'
  <1>1. Staged
    BY DEF DetailInv
  <1>2. /\ at = (IF s = "local" THEN "finish" ELSE "finish remote")
        /\ at' = (IF s = "local" THEN "finish remote" ELSE "fence")
        /\ UNCHANGED <<job, wave, plan, files, used, room, batch, upto, open, made, free>>
    BY DEF FinishPreparation, runVars, streamVars
  <1>3. at \notin Flowing /\ at' \notin Flowing /\ at \in Busy
    BY <1>2 DEF Busy, Flowing
  <1>4. PlanFits' /\ Intact' /\ \A r \in Sides : Todo(r)' = Todo(r)
    BY <1>2, RunSame DEF Steady
  <1>5. \A r \in Sides : Counted(r)'
    BY <1>2, <1>3, CountedSame DEF Steady, Accounted
  <1>6. Accounted'
    BY <1>5 DEF Accounted
  <1>7. batch' = <<>>
    BY <1>2, <1>3 DEF Steady
  <1>8. at' = "finish remote" => Complete("remote")'
    <2>1. SUFFICES ASSUME at' = "finish remote" PROVE Complete("remote")'
      OBVIOUS
    <2>2. at = "finish" /\ "remote" \in Sides
      BY <1>2, <2>1, SidesAre
    <2>3. Complete("remote")
      BY <2>2 DEF Steady
    <2> QED
      BY <1>2, <1>4, <2>2, <2>3 DEF Complete
  <1>9. at' # "finish"
    BY <1>2
  <1> QED
    BY <1>3, <1>4, <1>6, <1>7, <1>8, <1>9 DEF Steady

(* The other side's outputs of a wave are not of a wave that follows.       *)
LEMMA CommitSteady ==
  ASSUME DetailInv, Steady, CommitWave
  PROVE  Steady'
  <1>1. Setup /\ Staged /\ Disk
    BY DEF DetailInv
  <1>2. /\ at = "fence" /\ at' = "wave" /\ wave' = wave + 1
        /\ files' = [s \in Sides |-> [i \in DOMAIN files[s] |->
             IF i \in DOMAIN made[s] THEN made[s][i].data
             ELSE IF i \in Wave.acts /\ acts[i].side = s THEN acts[i].new ELSE files[s][i]]]
        /\ UNCHANGED <<job, plan, batch>>
    BY DEF CommitWave, streamVars
  <1>3. at \in Busy /\ at \notin Flowing /\ at' \notin Flowing /\ at' \notin Busy \cup {"sign"} /\ at \in Busy \cup {"sign"}
    BY <1>2 DEF Busy, Flowing
  <1>4. acts' = acts /\ PlanFits' /\ PlanFits
    BY <1>2 DEF acts, Steady, PlanFits
  <1>5. wave \in 1..Len(plan) /\ wave \in Nat /\ Len(plan) \in Nat
    BY <1>1, <1>3 DEF Setup
  <1>6. ASSUME NEW s \in Sides, NEW i \in 1..Len(acts), i \notin DOMAIN made[s], ~(i \in Wave.acts /\ acts[i].side = s)
        PROVE  files'[s][i] = files[s][i]
    <2>1. DOMAIN files[s] = 1..Len(acts)
      BY <1>1 DEF Disk
    <2> QED
      BY <1>2, <1>6, <2>1
  <1>7. ASSUME NEW s \in Sides, NEW i \in DOMAIN made[s]
        PROVE  i \in Wave.acts /\ acts[i].side = s
    <2>1. DOMAIN made[s] \subseteq Todo(s)
      BY <1>1, <1>3 DEF Staged, MadeSound
    <2> QED
      BY <2>1 DEF Todo, Outputs
  <1>8. Intact'
    <2>1. SUFFICES ASSUME NEW s \in Sides, NEW i \in 1..Len(acts)
                   PROVE  /\ acts[i].side # s => files'[s][i] = acts[i].new
                          /\ acts[i].side = s /\ (\E n \in (wave + 1)..Len(plan) : i \in plan[n].acts)
                               => files'[s][i] = acts[i].old
      <3>1. wave' = wave + 1 /\ plan' = plan
        BY <1>2
      <3> QED
        BY <1>4, <3>1 DEF Intact
    <2>2. CASE acts[i].side # s
      <3>1. i \notin DOMAIN made[s]
        BY <1>7, <2>2
      <3>2. files'[s][i] = files[s][i]
        BY <1>6, <2>2, <3>1
      <3> QED
        BY <2>2, <3>2 DEF Steady, Intact
    <2>3. CASE acts[i].side = s /\ \E n \in (wave + 1)..Len(plan) : i \in plan[n].acts
      <3>1. PICK n \in (wave + 1)..Len(plan) : i \in plan[n].acts
        BY <2>3
      <3>2. n \in wave..Len(plan) /\ n \in 1..Len(plan) /\ n # wave
        BY <1>5, <3>1
      <3>3. plan[n].acts \cap plan[wave].acts = {}
        BY <1>4, <1>5, <3>2 DEF PlanFits
      <3>4. i \notin Wave.acts
        BY <3>1, <3>3 DEF Wave
      <3>5. files'[s][i] = files[s][i]
        BY <1>6, <1>7, <3>4
      <3>6. files[s][i] = acts[i].old
        BY <2>3, <3>1, <3>2 DEF Steady, Intact
      <3> QED
        BY <2>3, <3>5, <3>6
    <2> QED
      BY <2>2, <2>3
  <1>9. batch' = <<>>
    BY <1>2, <1>3 DEF Steady
  <1> QED
    BY <1>2, <1>3, <1>4, <1>8, <1>9 DEF Steady, Accounted

-----------------------------------------------------------------------------
(* The plan. *)

Separate(p, as, B) ==
  /\ DOMAIN p = 1..Len(p)
  /\ \A m, n \in 1..Len(p) : m # n => p[m].acts \cap p[n].acts = {}
  /\ \A n \in 1..Len(p) : p[n].acts \subseteq 1..Len(as)

LEMMA LaidWithin ==
  ASSUME NEW as, NEW B, NEW L, NEW b, NEW c, NEW a, Laid(as, B, L, b, c, a)
  PROVE  \A n \in 1..Len(c) : c[n] \subseteq 1..L
  <1> DEFINE N == Len(Groups(as))
             C == Len(c)
  <1>1. LaidAs(as, B, L, b, c, a, N, C)
    BY LaidFacts
  <1> HIDE DEF N, C
  <1>2. ASSUME NEW n \in 1..C PROVE c[n] \subseteq 1..L
    <2>1. C \in Nat /\ N \in Nat /\ L \in Nat /\ Edges(b, N, L) /\ a \in [0..C -> 0..N]
      BY <1>1 DEF LaidAs
    <2>2. n \in 0..C /\ n - 1 \in 0..C
      BY <2>1
    <2>3. c[n] = Span(b, a[n - 1], a[n]) /\ a[n - 1] \in 0..N /\ a[n] \in 0..N
      BY <1>1, <2>1, <2>2 DEF LaidAs
    <2>4. Span(b, a[n - 1], a[n]) \in SUBSET (1..L)
      BY <2>1, <2>3, SpanIs
    <2> QED
      BY <2>3, <2>4
  <1> QED
    BY <1>2 DEF C

LEMMA WavesSeparate ==
  ASSUME NEW as, NEW L \in Nat, HasPaths(as, L), HasSizes(as, L), NEW B, HasBudgets(B)
  PROVE  Separate(Waves(as, B), as, B)
  <1> DEFINE c == Cut(as, B)
             p == Waves(as, B)
             N == Len(c)
  <1>1. PICK b, a : Laid(as, B, L, b, c, a)
    BY CutLaid
  <1>2. LaidAs(as, B, L, b, c, a, Len(Groups(as)), Len(c))
    BY <1>1, LaidFacts
  <1>3. c \in Seq(SUBSET Nat) /\ Len(c) \in Nat
    BY <1>2 DEF LaidAs
  <1>4. p = [n \in DOMAIN c |-> WaveOf(as, c[n], B)]
    BY DEF Waves
  <1>5. ASSUME NEW m \in 1..N, NEW n \in 1..N, m < n PROVE c[m] \cap c[n] = {}
    <2>1. \A i \in c[m], j \in c[n] : i < j
      BY <1>1, <1>5, LaidInOrder
    <2>2. c[m] \subseteq Nat
      <3> HIDE DEF c
      <3> QED
        BY <1>3, <1>5
    <2> HIDE DEF c
    <2>3. ASSUME NEW i \in c[m], i \in c[n] PROVE FALSE
      <3>1. i \in Nat /\ i < i
        BY <2>1, <2>2, <2>3
      <3> QED
        BY <3>1
    <2> QED
      BY <2>3
  <1>6. \A n \in 1..N : c[n] \subseteq 1..L
    <2> HIDE DEF c
    <2> QED
      BY <1>1, LaidWithin
  <1> HIDE DEF c, p
  <1>7. DOMAIN c = 1..N /\ N \in Nat
    BY <1>3
  <1> HIDE DEF N
  <1>8. p = [n \in 1..N |-> WaveOf(as, c[n], B)]
    BY <1>4, <1>7
  <1>9. Len(p) = N /\ DOMAIN p = 1..N
    BY <1>7, <1>8
  <1>10. \A n \in 1..N : p[n].acts = c[n]
    BY <1>8 DEF WaveOf
  <1>11. ASSUME NEW m \in 1..N, NEW n \in 1..N, m # n PROVE c[m] \cap c[n] = {}
    <2>1. m < n \/ n < m
      BY <1>7, <1>11
    <2> QED
      BY <1>5, <2>1
  <1>12. L = Len(as)
    BY DEF HasPaths
  <1>13. Separate(p, as, B)
    BY <1>6, <1>9, <1>10, <1>11, <1>12 DEF Separate
  <1> QED
    BY <1>13 DEF p

LEMMA StrategyFits ==
  ASSUME NEW as, NEW B, NEW caps, NEW cf, NEW mig, NEW ino, Strategy(as, B, caps, cf, mig, ino) = "staged"
  PROVE  \A n \in DOMAIN Waves(as, B) : WaveFits(as, Waves(as, B)[n], B, ino, caps)
  BY DEF Strategy

(* A wave of the plan is within the limit or marked, and has its inodes.    *)
Provided(w, s) ==
  /\ job.limit >= 0 /\ BytesIn(acts, w.acts, s) > job.limit => w.over[s]
  /\ (s = "local" \/ "inodes" \in job.caps) \/ job.inodes[s] # 0 =>
       Cardinality(Outputs(acts, w.acts, s)) <= job.inodes[s]
LEMMA FitsProvides ==
  ASSUME job \in Jobs, free \in [Sides -> Nat], NEW w, w.acts \subseteq 1..Len(acts),
         WaveFits(acts, w, Budgets, job.inodes, job.caps), NEW s \in Sides
  PROVE  Provided(w, s)
  <1> DEFINE x == BytesIn(acts, w.acts, s)
             l == job.limit
             b == Budgets[s].budget
             u == Budgets[s].usable
             d == s = "local" \/ "inodes" \in job.caps
  <1>1. CapacityFits(acts, w, s, Budgets[s], job.inodes[s], d)
    BY DEF WaveFits
  <1>2. x > b => w.over[s]
    BY <1>1 DEF CapacityFits
  <1>3. d \/ job.inodes[s] # 0 => Cardinality(Outputs(acts, w.acts, s)) <= job.inodes[s]
    BY <1>1 DEF CapacityFits
  <1>4. x \in Nat
    <2> DEFINE L == Len(acts)
    <2>1. L \in Nat /\ HasSizes(acts, L)
      BY JobFacts DEF acts
    <2> HIDE DEF L
    <2>2. w.acts \in SUBSET (1..L)
      BY DEF L
    <2> QED
      BY <2>1, <2>2, BytesMore
  <1>5. l \in Int
    BY JobFacts
  <1>6. b \in Int /\ u \in Int
    BY BudgetsAreNumbers DEF HasBudgets
  <1>7. b = (IF l < 0 THEN u ELSE Smaller(l, u))
    BY DEF Budgets, Budget
  <1>8. l >= 0 => b <= l
    <2> HIDE DEF b, u, l
    <2>1. l >= 0 => b = Smaller(l, u)
      BY <1>5, <1>7
    <2> QED
      BY <1>5, <1>6, <2>1 DEF Smaller
  <1>9. l >= 0 /\ x > l => w.over[s]
    <2> HIDE DEF x, l, b
    <2> QED
      BY <1>2, <1>4, <1>5, <1>6, <1>8
  <1> HIDE DEF x, l, b, u
  <1> QED
    BY <1>3, <1>9 DEF Provided, x, l

LEMMA PlanningSteady ==
  ASSUME PlanKept, Disk, Planning, Unchanged0, batch = <<>>, at' = "wave"
  PROVE  Steady'
  <1> DEFINE how == Strategy(acts, Budgets, job.caps, job.configured, job.migration, job.inodes)
             p == Waves(acts, Budgets)
  <1>1. /\ at = "plan" /\ job' = job /\ used' = used /\ wave' = 1 /\ free' = free /\ files' = files /\ batch' = batch
        /\ at' = IF how # "staged" THEN how ELSE IF job.dry THEN "dry" ELSE "wave"
        /\ plan' = IF how = "staged" THEN p ELSE <<>>
    BY DEF Planning, spaceVars, streamVars
  <1>2. how = "staged"
    <2>1. how \in {"staged", "legacy", "refused"}
      BY StrategyIs
    <2> HIDE DEF how
    <2> QED
      BY <1>1, <2>1
  <1>3. job \in Jobs /\ free \in [Sides -> Nat] /\ free = job.free
    BY <1>1 DEF PlanKept, Disk
  <1>4. \A n \in DOMAIN p : WaveFits(acts, p[n], Budgets, job.inodes, job.caps)
    BY <1>2, StrategyFits
  <1>5. Separate(p, acts, Budgets)
    <2> DEFINE L == Len(acts)
    <2>1. L \in Nat /\ HasPaths(acts, L) /\ HasSizes(acts, L)
      BY <1>3, JobFacts DEF acts
    <2>2. HasBudgets(Budgets)
      BY <1>3, BudgetsAreNumbers
    <2> HIDE DEF L
    <2> QED
      BY <2>1, <2>2, WavesSeparate
  <1> HIDE DEF how
  <1>6. plan' = p
    BY <1>1, <1>2
  <1> HIDE DEF p
  <1>7. acts' = acts
    BY <1>1 DEF acts
  <1>8. \A n \in 1..Len(p), s \in Sides : Provided(p[n], s)
    BY <1>3, <1>4, <1>5, FitsProvides DEF Separate
  <1>9. PlanFits'
    <2>1. \A m, n \in 1..Len(p) : m # n => p[m].acts \cap p[n].acts = {}
      BY <1>5 DEF Separate
    <2> QED
      BY <1>1, <1>6, <1>7, <1>8, <2>1 DEF PlanFits, Provided
  <1>10. Intact'
    BY <1>1, <1>7 DEF Intact, Unchanged0
  <1> QED
    BY <1>1, <1>9, <1>10 DEF Steady, Accounted, Flowing, Busy

(* The check of a wave, whose plan fits, asks for no more than its bytes.   *)

LEMMA NeedsMore ==
  ASSUME Setup, at = "wave", wave <= Len(plan), NEW s \in Sides
  PROVE  /\ BytesIn(acts, Wave.acts, s) \in Nat /\ Needs(Wave, s) \in Nat
         /\ BytesIn(acts, Wave.acts, s) <= Needs(Wave, s)
  <1> DEFINE D == Todo(s)
             f == [i \in D |-> acts[i].size]
             g == [i \in D |-> Round(acts[i].size)]
             e == IF D = {} THEN 0 ELSE Block + Round(Window)
  <1>1. wave \in 1..Len(plan) /\ job \in Jobs
    BY DEF Setup, PlanKept
  <1>2. /\ Wave.acts \subseteq 1..Len(acts) /\ Len(acts) \in Nat
        /\ \A i \in 1..Len(acts) : acts[i].size \in Nat
    BY <1>1, JobFacts DEF Setup, Wave, acts, HasSizes
  <1>3. D \subseteq 1..Len(acts)
    BY <1>2 DEF Todo, Outputs
  <1>4. IsFiniteSet(D)
    <2>1. IsFiniteSet(1..Len(acts))
      BY <1>2, FS_Interval
    <2> HIDE DEF D
    <2> QED
      BY <1>3, <2>1, FS_Subset
  <1>5. BytesIn(acts, Wave.acts, s) = SumFunction(f)
    BY DEF BytesIn, Todo
  <1>6. Needs(Wave, s) = Block + e + SumFunction(g)
    BY DEF Needs, Todo
  <1> HIDE DEF D
  <1>7. \A i \in D : f[i] \in Nat /\ g[i] \in Nat /\ f[i] <= g[i]
    <2>1. SUFFICES ASSUME NEW i \in D PROVE f[i] \in Nat /\ g[i] \in Nat /\ f[i] <= g[i]
      OBVIOUS
    <2> DEFINE n == acts[i].size
               r == Round(n)
               u == Block * UpTo(n)
    <2>2. n \in Nat
      BY <1>2, <1>3
    <2>3. r = u /\ r \in Nat /\ n <= u
      <3> HIDE DEF n
      <3> QED
        BY <2>2, CostIs, UpToIs
    <2>4. f[i] = n /\ g[i] = r
      OBVIOUS
    <2> HIDE DEF n, r, u
    <2> QED
      BY <2>2, <2>3, <2>4
  <1>8. DOMAIN f = D /\ DOMAIN g = D
    OBVIOUS
  <1> HIDE DEF f, g
  <1>9. SumFunction(f) = SumFunctionOnSet(f, D) /\ SumFunction(g) = SumFunctionOnSet(g, D)
    BY <1>8 DEF SumFunction
  <1> DEFINE x == SumFunctionOnSet(f, D)
             y == SumFunctionOnSet(g, D)
  <1>10. x \in Nat /\ y \in Nat /\ x <= y
    BY <1>4, <1>7, SumType, SumMonotone
  <1>11. Block \in Nat /\ e \in Nat
    <2>1. Round(Window) \in Nat /\ Block \in Nat
      BY DeltaAssumption, CostIs
    <2> QED
      BY <2>1
  <1> HIDE DEF x, y, e
  <1>12. BytesIn(acts, Wave.acts, s) = x /\ Needs(Wave, s) = Block + e + y
    BY <1>5, <1>6, <1>9 DEF x, y
  <1> QED
    BY <1>10, <1>11, <1>12

LEMMA CheckNeedsSpace ==
  ASSUME DetailInv, Steady, CheckWaveFails
  PROVE  Starved'
  <1>1. Setup /\ Disk
    BY DEF DetailInv
  <1>2. /\ at = "wave" /\ wave <= Len(plan) /\ ~WaveFits(acts, Wave, Budgets, job.inodes, job.caps)
        /\ room' = free /\ UNCHANGED <<job, wave, plan>>
    BY DEF CheckWaveFails
  <1>3. SUFFICES ASSUME \A s \in Sides : ~(Needs(Wave, s) > Above(s)) PROVE FALSE
    <2>1. acts' = acts /\ Wave' = Wave
      BY <1>2 DEF acts, Wave
    <2>2. \A s \in Sides : Needs(Wave, s)' = Needs(Wave, s)
      BY <2>1 DEF Needs
    <2>3. \A s \in Sides : Above(s) = Minus(Block * free[s], job.reserve)
      BY DEF Above, Budgets, Budget
    <2> QED
      BY <1>2, <2>2, <2>3 DEF Starved
  <1>4. wave \in 1..Len(plan) /\ job \in Jobs
    BY <1>1, <1>2 DEF Setup, PlanKept
  <1>5. ASSUME NEW s \in Sides
        PROVE  CapacityFits(acts, Wave, s, Budgets[s], job.inodes[s], s = "local" \/ "inodes" \in job.caps)
    <2> DEFINE x == BytesIn(acts, Wave.acts, s)
               n == Needs(Wave, s)
               u == Budgets[s].usable
               b == Budgets[s].budget
               l == job.limit
    <2>1. x \in Nat /\ n \in Nat /\ x <= n
      BY <1>1, <1>2, NeedsMore
    <2>2. u \in Int /\ b \in Int /\ u = Above(s)
      BY <1>1, <1>4, BudgetsAreNumbers DEF Disk, HasBudgets
    <2>3. ~(n > u)
      BY <1>3, <2>2
    <2>4. l \in Int
      BY <1>4, JobFacts
    <2>5. b = (IF l < 0 THEN u ELSE Smaller(l, u))
      BY DEF Budgets, Budget
    <2>6. Provided(Wave, s)
      BY <1>4 DEF Steady, PlanFits, Provided, Wave
    <2>7. l >= 0 /\ x > l => Wave.over[s]
      BY <2>6 DEF Provided
    <2>8. ~(x > u) /\ (x > b => Wave.over[s])
      <3> HIDE DEF x, n, u, b, l
      <3>1. x <= u
        BY <2>1, <2>2, <2>3
      <3>2. x > b => l >= 0 /\ x > l
        BY <2>1, <2>2, <2>4, <2>5, <3>1 DEF Smaller
      <3> QED
        BY <2>1, <2>2, <2>7, <3>1, <3>2
    <2> HIDE DEF u, b, l, n
    <2> QED
      BY <2>6, <2>8 DEF CapacityFits, Provided, u, b
  <1>6. WaveFits(acts, Wave, Budgets, job.inodes, job.caps)
    BY <1>5 DEF WaveFits
  <1> QED
    BY <1>2, <1>6

-----------------------------------------------------------------------------
(* With the space that a wave asks for, nothing fails. *)

LEMMA SignSucceeds ==
  ASSUME DetailInv, Steady, SignFails
  PROVE  FALSE
  <1>1. Setup /\ at \in Busy \cup {"sign"}
    BY DEF DetailInv, SignFails
  <1>2. PICK i \in Diffs : files[acts[i].side][i] = Gone
    BY DEF SignFails
  <1>3. acts[i].side \in Sides /\ i \in Todo(acts[i].side) /\ acts[i].out = "diff"
    BY <1>2 DEF Diffs, Todo, Outputs
  <1>4. files[acts[i].side][i] = acts[i].old
    BY <1>1, <1>3, FilesAre
  <1>5. acts[i].old # Gone
    BY <1>1, <1>3, TodoFacts
  <1> QED
    BY <1>2, <1>4, <1>5

LEMMA FetchSucceeds ==
  ASSUME DetailInv, Steady, FetchFails
  PROVE  FALSE
  <1>1. Setup /\ Stream
    BY DEF DetailInv
  <1>2. /\ Fetching /\ P.held = <<>>
        /\ \/ P.kind = "diff" /\ P.thread = "dead"
           \/ Ahead # {} /\ files[turn][Following] = Gone
    BY DEF FetchFails
  <1>3. CASE P.kind = "diff" /\ P.thread = "dead"
    <2>1. PICK a \in Standing : Follows(acts, Todo(T), P, a)
      BY <1>1, <1>2, Ready
    <2>2. P.thread \in {"start", "run"}
      BY <1>3, <2>1 DEF Follows, InDiff
    <2> QED
      BY <1>3, <2>2
  <1>4. CASE Ahead # {} /\ files[turn][Following] = Gone
    BY <1>1, <1>2, <1>4, FollowingIs
  <1> QED
    BY <1>2, <1>3, <1>4

(* The frame at hand and the output that it is for.                         *)
LEMMA BeginSucceeds ==
  ASSUME DetailInv, Steady, \A r \in Sides : Fits(r), Applying, Begins
  PROVE  BeginFits
  <1>1. Setup /\ Disk /\ Stream /\ Staged
    BY DEF DetailInv
  <1>2. at \in Busy /\ at \in Flowing /\ T \in Sides /\ at \in Busy \cup {"sign"}
    BY <1>1, NextFrame
  <1> DEFINE i == F.act
  <1>3. PICK c \in Standing : Takes(acts, Todo(T), Stand(T), F, c)
    BY <1>1, HeadTakes
  <1>4. TakesBegin(acts, Todo(T), Stand(T), F, c)
    BY <1>3, TakesKinds DEF Begins
  <1>5. Stand(T).act = open[T].act /\ Stand(T).upto = upto[T]
    BY DEF Stand
  <1>6. /\ F.op = BeginOp(acts[i]) /\ open[T].act = 0 /\ i \in Todo(T) /\ upto[T] <= i
        /\ \A j \in Todo(T) : j < upto[T] \/ j >= i
    BY <1>4, <1>5 DEF TakesBegin
  <1>7. Todo(T) \subseteq Nat /\ upto[T] \in Nat /\ Counted(T)
    BY <1>1, <1>2, SteadyFlow DEF Staged
  <1>8. i >= upto[T]
    BY <1>6, <1>7
  <1>9. Skipped(T, i) = {}
    <2>1. ASSUME NEW j \in Todo(T), upto[T] <= j, j < i PROVE FALSE
      <3>1. j \in Nat /\ i \in Nat /\ (j < upto[T] \/ j >= i)
        BY <1>6, <1>7
      <3> HIDE DEF i
      <3> QED
        BY <1>7, <2>1, <3>1
    <2> QED
      BY <2>1 DEF Skipped
  <1>10. F.op = (IF acts[i].out = "diff" THEN "DiffBegin" ELSE "FileBegin")
    BY <1>6 DEF BeginOp
  <1>11. files[T][i] = acts[i].old
    BY <1>1, <1>2, <1>6, FilesAre
  <1>12. BeginCheck(T, acts[i].size).ok
    BY <1>1, <1>2, <1>7, CanLook
  <1> QED
    BY <1>6, <1>8, <1>9, <1>10, <1>11, <1>12 DEF BeginFits

LEMMA WriteSucceeds ==
  ASSUME DetailInv, Steady, \A r \in Sides : Fits(r), Applying, Moves
  PROVE  WriteFits
  <1>1. Setup /\ Disk /\ Stream /\ Staged
    BY DEF DetailInv
  <1>2. /\ at \in Busy /\ at \in Flowing /\ T \in Sides /\ at \in Busy \cup {"sign"}
        /\ F.act \in Nat \ {0} /\ F.offset \in Nat /\ F.len \in Nat /\ F.bytes \in Seq(Byte)
    BY <1>1, NextFrame
  <1> DEFINE i == F.act
             o == open[T].out
             w == Written
             x == Piece(acts[i].old, F)
             y == acts[i].new
             n == o.pos
             l == Len(x)
             h == Length(F)
  <1>3. PICK c \in Standing : Takes(acts, Todo(T), Stand(T), F, c)
    BY <1>1, HeadTakes
  <1>4. TakesBytes(acts, Stand(T), F, c)
    BY <1>3, TakesKinds DEF Moves
  <1>5. Stand(T).act = open[T].act /\ Stand(T).pos = n
    BY DEF Stand
  <1>6. F.op \in MoveOps(acts[i]) /\ open[T].act = i /\ n + l <= Len(y) /\ h <= l + Window
    BY <1>4, <1>5 DEF TakesBytes, Inside
  <1>7. OpenSound(T) /\ Counted(T) /\ Whole(T)
    BY <1>1, <1>2, SteadyFlow DEF Staged
  <1>8. i \in Todo(T) /\ SoundOutput(Byte, o) /\ open[T].act # 0
    BY <1>2, <1>6, <1>7 DEF OpenSound
  <1>9. /\ files[T][i] = acts[i].old /\ acts[i].old \in Seq(Byte) /\ y \in Seq(Byte)
        /\ acts[i].size = Len(y) /\ (acts[i].out = "diff" => acts[i].old # Gone)
    BY <1>1, <1>2, <1>8, FilesAre, TodoFacts
  <1>10. F.op \in Expects /\ (F.op = "copy" => files[T][i] # Gone)
    BY <1>6, <1>9 DEF MoveOps, Expects
  <1>11. x \in Seq(Byte) /\ Piled(o, x, w, acts[i].old)
    <2>1. w = Apply(o, F, acts[i].old)
      BY <1>9 DEF Written
    <2>2. o.clone => Beyond(o.data, acts[i].old, o.pos)
      BY <1>6, <1>7 DEF Whole
    <2> DEFINE old == acts[i].old
    <2> HIDE DEF o, w, i, old
    <2> QED
      BY <1>2, <1>8, <1>9, <2>1, <2>2, AppliesPiece DEF old
  <1>12. l \in Nat /\ n \in Nat /\ Len(y) \in Nat /\ h \in Nat
    <2>1. h \in Nat
      BY <1>2, LenProperties DEF Length
    <2> QED
      BY <1>8, <1>9, <1>11, <2>1, LenProperties, SoundParts
  <1>13. WriteCheck.ok
    <2>1. Size(F) = h
      BY DEF Size, Length
    <2> HIDE DEF h, l, i
    <2>2. \A m : Check(T, m, h).ok
      BY <1>1, <1>2, <1>6, <1>7, <1>8, <1>9, <1>12, CanWrite DEF i
    <2> QED
      BY <2>1, <2>2 DEF WriteCheck
  <1>14. NewBlocks <= free[T]
    <2>1. o.owned \subseteq Touched(0, n)
      BY <1>7 DEF Counted, Light
    <2>2. Touched(0, n) \cup Touched(n, l) = Touched(0, n + l)
      BY <1>12, TouchedMore
    <2>3. w.owned \subseteq o.owned \cup Touched(n, l)
      BY <1>11 DEF Piled
    <2> DEFINE e == n + l
               B == w.owned
    <2> HIDE DEF w, l, n
    <2>4. e \in Nat /\ e <= acts[i].size /\ B \subseteq Touched(0, e)
      BY <1>6, <1>9, <1>12, <2>1, <2>2, <2>3
    <2> HIDE DEF e, B
    <2>5. Cardinality(B) - Cardinality(open[T].out.owned) <= free[T]
      BY <1>1, <1>2, <1>6, <1>7, <1>8, <2>4, CanHold
    <2> QED
      BY <2>5 DEF NewBlocks, B, w
  <1> QED
    BY <1>6, <1>10, <1>13, <1>14 DEF WriteFits

LEMMA EndSucceeds ==
  ASSUME DetailInv, Steady, \A r \in Sides : Fits(r), Applying, Ends
  PROVE  EndFits
  <1>1. Setup /\ Disk /\ Stream /\ Staged
    BY DEF DetailInv
  <1>2. at \in Busy /\ at \in Flowing /\ T \in Sides /\ at \in Busy \cup {"sign"} /\ F.act \in Nat \ {0}
    BY <1>1, NextFrame
  <1> DEFINE i == F.act
             y == acts[i].new
             n == open[T].out.pos
  <1>3. PICK c \in Standing : Takes(acts, Todo(T), Stand(T), F, c)
    BY <1>1, HeadTakes
  <1>4. TakesEnd(acts, Stand(T), F, c)
    BY <1>3, TakesKinds DEF Ends
  <1>5. Stand(T).act = open[T].act /\ Stand(T).pos = n
    BY DEF Stand
  <1>6. F.op = EndOp(acts[i]) /\ open[T].act = i /\ n = Len(y)
    BY <1>4, <1>5 DEF TakesEnd, Inside
  <1>7. OpenSound(T) /\ Counted(T)
    BY <1>1, <1>2, SteadyFlow DEF Staged
  <1>8. i \in Todo(T) /\ open[T].act # 0
    BY <1>2, <1>6, <1>7 DEF OpenSound
  <1>9. y \in Seq(Byte)
    BY <1>1, <1>2, <1>8, TodoFacts
  <1>10. open[T].out.seen = Slice(y, 0, n)
    BY <1>6, <1>7, <1>8 DEF Counted, Light
  <1>11. Slice(y, 0, Len(y)) = y
    <2> DEFINE z == <<>>
    <2> HIDE DEF y
    <2>1. z \in Seq(Byte)
      OBVIOUS
    <2>2. y \o z = y
      BY <1>9, ConcatEmptySeq
    <2> HIDE DEF z
    <2>3. Slice(y \o z, 0, Len(y)) = y
      BY ONLY <1>9, <2>1, SlicePrefix
    <2> QED
      BY <2>2, <2>3
  <1>12. Recheck(T).ok
    BY <1>1, <1>2, <1>7, CanLook
  <1>13. F.op = (IF acts[i].out = "diff" THEN "DiffEnd" ELSE "FileEnd")
    BY <1>6 DEF EndOp
  <1> QED
    BY <1>6, <1>10, <1>11, <1>12, <1>13 DEF EndFits

LEMMA ApplySucceeds ==
  ASSUME DetailInv, Steady, \A r \in Sides : Fits(r), ApplyFails
  PROVE  FALSE
  BY BeginSucceeds, WriteSucceeds, EndSucceeds DEF ApplyFails

LEMMA FinishSucceeds ==
  ASSUME DetailInv, Steady, \A r \in Sides : Fits(r), NEW s \in Sides, FinishFails(s)
  PROVE  FALSE
  <1>1. at = (IF s = "local" THEN "finish" ELSE "finish remote") /\ ~FinishFits(s)
    BY DEF FinishFails
  <1>2. Complete(s) /\ at \in Busy
    BY <1>1 DEF Steady, Busy, Sides
  <1>3. Counted(s)
    BY <1>2 DEF Steady, Accounted
  <1>4. Recheck(s).ok
    BY <1>2, <1>3, CanLook DEF DetailInv
  <1>5. NoOutput.act = 0
    BY DEF NoOutput
  <1> QED
    BY <1>1, <1>2, <1>4, <1>5 DEF FinishFits, Complete

LEMMA FenceSucceeds ==
  ASSUME DetailInv, Steady, \A r \in Sides : Fits(r), FenceFails
  PROVE  FALSE
  <1>1. at = "fence" /\ at \in Busy
    BY DEF FenceFails, Busy
  <1>2. PICK s \in Sides : ~FenceFits(s)
    BY DEF FenceFails
  <1>3. Counted(s)
    BY <1>1 DEF Steady, Accounted
  <1>4. Recheck(s).ok
    BY <1>1, <1>3, CanLook DEF DetailInv
  <1>5. wave \in 1..Len(plan) /\ Len(plan) \in Nat /\ Wave.acts \subseteq 1..Len(acts)
    BY <1>1, GroundsHold DEF DetailInv, Setup, Grounds
  <1>6. wave \in wave..Len(plan)
    BY <1>5
  <1>7. \A i \in Wave.acts : acts[i].side = s => files[s][i] = acts[i].old
    BY <1>5, <1>6 DEF Steady, Intact, Wave
  <1> QED
    BY <1>2, <1>4, <1>7 DEF FenceFits

-----------------------------------------------------------------------------
(* A run that nobody disturbs fails only for want of space. *)

Works ==
  \/ CheckWave \/ Sign \/ FetchHeld \/ FetchBytes \/ FetchDiff \/ FetchNext \/ FetchEnd
  \/ BeginOutput \/ WriteOutput \/ EndOutput \/ CommitWave
  \/ \E s \in Sides : ThreadStarts(s) \/ ThreadSends(s) \/ FinishPreparation(s)
Fails ==
  \/ CheckWaveFails \/ SignFails \/ FetchFails \/ ApplyFails \/ FenceFails
  \/ \E s \in Sides : FinishFails(s)

LEMMA NextIs ==
  ASSUME [Next]_vars
  PROVE  Planning \/ Works \/ Fails \/ WavesDone \/ Disturbance \/ UNCHANGED vars
  BY DEF Next, Fetch, ApplyFrame, Works, Fails, Disturbance

LEMMA WorksIs ==
  ASSUME Works
  PROVE  used' = used /\ at \in {"wave", "sign"} \cup Busy /\ at' \notin {"plan", "failed"}
  <1>1. CASE CheckWave \/ Sign \/ CommitWave
    BY <1>1 DEF CheckWave, Sign, CommitWave, Busy, runVars
  <1>2. CASE FetchHeld \/ FetchBytes \/ FetchDiff \/ FetchNext
    <2>1. at = "fetch" /\ \E f, p : Deliver(f, p)
      BY <1>2 DEF FetchHeld, FetchBytes, FetchDiff, FetchNext, Fetching
    <2>2. PICK f, p : Deliver(f, p)
      BY <2>1
    <2>3. used' = used /\ at' \in {"fetch", "apply"}
      BY <2>2 DEF Deliver, runVars
    <2> QED
      BY <2>1, <2>3 DEF Busy
  <1>3. CASE FetchEnd
    BY <1>3 DEF FetchEnd, Fetching, runVars, Busy
  <1>4. CASE BeginOutput \/ WriteOutput \/ EndOutput
    BY <1>4 DEF BeginOutput, WriteOutput, EndOutput, Applying, Applied, runVars, Busy
  <1>5. CASE \E s \in Sides : ThreadStarts(s) \/ ThreadSends(s) \/ FinishPreparation(s)
    BY <1>5 DEF ThreadStarts, ThreadSends, FinishPreparation, runVars, Busy
  <1> QED
    BY <1>1, <1>2, <1>3, <1>4, <1>5 DEF Works

LEMMA WorksSteady ==
  ASSUME DetailInv, Steady, Works
  PROVE  Steady'
  <1>1. Setup /\ Stream /\ Staged
    BY DEF DetailInv
  <1>2. CASE CheckWave \/ Sign \/ CommitWave
    BY <1>2, CheckWaveSteady, SignSteady, CommitSteady
  <1>3. CASE FetchHeld \/ FetchBytes \/ FetchDiff
    BY <1>1, <1>3, HeldSteady, BytesSteady, DiffSteady
  <1>4. CASE FetchNext \/ FetchEnd
    BY <1>1, <1>4, NextSteady, EndSteady
  <1>5. CASE BeginOutput \/ WriteOutput \/ EndOutput
    BY <1>5, BeginSteady, WriteSteady, OutputSteady
  <1>6. CASE \E s \in Sides : ThreadStarts(s) \/ ThreadSends(s) \/ FinishPreparation(s)
    BY <1>1, <1>6, StartsSteady, SendsSteady, FinishSteady
  <1> QED
    BY <1>2, <1>3, <1>4, <1>5, <1>6 DEF Works

LEMMA StarvedSame ==
  ASSUME Starved, UNCHANGED <<job, wave, plan, room>>
  PROVE  Starved'
  <1>1. acts' = acts /\ Wave' = Wave
    BY DEF acts, Wave
  <1>2. \A s \in Sides : Needs(Wave, s)' = Needs(Wave, s)
    BY <1>1 DEF Needs
  <1> QED
    BY <1>2 DEF Starved

LEMMA FailsIs ==
  ASSUME Fails
  PROVE  /\ used' = used /\ at \in {"wave", "sign"} \cup Busy /\ at' = "failed"
         /\ ~CheckWaveFails => at # "wave" /\ UNCHANGED <<job, wave, plan, room>>
  <1>1. CASE CheckWaveFails
    BY <1>1 DEF CheckWaveFails
  <1>2. CASE ~CheckWaveFails
    <2>1. Stop("failed") /\ at \in {"sign"} \cup Busy
      BY <1>2 DEF Fails, SignFails, FetchFails, ApplyFails, FenceFails, FinishFails, Fetching, Applying, Busy
    <2>2. at # "wave"
      BY <2>1 DEF Busy
    <2> QED
      BY <2>1, <2>2 DEF Stop, runVars
  <1> QED
    BY <1>1, <1>2

LEMMA FailsStarved ==
  ASSUME DetailInv, Steady, Fails
  PROVE  Starved'
  <1>1. CASE CheckWaveFails
    BY <1>1, CheckNeedsSpace
  <1>2. CASE ~CheckWaveFails
    <2>1. at \in Busy \cup {"sign"} /\ UNCHANGED <<job, wave, plan, room>>
      BY <1>2, FailsIs
    <2>2. \A s \in Sides : room[s] \in Nat
      BY <2>1 DEF Steady, Accounted, Counted
    <2>3. CASE \A s \in Sides : Fits(s)
      BY <1>2, <2>3, SignSucceeds, FetchSucceeds, ApplySucceeds, FenceSucceeds, FinishSucceeds DEF Fails
    <2>4. CASE Starved
      BY <2>1, <2>4, StarvedSame
    <2> QED
      BY <2>1, <2>2, <2>3, <2>4, StarvedOrFits DEF DetailInv
  <1> QED
    BY <1>1, <1>2

LEMMA StutterSteady ==
  ASSUME Steady, UNCHANGED vars
  PROVE  Steady'
  <1>1. UNCHANGED <<job, at, plan, wave, files, used, room, sigs, turn, prod, empty, batch, upto, open, made, free>>
    BY DEF vars
  <1>2. /\ PlanFits' /\ Intact' /\ acts' = acts /\ Diffs' = Diffs /\ \A s \in Sides : Todo(s)' = Todo(s)
    BY <1>1, RunSame DEF Steady
  <1>3. Accounted'
    <2>1. at \in Busy \cup {"sign"} => \A s \in Sides : Counted(s)'
      BY <1>1, CountedSame DEF Steady, Accounted
    <2> QED
      BY <1>1, <2>1 DEF Accounted
  <1>4. \A s \in Sides : Sent(s)' = Sent(s)
    BY <1>1 DEF Sent
  <1>5. at \in Flowing => Signed' /\ \A s \in Sides : InStep(s)' /\ Whole(s)'
    BY <1>1, <1>2, <1>4, InStepSame, WholeSame DEF Steady, Signed
  <1>6. \A s \in Sides : Complete(s) => Complete(s)'
    BY <1>1, <1>2 DEF Complete
  <1> QED
    BY <1>1, <1>2, <1>3, <1>5, <1>6, SidesAre DEF Steady

LEMMA InitUndisturbed ==
  ASSUME Init
  PROVE  Undisturbed
  <1>1. at = "plan" /\ batch = <<>>
    BY DEF Init
  <1>2. Unchanged0
    BY DEF Init, Unchanged0, acts
  <1> QED
    BY <1>1, <1>2 DEF Undisturbed, Busy

LEMMA StutterUndisturbed ==
  ASSUME Undisturbed, UNCHANGED vars
  PROVE  Undisturbed'
  <1>1. UNCHANGED <<job, at, plan, wave, files, used, room, batch>>
    BY DEF vars
  <1>2. Unchanged0 => Unchanged0'
    BY <1>1 DEF Unchanged0, acts
  <1>3. Starved => Starved'
    BY <1>1, StarvedSame
  <1>4. Steady => Steady'
    BY StutterSteady
  <1> QED
    BY <1>1, <1>2, <1>3, <1>4 DEF Undisturbed

LEMMA PlanningUndisturbed ==
  ASSUME DetailInv, Undisturbed, Planning
  PROVE  Undisturbed'
  <1>1. at = "plan" /\ used' = used /\ at' \in {"legacy", "refused", "dry", "wave"}
    <2>1. /\ at = "plan" /\ used' = used
          /\ at' = LET how == Strategy(acts, Budgets, job.caps, job.configured, job.migration, job.inodes)
                   IN IF how # "staged" THEN how ELSE IF job.dry THEN "dry" ELSE "wave"
      BY DEF Planning
    <2> QED
      BY <2>1, StrategyIs
  <1>2. used = 0 => Unchanged0 /\ batch = <<>>
    BY <1>1 DEF Undisturbed
  <1>3. used = 0 /\ at' = "wave" => Steady'
    BY <1>2, PlanningSteady DEF DetailInv, Setup
  <1> QED
    BY <1>1, <1>3 DEF Undisturbed, Busy

LEMMA NextUndisturbed ==
  ASSUME DetailInv, Undisturbed, [Next]_vars
  PROVE  Undisturbed'
  <1>1. CASE Planning
    BY <1>1, PlanningUndisturbed
  <1>2. CASE Works
    <2>1. used' = used /\ at \in {"wave", "sign"} \cup Busy /\ at' \notin {"plan", "failed"}
      BY <1>2, WorksIs
    <2>2. used = 0 => Steady'
      BY <1>2, <2>1, WorksSteady DEF Undisturbed
    <2> QED
      BY <2>1, <2>2 DEF Undisturbed
  <1>3. CASE Fails
    <2>1. used' = used /\ at \in {"wave", "sign"} \cup Busy /\ at' = "failed"
      BY <1>3, FailsIs
    <2>2. used = 0 => Starved'
      BY <1>3, <2>1, FailsStarved DEF Undisturbed
    <2> QED
      BY <2>1, <2>2 DEF Undisturbed, Busy
  <1>4. CASE WavesDone
    BY <1>4 DEF WavesDone, Undisturbed, Busy
  <1>5. CASE Disturbance
    <2>1. used' = used + 1 /\ used \in Nat
      BY <1>5 DEF Disturbance, Take, Edit, Disturb, DetailInv, Setup, PlanKept
    <2> QED
      BY <2>1 DEF Undisturbed
  <1>6. CASE UNCHANGED vars
    BY <1>6, StutterUndisturbed
  <1> QED
    BY <1>1, <1>2, <1>3, <1>4, <1>5, <1>6, NextIs

(* A run that nobody disturbs fails only where a side of its wave has       *)
(* outputs that do not fit the space it had, with one block of allowance,    *)
(* the rounding up of a last copy and one block for the file at hand:       *)
(* whatever the job, no signature, frame, output or file that the sides     *)
(* agree on stops it.                                                       *)
THEOREM NoAbortWithoutCause == Spec => []NoSpuriousAbort
  <1>1. Init => Undisturbed
    BY InitUndisturbed
  <1>2. DetailInv /\ Undisturbed /\ [Next]_vars => Undisturbed'
    BY NextUndisturbed
  <1>3. Undisturbed => NoSpuriousAbort
    BY DEF Undisturbed, NoSpuriousAbort, Starved
  <1> QED
    BY DetailIsSound, <1>1, <1>2, <1>3, PTL DEF Spec
=============================================================================
