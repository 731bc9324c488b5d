--------------------------- MODULE SideScanProofs ---------------------------
(***************************************************************************)
(* Theorems about SideScan, for any work list, any limit and any number of *)
(* errors, any tree, rules and scope, whatever users change.               *)
(*                                                                         *)
(* The argument about the pool is one invariant, Inv: positions are handed *)
(* out in order, so that none waits below one that was handed out, and     *)
(* every position below the cutoff is hashed, or still with a worker that  *)
(* is not told to stop.  A second one, DigestInv, says what the workers    *)
(* have read: what was at the path of their entry when they opened it, and *)
(* was followed where users moved it; once it is known to be the file of   *)
(* the entry, it is as they read it while its change time stays.           *)
(*                                                                         *)
(* The argument about the scan, ScanInv, is that every path it owes is     *)
(* covered: it was reported, or a directory on the way to it is still to   *)
(* be read, or one that is being read has what leads to it in its listing. *)
(* That a directory is not skipped on that way, and that a child gets the  *)
(* rule of its nearest location, is a matter of the order of locations:    *)
(* those below a directory lie next to each other (Between, Narrowed).     *)
(***************************************************************************)
EXTENDS SideScan, DataInduction

WorkerPc == {"none", "start", "opened", "checked", "half", "read"} \cup Ended

IsWorker(t) == "pc" \in DOMAIN t /\ t.pc \in WorkerPc

\* The types of the variables the argument is about
Shape ==
  /\ IsFiniteSet(entries)
  /\ Len(work) \in Nat /\ Positions = 1..Len(work)
  /\ worker = [p \in Positions |-> worker[p]]
  /\ \A p \in Positions : IsWorker(worker[p])
  /\ waiting \subseteq Positions /\ running \subseteq Positions
  /\ firstError \in Positions \cup {NoError}

\* What waits comes after what was handed out, and nothing waits after an error.
InOrder ==
  /\ waiting \cap running = {}
  /\ firstError = NoError => \A p \in waiting, q \in Positions \ waiting : q < p
  /\ firstError # NoError => waiting = {}

\* Below the cutoff no result is missing, and only above it a worker gives up.
Cutoff ==
  /\ firstError # NoError => worker[firstError].pc = "failed"
  /\ \A p \in Positions :
       /\ p < firstError => p \in waiting \cup running \/ worker[p].pc = "hashed"
       /\ worker[p].pc = "cancelled" => p > firstError

Inv ==
  /\ Shape
  /\ pool \in {"idle", "running"} => ~cancelAll
  /\ pool = "running" => InOrder /\ Cutoff
  /\ FirstErrorReported /\ AllOrError

-----------------------------------------------------------------------------
\* The lowest n of a set are below the others.
LEMMA LowestBelow ==
  ASSUME NEW S, S \subseteq Nat, IsFiniteSet(S), NEW n \in Int,
         NEW p \in S \ Lowest(S, n), NEW q \in Lowest(S, n)
  PROVE  q < p
<1> DEFINE B(x) == {r \in S : r < x}
<1>1. p \in Nat /\ q \in Nat /\ q \in S
  BY DEF Lowest
<1>2. SUFFICES ASSUME ~(q < p) PROVE FALSE
  OBVIOUS
<1>3. B(p) \subseteq B(q)
  <2> SUFFICES ASSUME NEW r \in S, r < p PROVE r < q
    OBVIOUS
  <2> QED BY <1>1, <1>2
<1>4. IsFiniteSet(B(p)) /\ IsFiniteSet(B(q))
  BY FS_Subset
<1>5. Cardinality(B(p)) <= Cardinality(B(q))
  BY <1>3, <1>4, FS_Subset
<1>6. Cardinality(B(p)) \in Nat /\ Cardinality(B(q)) \in Nat
  BY <1>4, FS_CardinalityType
<1>7. Cardinality(B(q)) < n /\ ~(Cardinality(B(p)) < n)
  BY DEF Lowest
<1> QED BY <1>5, <1>6, <1>7

\* The lesser of two numbers
LEMMA MinOfTwo ==
  ASSUME NEW a \in Nat, NEW b \in Nat
  PROVE  Min({a, b}) = IF a <= b THEN a ELSE b
<1> DEFINE m == IF a <= b THEN a ELSE b
<1>1. m \in {a, b} /\ \A y \in {a, b} : m =< y
  OBVIOUS
<1>2. \A x \in {a, b} : (\A y \in {a, b} : x =< y) => x = m
  OBVIOUS
<1> QED BY <1>1, <1>2 DEF Min

\* Handing out positions of S that nobody has: the lowest of them are started,
\* the others keep their workers.
LEMMA Admitted ==
  ASSUME NEW S, NEW busy, NEW threads, S \subseteq Nat, IsFiniteSet(S),
         HashLimit - Cardinality(busy) \in Int, Admit(S, busy, threads)
  PROVE  /\ waiting' \subseteq S /\ S \subseteq waiting' \cup running'
         /\ running' \subseteq busy \cup S /\ busy \subseteq running'
         /\ waiting' \cap running' \subseteq busy
         /\ \A p \in waiting', q \in S \ waiting' : q < p
         /\ worker' = [p \in DOMAIN threads |-> worker'[p]]
         /\ \A p \in DOMAIN threads :
              \/ worker'[p] = threads[p] /\ (p \in S => p \in waiting')
              \/ p \in S /\ p \in running' /\ worker'[p] = [NoWorker EXCEPT !.pc = "start"]
<1> DEFINE new == Lowest(S, HashLimit - Cardinality(busy))
<1>1. /\ waiting' = S \ new /\ running' = busy \cup new
      /\ worker' = [p \in DOMAIN threads |->
                      IF p \in new THEN [NoWorker EXCEPT !.pc = "start"] ELSE threads[p]]
  BY DEF Admit
<1>2. new \subseteq S
  BY DEF Lowest
<1>3. \A p \in S \ new, q \in new : q < p
  BY LowestBelow
<1> HIDE DEF new
<1>4. \A p \in waiting', q \in S \ waiting' : q < p
  BY <1>1, <1>2, <1>3
<1> QED BY <1>1, <1>2, <1>4

\* What a thread does to its worker
Turns(p, t) ==
  /\ Step(p, t) /\ IsWorker(t) /\ worker[p].pc \notin Ended
  /\ t.pc = "cancelled" => IsCancelled(p)

\* A step of a thread gives its worker a new state.
LEMMA ThreadStep ==
  ASSUME Shape, NEW p \in Positions, WorkerStep(p)
  PROVE  \E t : Turns(p, t)
<1>1. worker = [q \in Positions |-> worker[q]] /\ "pc" \in DOMAIN worker[p]
  BY DEF Shape, IsWorker
<1>4. ASSUME NEW pc \in WorkerPc, ThreadEnds(p, pc), worker[p].pc \notin Ended,
             pc = "cancelled" => IsCancelled(p)
      PROVE  \E t : Turns(p, t)
  <2> DEFINE t == [worker[p] EXCEPT !.pc = pc]
  <2>1. Step(p, t)
    BY <1>4 DEF ThreadEnds, Step
  <2>2. DOMAIN t = DOMAIN worker[p] /\ t.pc = pc
    BY <1>1
  <2>3. IsWorker(t)
    BY <1>1, <1>4, <2>2 DEF IsWorker
  <2> HIDE DEF t
  <2>4. Turns(p, t)
    BY <2>1, <2>2, <2>3, <1>4 DEF Turns
  <2> QED BY <2>4
<1>5. CASE Open(p)
  <2> DEFINE t == [NoWorker EXCEPT !.pc = "opened", !.ino = disk[work[p].path]]
  <2>1. worker[p].pc \notin Ended
    BY <1>5 DEF Open, Ended
  <2>2. CASE Step(p, t)
    <3>1. IsWorker(t) /\ t.pc = "opened"
      BY DEF NoWorker, WorkerPc, IsWorker
    <3> HIDE DEF t
    <3>2. Turns(p, t)
      BY <3>1, <2>1, <2>2 DEF Turns
    <3> QED BY <3>2
  <2>3. CASE ThreadEnds(p, "failed")
    BY <2>1, <2>3, <1>4 DEF WorkerPc, Ended
  <2> QED BY <1>5, <2>2, <2>3 DEF Open
<1>11. CASE CheckSource(p)
  <2> DEFINE t == [worker[p] EXCEPT !.pc = "checked", !.changed = inode[work[p].ino].changed]
  <2>1. worker[p].pc \notin Ended
    BY <1>11 DEF CheckSource, Ended
  <2>2. CASE Step(p, t)
    <3>1. DOMAIN t = DOMAIN worker[p] /\ t.pc = "checked"
      BY <1>1
    <3>2. IsWorker(t)
      BY <1>1, <3>1 DEF WorkerPc, IsWorker
    <3> HIDE DEF t
    <3>3. Turns(p, t)
      BY <3>1, <3>2, <2>1, <2>2 DEF Turns
    <3> QED BY <3>3
  <2>3. CASE ThreadEnds(p, "failed")
    BY <2>1, <2>3, <1>4 DEF WorkerPc, Ended
  <2> QED BY <1>11, <2>2, <2>3 DEF CheckSource
<1>6. CASE ReadHalf(p)
  <2> DEFINE t == [worker[p] EXCEPT !.pc = "half", !.first = inode[worker[p].ino].content]
  <2>1. DOMAIN t = DOMAIN worker[p] /\ t.pc = "half"
    BY <1>1
  <2>2. Step(p, t) /\ worker[p].pc \notin Ended
    BY <1>6 DEF ReadHalf, Ended
  <2>3. IsWorker(t)
    BY <1>1, <2>1 DEF WorkerPc, IsWorker
  <2> HIDE DEF t
  <2>4. Turns(p, t)
    BY <2>1, <2>2, <2>3 DEF Turns
  <2> QED BY <2>4
<1>7. CASE ReadRest(p)
  <2> DEFINE t == [worker[p] EXCEPT !.pc = "read", !.second = inode[worker[p].ino].content]
  <2>1. DOMAIN t = DOMAIN worker[p] /\ t.pc = "read"
    BY <1>1
  <2>2. Step(p, t) /\ worker[p].pc \notin Ended
    BY <1>7 DEF ReadRest, Ended
  <2>3. IsWorker(t)
    BY <1>1, <2>1 DEF WorkerPc, IsWorker
  <2> HIDE DEF t
  <2>4. Turns(p, t)
    BY <2>1, <2>2, <2>3 DEF Turns
  <2> QED BY <2>4
<1>8. CASE Finish(p)
  <2>1. worker[p].pc \notin Ended
    BY <1>8 DEF Finish, Ended
  <2>2. ThreadEnds(p, "hashed") \/ ThreadEnds(p, "failed")
    BY <1>8 DEF Finish
  <2> QED BY <2>1, <2>2, <1>4 DEF WorkerPc, Ended
<1>9. CASE WorkerCancelled(p)
  <2>1. worker[p].pc \notin Ended /\ IsCancelled(p) /\ ThreadEnds(p, "cancelled")
    BY <1>9 DEF WorkerCancelled, Ended
  <2> QED BY <2>1, <1>4 DEF WorkerPc, Ended
<1>10. CASE WorkerFails(p)
  <2>1. worker[p].pc \notin Ended /\ ThreadEnds(p, "failed")
    BY <1>10 DEF WorkerFails, Ended
  <2> QED BY <2>1, <1>4 DEF WorkerPc, Ended
<1> QED BY <1>5, <1>6, <1>7, <1>8, <1>9, <1>10, <1>11 DEF WorkerStep

\* A thread changes its own worker, that has not ended, and gives up only when
\* it is told to.
LEMMA ThreadEffect ==
  ASSUME Shape, NEW p \in Positions, WorkerStep(p)
  PROVE  /\ UNCHANGED workerRest
         /\ worker' = [q \in Positions |-> worker'[q]]
         /\ \A q \in Positions : q # p => worker'[q] = worker[q]
         /\ IsWorker(worker'[p])
         /\ worker[p].pc \notin Ended
         /\ worker'[p].pc = "cancelled" => IsCancelled(p)
<1>1. UNCHANGED workerRest
  BY DEF WorkerStep, Open, CheckSource, ReadHalf, ReadRest, Finish, WorkerCancelled, WorkerFails
<1>2. PICK t : Turns(p, t)
  BY ThreadStep
<1>3. worker' = [q \in Positions |-> IF q = p THEN t ELSE worker[q]]
  BY <1>2 DEF Shape, Turns, Step
<1>4. worker'[p] = t /\ \A q \in Positions : q # p => worker'[q] = worker[q]
  BY <1>3
<1>5. worker' = [q \in Positions |-> worker'[q]]
  BY <1>3
<1> QED BY <1>1, <1>2, <1>4, <1>5 DEF Turns

-----------------------------------------------------------------------------
\* A thread keeps the invariant: results once given stay, and one that gives up
\* is above the cutoff.
LEMMA ThreadKeeps ==
  ASSUME Inv, NEW p \in Positions, Thread(p)
  PROVE  Inv'
<1>1. Shape /\ WorkerStep(p) /\ UNCHANGED <<treeVars, scanVars>>
  BY DEF Inv, Thread
<1>2. /\ UNCHANGED workerRest
      /\ worker' = [q \in Positions |-> worker'[q]]
      /\ \A q \in Positions : q # p => worker'[q] = worker[q]
      /\ IsWorker(worker'[p])
      /\ worker[p].pc \notin Ended
      /\ worker'[p].pc = "cancelled" => IsCancelled(p)
  BY <1>1, ThreadEffect
<1>3. /\ work' = work /\ waiting' = waiting /\ running' = running /\ pool' = pool
      /\ firstError' = firstError /\ cancelAll' = cancelAll /\ entries' = entries
  BY <1>1, <1>2 DEF workerRest, scanVars
<1>4. Positions' = Positions /\ NoError' = NoError
  BY <1>3 DEF Positions, NoError
<1>5. \A q \in Positions : worker[q].pc \in Ended => worker'[q] = worker[q]
  BY <1>2
<1>6. Shape'
  BY <1>1, <1>2, <1>3, <1>4 DEF Shape
<1>7. pool = "running" => InOrder' /\ Cutoff'
  <2> SUFFICES ASSUME pool = "running" PROVE InOrder' /\ Cutoff'
    OBVIOUS
  <2>1. InOrder /\ Cutoff /\ ~cancelAll
    BY DEF Inv
  <2>2. InOrder'
    BY <2>1, <1>3, <1>4 DEF InOrder
  <2>3. firstError \in Positions \cup {NoError}
    BY <1>1 DEF Shape
  <2>4. firstError # NoError => worker'[firstError].pc = "failed"
    BY <2>1, <2>3, <1>5 DEF Cutoff, Ended
  <2>5. ASSUME NEW q \in Positions, q < firstError
        PROVE  q \in waiting \cup running \/ worker'[q].pc = "hashed"
    BY <2>1, <2>5, <1>5 DEF Cutoff, Ended
  <2>6. ASSUME NEW q \in Positions, worker'[q].pc = "cancelled"
        PROVE  q > firstError
    <3>1. CASE q = p
      BY <3>1, <2>6, <2>1, <1>2 DEF IsCancelled
    <3>2. CASE q # p
      BY <3>2, <2>6, <2>1, <1>2 DEF Cutoff
    <3> QED BY <3>1, <3>2
  <2>7. Cutoff'
    BY <2>4, <2>5, <2>6, <1>3, <1>4 DEF Cutoff
  <2> QED BY <2>2, <2>7
<1>8. FirstErrorReported' /\ AllOrError'
  BY <1>3, <1>4, <1>5 DEF Inv, FirstErrorReported, AllOrError, Ended
<1>9. pool' \in {"idle", "running"} => ~cancelAll'
  BY <1>3 DEF Inv
<1> QED BY <1>3, <1>6, <1>7, <1>8, <1>9 DEF Inv

\* The pool starts with nothing done, and the first of the list handed out.
LEMMA StartKeeps ==
  ASSUME Inv, HashChanged, UNCHANGED scanVars
  PROVE  Inv'
<1>1. PICK w \in [1..Cardinality(ToHash) -> ToHash] : PoolStart(w)
  BY DEF HashChanged
<1>2. IsFiniteSet(entries) /\ entries' = entries
  BY DEF Inv, Shape, scanVars
<1>3. Cardinality(ToHash) \in Nat
  BY <1>2, FS_Subset, FS_CardinalityType DEF ToHash
<1>4. DOMAIN w = 1..Len(w) /\ Len(w) \in Nat
  BY <1>3
<1>5. /\ work' = w /\ firstError' = Len(w) + 1 /\ pool = "idle"
      /\ pool' = IF w = <<>> THEN "ok" ELSE "running"
      /\ Admit(DOMAIN w, {}, [q \in DOMAIN w |-> NoWorker])
      /\ cancelAll' = cancelAll
  BY <1>1 DEF PoolStart
<1>6. IsFiniteSet(DOMAIN w) /\ DOMAIN w \subseteq Nat
  BY <1>4, FS_Interval
<1>7. HashLimit - Cardinality({}) \in Int
  BY PoolAssumption, FS_EmptySet
<1> DEFINE threads == [q \in DOMAIN w |-> NoWorker]
<1>8. /\ waiting' \subseteq DOMAIN w /\ DOMAIN w \subseteq waiting' \cup running'
      /\ running' \subseteq {} \cup DOMAIN w
      /\ \A a \in waiting', b \in DOMAIN w \ waiting' : b < a
      /\ worker' = [q \in DOMAIN threads |-> worker'[q]]
      /\ \A q \in DOMAIN threads :
           worker'[q] = threads[q] \/ worker'[q] = [NoWorker EXCEPT !.pc = "start"]
  BY <1>5, <1>6, <1>7, Admitted
<1>9. waiting' \cap running' = {}
  <2>1. PICK new : waiting' = DOMAIN w \ new /\ running' = {} \cup new
    BY <1>5 DEF Admit
  <2> QED BY <2>1
<1>10. \A q \in DOMAIN w : IsWorker(worker'[q]) /\ worker'[q].pc \in {"none", "start"}
  BY <1>8 DEF NoWorker, IsWorker, WorkerPc
<1>11. Positions' = DOMAIN w /\ NoError' = Len(w) + 1
  BY <1>5 DEF Positions, NoError
<1>12. Shape'
  BY <1>2, <1>4, <1>5, <1>8, <1>10, <1>11 DEF Shape
<1>13. InOrder' /\ Cutoff'
  BY <1>5, <1>8, <1>10, <1>11, <1>9 DEF InOrder, Cutoff
<1>14. FirstErrorReported' /\ AllOrError'
  <2>1. w = <<>> => DOMAIN w = {}
    BY <1>4
  <2> QED BY <2>1, <1>5, <1>11 DEF FirstErrorReported, AllOrError
<1>15. pool' \in {"idle", "running"} => ~cancelAll'
  BY <1>5 DEF Inv
<1> QED BY <1>12, <1>13, <1>14, <1>15 DEF Inv

\* A result is taken in.  An error lowers the cutoff to a position that was
\* handed out, so nothing that waits is below it; without one, the positions
\* handed out next are the lowest that wait.
LEMMA TakeInKeeps ==
  ASSUME Inv, NEW p \in Positions, TakeIn(p), UNCHANGED scanVars
  PROVE  Inv'
<1> DEFINE error == IF worker[p].pc = "hashed" THEN firstError ELSE Min({firstError, p})
           left == Kept(error, waiting)
           busy == running \ {p}
<1>1. /\ Shape /\ InOrder /\ Cutoff /\ ~cancelAll /\ pool = "running"
      /\ p \in running /\ worker[p].pc \in Ended
  BY DEF Inv, TakeIn
<1>2. /\ firstError' = error /\ pool' = Outcome(error, left, busy)
      /\ cancelAll' = (pool' # "running") /\ work' = work /\ entries' = entries
      /\ IF pool' = "running" THEN Admit(left, busy, worker)
           ELSE waiting' = left /\ running' = busy /\ UNCHANGED worker
  BY DEF TakeIn, scanVars
<1>3. Positions' = Positions /\ NoError' = NoError
  BY <1>2 DEF Positions, NoError
<1>4. /\ Positions = 1..Len(work) /\ Len(work) \in Nat /\ NoError = Len(work) + 1
      /\ waiting \subseteq Positions /\ running \subseteq Positions
      /\ firstError \in Positions \cup {NoError} /\ DOMAIN worker = Positions
  BY <1>1 DEF Shape, NoError
<1>5. error \in Positions \cup {NoError} /\ error <= firstError
      /\ (worker[p].pc # "hashed" => error <= p)
      /\ error \in {firstError, p} /\ (error = p => p = firstError \/ worker[p].pc # "hashed")
  <2>1. Min({firstError, p}) = IF firstError <= p THEN firstError ELSE p
    BY <1>4, MinOfTwo
  <2> QED BY <2>1, <1>4
<1>6. left \subseteq waiting /\ (error = NoError => left = waiting)
  <2> HIDE DEF error
  <2>1. left = {q \in waiting : q < error}
    BY DEF Kept
  <2>2. \A q \in waiting : q < NoError
    BY <1>4
  <2> QED BY <2>1, <2>2
<1>7. error # NoError => left = {}
  <2>1. CASE firstError # NoError
    BY <2>1, <1>1, <1>6 DEF InOrder
  <2>2. CASE firstError = NoError /\ error # NoError
    <3>1. error = p
      BY <2>2, <1>5
    <3>2. p \notin waiting
      BY <1>1 DEF InOrder
    <3>3. \A a \in waiting : p < a
      BY <2>2, <3>2, <1>1, <1>4 DEF InOrder
    <3>4. \A a \in waiting : ~(a < p)
      BY <3>3, <1>4
    <3> QED BY <3>1, <3>4 DEF Kept
  <2> QED BY <2>1, <2>2
<1>8. error # NoError => worker[error].pc = "failed"
  <2>1. CASE error = firstError
    BY <2>1, <1>1 DEF Cutoff
  <2>2. CASE error # firstError
    <3>1. error = p /\ p < firstError /\ worker[p].pc # "hashed"
      BY <2>2, <1>4, <1>5
    <3>2. worker[p].pc # "cancelled"
      BY <3>1, <1>1, <1>4 DEF Cutoff
    <3> QED BY <3>1, <3>2, <1>1 DEF Ended
  <2> QED BY <2>1, <2>2
<1>9. \A q \in Positions : q < error => q \in left \cup busy \/ worker[q].pc = "hashed"
  <2> SUFFICES ASSUME NEW q \in Positions, q < error
               PROVE  q \in left \cup busy \/ worker[q].pc = "hashed"
    OBVIOUS
  <2>1. q < firstError
    BY <1>4, <1>5
  <2>2. q \in waiting \cup running \/ worker[q].pc = "hashed"
    BY <2>1, <1>1 DEF Cutoff
  <2>3. q \in waiting => q \in left
    BY DEF Kept
  <2>4. q = p => worker[q].pc = "hashed"
    BY <1>4, <1>5
  <2> QED BY <2>2, <2>3, <2>4
<1>10. \A q \in Positions : worker[q].pc = "cancelled" => q > error
  BY <1>1, <1>4, <1>5 DEF Cutoff
<1> HIDE DEF error, left, busy
<1>11. CASE pool' = "running"
  <2>1. Admit(left, busy, worker)
    BY <1>2, <1>11
  <2>2. IsFiniteSet(left) /\ left \subseteq Nat /\ IsFiniteSet(busy)
    <3>1. IsFiniteSet(Positions)
      BY <1>4, FS_Interval
    <3>2. busy \subseteq Positions
      BY <1>4 DEF busy
    <3>3. left \subseteq Positions
      BY <1>4, <1>6
    <3>4. IsFiniteSet(left) /\ IsFiniteSet(busy)
      BY <3>1, <3>2, <3>3, FS_Subset
    <3> QED BY <3>3, <3>4, <1>4
  <2>3. HashLimit - Cardinality(busy) \in Int
    BY <2>2, PoolAssumption, FS_CardinalityType
  <2>4. /\ waiting' \subseteq left /\ left \subseteq waiting' \cup running'
        /\ running' \subseteq busy \cup left /\ busy \subseteq running'
        /\ waiting' \cap running' \subseteq busy
        /\ \A a \in waiting', b \in left \ waiting' : b < a
        /\ worker' = [q \in DOMAIN worker |-> worker'[q]]
        /\ \A q \in DOMAIN worker :
             \/ worker'[q] = worker[q] /\ (q \in left => q \in waiting')
             \/ q \in left /\ q \in running' /\ worker'[q] = [NoWorker EXCEPT !.pc = "start"]
    BY <2>1, <2>2, <2>3, Admitted
  <2>5. LET t == [NoWorker EXCEPT !.pc = "start"] IN IsWorker(t) /\ t.pc = "start"
    BY DEF NoWorker, IsWorker, WorkerPc
  <2>6. Shape'
    <3>1. \A q \in Positions : IsWorker(worker'[q])
      BY <2>4, <2>5, <1>1, <1>4 DEF Shape
    <3> QED BY <3>1, <2>4, <1>1, <1>2, <1>3, <1>4, <1>5, <1>6 DEF Shape, busy
  <2>7. InOrder'
    <3>0. waiting' \cap running' = {}
      BY <2>4, <1>1, <1>6 DEF InOrder, busy
    <3>1. CASE error = NoError
      <4>1. firstError = NoError /\ left = waiting
        BY <3>1, <1>4, <1>5, <1>6
      <4>2. ASSUME NEW a \in waiting', NEW b \in Positions \ waiting' PROVE b < a
        BY <4>1, <2>4, <1>1 DEF InOrder
      <4> QED BY <4>2, <3>0, <3>1, <1>2, <1>3 DEF InOrder
    <3>2. CASE error # NoError
      BY <3>0, <3>2, <1>7, <2>4, <1>2, <1>3 DEF InOrder
    <3> QED BY <3>1, <3>2
  <2>8. Cutoff'
    <3>1. error # NoError => worker'[error].pc = "failed"
      BY <1>4, <1>5, <1>7, <1>8, <2>4
    <3>2. \A q \in Positions : q < error => q \in waiting' \cup running' \/ worker'[q].pc = "hashed"
      BY <1>4, <1>9, <2>4
    <3>3. \A q \in Positions : worker'[q].pc = "cancelled" => q > error
      BY <1>4, <1>10, <2>4, <2>5
    <3> QED BY <3>1, <3>2, <3>3, <1>2, <1>3 DEF Cutoff
  <2> QED BY <2>6, <2>7, <2>8, <1>2, <1>11 DEF Inv, FirstErrorReported, AllOrError
<1>12. CASE pool' # "running"
  <2>1. waiting' = left /\ running' = busy /\ worker' = worker
    BY <1>2, <1>12
  <2>2. Shape'
    BY <2>1, <1>1, <1>2, <1>3, <1>4, <1>5, <1>6 DEF Shape, busy
  <2>3. CASE error # NoError /\ ~\E q \in busy : q < error
    <3>1. pool' = "error"
      BY <2>3, <1>2 DEF Outcome
    <3>2. \A q \in Positions : q < error => worker[q].pc = "hashed"
      BY <2>3, <1>7, <1>9
    <3>3. FirstErrorReported' /\ AllOrError'
      BY <3>1, <3>2, <2>1, <2>3, <1>2, <1>3, <1>5, <1>8 DEF FirstErrorReported, AllOrError
    <3> QED BY <3>1, <3>3, <2>2 DEF Inv
  <2>4. CASE error = NoError \/ \E q \in busy : q < error
    <3>1. left = {} /\ busy = {} /\ error = NoError
      BY <2>4, <1>2, <1>12 DEF Outcome
    <3>2. \A q \in Positions : worker[q].pc = "hashed"
      BY <3>1, <1>4, <1>9
    <3>3. pool' = "ok"
      BY <3>1, <3>2, <1>2 DEF Outcome
    <3> QED BY <3>2, <3>3, <2>1, <2>2, <1>3 DEF Inv, FirstErrorReported, AllOrError
  <2> QED BY <2>3, <2>4
<1> QED BY <1>11, <1>12

\* The scan keeps the invariant: it leaves the pool alone and collects one
\* entry at a time.
LEMMA ScanKeeps ==
  ASSUME Inv, ScanStep, UNCHANGED poolVars
  PROVE  Inv'
<1>1. IsFiniteSet(entries')
  <2>1. IsFiniteSet(entries)
    BY DEF Inv, Shape
  <2>2. entries' = entries \/ entries' = {} \/ entries' = entries \cup {Head(chan)}
    BY DEF ScanStep, OpenDir, ChildSkipped, ChildGone, ChildFound, Send, DirDone, Collect,
           Drained, Becomes, ScanFails
  <2>3. IsFiniteSet(entries \cup {Head(chan)})
    BY <2>1, FS_AddElement
  <2>4. IsFiniteSet({})
    BY FS_EmptySet
  <2>5. CASE entries' = entries
    BY <2>1, <2>5
  <2>6. CASE entries' = {}
    BY <2>4, <2>6
  <2>7. CASE entries' = entries \cup {Head(chan)}
    BY <2>3, <2>7
  <2> QED BY <2>2, <2>5, <2>6, <2>7
<1>2. Shape'
  BY <1>1 DEF Inv, Shape, poolVars, Positions, NoError
<1> QED BY <1>2 DEF Inv, InOrder, Cutoff, FirstErrorReported, AllOrError, poolVars,
              Positions, NoError

LEMMA InitInv == Init => Inv
<1> SUFFICES ASSUME Init PROVE Inv
  OBVIOUS
<1>1. /\ work = <<>> /\ worker = <<>> /\ waiting = {} /\ running = {} /\ firstError = 1
      /\ cancelAll = FALSE /\ pool = "idle" /\ entries = {}
  BY DEF Init, PoolInit, ScanInit
<1>2. Positions = {} /\ NoError = 1 /\ Len(work) = 0
  BY <1>1 DEF Positions, NoError
<1>3. worker = [p \in Positions |-> worker[p]]
  BY <1>1, <1>2
<1> QED BY <1>1, <1>2, <1>3, FS_EmptySet
        DEF Inv, Shape, FirstErrorReported, AllOrError

LEMMA NextInv == Inv /\ [Next]_vars => Inv'
<1> SUFFICES ASSUME Inv, [Next]_vars PROVE Inv'
  OBVIOUS
<1>1. CASE ScanStep /\ UNCHANGED poolVars
  BY <1>1, ScanKeeps
<1>2. CASE HashChanged /\ UNCHANGED scanVars
  BY <1>2, StartKeeps
<1>3. ASSUME NEW p \in Positions, TakeIn(p), UNCHANGED scanVars PROVE Inv'
  BY <1>3, TakeInKeeps
<1>4. ASSUME NEW p \in Positions, Thread(p) PROVE Inv'
  BY <1>4, ThreadKeeps
<1>5. CASE UNCHANGED <<scanVars, poolVars>>
  BY <1>5 DEF Inv, Shape, InOrder, Cutoff, FirstErrorReported, AllOrError, poolVars, scanVars,
              Positions, NoError
<1> QED BY <1>1, <1>2, <1>3, <1>4, <1>5 DEF Next, Task, Users, vars

-----------------------------------------------------------------------------
(* What was read *)

Holding == [content : Nat, stamp : Nat, changed : Nat]

\* No change time is later than the last change, and what a path is now is among
\* what it has been.
TreeKept ==
  /\ disk = [p \in Paths |-> disk[p]] /\ touched \subseteq Paths
  /\ edits \in Nat /\ inode \in [Inodes -> Holding]
  /\ \A i \in Inodes : inode[i].changed <= edits
  /\ \A p \in Paths : IsFile(p) => File(p, disk, inode) \in was[p]

\* A directory that is being read found paths, and sends one of them.
Lists(j, S) ==
  /\ DOMAIN j = {"path", "span", "opened", "left", "sending", "kids"}
  /\ j.left \subseteq Paths
  /\ j.sending = NoEntry \/ j.sending \in S

\* What the scan has found, collected and not, are paths.
FoundInTree ==
  \E S : /\ \A e \in S : e.path \in Paths
         /\ entries \subseteq S /\ chan \in Seq(S)
         /\ \A j \in active : Lists(j, S)

\* The file of an entry had this content since the scan began.
WasSo(e, content) == HeldAt(e.path, [ino |-> e.ino, stamp |-> e.stamp, content |-> content])

\* What was opened is still at its path, or was moved from there; what it is now,
\* it has been there or where it was moved to.
Now(i) == [ino |-> i, stamp |-> inode[i].stamp, content |-> inode[i].content]
Followed(e, i) ==
  /\ disk[e.path] = i \/ e.path \in touched
  /\ HeldAt(e.path, Now(i))

\* A reader has the file of its entry open.  As long as the change time is what
\* fstat gave, the file is what was read so far, and was so with the metadata of
\* its entry.
Reads(e, t) ==
  /\ t.ino = e.ino /\ e.ino \in Inodes
  /\ t.changed \in Nat /\ t.changed <= inode[e.ino].changed
  /\ inode[e.ino].changed = t.changed =>
       /\ WasSo(e, inode[e.ino].content)
       /\ t.pc \in {"half", "read"} => t.first = inode[e.ino].content
       /\ t.pc = "read" => t.second = inode[e.ino].content

ReadSoFar(e, t) ==
  /\ DOMAIN t = {"pc", "ino", "changed", "first", "second"}
  /\ t.pc = "opened" /\ t.ino \in Inodes => Followed(e, t.ino)
  /\ t.pc \in {"checked", "half", "read"} => Reads(e, t)
  /\ t.pc = "hashed" => t.first = t.second /\ WasSo(e, t.first)

Readings == \A p \in Positions : work[p].path \in Paths /\ ReadSoFar(work[p], worker[p])

DigestInv == TreeKept /\ FoundInTree /\ Readings

LEMMA InitDigest == Init => DigestInv
<1> SUFFICES ASSUME Init PROVE DigestInv
  OBVIOUS
<1>1. /\ edits = 0 /\ inode = [i \in Inodes |-> [content |-> 0, stamp |-> 0, changed |-> 0]]
      /\ was = [p \in Paths |-> IF IsFile(p) THEN {File(p, disk, inode)} ELSE {}]
      /\ disk = [p \in Paths |-> disk[p]] /\ touched = {}
  BY DEF Init, TreeInit
<1>2. TreeKept
  <2>1. inode \in [Inodes -> Holding]
    BY <1>1 DEF Holding
  <2>2. \A i \in Inodes : inode[i].changed <= edits
    BY <1>1
  <2>3. \A p \in Paths : IsFile(p) => File(p, disk, inode) \in was[p]
    BY <1>1
  <2> QED BY <1>1, <2>1, <2>2, <2>3 DEF TreeKept
<1>3. FoundInTree
  <2>1. Lists(Job(Root, WholeSpan), {})
    BY DEF Lists, Job
  <2>2. \A j \in active : Lists(j, {})
    BY <2>1 DEF Init, ScanInit
  <2>3. entries \subseteq {} /\ chan \in Seq({})
    BY DEF Init, ScanInit
  <2> QED BY <2>2, <2>3 DEF FoundInTree
<1>4. Positions = {}
  BY DEF Init, PoolInit, Positions
<1> QED BY <1>2, <1>3, <1>4 DEF DigestInv, Readings

\* What users change they leave at a path that is touched by then.
LEMMA EditMoves ==
  ASSUME TreeKept, UserEdits
  PROVE  /\ disk' = [p \in Paths |-> disk'[p]] /\ touched \subseteq touched' /\ touched' \subseteq Paths
         /\ \A p \in Paths : disk'[p] = disk[p] \/ p \in touched'
         /\ \A i \in Inodes : inode'[i] = inode[i] \/ \E q \in touched' : disk'[q] = i
<1>1. disk = [p \in Paths |-> disk[p]] /\ touched \subseteq Paths /\ inode \in [Inodes -> Holding]
  BY DEF TreeKept
<1>2. ASSUME NEW p \in Paths, Write(p) \/ Create(p) \/ Unlink(p) PROVE touched' = touched \cup {p}
  BY <1>2 DEF Write, Create, Unlink, Edit
<1>3. ASSUME NEW p \in Paths, Write(p)
      PROVE  disk' = disk /\ \A i \in Inodes : inode'[i] = inode[i] \/ disk'[p] = i
  BY <1>1, <1>3 DEF Write
<1>4. ASSUME NEW p \in Paths, Create(p) \/ Unlink(p)
      PROVE  /\ inode' = inode /\ disk' = [q \in Paths |-> disk'[q]]
             /\ \A q \in Paths : q # p => disk'[q] = disk[q]
  BY <1>1, <1>4 DEF Create, Unlink
<1>5. ASSUME NEW p \in Paths, NEW q \in Paths, Move(p, q)
      PROVE  /\ touched' = touched \cup {p, q} /\ disk' = [r \in Paths |-> disk'[r]]
             /\ \A r \in Paths : r \notin {p, q} => disk'[r] = disk[r]
             /\ \A i \in Inodes : inode'[i] = inode[i] \/ disk'[q] = i
  <2>1. /\ p # q /\ disk' = [disk EXCEPT ![p] = Absent, ![q] = disk[p]]
        /\ inode' = [inode EXCEPT ![disk[p]].changed = edits + 1]
    BY <1>5 DEF Move
  <2>2. disk'[q] = disk[p] /\ disk' = [r \in Paths |-> disk'[r]]
        /\ \A r \in Paths : r \notin {p, q} => disk'[r] = disk[r]
    BY <2>1, <1>1
  <2>3. \A i \in Inodes : inode'[i] = inode[i] \/ disk[p] = i
    BY <2>1, <1>1
  <2> QED BY <2>2, <2>3, <1>5 DEF Move, Edit
<1> QED BY <1>1, <1>2, <1>3, <1>4, <1>5 DEF UserEdits

\* A change of a user keeps what was read: a file that is written or moved has
\* another change time than any reader has seen.
LEMMA EditKeeps ==
  ASSUME DigestInv, UserEdits, UNCHANGED <<scanVars, poolVars>>
  PROVE  DigestInv'
<1>1. TreeKept /\ FoundInTree /\ Readings
  BY DEF DigestInv
<1>2. /\ edits' = edits + 1
      /\ was' = [p \in Paths |-> was[p] \cup
                   IF disk'[p] \in Inodes THEN {File(p, disk', inode')} ELSE {}]
  BY DEF UserEdits, Write, Create, Unlink, Move, Edit
<1>3. /\ inode' \in [Inodes -> Holding]
      /\ \A i \in Inodes : inode'[i] = inode[i] \/ inode'[i].changed = edits + 1
  <2>1. ASSUME NEW p \in Paths, Write(p)
        PROVE  /\ inode' \in [Inodes -> Holding]
               /\ \A i \in Inodes : inode'[i] = inode[i] \/ inode'[i].changed = edits + 1
    <3>1. PICK s \in {inode[disk[p]].stamp, edits + 1} :
            inode' = [inode EXCEPT ![disk[p]] =
                        [content |-> edits + 1, stamp |-> s, changed |-> edits + 1]]
      BY <2>1 DEF Write
    <3>2. s \in Nat /\ edits + 1 \in Nat /\ disk[p] \in Inodes
      BY <1>1, <2>1 DEF Write, IsFile, TreeKept, Holding
    <3> QED BY <3>1, <3>2, <1>1 DEF TreeKept, Holding
  <2>2. ASSUME NEW p \in Paths, NEW q \in Paths, Move(p, q)
        PROVE  /\ inode' \in [Inodes -> Holding]
               /\ \A i \in Inodes : inode'[i] = inode[i] \/ inode'[i].changed = edits + 1
    <3>1. disk[p] \in Inodes /\ inode' = [inode EXCEPT ![disk[p]].changed = edits + 1]
      BY <2>2 DEF Move, IsFile
    <3> QED BY <3>1, <1>1 DEF TreeKept, Holding
  <2>3. CASE UNCHANGED inode
    BY <2>3, <1>1 DEF TreeKept
  <2> QED BY <2>1, <2>2, <2>3 DEF UserEdits, Create, Unlink
<1>8. /\ disk' = [p \in Paths |-> disk'[p]] /\ touched \subseteq touched' /\ touched' \subseteq Paths
      /\ \A p \in Paths : disk'[p] = disk[p] \/ p \in touched'
      /\ \A i \in Inodes : inode'[i] = inode[i] \/ \E q \in touched' : disk'[q] = i
  BY <1>1, EditMoves
<1>4. TreeKept'
  <2>1. \A i \in Inodes : inode'[i].changed <= edits'
    BY <1>1, <1>2, <1>3 DEF TreeKept, Holding
  <2>2. \A p \in Paths : disk'[p] \in Inodes => File(p, disk', inode') \in was'[p]
    BY <1>2
  <2> QED BY <1>1, <1>2, <1>3, <1>8, <2>1, <2>2 DEF TreeKept, IsFile
<1>5. FoundInTree'
  BY <1>1 DEF FoundInTree, scanVars
<1>6. Positions' = Positions /\ work' = work /\ worker' = worker
  BY DEF poolVars, Positions
<1>7. ASSUME NEW p \in Positions PROVE ReadSoFar(work[p], worker[p])'
  <2> DEFINE e == work[p]
             t == worker[p]
  <2>1. e.path \in Paths /\ ReadSoFar(e, t)
    BY <1>1 DEF Readings
  <2>4. \A f : HeldAt(e.path, f) => HeldAt(e.path, f)'
    BY <2>1, <1>1, <1>2, <1>6, <1>8 DEF HeldAt, TreeKept
  <2>2. ASSUME NEW c, WasSo(e, c) PROVE WasSo(e, c)'
    BY <2>2, <2>4, <1>6 DEF WasSo
  <2>5. ASSUME NEW i \in Inodes, Followed(e, i) PROVE Followed(e, i)'
    <3>1. e.path \in Paths /\ e' = e
      BY <2>1, <1>6
    <3>2. ASSUME NEW q \in Paths, disk'[q] = i PROVE Now(i)' \in was'[q]
      BY <3>2, <1>2 DEF File, Now
    <3>3. CASE disk'[e.path] = i
      BY <3>1, <3>2, <3>3 DEF Followed, HeldAt
    <3>4. CASE disk'[e.path] # i
      <4>1. e.path \in touched'
        BY <3>1, <3>4, <1>8, <2>5 DEF Followed
      <4>2. CASE inode'[i] = inode[i]
        <5>1. Now(i)' = Now(i)
          BY <4>2 DEF Now
        <5> QED BY <4>1, <5>1, <3>1, <2>4, <2>5 DEF Followed
      <4>3. CASE inode'[i] # inode[i]
        <5>1. PICK q \in touched' : disk'[q] = i
          BY <4>3, <1>8
        <5>2. Now(i)' \in was'[q]
          BY <5>1, <3>2, <1>8
        <5> QED BY <4>1, <5>1, <5>2, <3>1 DEF Followed, HeldAt
      <4> QED BY <4>2, <4>3
    <3> QED BY <3>3, <3>4
  <2>3. ASSUME t.pc \in {"checked", "half", "read"} PROVE Reads(e, t)'
    <3>1. Reads(e, t)
      BY <2>1, <2>3 DEF ReadSoFar
    <3>2. CASE inode'[e.ino] = inode[e.ino]
      BY <3>1, <3>2, <2>2, <1>6 DEF Reads
    <3>3. CASE inode'[e.ino].changed = edits + 1
      <4>1. inode[e.ino].changed <= edits /\ inode[e.ino].changed \in Nat /\ edits \in Nat
        BY <3>1, <1>1 DEF TreeKept, Holding, Reads
      <4>2. t.changed <= inode'[e.ino].changed /\ t.changed # inode'[e.ino].changed
        BY <4>1, <3>1, <3>3 DEF Reads
      <4> QED BY <4>2, <3>1, <1>6 DEF Reads
    <3> QED BY <3>1, <3>2, <3>3, <1>3 DEF Reads
  <2>6. Inodes' = Inodes
    BY DEF Inodes, FilePaths
  <2> QED BY <2>1, <2>2, <2>3, <2>5, <2>6, <1>6 DEF ReadSoFar
<1> QED BY <1>1, <1>4, <1>5, <1>6, <1>7 DEF DigestInv, Readings

\* What the scan finds, sends and collects are paths of the tree.
LEMMA ScanFinds ==
  ASSUME FoundInTree, ScanStep
  PROVE  FoundInTree'
<1>1. PICK S : /\ \A e \in S : e.path \in Paths
               /\ entries \subseteq S /\ chan \in Seq(S)
               /\ \A j \in active : Lists(j, S)
  BY DEF FoundInTree
<1>2. ASSUME NEW j \in active, NEW k, NEW T, S \subseteq T, \A e \in T : e.path \in Paths,
             Lists(k, T), Becomes(j, k)
      PROVE  FoundInTree'
  <2>1. \A l \in active' : Lists(l, T)
    BY <1>1, <1>2 DEF Becomes, Lists
  <2>2. entries' \subseteq T /\ chan' \in Seq(T)
    BY <1>1, <1>2 DEF Becomes
  <2> QED BY <1>2, <2>1, <2>2 DEF FoundInTree
<1>3. CASE ScanFails
  <2>1. entries' \subseteq {} /\ chan' \in Seq({}) /\ active' = {}
    BY <1>3 DEF ScanFails
  <2> QED BY <2>1 DEF FoundInTree
<1>4. ASSUME NEW j \in active, OpenDir(j) PROVE FoundInTree'
  <2>1. Lists(j, S)
    BY <1>1
  <2>2. CASE Becomes(j, [j EXCEPT !.opened = TRUE])
    <3>1. Lists([j EXCEPT !.opened = TRUE], S)
      BY <2>1 DEF Lists
    <3> QED BY <3>1, <2>2, <1>1, <1>2
  <2>3. ASSUME NEW span,
               Becomes(j, [j EXCEPT !.opened = TRUE, !.span = span,
                 !.left = {p \in Paths : disk[p] # Absent /\ Parent(p) = j.path}])
        PROVE  FoundInTree'
    <3> DEFINE L == {p \in Paths : disk[p] # Absent /\ Parent(p) = j.path}
               k == [j EXCEPT !.opened = TRUE, !.span = span, !.left = L]
    <3>1. L \subseteq Paths
      OBVIOUS
    <3>2. Becomes(j, k)
      BY <2>3
    <3> HIDE DEF L
    <3>3. Lists(k, S)
      BY <2>1, <3>1 DEF Lists
    <3> HIDE DEF k
    <3> QED BY <3>2, <3>3, <1>1, <1>2
  <2> QED BY <1>3, <1>4, <2>2, <2>3 DEF OpenDir
<1>5. ASSUME NEW j \in active, NEW p \in j.left,
             ChildSkipped(j, p) \/ ChildGone(j, p) \/ ChildFound(j, p)
      PROVE  FoundInTree'
  <2>1. Lists(j, S) /\ p \in Paths
    BY <1>1 DEF Lists
  <2> DEFINE k == [j EXCEPT !.left = @ \ {p}]
             T == S \cup {EntryOf(p)}
  <2>2. Lists(k, S) /\ Lists(k, T)
    BY <2>1 DEF Lists
  <2>3. \A e \in T : e.path \in Paths
    <3>1. EntryOf(p).path = p
      BY DEF EntryOf, NoEntry
    <3> QED BY <3>1, <2>1, <1>1
  <2>4. CASE ChildSkipped(j, p)
    BY <2>2, <2>4, <1>1, <1>2 DEF ChildSkipped
  <2>5. CASE ChildGone(j, p)
    BY <2>5, <1>3 DEF ChildGone
  <2>6. CASE ChildFound(j, p)
    <3>1. PICK kids, sending :
            /\ sending \in {EntryOf(p), NoEntry}
            /\ Becomes(j, k) \/ Becomes(j, [k EXCEPT !.kids = kids, !.sending = sending])
      BY <2>6 DEF ChildFound
    <3> HIDE DEF k
    <3>2. Lists([k EXCEPT !.kids = kids, !.sending = sending], T)
      BY <2>2, <3>1 DEF Lists
    <3>3. S \subseteq T
      OBVIOUS
    <3> HIDE DEF T
    <3> QED BY <2>2, <2>3, <3>1, <3>2, <3>3, <1>2
  <2> QED BY <1>5, <2>4, <2>5, <2>6
<1>6. ASSUME NEW j \in active, Send(j) PROVE FoundInTree'
  <2>1. Lists(j, S) /\ j.sending \in S
    BY <1>1, <1>6 DEF Lists, Send
  <2>2. Lists([j EXCEPT !.sending = NoEntry], S)
    BY <2>1 DEF Lists
  <2>3. chan' \in Seq(S) /\ entries' = entries
    BY <2>1, <1>1, <1>6 DEF Send
  <2>4. \A l \in active' : Lists(l, S)
    BY <2>2, <1>1, <1>6 DEF Send
  <2> QED BY <2>3, <2>4, <1>1 DEF FoundInTree
<1>7. ASSUME NEW j \in active, DirDone(j) PROVE FoundInTree'
  <2>1. PICK queue, n : active' = (active \ {j}) \cup {Job(queue[i].path, queue[i].span) : i \in 1..n}
    BY <1>7 DEF DirDone
  <2>2. \A path, span : Lists(Job(path, span), S)
    BY DEF Lists, Job
  <2>3. \A l \in active' : Lists(l, S)
    BY <2>1, <2>2, <1>1
  <2>4. chan' = chan /\ entries' = entries
    BY <1>7 DEF DirDone
  <2> QED BY <2>3, <2>4, <1>1 DEF FoundInTree
<1>8. CASE Collect
  <2>1. chan # <<>> /\ entries' = entries \cup {Head(chan)} /\ chan' = Tail(chan) /\ active' = active
    BY <1>8 DEF Collect
  <2>2. Head(chan) \in S /\ Tail(chan) \in Seq(S)
    BY <2>1, <1>1
  <2> QED BY <2>1, <2>2, <1>1 DEF FoundInTree
<1>9. CASE Drained
  BY <1>1, <1>9 DEF Drained, FoundInTree
<1> QED BY <1>4, <1>5, <1>6, <1>7, <1>8, <1>9 DEF ScanStep

\* The list of the pool is made of files of the scan, none of them read yet.
LEMMA StartReads ==
  ASSUME Inv, FoundInTree, HashChanged
  PROVE  Readings'
<1>1. PICK w \in [1..Cardinality(ToHash) -> ToHash] : PoolStart(w)
  BY DEF HashChanged
<1>2. IsFiniteSet(entries) /\ \A e \in ToHash : e.path \in Paths
  BY DEF Inv, Shape, FoundInTree, ToHash
<1>3. Cardinality(ToHash) \in Nat
  BY <1>2, FS_Subset, FS_CardinalityType DEF ToHash
<1>4. IsFiniteSet(DOMAIN w) /\ DOMAIN w \subseteq Nat
  BY <1>3, FS_Interval
<1>5. HashLimit - Cardinality({}) \in Int
  BY PoolAssumption, FS_EmptySet
<1> DEFINE threads == [q \in DOMAIN w |-> NoWorker]
<1>6. work' = w /\ Admit(DOMAIN w, {}, threads)
  BY <1>1 DEF PoolStart
<1>7. \A q \in DOMAIN threads :
        \/ worker'[q] = threads[q] /\ (q \in DOMAIN w => q \in waiting')
        \/ /\ q \in DOMAIN w /\ q \in running'
           /\ worker'[q] = [NoWorker EXCEPT !.pc = "start"]
  <2> HIDE DEF threads
  <2> QED BY <1>4, <1>5, <1>6, Admitted
<1>8. ASSUME NEW q \in DOMAIN w
      PROVE  /\ DOMAIN worker'[q] = {"pc", "ino", "changed", "first", "second"}
             /\ worker'[q].pc \in {"none", "start"}
  BY <1>7 DEF NoWorker
<1> QED BY <1>2, <1>6, <1>8 DEF Readings, ReadSoFar, Positions

\* Taking in a result starts other workers and leaves the rest as they are.
LEMMA TakeInReads ==
  ASSUME Inv, Readings, NEW p \in Positions, TakeIn(p), UNCHANGED treeVars
  PROVE  Readings'
<1> DEFINE error == IF worker[p].pc = "hashed" THEN firstError ELSE Min({firstError, p})
           left == Kept(error, waiting)
           busy == running \ {p}
<1>1. /\ work' = work /\ inode' = inode /\ was' = was /\ disk' = disk /\ touched' = touched
      /\ Admit(left, busy, worker) \/ UNCHANGED worker
  BY DEF TakeIn, treeVars
<1>2. /\ waiting \subseteq Positions /\ running \subseteq Positions /\ DOMAIN worker = Positions
      /\ Positions = 1..Len(work) /\ Len(work) \in Nat
  BY DEF Inv, Shape
<1>3. left \subseteq Nat /\ IsFiniteSet(left) /\ IsFiniteSet(busy)
  <2>1. left \subseteq Positions /\ busy \subseteq Positions
    BY <1>2 DEF Kept
  <2> HIDE DEF left, busy
  <2>2. IsFiniteSet(Positions) /\ Positions \subseteq Nat
    BY <1>2, FS_Interval
  <2>3. IsFiniteSet(left) /\ IsFiniteSet(busy)
    BY <2>1, <2>2, FS_Subset
  <2> QED BY <2>1, <2>2, <2>3
<1>4. HashLimit - Cardinality(busy) \in Int
  BY <1>3, PoolAssumption, FS_CardinalityType
<1> HIDE DEF left, busy
<1>5. \A q \in Positions :
        worker'[q] = worker[q] \/ worker'[q] = [NoWorker EXCEPT !.pc = "start"]
  BY <1>1, <1>2, <1>3, <1>4, Admitted
<1>6. Positions' = Positions
  BY <1>1 DEF Positions
<1>7. ASSUME NEW q \in Positions PROVE work'[q].path \in Paths /\ ReadSoFar(work[q], worker[q])'
  <2>1. CASE worker'[q] = worker[q]
    BY <2>1, <1>1 DEF Readings, ReadSoFar, Reads, Followed, Now, HeldAt, WasSo
  <2>2. CASE worker'[q] = [NoWorker EXCEPT !.pc = "start"]
    BY <2>2, <1>1 DEF Readings, ReadSoFar, NoWorker
  <2> QED BY <2>1, <2>2, <1>5
<1> QED BY <1>6, <1>7 DEF Readings

\* A worker opens what is at the path of its entry, sees whether it is the file of
\* the entry, reads what that is then, and ends well only if the change time is
\* what it was.
LEMMA ThreadReads ==
  ASSUME Inv, DigestInv, NEW p \in Positions, Thread(p)
  PROVE  Readings'
<1> DEFINE e == work[p]
           t == worker[p]
<1>1. /\ WorkerStep(p) /\ Shape
      /\ inode' = inode /\ was' = was /\ disk' = disk /\ touched' = touched
  BY DEF Inv, Thread, treeVars
<1>2. work' = work /\ \A q \in Positions : q # p => worker'[q] = worker[q]
  BY <1>1, ThreadEffect DEF workerRest
<1>3. TreeKept /\ e.path \in Paths /\ ReadSoFar(e, t) /\ DOMAIN worker = Positions
  BY <1>1 DEF DigestInv, Readings, Shape
<1>4. ASSUME NEW pc, ThreadEnds(p, pc), pc \in {"failed", "cancelled"}
      PROVE  ReadSoFar(e, worker'[p])
  <2>1. worker'[p] = [t EXCEPT !.pc = pc]
    BY <1>3, <1>4 DEF ThreadEnds
  <2>2. DOMAIN worker'[p] = DOMAIN t /\ worker'[p].pc = pc
    BY <2>1, <1>3 DEF ReadSoFar
  <2> QED BY <2>2, <1>3, <1>4 DEF ReadSoFar
<1>10. ASSUME ReadSoFar(e, worker'[p]) PROVE Readings'
  <2>1. \A q \in Positions : ReadSoFar(work[q], worker'[q])
    BY <1>2, <1>10 DEF DigestInv, Readings
  <2>2. Positions' = Positions
    BY <1>2 DEF Positions
  <2>3. ASSUME NEW q \in Positions
        PROVE  work'[q].path \in Paths /\ ReadSoFar(work[q], worker[q])'
    <3>1. work'[q].path \in Paths /\ work'[q] = work[q]
      BY <1>1, <1>2 DEF DigestInv, Readings
    <3>2. PICK f, u : f = work[q] /\ u = worker'[q]
      OBVIOUS
    <3>3. ReadSoFar(f, u)
      BY <2>1, <3>2
    <3>4. \A c : WasSo(f, c)' <=> WasSo(f, c)
      BY <1>1 DEF WasSo, HeldAt
    <3>5. Followed(f, u.ino)' <=> Followed(f, u.ino)
      BY <1>1 DEF Followed, HeldAt, Now
    <3>6. Reads(f, u)' <=> Reads(f, u)
      BY <3>4, <1>1 DEF Reads
    <3>7. ReadSoFar(f, u)'
      BY <3>3, <3>4, <3>5, <3>6 DEF ReadSoFar
    <3>8. f = work'[q] /\ u = worker'[q]
      BY <3>1, <3>2
    <3> QED BY <3>1, <3>7, <3>8 DEF ReadSoFar, Reads, Followed, Now, HeldAt, WasSo
  <2> QED BY <2>2, <2>3 DEF Readings
<1>5. CASE Open(p)
  <2> DEFINE ino == disk[e.path]
             n == [NoWorker EXCEPT !.pc = "opened", !.ino = ino]
  <2>1. ASSUME Step(p, n) PROVE ReadSoFar(e, worker'[p])
    <3>1. DOMAIN n = {"pc", "ino", "changed", "first", "second"} /\ n.pc = "opened" /\ n.ino = ino
      BY DEF NoWorker
    <3>2. ino \in Inodes => Followed(e, ino)
      BY <1>3 DEF IsFile, TreeKept, File, Followed, HeldAt, Now
    <3>3. worker'[p] = n
      BY <2>1, <1>3 DEF Step
    <3> HIDE DEF n, ino
    <3> QED BY <3>1, <3>2, <3>3 DEF ReadSoFar
  <2>2. ASSUME ThreadEnds(p, "failed") PROVE ReadSoFar(e, worker'[p])
    BY <2>2, <1>4
  <2>3. ReadSoFar(e, worker'[p])
    BY <2>1, <2>2, <1>5 DEF Open
  <2> QED BY <2>3, <1>10
<1>11. CASE CheckSource(p)
  <2> DEFINE n == [t EXCEPT !.pc = "checked", !.changed = inode[e.ino].changed]
  <2>1. ASSUME t.ino \in Inodes, t.ino = e.ino, inode[e.ino].stamp = e.stamp, Step(p, n)
        PROVE  ReadSoFar(e, worker'[p])
    <3>1. e.ino \in Inodes
      BY <2>1
    <3>2. WasSo(e, inode[e.ino].content)
      BY <2>1, <3>1, <1>3, <1>11 DEF CheckSource, ReadSoFar, Followed, Now, WasSo
    <3>3. inode[e.ino].changed \in Nat
      BY <3>1, <1>3 DEF TreeKept, Holding
    <3>4. /\ DOMAIN n = {"pc", "ino", "changed", "first", "second"} /\ n.pc = "checked"
          /\ n.ino = e.ino /\ n.changed = inode[e.ino].changed
      BY <2>1, <1>3 DEF ReadSoFar
    <3>5. worker'[p] = n
      BY <2>1, <1>3 DEF Step
    <3> HIDE DEF n
    <3> QED BY <3>1, <3>2, <3>3, <3>4, <3>5 DEF ReadSoFar, Reads
  <2>2. ASSUME ThreadEnds(p, "failed") PROVE ReadSoFar(e, worker'[p])
    BY <2>2, <1>4
  <2>3. ReadSoFar(e, worker'[p])
    BY <2>1, <2>2, <1>11 DEF CheckSource
  <2> QED BY <2>3, <1>10
<1>6. CASE ReadHalf(p)
  <2>1. Reads(e, t) /\ worker'[p] = [t EXCEPT !.pc = "half", !.first = inode[e.ino].content]
    BY <1>3, <1>6 DEF ReadHalf, Step, ReadSoFar, Reads
  <2>2. ReadSoFar(e, worker'[p])
    BY <2>1, <1>3 DEF ReadSoFar, Reads
  <2> QED BY <2>2, <1>10
<1>7. CASE ReadRest(p)
  <2>1. /\ Reads(e, t) /\ t.pc = "half"
        /\ worker'[p] = [t EXCEPT !.pc = "read", !.second = inode[e.ino].content]
    BY <1>3, <1>7 DEF ReadRest, Step, ReadSoFar, Reads
  <2>2. ReadSoFar(e, worker'[p])
    BY <2>1, <1>3 DEF ReadSoFar, Reads
  <2> QED BY <2>2, <1>10
<1>8. CASE Finish(p)
  <2>1. Reads(e, t) /\ t.pc = "read"
    BY <1>3, <1>8 DEF Finish, ReadSoFar
  <2>2. ASSUME inode[e.ino].changed = t.changed PROVE ReadSoFar(e, worker'[p])
    <3>1. worker'[p] = [t EXCEPT !.pc = "hashed"]
      BY <2>1, <2>2, <1>3, <1>8 DEF Finish, ThreadEnds, Reads
    <3>2. t.first = t.second /\ WasSo(e, t.first)
      BY <2>1, <2>2 DEF Reads
    <3> QED BY <3>1, <3>2, <1>3 DEF ReadSoFar
  <2>3. ASSUME inode[e.ino].changed # t.changed PROVE ReadSoFar(e, worker'[p])
    <3>1. ThreadEnds(p, "failed")
      BY <2>1, <2>3, <1>8 DEF Finish, Reads
    <3> QED BY <3>1, <1>4
  <2>4. ReadSoFar(e, worker'[p])
    BY <2>2, <2>3
  <2> QED BY <2>4, <1>10
<1>9. CASE WorkerCancelled(p) \/ WorkerFails(p)
  <2>1. ThreadEnds(p, "failed") \/ ThreadEnds(p, "cancelled")
    BY <1>9 DEF WorkerCancelled, WorkerFails
  <2>2. ReadSoFar(e, worker'[p])
    BY <2>1, <1>4
  <2> QED BY <2>2, <1>10
<1> QED BY <1>1, <1>5, <1>6, <1>7, <1>8, <1>9, <1>11 DEF WorkerStep

LEMMA NextDigest == Inv /\ DigestInv /\ [Next]_vars => DigestInv'
<1> SUFFICES ASSUME Inv, DigestInv, [Next]_vars PROVE DigestInv'
  OBVIOUS
<1>1. TreeKept /\ FoundInTree /\ Readings
  BY DEF DigestInv
<1>2. CASE UNCHANGED treeVars
  <2>1. TreeKept'
    BY <1>1, <1>2 DEF TreeKept, treeVars, IsFile
  <2>2. CASE ScanStep /\ UNCHANGED poolVars
    <3>1. FoundInTree'
      BY <2>2, <1>1, ScanFinds
    <3>2. Readings'
      BY <2>2, <1>1, <1>2 DEF Readings, ReadSoFar, Reads, Followed, Now, HeldAt, WasSo, Positions, poolVars, treeVars
    <3> QED BY <2>1, <3>1, <3>2 DEF DigestInv
  <2>3. CASE UNCHANGED scanVars
    <3>1. FoundInTree'
      BY <2>3, <1>1 DEF FoundInTree, scanVars
    <3>2. ASSUME HashChanged \/ \E p \in Positions : TakeIn(p) \/ Thread(p) PROVE Readings'
      BY <3>2, <1>1, <1>2, StartReads, TakeInReads, ThreadReads
    <3>3. ASSUME UNCHANGED poolVars PROVE Readings'
      BY <3>3, <1>1, <1>2 DEF Readings, ReadSoFar, Reads, Followed, Now, HeldAt, WasSo, Positions, poolVars, treeVars
    <3>4. HashChanged \/ (\E p \in Positions : TakeIn(p) \/ Thread(p)) \/ UNCHANGED poolVars
      <4>1. CASE Task
        BY <4>1 DEF Task, ScanStep
      <4> QED BY <4>1 DEF Next, Users, vars
    <3> QED BY <2>1, <3>1, <3>2, <3>3, <3>4 DEF DigestInv
  <2> QED BY <1>2, <2>2, <2>3 DEF Next, Task, Thread, Users, vars
<1>3. CASE Users
  BY <1>3, EditKeeps DEF Users
<1> QED BY <1>2, <1>3 DEF Next, Task, Thread, vars

-----------------------------------------------------------------------------
LEMMA Invariance == Spec => []Inv
  BY InitInv, NextInv, PTL DEF Spec

\* The error the pool returns is the first of the work list: however many
\* workers fail, panic or are told to stop, and in whatever order they end.
THEOREM FirstError == Spec => []FirstErrorReported
<1>1. Inv => FirstErrorReported
  BY DEF Inv
<1> QED BY <1>1, Invariance, PTL

\* The pool never comes to the expect() of a result that is not there, and
\* succeeds only with all of them.
THEOREM AllHashedOrError == Spec => []AllOrError
<1>1. Inv => AllOrError
  BY DEF Inv
<1> QED BY <1>1, Invariance, PTL

\* A digest the pool returns is that of the file of its entry as it was, whole, at
\* one moment since the scan began and with the metadata the scan has seen: at
\* its path, or where users moved it to between openat and fstat; whatever they
\* write, move, remove or create.
THEOREM OneFile == Spec => []DigestOfOneFile
<1>1. Spec => [](Inv /\ DigestInv)
  BY InitInv, NextInv, InitDigest, NextDigest, PTL DEF Spec
<1>2. Inv /\ DigestInv => DigestOfOneFile
  BY DEF Inv, AllOrError, DigestInv, Readings, ReadSoFar, WasSo, DigestOfOneFile
<1> QED BY <1>1, <1>2, PTL

-----------------------------------------------------------------------------
(* The order of paths *)

\* What paths are
Names == Seq(Nat)

LEMMA BelowIs ==
  ASSUME NEW p \in Names, NEW d \in Names
  PROVE  Below(p, d) <=> Len(d) <= Len(p) /\ \A i \in 1..Len(d) : d[i] = p[i]
<1> DEFINE a == SubSeq(d, 1, Len(d))
           b == SubSeq(p, 1, Len(d))
<1>1. Len(d) \in Nat /\ Len(p) \in Nat
  BY DEF Names
<1>2. ASSUME Len(d) <= Len(p)
      PROVE  a = b <=> \A i \in 1..Len(d) : d[i] = p[i]
  <2>1. /\ a = [i \in 1..Len(d) |-> d[i]] /\ b = [i \in 1..Len(d) |-> p[i]]
    BY <1>1, <1>2 DEF Names
  <2> HIDE DEF a, b
  <2>2. ASSUME a = b, NEW i \in 1..Len(d) PROVE d[i] = p[i]
    BY <2>1, <2>2
  <2> QED BY <2>1, <2>2
<1> QED BY <1>2 DEF Below, IsPrefix

LEMMA LessIs ==
  ASSUME NEW p \in Names, NEW q \in Names
  PROVE  PathLess(p, q) <=>
           \/ Below(q, p) /\ p # q
           \/ \E k \in 1..Len(p) : /\ k <= Len(q) /\ p[k] < q[k]
                                   /\ \A i \in 1..(k - 1) : p[i] = q[i]
<1>1. Len(p) \in Nat /\ Len(q) \in Nat
  BY DEF Names
<1>2. Min({Len(p), Len(q)}) = IF Len(p) <= Len(q) THEN Len(p) ELSE Len(q)
  <2> DEFINE m == IF Len(p) <= Len(q) THEN Len(p) ELSE Len(q)
  <2>1. m \in {Len(p), Len(q)} /\ \A y \in {Len(p), Len(q)} : m <= y
    BY <1>1
  <2>2. \A x \in {Len(p), Len(q)} : (\A y \in {Len(p), Len(q)} : x <= y) => x = m
    BY <1>1
  <2> HIDE DEF m
  <2> QED BY <2>1, <2>2 DEF Min
<1>3. ASSUME NEW k \in 1..Len(p), k <= Len(q)
      PROVE  SubSeq(p, 1, k - 1) = SubSeq(q, 1, k - 1) <=> \A i \in 1..(k - 1) : p[i] = q[i]
  <2> DEFINE a == SubSeq(p, 1, k - 1)
             b == SubSeq(q, 1, k - 1)
  <2>1. a = [i \in 1..(k - 1) |-> p[i]] /\ b = [i \in 1..(k - 1) |-> q[i]]
    BY <1>1, <1>3 DEF Names
  <2> HIDE DEF a, b
  <2>2. ASSUME a = b, NEW i \in 1..(k - 1) PROVE p[i] = q[i]
    BY <2>1, <2>2
  <2>3. a = b <=> \A i \in 1..(k - 1) : p[i] = q[i]
    BY <2>1, <2>2
  <2> QED BY <2>3 DEF a, b
<1>4. 1..Min({Len(p), Len(q)}) = {k \in 1..Len(p) : k <= Len(q)}
  BY <1>1, <1>2
<1> QED BY <1>3, <1>4 DEF PathLess

LEMMA SamePath ==
  ASSUME NEW p \in Names, NEW q \in Names, Len(p) = Len(q), \A i \in 1..Len(p) : p[i] = q[i]
  PROVE  p = q
  BY DEF Names

LEMMA LessTotal ==
  ASSUME NEW p \in Names, NEW q \in Names, p # q
  PROVE  PathLess(p, q) \/ PathLess(q, p)
<1> DEFINE T == {k \in 1..Len(p) : k <= Len(q) /\ p[k] # q[k]}
<1>1. Len(p) \in Nat /\ Len(q) \in Nat /\ \A i \in 1..Len(p) : p[i] \in Nat
  BY DEF Names
<1>2. \A i \in 1..Len(q) : q[i] \in Nat
  BY DEF Names
<1>3. CASE T = {}
  <2>1. \A i \in 1..Len(p) : i <= Len(q) => p[i] = q[i]
    BY <1>3
  <2>2. CASE Len(p) <= Len(q)
    BY <2>1, <2>2, <1>1, BelowIs, LessIs
  <2>3. CASE Len(q) <= Len(p)
    BY <2>1, <2>3, <1>1, BelowIs, LessIs
  <2> QED BY <1>1, <2>2, <2>3
<1>4. CASE T # {}
  <2>1. T \in SUBSET Nat
    OBVIOUS
  <2>2. PICK k \in T : \A y \in T : k <= y
    BY <2>1, <1>4, NatMin
  <2>3. k \in 1..Len(p) /\ k <= Len(q) /\ p[k] # q[k]
    OBVIOUS
  <2>4. \A i \in 1..(k - 1) : p[i] = q[i]
    <3>1. \A i \in 1..(k - 1) : i \notin T /\ i \in 1..Len(p) /\ i <= Len(q)
      BY <2>2, <2>3, <1>1
    <3> QED BY <3>1
  <2> HIDE DEF T
  <2>5. k \in 1..Len(q) /\ (p[k] < q[k] \/ q[k] < p[k])
    BY <2>3, <1>1, <1>2
  <2> QED BY <2>3, <2>4, <2>5, LessIs
<1> QED BY <1>3, <1>4

LEMMA LessAsym ==
  ASSUME NEW p \in Names, NEW q \in Names, PathLess(p, q)
  PROVE  ~PathLess(q, p) /\ p # q
<1>1. Len(p) \in Nat /\ Len(q) \in Nat /\ (\A i \in 1..Len(p) : p[i] \in Nat) /\ (\A i \in 1..Len(q) : q[i] \in Nat)
  BY DEF Names
<1>2. CASE Below(q, p) /\ p # q
  <2>1. Len(p) <= Len(q) /\ \A i \in 1..Len(p) : p[i] = q[i]
    BY <1>2, BelowIs
  <2>2. ~Below(p, q)
    BY <1>1, <1>2, <2>1, BelowIs, SamePath
  <2> QED BY <1>1, <1>2, <2>1, <2>2, LessIs
<1>3. ASSUME NEW k \in 1..Len(p), k <= Len(q), p[k] < q[k], \A i \in 1..(k - 1) : p[i] = q[i]
      PROVE  ~PathLess(q, p) /\ p # q
  <2>1. p[k] # q[k] /\ k \in 1..Len(q) /\ p[k] \in Nat /\ q[k] \in Nat
    BY <1>1, <1>3
  <2>2. ~Below(p, q)
    BY <2>1, BelowIs
  <2>3. ASSUME NEW m \in 1..Len(q), m <= Len(p), q[m] < p[m], \A i \in 1..(m - 1) : q[i] = p[i]
        PROVE  FALSE
    <3>1. k = m \/ k \in 1..(m - 1) \/ m \in 1..(k - 1)
      BY <1>1, <2>1, <2>3
    <3>2. m \in 1..Len(p) /\ q[m] \in Nat /\ p[m] \in Nat
      BY <1>1, <2>3
    <3> QED BY <1>3, <2>1, <2>3, <3>1, <3>2
  <2> QED BY <2>1, <2>2, <2>3, LessIs
<1> QED BY <1>2, <1>3, LessIs

LEMMA LessTrans ==
  ASSUME NEW p \in Names, NEW q \in Names, NEW r \in Names, PathLess(p, q), PathLess(q, r)
  PROVE  PathLess(p, r)
<1>1. /\ Len(p) \in Nat /\ Len(q) \in Nat /\ Len(r) \in Nat
      /\ \A i \in 1..Len(p) : p[i] \in Nat
      /\ \A i \in 1..Len(q) : q[i] \in Nat
      /\ \A i \in 1..Len(r) : r[i] \in Nat
  BY DEF Names
<1>2. ASSUME Below(q, p), p # q, Below(r, q), q # r PROVE PathLess(p, r)
  <2>1. Len(p) <= Len(q) /\ Len(q) <= Len(r)
    BY <1>2, BelowIs
  <2>2. \A i \in 1..Len(p) : i \in 1..Len(q) /\ p[i] = q[i] /\ q[i] = r[i]
    BY <1>1, <1>2, <2>1, BelowIs
  <2>3. p # r
    BY <1>1, <1>2, <2>1, <2>2, SamePath
  <2>4. Below(r, p)
    BY <1>1, <2>1, <2>2, BelowIs
  <2> QED BY <2>3, <2>4, LessIs
<1>3. ASSUME Below(q, p), p # q, NEW k \in 1..Len(q), k <= Len(r), q[k] < r[k],
             \A i \in 1..(k - 1) : q[i] = r[i]
      PROVE  PathLess(p, r)
  <2>1. Len(p) <= Len(q) /\ \A i \in 1..Len(p) : p[i] = q[i]
    BY <1>3, BelowIs
  <2>2. CASE k <= Len(p)
    <3>1. k \in 1..Len(p) /\ p[k] < r[k] /\ \A i \in 1..(k - 1) : p[i] = r[i]
      BY <1>1, <1>3, <2>1, <2>2
    <3> QED BY <3>1, <1>3, LessIs
  <2>3. CASE Len(p) < k
    <3>1. Len(p) <= Len(r) /\ Len(p) # Len(r) /\ \A i \in 1..Len(p) : p[i] = r[i]
      BY <1>1, <1>3, <2>1, <2>3
    <3>2. Below(r, p) /\ p # r
      BY <3>1, BelowIs
    <3> QED BY <3>2, LessIs
  <2> QED BY <1>1, <2>2, <2>3
<1>4. ASSUME Below(r, q), NEW k \in 1..Len(p), k <= Len(q), p[k] < q[k],
             \A i \in 1..(k - 1) : p[i] = q[i]
      PROVE  PathLess(p, r)
  <2>1. Len(q) <= Len(r) /\ \A i \in 1..Len(q) : q[i] = r[i]
    BY <1>4, BelowIs
  <2>2. k <= Len(r) /\ p[k] < r[k] /\ \A i \in 1..(k - 1) : p[i] = r[i]
    BY <1>1, <1>4, <2>1
  <2> QED BY <2>2, LessIs
<1>5. ASSUME NEW k \in 1..Len(p), k <= Len(q), p[k] < q[k], \A i \in 1..(k - 1) : p[i] = q[i],
             NEW m \in 1..Len(q), m <= Len(r), q[m] < r[m], \A i \in 1..(m - 1) : q[i] = r[i]
      PROVE  PathLess(p, r)
  <2>1. CASE k < m
    <3>1. k <= Len(r) /\ p[k] < r[k] /\ \A i \in 1..(k - 1) : p[i] = r[i]
      <4>1. k \in 1..(m - 1) /\ \A i \in 1..(k - 1) : i \in 1..(m - 1)
        BY <1>1, <2>1
      <4> QED BY <4>1, <1>1, <1>5
    <3> QED BY <3>1, LessIs
  <2>2. CASE k = m
    <3>1. p[k] < r[k]
      <4>1. k \in 1..Len(q) /\ k \in 1..Len(r)
        BY <1>1, <1>5, <2>2
      <4>2. p[k] \in Nat /\ q[k] \in Nat /\ r[k] \in Nat
        BY <4>1, <1>1
      <4> QED BY <4>2, <1>5, <2>2
    <3>2. \A i \in 1..(k - 1) : p[i] = r[i]
      BY <1>5, <2>2
    <3> QED BY <3>1, <3>2, <1>5, <2>2, LessIs
  <2>3. CASE m < k
    <3>1. m \in 1..(k - 1) /\ \A i \in 1..(m - 1) : i \in 1..(k - 1)
      BY <1>1, <2>3
    <3>2. m \in 1..Len(p) /\ p[m] < r[m] /\ \A i \in 1..(m - 1) : p[i] = r[i]
      BY <3>1, <1>1, <1>5
    <3> QED BY <3>2, <1>5, LessIs
  <2> QED BY <2>1, <2>2, <2>3
<1> QED BY <1>2, <1>3, <1>4, <1>5, LessIs

LEMMA Between ==
  ASSUME NEW a \in Names, NEW b \in Names, NEW c \in Names, NEW d \in Names,
         Below(a, d), Below(c, d), PathLess(a, b), PathLess(b, c)
  PROVE  Below(b, d)
<1> SUFFICES ASSUME ~Below(b, d) PROVE FALSE
  OBVIOUS
<1>1. /\ Len(a) \in Nat /\ Len(b) \in Nat /\ Len(c) \in Nat /\ Len(d) \in Nat
      /\ \A i \in 1..Len(d) : d[i] \in Nat
      /\ \A i \in 1..Len(b) : b[i] \in Nat
  BY DEF Names
<1>2. /\ Len(d) <= Len(a) /\ Len(d) <= Len(c)
      /\ \A i \in 1..Len(d) : d[i] = a[i] /\ d[i] = c[i]
  BY BelowIs
<1>3. ~PathLess(b, a) /\ ~PathLess(c, b)
  BY LessAsym
<1>4. b # d
  BY <1>1, BelowIs
<1>5. CASE PathLess(b, d)
  <2>1. CASE Below(d, b)
    <3>1. Below(a, b)
      <4>1. Len(b) <= Len(a) /\ \A i \in 1..Len(b) : b[i] = a[i]
        <5>1. Len(b) <= Len(d) /\ \A i \in 1..Len(b) : b[i] = d[i]
          BY <2>1, BelowIs
        <5> QED BY <5>1, <1>1, <1>2
      <4> QED BY <4>1, BelowIs
    <3>2. a # b
      BY LessAsym
    <3> QED BY <3>1, <3>2, <1>3, LessIs
  <2>2. ASSUME NEW k \in 1..Len(b), k <= Len(d), b[k] < d[k], \A i \in 1..(k - 1) : b[i] = d[i]
        PROVE  FALSE
    <3>1. k <= Len(a) /\ b[k] < a[k] /\ \A i \in 1..(k - 1) : b[i] = a[i]
      BY <1>1, <1>2, <2>2
    <3> QED BY <3>1, <1>3, LessIs
  <2> QED BY <1>5, <2>1, <2>2, LessIs
<1>6. CASE PathLess(d, b)
  <2>1. PICK k \in 1..Len(d) : k <= Len(b) /\ d[k] < b[k] /\ \A i \in 1..(k - 1) : d[i] = b[i]
    BY <1>6, LessIs
  <2>2. k \in 1..Len(c) /\ c[k] < b[k] /\ \A i \in 1..(k - 1) : c[i] = b[i]
    BY <1>1, <1>2, <2>1
  <2> QED BY <2>1, <2>2, <1>3, LessIs
<1> QED BY <1>4, <1>5, <1>6, LessTotal

LEMMA SortedIs ==
  ASSUME NEW S, IsFiniteSet(S), S \subseteq Names
  PROVE  /\ Cardinality(S) \in Nat
         /\ Sorted(S) \in [1..Cardinality(S) -> S]
         /\ \A x \in S : \E i \in 1..Cardinality(S) : Sorted(S)[i] = x
         /\ \A i, k \in 1..Cardinality(S) : i < k => PathLess(Sorted(S)[i], Sorted(S)[k])
<1> DEFINE n == Cardinality(S)
           lower(p) == {q \in S : PathLess(q, p)}
           rank == [p \in S |-> Cardinality(lower(p))]
           R == 0..(n - 1)
<1>1. n \in Nat
  BY FS_CardinalityType
<1>2. \A p \in S : IsFiniteSet(lower(p)) /\ Cardinality(lower(p)) \in Nat
  <2> SUFFICES ASSUME NEW p \in S PROVE IsFiniteSet(lower(p)) /\ Cardinality(lower(p)) \in Nat
    OBVIOUS
  <2>1. lower(p) \in SUBSET S
    OBVIOUS
  <2> HIDE DEF lower
  <2> QED BY <2>1, FS_Subset, FS_CardinalityType
<1>3. ASSUME NEW p \in S PROVE Cardinality(lower(p)) \in R
  <2>1. lower(p) \in SUBSET (S \ {p})
    BY LessAsym
  <2>2. IsFiniteSet(S \ {p}) /\ Cardinality(S \ {p}) = n - 1
    BY Smaller1
  <2> HIDE DEF lower
  <2>3. Cardinality(lower(p)) <= n - 1
    BY <2>1, <2>2, FS_Subset
  <2> QED BY <2>3, <1>1, <1>2
<1>4. ASSUME NEW p \in S, NEW q \in S, PathLess(p, q)
      PROVE  Cardinality(lower(p)) < Cardinality(lower(q))
  <2>1. lower(p) \in SUBSET (lower(q) \ {p})
    BY <1>4, LessTrans, LessAsym
  <2>2. p \in lower(q)
    BY <1>4
  <2> HIDE DEF lower
  <2>3. IsFiniteSet(lower(q) \ {p}) /\ Cardinality(lower(q) \ {p}) = Cardinality(lower(q)) - 1
    BY <2>2, <1>2, Smaller1
  <2>4. Cardinality(lower(p)) <= Cardinality(lower(q)) - 1
    BY <2>1, <2>3, FS_Subset
  <2> QED BY <2>4, <1>2
<1>5. rank \in Injection(S, R)
  <2>1. rank \in [S -> R]
    BY <1>3
  <2>2. ASSUME NEW p \in S, NEW q \in S, rank[p] = rank[q] PROVE p = q
    <3>1. rank[p] = Cardinality(lower(p)) /\ rank[q] = Cardinality(lower(q))
      OBVIOUS
    <3>2. Cardinality(lower(p)) = Cardinality(lower(q))
      BY <3>1, <2>2
    <3> HIDE DEF rank, lower
    <3>3. ~PathLess(p, q) /\ ~PathLess(q, p)
      BY <3>2, <1>2, <1>4
    <3> QED BY <3>3, LessTotal
  <2> HIDE DEF rank
  <2> QED BY <2>1, <2>2 DEF Injection, IsInjective
<1>6. IsFiniteSet(R) /\ Cardinality(R) = n
  BY <1>1, FS_Interval
<1>7. rank \in Surjection(S, R)
  <2> HIDE DEF rank, R
  <2> QED BY <1>5, <1>6, FS_Injection
<1>8. ASSUME NEW i \in 1..n
      PROVE  Sorted(S)[i] \in S /\ Cardinality(lower(Sorted(S)[i])) = i - 1
  <2>1. i - 1 \in R
    BY <1>1
  <2>2. \E p \in S : rank[p] = i - 1
    <3> HIDE DEF rank, R
    <3> QED BY <2>1, <1>7 DEF Surjection
  <2>3. \E p \in S : Cardinality(lower(p)) = i - 1
    BY <2>2
  <2>4. Sorted(S)[i] = CHOOSE p \in S : Cardinality(lower(p)) = i - 1
    BY DEF Sorted
  <2> HIDE DEF lower
  <2> QED BY <2>3, <2>4
<1>9. Sorted(S) \in [1..n -> S]
  <2> DEFINE e(i) == CHOOSE p \in S : Cardinality(lower(p)) = i - 1
  <2>1. Sorted(S) = [i \in 1..n |-> e(i)]
    BY DEF Sorted
  <2>2. \A i \in 1..n : e(i) \in S
    <3>1. \A i \in 1..n : Sorted(S)[i] = e(i)
      BY <2>1
    <3> HIDE DEF e
    <3> QED BY <3>1, <1>8
  <2> HIDE DEF e
  <2> QED BY <2>1, <2>2
<1> HIDE DEF lower
<1>10. ASSUME NEW x \in S PROVE \E i \in 1..n : Sorted(S)[i] = x
  <2>1. Cardinality(lower(x)) + 1 \in 1..n
    BY <1>1, <1>3
  <2>2. Sorted(S)[Cardinality(lower(x)) + 1] = x
    <3> DEFINE y == Sorted(S)[Cardinality(lower(x)) + 1]
    <3>1. y \in S /\ Cardinality(lower(y)) = Cardinality(lower(x))
      BY <2>1, <1>8, <1>2
    <3> HIDE DEF y
    <3>2. y = x
      BY <3>1, <1>2, <1>4, LessTotal
    <3> QED BY <3>2 DEF y
  <2> QED BY <2>1, <2>2
<1>11. ASSUME NEW i \in 1..n, NEW k \in 1..n, i < k PROVE PathLess(Sorted(S)[i], Sorted(S)[k])
  <2> DEFINE x == Sorted(S)[i]
             y == Sorted(S)[k]
  <2>1. x \in S /\ y \in S /\ Cardinality(lower(x)) = i - 1 /\ Cardinality(lower(y)) = k - 1
    BY <1>8
  <2> HIDE DEF x, y
  <2>2. x # y /\ ~PathLess(y, x)
    BY <2>1, <1>1, <1>4, <1>11
  <2>3. PathLess(x, y)
    BY <2>1, <2>2, LessTotal
  <2> QED BY <2>3 DEF x, y
<1> QED BY <1>1, <1>9, <1>10, <1>11

-----------------------------------------------------------------------------
(* Locations and spans *)

\* What canonicalize returns: the base first, every location once, in order
Ordered ==
  /\ Len(locations) \in Nat \ {0}
  /\ DOMAIN locations = 1..Len(locations)
  /\ \A i \in DOMAIN locations : locations[i].path \in Names
  /\ locations[1].path = Root
  /\ \A i, k \in DOMAIN locations : i < k => PathLess(locations[i].path, locations[k].path)

At(i) == locations[i].path

Spans == [parent : Int, from : Int, to : Int]

NearestAt(i, p) ==
  /\ i \in DOMAIN locations /\ Below(p, At(i))
  /\ \A k \in DOMAIN locations : Below(p, At(k)) => Len(At(k)) <= Len(At(i))

\* A span as it is handed to what is in a directory: it holds the locations at and
\* below d at least, its parent is the nearest above d.
Wide(span, d) ==
  /\ span \in Spans /\ span.from..span.to \subseteq DOMAIN locations
  /\ \A i \in DOMAIN locations : Below(At(i), d) => i \in span.from..span.to
  /\ span.parent \in DOMAIN locations /\ Below(d, At(span.parent))
  /\ \A i \in DOMAIN locations :
       Below(d, At(i)) /\ At(i) # d => Len(At(i)) <= Len(At(span.parent))

\* A span narrowed to d: exactly the locations at and below d, and the nearest to d
Tight(span, d) ==
  /\ span \in Spans /\ span.from..span.to \subseteq DOMAIN locations
  /\ \A i \in DOMAIN locations : Below(At(i), d) <=> i \in span.from..span.to
  /\ NearestAt(span.parent, d)

LEMMA PathIsBelow ==
  ASSUME NEW p \in Names
  PROVE  Below(p, p) /\ Below(p, Root) /\ Root \in Names /\ Len(Root) = 0
<1>1. Root \in Names /\ Len(Root) = 0 /\ Len(p) \in Nat
  BY DEF Root, Names
<1> QED BY <1>1, BelowIs

LEMMA BelowTrans ==
  ASSUME NEW p \in Names, NEW q \in Names, NEW r \in Names, Below(p, q), Below(q, r)
  PROVE  Below(p, r)
<1>1. Len(p) \in Nat /\ Len(q) \in Nat /\ Len(r) \in Nat
  BY DEF Names
<1>2. Len(r) <= Len(q) /\ Len(q) <= Len(p) /\ \A i \in 1..Len(q) : q[i] = p[i]
  BY BelowIs
<1>3. \A i \in 1..Len(r) : r[i] = q[i] /\ i \in 1..Len(q)
  BY <1>1, <1>2, BelowIs
<1> QED BY <1>1, <1>2, <1>3, BelowIs

\* Two paths above a third are one above the other.
LEMMA AboveInLine ==
  ASSUME NEW p \in Names, NEW a \in Names, NEW b \in Names, Below(p, a), Below(p, b)
  PROVE  /\ Len(a) <= Len(b) => Below(b, a)
         /\ Len(a) = Len(b) => a = b
<1>1. Len(p) \in Nat /\ Len(a) \in Nat /\ Len(b) \in Nat
  BY DEF Names
<1>2. /\ Len(a) <= Len(p) /\ \A i \in 1..Len(a) : a[i] = p[i]
      /\ Len(b) <= Len(p) /\ \A i \in 1..Len(b) : b[i] = p[i]
  BY BelowIs
<1>3. ASSUME Len(a) <= Len(b) PROVE \A i \in 1..Len(a) : a[i] = b[i]
  BY <1>1, <1>2, <1>3
<1>4. Len(a) <= Len(b) => Below(b, a)
  BY <1>3, BelowIs
<1>5. Len(a) = Len(b) => a = b
  BY <1>1, <1>3, SamePath
<1> QED BY <1>4, <1>5

LEMMA LocationsAreOrdered ==
  ASSUME NEW r, NEW P, IsFiniteSet(P), P \subseteq Names, Root \in P, DOMAIN r = P, r[Root] # "none",
         locations = Canonicalize(r)
  PROVE  Ordered
<1> DEFINE S == {p \in DOMAIN r : r[p] # "none"}
           n == Cardinality(S)
           s == Sorted(S)
<1>1. IsFiniteSet(S) /\ S \subseteq Names /\ Root \in S
  <2>1. S \in SUBSET P
    OBVIOUS
  <2>2. Root \in S
    OBVIOUS
  <2> HIDE DEF S
  <2> QED BY <2>1, <2>2, FS_Subset
<1>2. /\ n \in Nat /\ s \in [1..n -> S]
      /\ \A x \in S : \E i \in 1..n : s[i] = x
      /\ \A i, k \in 1..n : i < k => PathLess(s[i], s[k])
  <2> HIDE DEF S
  <2> QED BY <1>1, SortedIs
<1>3. locations = [i \in 1..n |-> [path |-> s[i], include |-> r[s[i]] = "include"]]
  <2>1. DOMAIN s = 1..n
    BY <1>2
  <2>2. locations = [i \in DOMAIN s |-> [path |-> s[i], include |-> r[s[i]] = "include"]]
    BY DEF Canonicalize
  <2> HIDE DEF s, n, S
  <2> QED BY <2>1, <2>2
<1> HIDE DEF s, n, S
<1>4. Len(locations) = n /\ DOMAIN locations = 1..n /\ \A i \in 1..n : locations[i].path = s[i]
  BY <1>2, <1>3
<1>5. PICK i \in 1..n : s[i] = Root
  BY <1>1, <1>2
<1>6. n # 0 /\ 1 \in 1..n
  BY <1>2, <1>5
<1>7. s[1] = Root
  <2>1. s[1] \in Names
    BY <1>1, <1>2, <1>6
  <2>2. Root \in Names /\ Below(s[1], Root)
    BY <2>1, PathIsBelow
  <2>3. s[1] # Root => PathLess(Root, s[1])
    BY <2>1, <2>2, LessIs
  <2>4. i # 1 => PathLess(s[1], Root)
    BY <1>2, <1>5, <1>6
  <2> QED BY <2>1, <2>2, <2>3, <2>4, <1>5, LessAsym
<1> QED BY <1>1, <1>2, <1>4, <1>6, <1>7 DEF Ordered

LEMMA OnePlace ==
  ASSUME Ordered, NEW i \in DOMAIN locations, NEW k \in DOMAIN locations, At(i) = At(k)
  PROVE  i = k
<1>1. i \in Int /\ k \in Int /\ At(i) \in Names
  BY DEF Ordered, At
<1>2. ~(i < k) /\ ~(k < i)
  BY <1>1, LessAsym DEF Ordered, At
<1> QED BY <1>1, <1>2

LEMMA NearestIsOne ==
  ASSUME Ordered, NEW p \in Names, NEW i, NEW k, NearestAt(i, p), NearestAt(k, p)
  PROVE  i = k
<1>1. At(i) \in Names /\ At(k) \in Names /\ i \in DOMAIN locations /\ k \in DOMAIN locations
  BY DEF Ordered, At, NearestAt
<1>2. Len(At(i)) = Len(At(k)) /\ Below(p, At(i)) /\ Below(p, At(k))
  <2>1. Len(At(i)) \in Nat /\ Len(At(k)) \in Nat
    BY <1>1 DEF Names
  <2> QED BY <1>1, <2>1 DEF NearestAt
<1> QED BY <1>1, <1>2, AboveInLine, OnePlace

LEMMA NearestIs ==
  ASSUME Ordered, NEW p \in Names, NEW i, NearestAt(i, p)
  PROVE  Nearest(p) = locations[i]
<1> DEFINE above == {k \in DOMAIN locations : Below(p, locations[k].path)}
           best(k) == \A l \in above : Len(locations[l].path) <= Len(locations[k].path)
<1>1. i \in above /\ best(i)
  BY DEF NearestAt, At
<1>2. \A k \in above : best(k) => NearestAt(k, p)
  BY DEF NearestAt, At
<1>3. Nearest(p) = locations[CHOOSE k \in above : best(k)]
  BY DEF Nearest
<1> HIDE DEF above, best
<1>4. \A k \in above : best(k) => k = i
  BY <1>2, NearestIsOne
<1> QED BY <1>1, <1>3, <1>4

LEMMA NearestExists ==
  ASSUME Ordered, NEW p \in Names
  PROVE  \E i : NearestAt(i, p)
<1> DEFINE above == {k \in DOMAIN locations : Below(p, At(k))}
           T == {Len(At(k)) : k \in above}
<1>1. 1 \in above
  BY PathIsBelow DEF Ordered, At
<1>2. Len(p) \in Nat /\ T \in SUBSET (0..Len(p))
  <2>1. Len(p) \in Nat
    BY DEF Names
  <2>2. ASSUME NEW k \in above PROVE Len(At(k)) \in 0..Len(p)
    <3>1. At(k) \in Names /\ Below(p, At(k))
      BY DEF Ordered, At
    <3>2. Len(At(k)) \in Nat /\ Len(At(k)) <= Len(p)
      BY <3>1, BelowIs DEF Names
    <3> QED BY <2>1, <3>2
  <2> QED BY <2>1, <2>2
<1>3. T # {}
  BY <1>1
<1>4. PICK m \in T : \A l \in T : l <= m
  <2> HIDE DEF T
  <2> QED BY <1>2, <1>3, LargestOf
<1>5. PICK i \in above : Len(At(i)) = m
  OBVIOUS
<1>6. \A k \in DOMAIN locations : Below(p, At(k)) => Len(At(k)) <= Len(At(i))
  BY <1>4, <1>5
<1> QED BY <1>5, <1>6 DEF NearestAt

LEMMA MinIs ==
  ASSUME NEW T, NEW m \in T, T \subseteq Int, \A t \in T : m <= t
  PROVE  Min(T) = m
<1>1. \A x \in T : (\A y \in T : x <= y) => x = m
  <2> SUFFICES ASSUME NEW x \in T, \A y \in T : x <= y PROVE x = m
    OBVIOUS
  <2>1. x <= m /\ m <= x /\ x \in Int /\ m \in Int
    OBVIOUS
  <2> QED BY <2>1
<1> QED BY <1>1 DEF Min

LEMMA MaxIs ==
  ASSUME NEW T, NEW m \in T, T \subseteq Int, \A t \in T : t <= m
  PROVE  Max(T) = m
<1>1. \A x \in T : (\A y \in T : y <= x) => x = m
  <2> SUFFICES ASSUME NEW x \in T, \A y \in T : y <= x PROVE x = m
    OBVIOUS
  <2>1. x <= m /\ m <= x /\ x \in Int /\ m \in Int
    OBVIOUS
  <2> QED BY <2>1
<1>2. Max(T) = CHOOSE x \in T : \A y \in T : x >= y
  BY DEF Max
<1>3. \A x \in T : (\A y \in T : x >= y) <=> (\A y \in T : y <= x)
  BY SMT
<1> QED BY <1>1, <1>2, <1>3

\* Narrowing the span of the directory around d gives that of d.
LEMMA Narrowed ==
  ASSUME Ordered, NEW d \in Names, NEW span, Wide(span, d)
  PROVE  Tight(Narrow(span, d), d)
<1> DEFINE hits == {i \in span.from..span.to : Below(locations[i].path, d)}
           from == IF hits # {} THEN Min(hits)
                   ELSE IF span.from <= span.to THEN span.to + 1 ELSE span.from
           T == {t \in from..span.to : \A i \in from..t : i \in hits}
           to == IF hits = {} THEN span.to ELSE Max(T)
           parent == IF hits # {} /\ locations[from].path = d THEN from ELSE span.parent
<1>1. Narrow(span, d) = [parent |-> parent, from |-> from, to |-> to]
  BY DEF Narrow
<1>2. hits = {i \in DOMAIN locations : Below(At(i), d)}
  BY DEF Wide, At
<1>3. /\ span.from \in Int /\ span.to \in Int /\ span.from..span.to \subseteq DOMAIN locations
      /\ span.parent \in DOMAIN locations /\ Below(d, At(span.parent))
      /\ \A i \in DOMAIN locations :
           Below(d, At(i)) /\ At(i) # d => Len(At(i)) <= Len(At(span.parent))
  BY DEF Wide, Spans
<1>4. Len(locations) \in Nat /\ DOMAIN locations = 1..Len(locations)
  BY DEF Ordered
<1>5. CASE hits = {}
  <2>1. from \in Int /\ to \in Int /\ from..to = {} /\ parent = span.parent
    BY <1>3, <1>5
  <2>2. \A i \in DOMAIN locations : ~Below(At(i), d)
    BY <1>2, <1>5
  <2>3. \A i \in DOMAIN locations : At(i) # d
    BY <2>2, PathIsBelow
  <2>4. NearestAt(span.parent, d)
    BY <1>3, <2>3 DEF NearestAt
  <2> HIDE DEF from, to, parent
  <2>5. [parent |-> parent, from |-> from, to |-> to] \in Spans
    BY <1>4, <2>1, <2>4 DEF Spans, NearestAt
  <2> QED BY <1>1, <2>1, <2>2, <2>4, <2>5 DEF Tight
<1>6. CASE hits # {}
  <2>1. hits \in SUBSET Nat /\ hits \in SUBSET (0..Len(locations))
    BY <1>2, <1>4
  <2>2. PICK m \in hits : \A y \in hits : m <= y
    <3> HIDE DEF hits
    <3> QED BY <2>1, <1>6, NatMin
  <2>3. PICK M \in hits : \A y \in hits : y <= M
    <3> HIDE DEF hits
    <3> QED BY <2>1, <1>4, <1>6, LargestOf
  <2>4. from = m
    <3>1. hits \subseteq Int
      BY <2>1
    <3> HIDE DEF hits
    <3>2. Min(hits) = m
      BY <3>1, <2>2, MinIs
    <3> QED BY <3>2, <1>6
  <2> HIDE DEF from
  <2>5. m \in Nat /\ M \in Nat /\ m <= M /\ m \in DOMAIN locations /\ M \in DOMAIN locations
    <3> HIDE DEF hits
    <3> QED BY <2>1, <2>2, <2>3, <1>2
  <2>6. ASSUME NEW i \in m..M PROVE i \in hits
    <3>1. i \in DOMAIN locations /\ (i = m \/ i = M \/ (m < i /\ i < M))
      BY <1>4, <2>5
    <3>2. CASE m < i /\ i < M
      <4>1. /\ At(m) \in Names /\ At(i) \in Names /\ At(M) \in Names
            /\ PathLess(At(m), At(i)) /\ PathLess(At(i), At(M))
        BY <2>5, <3>1, <3>2 DEF Ordered, At
      <4>2. Below(At(m), d) /\ Below(At(M), d)
        BY <1>2, <2>2, <2>3
      <4>3. Below(At(i), d)
        BY <4>1, <4>2, Between
      <4> QED BY <4>3, <1>2, <3>1
    <3> QED BY <3>1, <3>2
  <2>7. T \subseteq Int /\ M \in T /\ \A t \in T : t <= M
    <3> HIDE DEF hits
    <3>1. M \in from..span.to
      <4>1. M \in span.from..span.to
        BY DEF hits
      <4> QED BY <4>1, <1>3, <2>4, <2>5
    <3>2. M \in T
      BY <3>1, <2>4, <2>6
    <3>3. ASSUME NEW t \in T PROVE t \in Int /\ t <= M
      <4>1. t \in from..span.to /\ \A i \in from..t : i \in hits
        OBVIOUS
      <4>2. t \in Int /\ t \in from..t
        BY <4>1, <2>4, <2>5, <1>3
      <4> QED BY <4>1, <4>2, <2>3
    <3> QED BY <3>2, <3>3
  <2>8. to = M
    <3> HIDE DEF T, hits
    <3>1. Max(T) = M
      BY <2>7, MaxIs
    <3> QED BY <3>1, <1>6
  <2> HIDE DEF to
  <2>9. \A i \in DOMAIN locations : Below(At(i), d) <=> i \in m..M
    <3> HIDE DEF hits
    <3>1. \A i \in hits : i \in m..M
      BY <2>1, <2>2, <2>3, <2>5
    <3> QED BY <3>1, <2>6, <1>2
  <2>10. \A i \in DOMAIN locations : At(i) = d => i = m
    <3> SUFFICES ASSUME NEW i \in DOMAIN locations, At(i) = d, i # m PROVE FALSE
      OBVIOUS
    <3>1. i \in m..M
      BY <2>9, PathIsBelow
    <3>2. m < i /\ PathLess(At(m), d)
      BY <3>1, <2>5 DEF Ordered, At
    <3>3. At(m) \in Names /\ Below(At(m), d)
      BY <1>2, <2>2, <2>5 DEF Ordered, At
    <3>4. d # At(m)
      BY <3>2, <3>3, LessAsym
    <3>5. PathLess(d, At(m))
      BY <3>3, <3>4, LessIs
    <3> QED BY <3>2, <3>3, <3>5, LessAsym
  <2>11. NearestAt(parent, d)
    <3> HIDE DEF hits
    <3>1. CASE At(m) = d
      <4>1. parent = m
        BY <3>1, <1>6, <2>4 DEF At
      <4>2. \A k \in DOMAIN locations : Below(d, At(k)) => Len(At(k)) <= Len(d)
        <5> SUFFICES ASSUME NEW k \in DOMAIN locations, Below(d, At(k)) PROVE Len(At(k)) <= Len(d)
          OBVIOUS
        <5>1. At(k) \in Names
          BY DEF Ordered, At
        <5> QED BY <5>1, BelowIs
      <4> HIDE DEF parent
      <4> QED BY <4>1, <4>2, <3>1, <2>5, PathIsBelow DEF NearestAt
    <3>2. CASE At(m) # d
      <4>1. parent = span.parent
        BY <3>2, <2>4 DEF At
      <4>2. \A i \in DOMAIN locations : At(i) # d
        BY <3>2, <2>10
      <4> HIDE DEF parent
      <4> QED BY <4>1, <4>2, <1>3 DEF NearestAt
    <3> QED BY <3>1, <3>2
  <2>12. m..M \subseteq DOMAIN locations /\ m \in Int /\ M \in Int
    BY <2>5, <1>4
  <2> HIDE DEF parent, hits, T
  <2>13. [parent |-> parent, from |-> from, to |-> to] \in Spans
    BY <1>4, <2>4, <2>8, <2>11, <2>12 DEF Spans, NearestAt
  <2> QED BY <1>1, <2>4, <2>8, <2>9, <2>11, <2>12, <2>13 DEF Tight
<1> QED BY <1>5, <1>6

\* The span of a directory will do for what is in it.
LEMMA WideWithin ==
  ASSUME Ordered, NEW d \in Names, NEW p \in Names, Below(p, d), Len(p) = Len(d) + 1,
         NEW span, Tight(span, d)
  PROVE  Wide(span, p)
<1>1. /\ span \in Spans
      /\ span.from \in Int /\ span.to \in Int /\ span.from..span.to \subseteq DOMAIN locations
      /\ \A i \in DOMAIN locations : Below(At(i), d) <=> i \in span.from..span.to
      /\ NearestAt(span.parent, d)
  BY DEF Tight, Spans
<1>2. \A i \in DOMAIN locations : At(i) \in Names
  BY DEF Ordered, At
<1>3. ASSUME NEW i \in DOMAIN locations, Below(At(i), p) PROVE i \in span.from..span.to
  BY <1>1, <1>2, <1>3, BelowTrans
<1>4. span.parent \in DOMAIN locations /\ Below(p, At(span.parent))
  BY <1>1, <1>2, BelowTrans DEF NearestAt
<1>5. ASSUME NEW i \in DOMAIN locations, Below(p, At(i)), At(i) # p
      PROVE  Len(At(i)) <= Len(At(span.parent))
  <2>1. Len(At(i)) \in Nat /\ Len(p) \in Nat /\ Len(d) \in Nat
    BY <1>2 DEF Names
  <2>2. Len(At(i)) <= Len(p) /\ Len(At(i)) # Len(p)
    BY <1>2, <1>5, BelowIs, AboveInLine, PathIsBelow
  <2>3. Below(d, At(i))
    BY <2>1, <2>2, <1>2, <1>5, AboveInLine
  <2> QED BY <2>3, <1>1 DEF NearestAt
<1> QED BY <1>1, <1>3, <1>4, <1>5 DEF Wide

LEMMA WholeIsWide ==
  ASSUME Ordered
  PROVE  Wide(WholeSpan, Root)
<1>1. Len(locations) \in Nat \ {0} /\ DOMAIN locations = 1..Len(locations) /\ At(1) = Root
  BY DEF Ordered, At
<1>2. /\ WholeSpan \in Spans
      /\ WholeSpan.parent = 1 /\ WholeSpan.from = 1 /\ WholeSpan.to = Len(locations)
  BY <1>1 DEF WholeSpan, Spans
<1>3. Root \in Names /\ Below(Root, Root)
  <2>1. Root \in Names
    BY DEF Root, Names
  <2> QED BY <2>1, PathIsBelow
<1>4. ASSUME NEW i \in DOMAIN locations, Below(Root, At(i)) PROVE Len(At(i)) <= Len(Root)
  <2>1. At(i) \in Names
    BY DEF Ordered, At
  <2> QED BY <2>1, <1>3, <1>4, BelowIs
<1> QED BY <1>1, <1>2, <1>3, <1>4 DEF Wide

\* A child gets the rule of the nearest location.
LEMMA ChildRule ==
  ASSUME Ordered, NEW d \in Names, NEW p \in Names, Below(p, d), Len(p) = Len(d) + 1,
         NEW span, Tight(span, d)
  PROVE  FindParent(p, span) = Nearest(p)
<1> DEFINE exact == {i \in span.from..span.to : locations[i].path = p}
<1>1. /\ \A i \in DOMAIN locations : Below(At(i), d) <=> i \in span.from..span.to
      /\ span.from..span.to \subseteq DOMAIN locations
  BY DEF Tight
<1>2. exact = {i \in DOMAIN locations : At(i) = p}
  BY <1>1 DEF At
<1>3. FindParent(p, span) = locations[IF exact = {} THEN span.parent ELSE Min(exact)]
  BY DEF FindParent
<1> HIDE DEF exact
<1>4. Wide(span, p)
  BY WideWithin
<1>5. CASE exact = {}
  <2>1. NearestAt(span.parent, p)
    BY <1>2, <1>4, <1>5 DEF NearestAt, Wide
  <2> QED BY <2>1, <1>3, <1>5, NearestIs
<1>6. ASSUME NEW i \in exact PROVE FindParent(p, span) = Nearest(p)
  <2>1. i \in DOMAIN locations /\ At(i) = p /\ exact = {i}
    BY <1>2, OnePlace
  <2>2. Min(exact) = i
    <3>1. exact \subseteq Int /\ \A t \in exact : i <= t
      BY <2>1 DEF Ordered
    <3> QED BY <3>1, MinIs
  <2>3. NearestAt(i, p)
    <3>1. ASSUME NEW k \in DOMAIN locations, Below(p, At(k)) PROVE Len(At(k)) <= Len(p)
      <4>1. At(k) \in Names
        BY DEF Ordered, At
      <4> QED BY <4>1, <3>1, BelowIs
    <3> QED BY <3>1, <2>1, PathIsBelow DEF NearestAt
  <2> QED BY <2>2, <2>3, <1>3, NearestIs
<1> QED BY <1>5, <1>6

\* Whether a location below a child includes something
LEMMA ChildIncludes ==
  ASSUME Ordered, NEW d \in Names, NEW p \in Names, Below(p, d), Len(p) = Len(d) + 1,
         NEW span, Tight(span, d), NEW i \in DOMAIN locations, Below(At(i), p), At(i) # p,
         locations[i].include
  PROVE  HasIncludeBelow(p, span)
<1>1. Tight(Narrow(span, p), p)
  BY WideWithin, Narrowed
<1>2. i \in Narrow(span, p).from..Narrow(span, p).to
  BY <1>1 DEF Tight
<1> QED BY <1>2 DEF HasIncludeBelow, At

\* What includes a path is, for what is above it, the rule or below.
LEMMA IncludedFrom ==
  ASSUME Ordered, NEW p \in Names, NEW a \in Names, Below(p, a), Nearest(p).include
  PROVE  \/ Nearest(a).include
         \/ \E i \in DOMAIN locations : locations[i].include /\ Below(At(i), a) /\ At(i) # a
<1>1. PICK i : NearestAt(i, p)
  BY NearestExists
<1>2. i \in DOMAIN locations /\ At(i) \in Names /\ locations[i].include /\ Below(p, At(i))
  BY <1>1, NearestIs DEF NearestAt, Ordered, At
<1>3. Len(At(i)) \in Nat /\ Len(a) \in Nat
  BY <1>2 DEF Names
<1>4. CASE Len(At(i)) <= Len(a)
  <2>1. Below(a, At(i))
    BY <1>2, <1>4, AboveInLine
  <2>2. \A k \in DOMAIN locations : Below(a, At(k)) => Len(At(k)) <= Len(At(i))
    <3> SUFFICES ASSUME NEW k \in DOMAIN locations, Below(a, At(k)) PROVE Len(At(k)) <= Len(At(i))
      OBVIOUS
    <3>1. At(k) \in Names
      BY DEF Ordered, At
    <3>2. Below(p, At(k))
      BY <3>1, BelowTrans
    <3> QED BY <3>2, <1>1 DEF NearestAt
  <2>3. NearestAt(i, a)
    BY <2>1, <2>2, <1>2 DEF NearestAt
  <2> QED BY <2>3, <1>2, NearestIs
<1>5. CASE Len(a) < Len(At(i))
  <2>1. Below(At(i), a) /\ At(i) # a
    BY <1>2, <1>3, <1>5, AboveInLine
  <2> QED BY <2>1, <1>2
<1> QED BY <1>3, <1>4, <1>5

-----------------------------------------------------------------------------
(* Paths and what is above them *)

LEMMA PathFacts ==
  ASSUME NEW p \in Paths
  PROVE  /\ p \in Names /\ Len(p) \in Nat \ {0} /\ p # Root /\ p \in Ancestry(p)
         /\ Parent(p) \in Names /\ Len(p) = Len(Parent(p)) + 1 /\ Below(p, Parent(p))
         /\ Parent(p) \in DirPaths \cup {Root}
<1>1. p \in Names /\ p # Root /\ Parent(p) \in DirPaths \cup {Root}
  BY PathsAssumption DEF Names
<1>2. Len(p) \in Nat \ {0}
  BY <1>1 DEF Names, Root
<1>3. Parent(p) \in Names /\ Len(Parent(p)) = Len(p) - 1 /\ \A i \in 1..(Len(p) - 1) : Parent(p)[i] = p[i]
  <2> DEFINE n == Len(p) - 1
  <2>1. n \in Nat /\ Len(p) = n + 1
    BY <1>2
  <2>2. Parent(p) = SubSeq(p, 1, n)
    BY DEF Parent, Front
  <2> HIDE DEF n
  <2>3. Parent(p) \in Names /\ Len(Parent(p)) = n /\ \A i \in 1..n : Parent(p)[i] = p[i]
    BY <1>1, <2>1, <2>2 DEF Names
  <2> QED BY <2>3 DEF n
<1>4. Below(p, Parent(p))
  BY <1>1, <1>2, <1>3, BelowIs
<1>5. p \in Ancestry(p)
  <2>1. p = SubSeq(p, 1, Len(p))
    BY <1>1, <1>2 DEF Names
  <2>2. Len(p) \in 1..Len(p)
    BY <1>2
  <2>3. SubSeq(p, 1, Len(p)) \in Ancestry(p)
    BY <2>2 DEF Ancestry
  <2> QED BY <2>1, <2>3
<1> QED BY <1>1, <1>2, <1>3, <1>4, <1>5

LEMMA NamesOf == Paths \subseteq Names /\ Root \in Names /\ Len(Root) = 0
<1>1. \A p \in Paths : p \in Names
  BY PathFacts
<1>2. Root \in Names /\ Len(Root) = 0
  BY DEF Root, Names
<1> QED BY <1>1, <1>2

LEMMA AncestryIs ==
  ASSUME NEW p \in Names, NEW c
  PROVE  c \in Ancestry(p) <=> c \in Names /\ Len(c) # 0 /\ Below(p, c)
<1>1. Len(p) \in Nat
  BY DEF Names
<1>2. ASSUME NEW k \in 1..Len(p), c = SubSeq(p, 1, k) PROVE c \in Names /\ Len(c) # 0 /\ Below(p, c)
  <2>1. c \in Names /\ Len(c) = k /\ \A i \in 1..k : c[i] = p[i]
    BY <1>1, <1>2 DEF Names
  <2> QED BY <2>1, <1>1, BelowIs
<1>3. ASSUME c \in Names, Len(c) # 0, Below(p, c) PROVE c \in Ancestry(p)
  <2>1. Len(c) \in 1..Len(p) /\ \A i \in 1..Len(c) : c[i] = p[i]
    BY <1>1, <1>3, BelowIs DEF Names
  <2> DEFINE b == SubSeq(p, 1, Len(c))
  <2>2. b \in Names /\ Len(b) = Len(c) /\ \A i \in 1..Len(c) : b[i] = p[i]
    BY <2>1, <1>1 DEF Names
  <2>3. b \in Ancestry(p)
    BY <2>1 DEF Ancestry
  <2> HIDE DEF b
  <2>4. c = b
    BY <2>1, <2>2, <1>3, SamePath
  <2> QED BY <2>3, <2>4
<1> QED BY <1>2, <1>3 DEF Ancestry

\* A set of paths that holds the parents of its paths holds all that is above them.
LEMMA ClosedUpwards ==
  ASSUME NEW X, X \subseteq Paths, \A q \in X : Parent(q) \in X \cup {Root},
         NEW p \in X, NEW c \in Ancestry(p)
  PROVE  c \in X
<1>1. p \in Names /\ Len(p) \in Nat \ {0}
  BY PathFacts
<1> DEFINE a(k) == SubSeq(p, 1, k)
           T == {k \in 1..Len(p) : a(k) \notin X}
<1>2. \A k \in 1..Len(p) : a(k) \in Names /\ Len(a(k)) = k /\ \A i \in 1..k : a(k)[i] = p[i]
  BY <1>1 DEF Names
<1>3. T = {}
  <2> SUFFICES ASSUME T # {} PROVE FALSE
    OBVIOUS
  <2>1. T \in SUBSET (0..Len(p))
    OBVIOUS
  <2>2. PICK m \in T : \A k \in T : k <= m
    <3> HIDE DEF T
    <3> QED BY <1>1, <2>1, LargestOf
  <2>3. m \in 1..Len(p) /\ a(m) \notin X
    OBVIOUS
  <2>4. a(Len(p)) = p
    BY <1>1 DEF Names
  <2>5. m + 1 \in 1..Len(p)
    <3>1. a(m) # a(Len(p))
      BY <2>3, <2>4
    <3> HIDE DEF a, T
    <3>2. m # Len(p)
      BY <3>1
    <3> QED BY <2>3, <3>2, <1>1
  <2>6. a(m + 1) \in X
    <3>1. m + 1 \notin T
      BY <2>2, <2>5
    <3> QED BY <3>1, <2>5
  <2>7. Parent(a(m + 1)) = a(m)
    <3>1. /\ Parent(a(m + 1)) \in Names /\ Len(Parent(a(m + 1))) = m
          /\ \A i \in 1..m : Parent(a(m + 1))[i] = a(m + 1)[i]
      <4> DEFINE b == a(m + 1)
      <4>1. b \in Names /\ Len(b) = m + 1 /\ m \in Nat
        BY <2>5, <2>3, <1>2
      <4> HIDE DEF b
      <4>2. Parent(b) \in Names /\ Len(Parent(b)) = m /\ \A i \in 1..m : Parent(b)[i] = b[i]
        BY <4>1 DEF Parent, Front, Names
      <4> QED BY <4>2 DEF b
    <3>2. \A i \in 1..m : Parent(a(m + 1))[i] = p[i]
      BY <3>1, <2>5, <2>3, <1>2
    <3> HIDE DEF a
    <3> QED BY <3>1, <3>2, <2>3, <1>2, SamePath
  <2>8. a(m) # Root
    BY <2>3, <1>2 DEF Root
  <2> HIDE DEF a, T
  <2> QED BY <2>3, <2>6, <2>7, <2>8
<1>4. PICK k \in 1..Len(p) : c = a(k)
  BY DEF Ancestry
<1> QED BY <1>3, <1>4

LEMMA AbovePaths ==
  ASSUME NEW p \in Paths, NEW c \in Ancestry(p)
  PROVE  /\ c \in Paths /\ Below(p, c) /\ c \in Names
         /\ c # p => c \in DirPaths /\ \E d \in Ancestry(p) : Parent(d) = c
<1>1. /\ p \in Names /\ Len(p) \in Nat \ {0} /\ c \in Names /\ Len(c) # 0 /\ Below(p, c)
  BY PathFacts, AncestryIs
<1>2. c \in Paths
  BY PathsAssumption, ClosedUpwards
<1>3. ASSUME c # p PROVE \E d \in Ancestry(p) : Parent(d) = c
  <2>1. Len(c) \in Nat /\ Len(c) <= Len(p) /\ Len(c) # Len(p)
    <3>1. Len(c) \in Nat /\ Len(c) <= Len(p)
      BY <1>1, BelowIs DEF Names
    <3> QED BY <3>1, <1>1, <1>3, AboveInLine, PathIsBelow
  <2> DEFINE d == SubSeq(p, 1, Len(c) + 1)
  <2>2. Len(c) + 1 \in 1..Len(p)
    BY <2>1, <1>1
  <2>3. d \in Ancestry(p)
    BY <2>2 DEF Ancestry
  <2>4. d \in Names /\ Len(d) = Len(c) + 1 /\ \A i \in 1..Len(d) : d[i] = p[i]
    BY <2>1, <2>2, <1>1 DEF Names
  <2> HIDE DEF d
  <2>5. Parent(d) \in Names /\ Len(Parent(d)) = Len(c) /\ \A i \in 1..Len(c) : Parent(d)[i] = d[i]
    BY <2>1, <2>4 DEF Parent, Front, Names
  <2>6. \A i \in 1..Len(c) : c[i] = p[i]
    BY <1>1, BelowIs
  <2>7. Parent(d) = c
    BY <2>1, <2>4, <2>5, <2>6, <1>1, SamePath
  <2> QED BY <2>3, <2>7
<1>4. ASSUME c # p PROVE c \in DirPaths
  <2>1. PICK d \in Ancestry(p) : Parent(d) = c
    BY <1>3, <1>4
  <2>2. d \in Paths
    BY PathsAssumption, ClosedUpwards
  <2>3. c # Root
    BY <1>1 DEF Root
  <2> QED BY <2>1, <2>2, <2>3, PathFacts
<1> QED BY <1>1, <1>2, <1>3, <1>4

LEMMA AncestryOfChild ==
  ASSUME NEW p \in Paths
  PROVE  Ancestry(p) = Ancestry(Parent(p)) \cup {p}
<1>1. /\ p \in Names /\ Len(p) \in Nat \ {0} /\ p \in Ancestry(p)
      /\ Parent(p) \in Names /\ Len(p) = Len(Parent(p)) + 1 /\ Below(p, Parent(p))
  BY PathFacts
<1>2. ASSUME NEW c \in Ancestry(Parent(p)) PROVE c \in Ancestry(p)
  BY <1>1, <1>2, AncestryIs, BelowTrans
<1>3. ASSUME NEW c \in Ancestry(p), c # p PROVE c \in Ancestry(Parent(p))
  <2>1. c \in Names /\ Len(c) # 0 /\ Below(p, c)
    BY <1>1, AncestryIs
  <2>2. Len(c) \in Nat /\ Len(c) <= Len(p) /\ Len(c) # Len(p)
    <3>1. Len(c) \in Nat /\ Len(c) <= Len(p)
      BY <1>1, <2>1, BelowIs DEF Names
    <3> QED BY <3>1, <2>1, <1>1, <1>3, AboveInLine, PathIsBelow
  <2>3. Below(Parent(p), c)
    <3>1. Len(c) <= Len(Parent(p))
      <4>1. Len(Parent(p)) \in Nat
        BY <1>1 DEF Names
      <4> QED BY <4>1, <2>2, <1>1
    <3> QED BY <3>1, <2>1, <1>1, AboveInLine
  <2> QED BY <2>1, <2>3, <1>1, AncestryIs
<1> QED BY <1>1, <1>2, <1>3

LEMMA RootHasNone == Ancestry(Root) = {}
<1>1. Len(Root) = 0
  BY DEF Root
<1> QED BY <1>1 DEF Ancestry

-----------------------------------------------------------------------------
(* The invariant *)

Clean(p) == \A a \in Ancestry(p) : ~IsIgnored(a)

\* What nobody touched is what it was.
Quiet ==
  /\ IsInput(input) /\ DOMAIN disk = Paths
  /\ \A p \in Paths \ touched :
       /\ p \notin input.tree => disk[p] = Absent
       /\ p \in input.tree \cap DirPaths => disk[p] = Dir

\* An entry that is right to report
EntryOk(e) ==
  LET p == e.path IN
  /\ p \in Paths /\ Selected(p) /\ Nearest(p).include /\ Clean(p)
  /\ p \notin touched => disk[p] # Absent

JobOk(j) ==
  /\ DOMAIN j = {"path", "span", "opened", "left", "sending", "kids"}
  /\ j.path \in Paths \cup {Root} /\ Clean(j.path) /\ j.opened \in BOOLEAN
  /\ ~j.opened => Wide(j.span, j.path)
  /\ ~j.opened \/ ~Tight(j.span, j.path) => j.left = {} /\ j.kids = {}
  /\ \A p \in j.left \cup j.kids : p \in Paths /\ Parent(p) = j.path
  /\ \A p \in j.kids : ~IsIgnored(p)
  /\ j.sending = NoEntry \/ EntryOk(j.sending)

Todo == {r \in [path : Paths, span : Spans] : Wide(r.span, r.path) /\ Clean(r.path)}

\* A path the scan owes: it is asked for, and no user has touched what leads to it.
Wanted(p) == Ancestry(p) \cap touched = {} /\ Expected(p)

\* A directory being read will come to the path.
Serves(j, p) ==
  \/ j.sending.path = p
  \/ \E c \in Ancestry(p) :
       \/ ~j.opened /\ j.path = Parent(c)
       \/ c \in j.left
       \/ Parent(c) \in j.kids

Covered(p) ==
  \/ \E e \in entries : e.path = p
  \/ \E i \in DOMAIN chan : chan[i].path = p
  \/ \E i \in DOMAIN pending, c \in Ancestry(p) : pending[i].path = Parent(c)
  \/ \E j \in active : Serves(j, p)

Jobs == IsFiniteSet(active) /\ Cardinality(active) <= ScanLimit /\ \A j \in active : JobOk(j)
Reports == \E S : /\ \A e \in S : EntryOk(e)
                  /\ entries \subseteq S /\ chan \in Seq(S)
Phase ==
  /\ scan \in {"closing", "ok", "error"} => active = {} /\ pending = <<>>
  /\ scan = "ok" => chan = <<>>
Owed == scan # "error" => \A p \in Paths : Wanted(p) => Covered(p)

ScanInv == Quiet /\ Ordered /\ Reports /\ Jobs /\ pending \in Seq(Todo) /\ Phase /\ Owed

-----------------------------------------------------------------------------
(* What a change of a user may do to it *)

Calm ==
  /\ UNCHANGED <<input, locations>> /\ touched \subseteq touched'
  /\ DOMAIN disk' = Paths
  /\ \A p \in Paths \ touched' : disk'[p] = disk[p]

LEMMA CalmNames ==
  ASSUME Calm
  PROVE  /\ \A p : IsIgnored(p)' <=> IsIgnored(p)
         /\ \A p : Clean(p)' <=> Clean(p)
         /\ \A p : Selected(p)' <=> Selected(p)
         /\ \A p : Nearest(p)' = Nearest(p)
         /\ \A s, p : Wide(s, p)' <=> Wide(s, p)
         /\ \A s, p : Tight(s, p)' <=> Tight(s, p)
         /\ Todo' = Todo /\ Ordered' = Ordered
<1>1. input' = input /\ locations' = locations
  BY DEF Calm
<1>2. \A p : IsIgnored(p)' <=> IsIgnored(p)
  BY <1>1 DEF IsIgnored
<1>3. \A p : Clean(p)' <=> Clean(p)
  BY <1>2 DEF Clean
<1>4. \A p : Selected(p)' <=> Selected(p)
  BY <1>1 DEF Selected, IsExcluded
<1>5. \A p : Nearest(p)' = Nearest(p)
  BY <1>1 DEF Nearest
<1>6. \A s, p : Wide(s, p)' <=> Wide(s, p)
  BY <1>1 DEF Wide, At
<1>7. \A s, p : Tight(s, p)' <=> Tight(s, p)
  BY <1>1 DEF Tight, At, NearestAt
<1>8. Todo' = Todo
  BY <1>3, <1>6 DEF Todo
<1>9. Ordered' = Ordered
  BY <1>1 DEF Ordered
<1> QED BY <1>2, <1>3, <1>4, <1>5, <1>6, <1>7, <1>8, <1>9

LEMMA CalmEntry ==
  ASSUME Calm, NEW e, EntryOk(e)
  PROVE  EntryOk(e)'
<1>1. e.path \in Paths /\ (e.path \notin touched' => e.path \notin touched /\ disk'[e.path] = disk[e.path])
  BY DEF Calm, EntryOk
<1> QED BY <1>1, CalmNames DEF EntryOk

LEMMA CalmJob ==
  ASSUME Calm, NEW j, JobOk(j)
  PROVE  JobOk(j)'
BY CalmNames, CalmEntry DEF JobOk, NoEntry

LEMMA CalmWanted ==
  ASSUME Calm, NEW p \in Paths, Wanted(p)'
  PROVE  Wanted(p)
<1>1. Ancestry(p) \cap touched = {} /\ p \notin touched' /\ disk'[p] = disk[p]
  BY PathFacts DEF Calm, Wanted
<1> QED BY <1>1, CalmNames DEF Wanted, Expected

LEMMA CalmQuiet ==
  ASSUME Calm, Quiet
  PROVE  Quiet'
<1>1. input' = input /\ \A p \in Paths \ touched' : p \in Paths \ touched /\ disk'[p] = disk[p]
  BY DEF Calm
<1>2. IsInput(input)' <=> IsInput(input)
  BY <1>1 DEF IsInput
<1> QED BY <1>1, <1>2 DEF Quiet, Calm

LEMMA EditIsCalm ==
  ASSUME UserEdits, DOMAIN disk = Paths, UNCHANGED locations
  PROVE  Calm
<1>1. ASSUME NEW p \in Paths, Write(p) PROVE Calm
  BY <1>1 DEF Write, Edit, Calm
<1>2. ASSUME NEW p \in Paths, Create(p) PROVE Calm
  BY <1>2 DEF Create, Edit, Calm
<1>3. ASSUME NEW p \in Paths, Unlink(p) PROVE Calm
  BY <1>3 DEF Unlink, Edit, Calm
<1>4. ASSUME NEW p \in Paths, NEW q \in Paths, Move(p, q) PROVE Calm
  BY <1>4 DEF Move, Edit, Calm
<1> QED BY <1>1, <1>2, <1>3, <1>4 DEF UserEdits

LEMMA EditKeepsScan ==
  ASSUME ScanInv, UserEdits, UNCHANGED scanVars
  PROVE  ScanInv'
<1>1. UNCHANGED <<locations, pending, active, chan, entries, scan>>
  BY DEF scanVars
<1>2. Calm
  BY <1>1, EditIsCalm DEF ScanInv, Quiet
<1>3. Quiet' /\ Ordered' /\ (pending \in Seq(Todo))'
  BY <1>1, <1>2, CalmQuiet, CalmNames DEF ScanInv
<1>4. Reports'
  BY <1>1, <1>2, CalmEntry DEF ScanInv, Reports
<1>5. Jobs'
  BY <1>1, <1>2, CalmJob DEF ScanInv, Jobs
<1>6. Phase'
  BY <1>1 DEF ScanInv, Phase
<1>7. \A p : Covered(p)' <=> Covered(p)
  BY <1>1 DEF Covered, Serves
<1>8. Owed'
  BY <1>1, <1>2, <1>7, CalmWanted DEF ScanInv, Owed
<1> QED BY <1>3, <1>4, <1>5, <1>6, <1>8 DEF ScanInv

LEMMA InitScan == Init => ScanInv
<1> SUFFICES ASSUME Init PROVE ScanInv
  OBVIOUS
<1>1. TreeInit /\ ScanInit
  BY DEF Init
<1>2. Quiet
  BY <1>1, InputsAssumption DEF TreeInit, Quiet
<1>3. Ordered
  <2> DEFINE P == Paths \cup {Root}
  <2>1. IsFiniteSet(P)
    BY PathsAssumption, FS_AddElement
  <2>2. P \subseteq Names /\ Root \in P
    BY NamesOf
  <2>3. DOMAIN input.rules = P /\ input.rules[Root] # "none"
    BY <1>2 DEF Quiet, IsInput
  <2>4. locations = Canonicalize(input.rules)
    BY <1>1 DEF ScanInit
  <2> HIDE DEF P
  <2> QED BY <2>1, <2>2, <2>3, <2>4, LocationsAreOrdered
<1>4. Reports
  <2>1. entries \subseteq {} /\ chan \in Seq({})
    BY <1>1 DEF ScanInit
  <2> QED BY <2>1 DEF Reports
<1> DEFINE j == Job(Root, WholeSpan)
<1>5. JobOk(j)
  <2>1. Clean(Root) /\ Wide(WholeSpan, Root)
    BY <1>3, RootHasNone, WholeIsWide DEF Clean
  <2>2. /\ DOMAIN j = {"path", "span", "opened", "left", "sending", "kids"}
        /\ j.path = Root /\ j.opened = FALSE /\ j.span = WholeSpan
        /\ j.left = {} /\ j.kids = {} /\ j.sending = NoEntry
    BY DEF Job
  <2> HIDE DEF j
  <2> QED BY <2>1, <2>2 DEF JobOk
<1> HIDE DEF j
<1>6. active \in {{}, {j}}
  BY <1>1 DEF ScanInit, j
<1>7. Jobs
  <2>1. /\ IsFiniteSet({}) /\ Cardinality({}) = 0 /\ IsFiniteSet({j}) /\ Cardinality({j}) = 1
    BY FS_EmptySet, FS_Singleton
  <2> QED BY <1>5, <1>6, <2>1, ScanAssumption DEF Jobs
<1>8. pending \in Seq(Todo) /\ Phase
  BY <1>1 DEF ScanInit, Phase
<1>9. ASSUME NEW p \in Paths, Wanted(p) PROVE Covered(p)
  <2>1. p \in Names /\ Selected(p)
    BY <1>9, PathFacts DEF Wanted, Expected
  <2>2. input.scope.restrict \in Names /\ input.scope.excludes \subseteq Names
    BY <1>2, NamesOf DEF Quiet, IsInput
  <2>3. ~IsExcluded(input.scope.restrict)
    BY <2>1, <2>2, BelowTrans DEF Selected, IsExcluded
  <2>4. active = {j}
    BY <2>3, <1>1 DEF ScanInit, j
  <2>5. \E c \in Ancestry(p) : Parent(c) = Root
    <3>1. Len(p) \in Nat \ {0} /\ p \in Names
      BY PathFacts
    <3> DEFINE c == SubSeq(p, 1, 1)
    <3>2. c \in Ancestry(p) /\ c \in Names /\ Len(c) = 1
      BY <3>1 DEF Ancestry, Names
    <3> HIDE DEF c
    <3>3. Parent(c) = Root
      BY <3>2 DEF Parent, Front, Root, Names
    <3> QED BY <3>2, <3>3
  <2>6. ~j.opened /\ j.path = Root
    BY DEF j, Job
  <2> QED BY <2>4, <2>5, <2>6 DEF Covered, Serves
<1> QED BY <1>2, <1>3, <1>4, <1>7, <1>8, <1>9 DEF ScanInv, Owed

-----------------------------------------------------------------------------
(* The steps of a directory *)

\* A step of the scan that leaves tree and locations
LEMMA StepIsCalm ==
  ASSUME ScanInv, UNCHANGED <<treeVars, locations>>
  PROVE  Calm /\ Quiet' /\ Ordered' /\ Todo' = Todo
<1>1. Calm
  BY DEF Calm, treeVars, ScanInv, Quiet
<1> QED BY <1>1, CalmQuiet, CalmNames DEF ScanInv

\* A directory goes on: it stays well-formed and comes to what it came to before.
LEMMA BecomesKeeps ==
  ASSUME ScanInv, UNCHANGED treeVars, NEW j \in active, NEW k, Becomes(j, k), JobOk(k),
         \A p \in Paths : Wanted(p) /\ Serves(j, p) => Serves(k, p)
  PROVE  ScanInv'
<1>1. /\ active' = (active \ {j}) \cup {k}
      /\ UNCHANGED <<locations, pending, chan, entries, scan>>
  BY DEF Becomes
<1>2. Calm /\ Quiet' /\ Ordered' /\ Todo' = Todo
  BY <1>1, StepIsCalm
<1>3. Reports'
  BY <1>1, <1>2, CalmEntry DEF ScanInv, Reports
<1>4. Jobs'
  <2>1. IsFiniteSet(active) /\ Cardinality(active) <= ScanLimit /\ Cardinality(active) \in Nat
    BY FS_CardinalityType DEF ScanInv, Jobs
  <2>2. /\ IsFiniteSet(active \ {j}) /\ Cardinality(active \ {j}) = Cardinality(active) - 1
    BY <2>1, FS_RemoveElement
  <2>3. /\ IsFiniteSet(active') /\ Cardinality(active') <= Cardinality(active)
    <3> DEFINE B == active \ {j}
    <3>1. IsFiniteSet(B) /\ Cardinality(B) = Cardinality(active) - 1 /\ active' = B \cup {k}
      BY <1>1, <2>2
    <3> HIDE DEF B
    <3>2. /\ IsFiniteSet(B \cup {k})
          /\ Cardinality(B \cup {k}) = IF k \in B THEN Cardinality(B) ELSE Cardinality(B) + 1
      BY <3>1, FS_AddElement
    <3> QED BY <3>1, <3>2, <2>1
  <2>4. \A l \in active' : JobOk(l)
    BY <1>1 DEF ScanInv, Jobs
  <2>5. \A l \in active' : JobOk(l)'
    BY <2>4, <1>2, CalmJob
  <2>6. Cardinality(active') \in Nat /\ ScanLimit \in Nat
    BY <2>3, FS_CardinalityType, ScanAssumption
  <2> QED BY <2>1, <2>3, <2>5, <2>6 DEF Jobs
<1>5. Phase'
  <2>1. active # {}
    OBVIOUS
  <2> QED BY <2>1, <1>1 DEF ScanInv, Phase
<1>6. ASSUME scan' # "error", NEW p \in Paths, Wanted(p)' PROVE Covered(p)'
  <2>1. Wanted(p)
    BY <1>2, <1>6, CalmWanted
  <2>2. Covered(p)
    BY <1>1, <1>6, <2>1 DEF ScanInv, Owed
  <2>3. \A l \in active : Serves(l, p) => \E m \in active' : Serves(m, p)
    BY <1>1, <2>1
  <2> QED BY <1>1, <2>2, <2>3 DEF Covered, Serves
<1> QED BY <1>1, <1>2, <1>3, <1>4, <1>5, <1>6 DEF ScanInv, Owed

LEMMA FailsKeeps ==
  ASSUME ScanInv, UNCHANGED treeVars, ScanFails
  PROVE  ScanInv'
<1>1. /\ scan' = "error" /\ UNCHANGED locations
      /\ pending' = <<>> /\ active' = {} /\ chan' = <<>> /\ entries' = {}
  BY DEF ScanFails
<1>2. Calm /\ Quiet' /\ Ordered' /\ Todo' = Todo
  BY <1>1, StepIsCalm
<1>3. Reports'
  <2>1. entries' \subseteq {} /\ chan' \in Seq({})
    BY <1>1
  <2> QED BY <2>1 DEF Reports
<1>4. Jobs'
  BY <1>1, FS_EmptySet, ScanAssumption DEF Jobs
<1>5. pending' \in Seq(Todo)
  BY <1>1
<1> QED BY <1>1, <1>2, <1>3, <1>4, <1>5 DEF ScanInv, Phase, Owed

\* Nothing is skipped that leads to a path the scan owes.
LEMMA WantedLeads ==
  ASSUME Quiet, Ordered, NEW p \in Paths, Wanted(p), NEW c \in Ancestry(p)
  PROVE  /\ c \in Paths /\ disk[c] # Absent /\ ~IsExcluded(c) /\ ~IsIgnored(c)
         /\ c # p => disk[c] = Dir
         /\ Relevant(Parent(c))
         /\ \A span : Tight(span, Parent(c)) =>
              locations[span.parent].include \/ ~(span.from > span.to)
<1>1. /\ p \in Names /\ c \in Paths /\ c \in Names /\ Below(p, c)
      /\ c # p => c \in DirPaths
  BY PathFacts, AbovePaths
<1>2. /\ Parent(c) \in Names /\ Below(c, Parent(c))
  BY <1>1, PathFacts
<1>3. /\ input.scope.restrict \in Names /\ input.scope.excludes \subseteq Names
      /\ input.tree \subseteq Paths /\ \A q \in input.tree : Parent(q) \in input.tree \cup {Root}
  BY NamesOf DEF Quiet, IsInput
<1>4. /\ Ancestry(p) \cap touched = {} /\ disk[p] # Absent /\ Selected(p) /\ Nearest(p).include
      /\ \A a \in Ancestry(p) : ~IsIgnored(a)
  BY DEF Wanted, Expected
<1>5. p \in input.tree /\ p \in Ancestry(p)
  BY <1>4, PathFacts DEF Quiet
<1>6. c \in input.tree
  BY <1>3, <1>5, ClosedUpwards
<1>7. disk[c] # Absent /\ (c # p => disk[c] = Dir)
  BY <1>1, <1>4, <1>6 DEF Quiet, Dir, Absent
<1>8. ~IsExcluded(c) /\ ~IsExcluded(Parent(c))
  BY <1>1, <1>2, <1>3, <1>4, BelowTrans DEF Selected, IsExcluded
<1>9. Relevant(Parent(c))
  <2>1. Below(p, Parent(c)) /\ Below(p, input.scope.restrict)
    BY <1>1, <1>2, <1>4, BelowTrans DEF Selected
  <2>2. Len(Parent(c)) \in Nat /\ Len(input.scope.restrict) \in Nat
    BY <1>2, <1>3 DEF Names
  <2>3. Below(Parent(c), input.scope.restrict) \/ Below(input.scope.restrict, Parent(c))
    BY <2>1, <2>2, <1>1, <1>2, <1>3, AboveInLine
  <2> QED BY <2>3, <1>8 DEF Relevant
<1>10. ASSUME NEW span, Tight(span, Parent(c))
       PROVE  locations[span.parent].include \/ ~(span.from > span.to)
  <2>1. Below(p, Parent(c))
    BY <1>1, <1>2, BelowTrans
  <2>2. CASE Nearest(Parent(c)).include
    BY <2>2, <1>2, <1>10, NearestIs DEF Tight
  <2>3. ASSUME NEW i \in DOMAIN locations, Below(At(i), Parent(c))
        PROVE  ~(span.from > span.to)
    <3>1. i \in span.from..span.to /\ span.from \in Int /\ span.to \in Int
      BY <2>3, <1>10 DEF Tight, Spans
    <3> QED BY <3>1
  <2> QED BY <2>1, <2>2, <2>3, <1>1, <1>2, <1>4, IncludedFrom
<1> QED BY <1>1, <1>4, <1>7, <1>8, <1>9, <1>10

LEMMA OpenKeeps ==
  ASSUME ScanInv, UNCHANGED treeVars, NEW j \in active, OpenDir(j)
  PROVE  ScanInv'
<1>1. /\ JobOk(j) /\ Quiet /\ Ordered
      /\ j.sending = NoEntry /\ ~j.opened
  BY DEF ScanInv, Jobs, OpenDir, Waiting
<1>2. /\ DOMAIN j = {"path", "span", "opened", "left", "sending", "kids"}
      /\ j.path \in Paths \cup {Root} /\ Clean(j.path) /\ Wide(j.span, j.path)
      /\ j.left = {} /\ j.kids = {}
  BY <1>1 DEF JobOk
<1> DEFINE span == Narrow(j.span, j.path)
<1>3. j.path \in Names /\ Tight(span, j.path)
  BY <1>1, <1>2, NamesOf, Narrowed
<1>4. ASSUME NEW p \in Paths, Wanted(p), Serves(j, p)
      PROVE  \E c \in Ancestry(p) : j.path = Parent(c)
  <2>1. j.sending.path # p
    BY <1>1, PathFacts DEF NoEntry
  <2> QED BY <1>2, <1>4, <2>1 DEF Serves
<1>5. CASE /\ ~Relevant(j.path) \/ (~locations[span.parent].include /\ span.from > span.to)
           /\ Becomes(j, [j EXCEPT !.opened = TRUE])
  <2> DEFINE k == [j EXCEPT !.opened = TRUE]
  <2>1. JobOk(k)
    <3>1. /\ DOMAIN k = {"path", "span", "opened", "left", "sending", "kids"}
          /\ k.path = j.path /\ k.opened = TRUE /\ k.left = {} /\ k.kids = {} /\ k.sending = NoEntry
      BY <1>1, <1>2
    <3> HIDE DEF k
    <3> QED BY <3>1, <1>2 DEF JobOk
  <2>2. ASSUME NEW p \in Paths, Wanted(p), Serves(j, p) PROVE Serves(k, p)
    <3>1. PICK c \in Ancestry(p) : j.path = Parent(c)
      BY <1>4, <2>2
    <3>2. Relevant(j.path) /\ (locations[span.parent].include \/ ~(span.from > span.to))
      <4> HIDE DEF span
      <4> QED BY <3>1, <1>1, <1>3, <2>2, WantedLeads
    <3> QED BY <3>2, <1>5
  <2>3. Becomes(j, k)
    BY <1>5
  <2> HIDE DEF k
  <2> QED BY <2>1, <2>2, <2>3, BecomesKeeps
<1>6. CASE Becomes(j, [j EXCEPT !.opened = TRUE, !.span = span,
                !.left = {p \in Paths : disk[p] # Absent /\ Parent(p) = j.path}])
  <2> DEFINE L == {p \in Paths : disk[p] # Absent /\ Parent(p) = j.path}
             k == [j EXCEPT !.opened = TRUE, !.span = span, !.left = L]
  <2>1. Becomes(j, k)
    BY <1>6
  <2>2. \A p \in Paths : p \in L <=> disk[p] # Absent /\ Parent(p) = j.path
    OBVIOUS
  <2>3. L \subseteq Paths
    OBVIOUS
  <2> HIDE DEF L, span
  <2>4. /\ DOMAIN k = {"path", "span", "opened", "left", "sending", "kids"}
        /\ k.path = j.path /\ k.opened = TRUE /\ k.left = L /\ k.kids = {} /\ k.sending = NoEntry
        /\ k.span = span
    BY <1>1, <1>2
  <2> HIDE DEF k
  <2>5. JobOk(k)
    BY <2>2, <2>3, <2>4, <1>2, <1>3 DEF JobOk
  <2>6. ASSUME NEW p \in Paths, Wanted(p), Serves(j, p) PROVE Serves(k, p)
    <3>1. PICK c \in Ancestry(p) : j.path = Parent(c)
      BY <1>4, <2>6
    <3>2. c \in Paths /\ disk[c] # Absent
      BY <1>1, <2>6, WantedLeads
    <3>3. c \in k.left
      BY <3>1, <3>2, <2>2, <2>4
    <3> QED BY <3>3 DEF Serves
  <2> QED BY <2>1, <2>5, <2>6, BecomesKeeps
<1>7. CASE ScanFails
  BY <1>7, FailsKeeps
<1> QED BY <1>5, <1>6, <1>7 DEF OpenDir

\* One child is taken off the listing, and k says what became of it.
LEMMA ChildOff ==
  ASSUME ScanInv, UNCHANGED treeVars, NEW j \in active, j.sending = NoEntry, NEW c \in j.left,
         NEW k, Becomes(j, k),
         DOMAIN k = {"path", "span", "opened", "left", "sending", "kids"},
         k.path = j.path, k.span = j.span, k.opened = j.opened, k.left = j.left \ {c},
         k.kids = j.kids \/ (k.kids = j.kids \cup {c} /\ ~IsIgnored(c)),
         k.sending = NoEntry \/ EntryOk(k.sending),
         \A p \in Paths : Wanted(p) /\ c \in Ancestry(p) =>
           k.sending.path = p \/ (c # p /\ c \in k.kids)
  PROVE  ScanInv'
<1>1. JobOk(j)
  BY DEF ScanInv, Jobs
<1>2. JobOk(k)
  <2>1. k.left \subseteq j.left /\ k.kids \subseteq j.kids \cup {c}
    OBVIOUS
  <2>2. \A p \in k.left \cup k.kids : p \in Paths /\ Parent(p) = k.path
    BY <1>1, <2>1 DEF JobOk
  <2>3. \A p \in k.kids : ~IsIgnored(p)
    BY <1>1, <2>1 DEF JobOk
  <2>4. j.opened /\ Tight(j.span, j.path)
    BY <1>1 DEF JobOk
  <2> QED BY <1>1, <2>2, <2>3, <2>4 DEF JobOk
<1>3. ASSUME NEW p \in Paths, Wanted(p), Serves(j, p) PROVE Serves(k, p)
  <2>1. j.sending.path # p
    BY PathFacts DEF NoEntry
  <2>2. PICK d \in Ancestry(p) : \/ ~j.opened /\ j.path = Parent(d)
                                 \/ d \in j.left
                                 \/ Parent(d) \in j.kids
    BY <1>3, <2>1 DEF Serves
  <2>3. CASE ~j.opened /\ j.path = Parent(d)
    BY <2>3 DEF Serves
  <2>4. CASE Parent(d) \in j.kids
    BY <2>4 DEF Serves
  <2>5. CASE d \in j.left /\ d # c
    BY <2>5 DEF Serves
  <2>6. CASE d = c
    <3>1. k.sending.path = p \/ (c # p /\ c \in k.kids)
      BY <1>3, <2>6
    <3>2. ASSUME c # p, c \in k.kids PROVE Serves(k, p)
      <4>1. \E e \in Ancestry(p) : Parent(e) = c
        BY <3>2, <2>6, AbovePaths
      <4> QED BY <4>1, <3>2 DEF Serves
    <3> QED BY <3>1, <3>2 DEF Serves
  <2> QED BY <2>2, <2>3, <2>4, <2>5, <2>6
<1> QED BY <1>2, <1>3, BecomesKeeps

LEMMA SkippedKeeps ==
  ASSUME ScanInv, UNCHANGED treeVars, NEW j \in active, NEW c \in j.left, ChildSkipped(j, c)
  PROVE  ScanInv'
<1>1. /\ JobOk(j) /\ Quiet /\ Ordered /\ j.sending = NoEntry
      /\ IsExcluded(c) \/ IsIgnored(c)
  BY DEF ScanInv, Jobs, ChildSkipped, Waiting
<1> DEFINE k == [j EXCEPT !.left = @ \ {c}]
<1>2. Becomes(j, k)
  BY DEF ChildSkipped
<1>3. /\ DOMAIN k = {"path", "span", "opened", "left", "sending", "kids"}
      /\ k.path = j.path /\ k.span = j.span /\ k.opened = j.opened /\ k.left = j.left \ {c}
      /\ k.kids = j.kids /\ k.sending = NoEntry
  BY <1>1 DEF JobOk
<1>4. \A p \in Paths : Wanted(p) /\ c \in Ancestry(p) => FALSE
  BY <1>1, WantedLeads
<1> HIDE DEF k
<1> QED BY <1>1, <1>2, <1>3, <1>4, ChildOff

LEMMA GoneKeeps ==
  ASSUME ScanInv, UNCHANGED treeVars, NEW j \in active, NEW c \in j.left, ChildGone(j, c)
  PROVE  ScanInv'
BY FailsKeeps DEF ChildGone

LEMMA FoundKeeps ==
  ASSUME ScanInv, UNCHANGED treeVars, NEW j \in active, NEW c \in j.left, ChildFound(j, c)
  PROVE  ScanInv'
<1>1. /\ JobOk(j) /\ Quiet /\ Ordered /\ j.sending = NoEntry
      /\ ~IsExcluded(c) /\ ~IsIgnored(c) /\ disk[c] # Absent
  BY DEF ScanInv, Jobs, ChildFound, Waiting
<1>2. /\ c \in Paths /\ Parent(c) = j.path /\ Tight(j.span, j.path) /\ Clean(j.path)
      /\ DOMAIN j = {"path", "span", "opened", "left", "sending", "kids"}
  BY <1>1 DEF JobOk
<1>3. /\ c \in Names /\ j.path \in Names /\ Len(c) = Len(j.path) + 1 /\ Below(c, j.path)
  BY <1>2, PathFacts
<1>4. FindParent(c, j.span) = Nearest(c)
  BY <1>1, <1>2, <1>3, ChildRule
<1> DEFINE included == FindParent(c, j.span).include
           off == [j EXCEPT !.left = @ \ {c}]
           kids == IF disk[c] = Dir THEN j.kids \cup {c} ELSE j.kids
           sending == IF included /\ Selected(c) THEN EntryOf(c) ELSE NoEntry
           k == IF ~included /\ ~HasIncludeBelow(c, j.span) THEN off
                ELSE [off EXCEPT !.kids = kids, !.sending = sending]
<1>5. Becomes(j, k)
  <2>1. off.kids = j.kids
    BY <1>2
  <2> QED BY <2>1 DEF ChildFound
<1>6. /\ DOMAIN k = {"path", "span", "opened", "left", "sending", "kids"}
      /\ k.path = j.path /\ k.span = j.span /\ k.opened = j.opened /\ k.left = j.left \ {c}
      /\ ~included /\ ~HasIncludeBelow(c, j.span) => k.kids = j.kids /\ k.sending = NoEntry
      /\ included \/ HasIncludeBelow(c, j.span) => k.kids = kids /\ k.sending = sending
  <2> HIDE DEF kids, sending, included
  <2> QED BY <1>1, <1>2
<1> HIDE DEF k
<1>7. k.kids = j.kids \/ (k.kids = j.kids \cup {c} /\ ~IsIgnored(c))
  BY <1>1, <1>6
<1>8. included => EntryOf(c).path = c /\ (Selected(c) => EntryOk(EntryOf(c)))
  <2>1. EntryOf(c).path = c
    BY DEF EntryOf, NoEntry
  <2>2. Clean(c)
    BY <1>1, <1>2, AncestryOfChild DEF Clean
  <2> QED BY <2>1, <2>2, <1>1, <1>2, <1>4 DEF EntryOk
<1>9. k.sending = NoEntry \/ EntryOk(k.sending)
  BY <1>6, <1>8
<1>10. ASSUME NEW p \in Paths, Wanted(p), c \in Ancestry(p)
       PROVE  k.sending.path = p \/ (c # p /\ c \in k.kids)
  <2>1. Selected(p) /\ Nearest(p).include /\ p \in Names /\ Below(p, c)
    BY <1>10, PathFacts, AbovePaths DEF Wanted, Expected
  <2>2. CASE c = p
    <3>1. included /\ Selected(c)
      BY <2>1, <2>2, <1>4
    <3> QED BY <3>1, <2>2, <1>6, <1>8
  <2>3. CASE c # p
    <3>1. disk[c] = Dir
      BY <2>3, <1>1, <1>10, WantedLeads
    <3>2. included \/ HasIncludeBelow(c, j.span)
      <4>1. CASE Nearest(c).include
        BY <4>1, <1>4
      <4>2. ASSUME NEW i \in DOMAIN locations, locations[i].include, Below(At(i), c), At(i) # c
            PROVE  HasIncludeBelow(c, j.span)
        BY <4>2, <1>1, <1>2, <1>3, ChildIncludes
      <4> QED BY <4>1, <4>2, <2>1, <1>1, <1>3, IncludedFrom
    <3>3. c \in k.kids
      BY <3>1, <3>2, <1>6
    <3> QED BY <3>3, <2>3
  <2> QED BY <2>2, <2>3
<1> HIDE DEF included, off, kids, sending
<1> QED BY <1>1, <1>5, <1>6, <1>7, <1>9, <1>10, ChildOff

\* A step that only moves what was found: nothing is reported that was not found.
LEMMA SendKeeps ==
  ASSUME ScanInv, UNCHANGED treeVars, NEW j \in active, Send(j)
  PROVE  ScanInv'
<1> DEFINE k == [j EXCEPT !.sending = NoEntry]
<1>1. /\ JobOk(j) /\ j.sending # NoEntry /\ chan' = Append(chan, j.sending)
      /\ active' = (active \ {j}) \cup {k}
      /\ UNCHANGED <<locations, pending, entries, scan>>
  BY DEF ScanInv, Jobs, Send
<1>2. EntryOk(j.sending)
  BY <1>1 DEF JobOk
<1>3. /\ DOMAIN k = {"path", "span", "opened", "left", "sending", "kids"}
      /\ k.path = j.path /\ k.span = j.span /\ k.opened = j.opened /\ k.left = j.left
      /\ k.kids = j.kids /\ k.sending = NoEntry
  BY <1>1 DEF JobOk
<1> HIDE DEF k
<1>4. JobOk(k)
  BY <1>1, <1>3 DEF JobOk
<1>5. Calm /\ Quiet' /\ Ordered' /\ Todo' = Todo
  BY <1>1, StepIsCalm
<1>6. PICK S : (\A e \in S : EntryOk(e)) /\ entries \subseteq S /\ chan \in Seq(S)
  BY DEF ScanInv, Reports
<1>7. Reports'
  <2> DEFINE S2 == S \cup {j.sending}
  <2>1. (\A e \in S2 : EntryOk(e)) /\ entries \subseteq S2
    BY <1>2, <1>6
  <2>2. chan \in Seq(S2) /\ j.sending \in S2
    BY <1>6
  <2> HIDE DEF S2
  <2>3. chan' \in Seq(S2)
    BY <2>2, <1>1
  <2>4. \A e \in S2 : EntryOk(e)'
    BY <2>1, <1>5, CalmEntry
  <2> QED BY <2>1, <2>3, <2>4, <1>1 DEF Reports
<1>8. Jobs'
  <2>1. IsFiniteSet(active) /\ Cardinality(active) <= ScanLimit /\ Cardinality(active) \in Nat
    BY FS_CardinalityType DEF ScanInv, Jobs
  <2>2. IsFiniteSet(active') /\ Cardinality(active') <= Cardinality(active)
    <3> DEFINE B == active \ {j}
    <3>1. IsFiniteSet(B) /\ Cardinality(B) = Cardinality(active) - 1 /\ active' = B \cup {k}
      BY <1>1, <2>1, FS_RemoveElement
    <3> HIDE DEF B
    <3>2. /\ IsFiniteSet(B \cup {k})
          /\ Cardinality(B \cup {k}) = IF k \in B THEN Cardinality(B) ELSE Cardinality(B) + 1
      BY <3>1, FS_AddElement
    <3> QED BY <3>1, <3>2, <2>1
  <2>3. \A l \in active' : JobOk(l)
    BY <1>1, <1>4 DEF ScanInv, Jobs
  <2>4. \A l \in active' : JobOk(l)'
    BY <2>3, <1>5, CalmJob
  <2>5. Cardinality(active') \in Nat /\ ScanLimit \in Nat
    BY <2>2, FS_CardinalityType, ScanAssumption
  <2> QED BY <2>1, <2>2, <2>4, <2>5 DEF Jobs
<1>9. Phase'
  <2>1. active # {}
    OBVIOUS
  <2> QED BY <2>1, <1>1 DEF ScanInv, Phase
<1>10. ASSUME scan' # "error", NEW p \in Paths, Wanted(p)' PROVE Covered(p)'
  <2>1. Covered(p)
    BY <1>1, <1>5, <1>10, CalmWanted DEF ScanInv, Owed
  <2>2. /\ DOMAIN chan = 1..Len(chan) /\ Len(chan) \in Nat
        /\ DOMAIN chan' = 1..(Len(chan) + 1)
        /\ \A i \in 1..Len(chan) : chan'[i] = chan[i]
        /\ chan'[Len(chan) + 1] = j.sending
    <3>1. j.sending \in S \cup {j.sending} /\ chan \in Seq(S \cup {j.sending})
      BY <1>6
    <3> QED BY <3>1, <1>1
  <2>3. CASE \E e \in entries : e.path = p
    BY <2>3, <1>1 DEF Covered
  <2>4. CASE \E i \in DOMAIN chan : chan[i].path = p
    <3>1. \E i \in DOMAIN chan' : chan'[i].path = p
      BY <2>2, <2>4
    <3> QED BY <3>1 DEF Covered
  <2>5. CASE \E i \in DOMAIN pending, c \in Ancestry(p) : pending[i].path = Parent(c)
    BY <2>5, <1>1 DEF Covered
  <2>6. ASSUME NEW l \in active, Serves(l, p) PROVE Covered(p)'
    <3>1. CASE l = j /\ j.sending.path = p
      <4>1. \E i \in DOMAIN chan' : chan'[i].path = p
        BY <2>2, <3>1
      <4> QED BY <4>1 DEF Covered
    <3>2. CASE l = j /\ j.sending.path # p
      <4>1. Serves(k, p)
        BY <2>6, <3>2, <1>3 DEF Serves
      <4> QED BY <4>1, <1>1 DEF Covered, Serves
    <3>3. CASE l # j
      BY <3>3, <2>6, <1>1 DEF Covered, Serves
    <3> QED BY <3>1, <3>2, <3>3
  <2> QED BY <2>1, <2>3, <2>4, <2>5, <2>6 DEF Covered
<1> QED BY <1>1, <1>5, <1>7, <1>8, <1>9, <1>10 DEF ScanInv, Owed

LEMMA CollectKeeps ==
  ASSUME ScanInv, UNCHANGED treeVars, Collect
  PROVE  ScanInv'
<1>1. /\ chan # <<>> /\ entries' = entries \cup {Head(chan)} /\ chan' = Tail(chan)
      /\ UNCHANGED <<locations, pending, active, scan>>
  BY DEF Collect
<1>2. Calm /\ Quiet' /\ Ordered' /\ Todo' = Todo
  BY <1>1, StepIsCalm
<1>3. PICK S : (\A e \in S : EntryOk(e)) /\ entries \subseteq S /\ chan \in Seq(S)
  BY DEF ScanInv, Reports
<1>4. Reports'
  <2>1. entries' \subseteq S /\ chan' \in Seq(S)
    BY <1>1, <1>3
  <2>2. \A e \in S : EntryOk(e)'
    BY <1>3, <1>2, CalmEntry
  <2> QED BY <2>1, <2>2 DEF Reports
<1>5. Jobs'
  BY <1>1, <1>2, CalmJob DEF ScanInv, Jobs
<1>6. Phase'
  BY <1>1 DEF ScanInv, Phase
<1>7. ASSUME scan' # "error", NEW p \in Paths, Wanted(p)' PROVE Covered(p)'
  <2>1. Covered(p)
    BY <1>1, <1>2, <1>7, CalmWanted DEF ScanInv, Owed
  <2>2. /\ DOMAIN chan = 1..Len(chan) /\ Len(chan) \in Nat \ {0} /\ Head(chan) = chan[1]
        /\ DOMAIN chan' = 1..(Len(chan) - 1)
        /\ \A i \in 1..(Len(chan) - 1) : chan'[i] = chan[i + 1]
    BY <1>1, <1>3
  <2>3. CASE \E i \in DOMAIN chan : chan[i].path = p
    <3>1. PICK i \in DOMAIN chan : chan[i].path = p
      BY <2>3
    <3>2. CASE i = 1
      BY <3>1, <3>2, <2>2, <1>1 DEF Covered
    <3>3. CASE i # 1
      <4>1. i - 1 \in DOMAIN chan' /\ chan'[i - 1] = chan[i]
        BY <3>3, <2>2
      <4> QED BY <4>1, <3>1 DEF Covered
    <3> QED BY <3>2, <3>3
  <2>4. CASE \/ \E e \in entries : e.path = p
             \/ \E i \in DOMAIN pending, c \in Ancestry(p) : pending[i].path = Parent(c)
             \/ \E l \in active : Serves(l, p)
    BY <2>4, <1>1 DEF Covered, Serves
  <2> QED BY <2>1, <2>3, <2>4 DEF Covered
<1> QED BY <1>1, <1>2, <1>4, <1>5, <1>6, <1>7 DEF ScanInv, Owed

LEMMA DrainedKeeps ==
  ASSUME ScanInv, UNCHANGED treeVars, Drained
  PROVE  ScanInv'
<1>1. /\ scan = "closing" /\ chan = <<>> /\ scan' = "ok"
      /\ UNCHANGED <<locations, pending, active, chan, entries>>
  BY DEF Drained
<1>2. Calm /\ Quiet' /\ Ordered' /\ Todo' = Todo
  BY <1>1, StepIsCalm
<1>3. Reports'
  BY <1>1, <1>2, CalmEntry DEF ScanInv, Reports
<1>4. Jobs'
  BY <1>1, <1>2, CalmJob DEF ScanInv, Jobs
<1>5. Phase'
  BY <1>1 DEF ScanInv, Phase
<1>6. \A p : Covered(p)' <=> Covered(p)
  BY <1>1 DEF Covered, Serves
<1>7. Owed'
  BY <1>1, <1>2, <1>6, CalmWanted DEF ScanInv, Owed
<1> QED BY <1>1, <1>2, <1>3, <1>4, <1>5, <1>7 DEF ScanInv

LEMMA Joining ==
  ASSUME NEW T, NEW a \in Seq(T), NEW b \in Seq(T)
  PROVE  /\ a \o b \in Seq(T) /\ Len(a \o b) = Len(a) + Len(b) /\ Len(a) \in Nat /\ Len(b) \in Nat
         /\ \A i \in 1..Len(a) : (a \o b)[i] = a[i]
         /\ \A i \in 1..Len(b) : (a \o b)[Len(a) + i] = b[i]
OBVIOUS

\* Directories that are found wait behind the others; as many are read as the
\* limit allows, so none waits when none is being read.
LEMMA DoneKeeps ==
  ASSUME ScanInv, UNCHANGED treeVars, NEW j \in active, DirDone(j)
  PROVE  ScanInv'
<1> DEFINE kids == Sorted(j.kids)
           more == [i \in DOMAIN kids |-> [path |-> kids[i], span |-> j.span]]
           queue == pending \o more
           rest == active \ {j}
           n == Min({ScanLimit - Cardinality(rest), Len(queue)})
           jobs == {Job(queue[i].path, queue[i].span) : i \in 1..n}
<1>1. /\ j.sending = NoEntry /\ j.opened /\ j.left = {}
      /\ active' = rest \cup jobs
      /\ pending' = SubSeq(queue, n + 1, Len(queue))
      /\ scan' = IF active' = {} THEN "closing" ELSE scan
      /\ UNCHANGED <<locations, chan, entries>>
  BY DEF DirDone, Waiting
<1>2. /\ JobOk(j) /\ Ordered /\ pending \in Seq(Todo)
      /\ IsFiniteSet(active) /\ Cardinality(active) <= ScanLimit /\ \A l \in active : JobOk(l)
  BY DEF ScanInv, Jobs
<1>3. Calm /\ Quiet' /\ Ordered' /\ Todo' = Todo
  BY <1>1, StepIsCalm
<1>4. j.kids \subseteq Paths /\ IsFiniteSet(j.kids)
  <2>1. j.kids \in SUBSET Paths
    BY <1>2 DEF JobOk
  <2> QED BY <2>1, PathsAssumption, FS_Subset
<1>5. /\ Cardinality(j.kids) \in Nat /\ kids \in [1..Cardinality(j.kids) -> j.kids]
      /\ \A x \in j.kids : \E i \in 1..Cardinality(j.kids) : kids[i] = x
  BY <1>4, NamesOf, SortedIs
<1>6. \A x \in j.kids : [path |-> x, span |-> j.span] \in Todo
  <2> SUFFICES ASSUME NEW x \in j.kids PROVE [path |-> x, span |-> j.span] \in Todo
    OBVIOUS
  <2>1. /\ x \in Paths /\ Parent(x) = j.path /\ ~IsIgnored(x) /\ Tight(j.span, j.path) /\ Clean(j.path)
    BY <1>2 DEF JobOk
  <2>2. x \in Names /\ Len(x) = Len(j.path) + 1 /\ Below(x, j.path) /\ j.path \in Names
    BY <2>1, PathFacts
  <2>3. Wide(j.span, x)
    BY <2>1, <2>2, <1>2, WideWithin
  <2>4. Clean(x)
    BY <2>1, AncestryOfChild DEF Clean
  <2>5. j.span \in Spans
    BY <2>1 DEF Tight
  <2> QED BY <2>1, <2>3, <2>4, <2>5 DEF Todo
<1>7. /\ more \in Seq(Todo) /\ Len(more) = Cardinality(j.kids)
      /\ \A i \in 1..Len(more) : more[i].path = kids[i]
  <2>1. DOMAIN kids = 1..Cardinality(j.kids) /\ \A i \in DOMAIN kids : kids[i] \in j.kids
    BY <1>5
  <2> HIDE DEF kids
  <2>2. more \in [1..Cardinality(j.kids) -> Todo]
    BY <2>1, <1>6
  <2>3. \A i \in 1..Cardinality(j.kids) : more[i].path = kids[i]
    BY <2>1
  <2> HIDE DEF more
  <2> QED BY <2>2, <2>3, <1>5
<1> HIDE DEF kids, more
<1>8. /\ queue \in Seq(Todo) /\ Len(queue) = Len(pending) + Len(more)
      /\ Len(pending) \in Nat /\ Len(more) \in Nat
      /\ \A i \in 1..Len(pending) : queue[i] = pending[i]
      /\ \A i \in 1..Len(more) : queue[Len(pending) + i] = more[i]
  <2>1. pending \in Seq(Todo) /\ more \in Seq(Todo)
    BY <1>2, <1>7
  <2> QED BY ONLY <2>1, Joining DEF queue
<1> HIDE DEF queue
<1>9. /\ IsFiniteSet(rest) /\ Cardinality(rest) \in Nat /\ Cardinality(rest) = Cardinality(active) - 1
      /\ Cardinality(active) \in Nat
  BY <1>2, Smaller1
<1>10. ScanLimit - Cardinality(rest) \in Nat \ {0} /\ Len(queue) \in Nat
  BY <1>2, <1>8, <1>9, ScanAssumption
<1>11. /\ n \in Nat /\ n <= ScanLimit - Cardinality(rest) /\ n <= Len(queue)
       /\ n = 0 => Len(queue) = 0
  <2> DEFINE a == ScanLimit - Cardinality(rest)
             b == Len(queue)
  <2>1. a \in Nat \ {0} /\ b \in Nat
    BY <1>10
  <2> HIDE DEF a, b
  <2>2. CASE a <= b
    <3>1. a \in {a, b} /\ {a, b} \subseteq Int /\ \A t \in {a, b} : a <= t
      BY <2>1, <2>2
    <3>2. Min({a, b}) = a
      BY <3>1, MinIs
    <3> QED BY <3>2, <2>1, <2>2 DEF a, b
  <2>3. CASE b <= a
    <3>1. b \in {a, b} /\ {a, b} \subseteq Int /\ \A t \in {a, b} : b <= t
      BY <2>1, <2>3
    <3>2. Min({a, b}) = b
      BY <3>1, MinIs
    <3> QED BY <3>2, <2>1, <2>3 DEF a, b
  <2> QED BY <2>1, <2>2, <2>3
<1> HIDE DEF n
<1>12. ASSUME NEW i \in 1..n
       PROVE  LET l == Job(queue[i].path, queue[i].span) IN
              JobOk(l) /\ ~l.opened /\ l.path = queue[i].path
  <2>1. i \in 1..Len(queue)
    BY <1>10, <1>11
  <2>2. queue[i] \in Todo
    BY <2>1, <1>8
  <2> DEFINE l == Job(queue[i].path, queue[i].span)
  <2>3. /\ DOMAIN l = {"path", "span", "opened", "left", "sending", "kids"}
        /\ l.path = queue[i].path /\ l.opened = FALSE /\ l.span = queue[i].span
        /\ l.left = {} /\ l.kids = {} /\ l.sending = NoEntry
    BY DEF Job
  <2> HIDE DEF l
  <2>4. JobOk(l)
    BY <2>2, <2>3 DEF JobOk, Todo
  <2> QED BY <2>3, <2>4 DEF l
<1>13. IsFiniteSet(jobs) /\ Cardinality(jobs) \in Nat /\ Cardinality(jobs) <= n
  <2> DEFINE f == [i \in 1..n |-> Job(queue[i].path, queue[i].span)]
  <2>1. f \in Surjection(1..n, jobs)
    BY DEF Surjection
  <2>2. IsFiniteSet(1..n) /\ Cardinality(1..n) = n
    BY <1>11, FS_Interval
  <2> HIDE DEF f, jobs
  <2>3. IsFiniteSet(jobs) /\ Cardinality(jobs) <= n
    BY <2>1, <2>2, FS_Surjection
  <2> QED BY <2>3, FS_CardinalityType
<1>14. Jobs'
  <2>1. \A l \in active' : JobOk(l)
    BY <1>1, <1>2, <1>12
  <2>2. \A l \in active' : JobOk(l)'
    BY <2>1, <1>3, CalmJob
  <2> HIDE DEF rest, jobs
  <2>3. IsFiniteSet(rest \cup jobs) /\ Cardinality(rest \cup jobs) <= Cardinality(rest) + Cardinality(jobs)
    <3>1. IsFiniteSet(rest \cap jobs) /\ Cardinality(rest \cap jobs) \in Nat
      <4>1. rest \cap jobs \in SUBSET rest
        OBVIOUS
      <4> QED BY <4>1, <1>9, FS_Subset, FS_CardinalityType
    <3>2. /\ IsFiniteSet(rest \cup jobs)
          /\ Cardinality(rest \cup jobs)
               = Cardinality(rest) + Cardinality(jobs) - Cardinality(rest \cap jobs)
      BY <1>9, <1>13, FS_Union
    <3> QED BY <3>1, <3>2, <1>9, <1>13
  <2>4. Cardinality(rest \cup jobs) \in Nat
    BY <2>3, FS_CardinalityType
  <2> QED BY <2>2, <2>3, <2>4, <1>1, <1>9, <1>10, <1>11, <1>13, ScanAssumption DEF Jobs
<1>15. pending' \in Seq(Todo)
  BY <1>1, <1>8, <1>10, <1>11
<1>16. /\ Len(pending') = Len(queue) - n
       /\ \A i \in 1..(Len(queue) - n) : pending'[i] = queue[i + n]
  BY <1>1, <1>8, <1>10, <1>11
<1>17. Phase'
  <2>1. active # {}
    OBVIOUS
  <2>2. scan \notin {"closing", "ok", "error"}
    BY <2>1 DEF ScanInv, Phase
  <2>3. ASSUME active' = {} PROVE pending' = <<>>
    <3>1. n = 0
      <4>1. jobs = {}
        BY <2>3, <1>1
      <4> QED BY <4>1, <1>11
    <3>2. Len(pending') = 0
      BY <3>1, <1>10, <1>11, <1>16
    <3> QED BY <3>2, <1>15
  <2> QED BY <2>2, <2>3, <1>1 DEF Phase
<1>18. Reports'
  BY <1>1, <1>3, CalmEntry DEF ScanInv, Reports
<1>19. ASSUME NEW i \in 1..Len(queue), NEW p \in Paths, NEW c \in Ancestry(p), queue[i].path = Parent(c)
       PROVE  Covered(p)'
  <2>1. CASE i <= n
    <3> DEFINE l == Job(queue[i].path, queue[i].span)
    <3>1. i \in 1..n
      BY <2>1, <1>10, <1>11
    <3>2. l \in active' /\ ~l.opened /\ l.path = Parent(c)
      BY <3>1, <1>1, <1>12, <1>19
    <3> HIDE DEF l
    <3> QED BY <3>2 DEF Covered, Serves
  <2>2. CASE n < i
    <3>1. i - n \in DOMAIN pending' /\ pending'[i - n] = queue[i]
      BY <2>2, <1>10, <1>11, <1>15, <1>16
    <3> QED BY <3>1, <1>19 DEF Covered
  <2> QED BY <2>1, <2>2, <1>11
<1>20. ASSUME scan' # "error", NEW p \in Paths, Wanted(p)' PROVE Covered(p)'
  <2>1. active' # {} => scan' = scan
    BY <1>1
  <2>2. scan # "error"
    <3>1. active # {}
      OBVIOUS
    <3> QED BY <3>1 DEF ScanInv, Phase
  <2>3. Covered(p)
    BY <1>3, <1>20, <2>2, CalmWanted DEF ScanInv, Owed
  <2>4. CASE (\E e \in entries : e.path = p) \/ \E i \in DOMAIN chan : chan[i].path = p
    BY <2>4, <1>1 DEF Covered
  <2>5. ASSUME NEW i \in DOMAIN pending, NEW c \in Ancestry(p), pending[i].path = Parent(c)
        PROVE  Covered(p)'
    <3>1. i \in 1..Len(pending) /\ i \in 1..Len(queue)
      BY <1>2, <1>8
    <3> QED BY <3>1, <2>5, <1>8, <1>19
  <2>6. ASSUME NEW l \in active, Serves(l, p) PROVE Covered(p)'
    <3>1. CASE l # j
      BY <3>1, <2>6, <1>1 DEF Covered, Serves
    <3>2. CASE l = j
      <4>1. j.sending.path # p
        BY <1>1, PathFacts DEF NoEntry
      <4>2. PICK c \in Ancestry(p) : Parent(c) \in j.kids
        BY <4>1, <3>2, <2>6, <1>1 DEF Serves
      <4>3. PICK i \in 1..Cardinality(j.kids) : kids[i] = Parent(c)
        BY <4>2, <1>5
      <4>4. queue[Len(pending) + i].path = Parent(c) /\ Len(pending) + i \in 1..Len(queue)
        BY <4>3, <1>7, <1>8
      <4> QED BY <4>4, <1>19
    <3> QED BY <3>1, <3>2
  <2> QED BY <2>3, <2>4, <2>5, <2>6 DEF Covered
<1> QED BY <1>1, <1>3, <1>14, <1>15, <1>17, <1>18, <1>20 DEF ScanInv, Owed

LEMMA StepKeepsScan ==
  ASSUME ScanInv, UNCHANGED treeVars, ScanStep
  PROVE  ScanInv'
BY OpenKeeps, SendKeeps, DoneKeeps, SkippedKeeps, GoneKeeps, FoundKeeps, CollectKeeps, DrainedKeeps
   DEF ScanStep

LEMMA NextScan == ScanInv /\ [Next]_vars => ScanInv'
<1> SUFFICES ASSUME ScanInv, [Next]_vars PROVE ScanInv'
  OBVIOUS
<1>1. CASE ScanStep /\ UNCHANGED treeVars
  BY <1>1, StepKeepsScan
<1>2. CASE UserEdits /\ UNCHANGED scanVars
  BY <1>2, EditKeepsScan
<1>3. CASE UNCHANGED <<treeVars, scanVars>>
  <2>1. Calm /\ Quiet' /\ Ordered' /\ Todo' = Todo
    BY <1>3, StepIsCalm DEF scanVars
  <2>2. UNCHANGED <<locations, pending, active, chan, entries, scan>>
    BY <1>3 DEF scanVars
  <2>3. Reports' /\ Jobs' /\ Phase'
    BY <2>1, <2>2, CalmEntry, CalmJob DEF ScanInv, Reports, Jobs, Phase
  <2>4. \A p : Covered(p)' <=> Covered(p)
    BY <2>2 DEF Covered, Serves
  <2>5. Owed'
    BY <2>1, <2>2, <2>4, CalmWanted DEF ScanInv, Owed
  <2> QED BY <2>1, <2>2, <2>3, <2>5 DEF ScanInv
<1> QED BY <1>1, <1>2, <1>3 DEF Next, Task, Thread, Users, vars

\* A scan that succeeds has every path that the rules of the profile and the scope
\* ask for, and no other, but for those below something users changed meanwhile: for
\* any tree and locations, however many directories are read at a time, however small
\* the channel is and in whatever order entries come through it.
THEOREM CompleteScan == Spec => []ScanComplete
<1>1. ScanInv => ScanComplete
  <2> SUFFICES ASSUME ScanInv, scan = "ok", NEW p \in Paths, Ancestry(p) \cap touched = {}
               PROVE  (\E e \in entries : e.path = p) <=> Expected(p)
    BY DEF ScanComplete
  <2>1. active = {} /\ pending = <<>> /\ chan = <<>>
    BY DEF ScanInv, Phase
  <2>2. ASSUME NEW e \in entries, e.path = p PROVE Expected(p)
    <3>1. EntryOk(e)
      BY DEF ScanInv, Reports
    <3>2. p \notin touched
      BY PathFacts
    <3> QED BY <3>1, <3>2, <2>2 DEF EntryOk, Clean, Expected
  <2>3. ASSUME Expected(p) PROVE \E e \in entries : e.path = p
    <3>1. Covered(p)
      BY <2>3 DEF ScanInv, Owed, Wanted
    <3> QED BY <3>1, <2>1 DEF Covered
  <2> QED BY <2>2, <2>3
<1> QED BY <1>1, InitScan, NextScan, PTL DEF Spec

=============================================================================
