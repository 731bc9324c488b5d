------------------------------ MODULE HashPool ------------------------------
(***************************************************************************)
(* The pool that hashes files (run_blocking_with_limit in state.rs and     *)
(* compute_content_hashes in scan/mod.rs): a task keeps up to HashLimit    *)
(* blocking workers busy, in the order of the work list, and takes in      *)
(* their results in whatever order they come.  Workers are threads; they   *)
(* look for a cancellation before every read.  A file is opened, looked    *)
(* at and read in two pieces; users move it and write to it in between.    *)
(*                                                                         *)
(* Positions in the work list start at 1; NoError is usize::MAX.           *)
(***************************************************************************)
EXTENDS ScanTree

CONSTANTS
  HashLimit,      \* workers at a time
  MaxReadErrors   \* bound: reads that fail, workers that panic

ASSUME PoolAssumption == HashLimit \in Nat \ {0} /\ MaxReadErrors \in Nat

VARIABLES
  work,        \* the entries to hash, in path order
  worker,      \* the thread of each position
  waiting,     \* positions not yet given to a worker
  running,     \* positions given to a worker and not yet taken in
  firstError,  \* lowest position known to have failed: the cutoff
  cancelAll,   \* flag set when the pool returns
  readErrors,  \* history: reads that failed
  pool         \* idle, running, ok, error or panic

poolVars == <<work, worker, waiting, running, firstError, cancelAll, readErrors, pool>>

Positions == DOMAIN work
NoError == Len(work) + 1
NoWorker == [pc |-> "none", ino |-> Absent, changed |-> 0, first |-> 0, second |-> 0]
Ended == {"hashed", "failed", "cancelled"}

PoolTypeOK ==
  /\ worker \in [Positions ->
       [pc : {"none", "start", "opened", "checked", "half", "read"} \cup Ended,
        ino : Inodes \cup {Absent, Dir},
        changed : 0..MaxEdits, first : 0..MaxEdits, second : 0..MaxEdits]]
  /\ waiting \subseteq Positions /\ running \subseteq Positions
  /\ Cardinality(running) <= HashLimit
  /\ firstError \in Positions \cup {NoError} /\ cancelAll \in BOOLEAN
  /\ readErrors \in 0..MaxReadErrors
  /\ pool \in {"idle", "running", "ok", "error", "panic"}

PoolInit ==
  /\ work = <<>> /\ worker = <<>> /\ waiting = {} /\ running = {}
  /\ firstError = 1 /\ cancelAll = FALSE /\ readErrors = 0 /\ pool = "idle"

-----------------------------------------------------------------------------
(* The task *)

\* The first n positions of a set
Lowest(S, n) == {p \in S : Cardinality({q \in S : q < p}) < n}

\* Positions of the set are given to workers while there are free ones.
Admit(S, busy, threads) ==
  LET new == Lowest(S, HashLimit - Cardinality(busy))
  IN  /\ waiting' = S \ new /\ running' = busy \cup new
      /\ worker' = [p \in DOMAIN threads |->
                      IF p \in new THEN [NoWorker EXCEPT !.pc = "start"] ELSE threads[p]]

PoolStart(w) ==
  /\ pool = "idle"
  /\ work' = w /\ firstError' = Len(w) + 1
  /\ pool' = IF w = <<>> THEN "ok" ELSE "running"
  /\ Admit(DOMAIN w, {}, [p \in DOMAIN w |-> NoWorker])
  /\ UNCHANGED <<cancelAll, readErrors>>

\* mutant of Outcome: the pool returns as soon as it knows of an error
OutcomeHasty(error, left, busy) ==
  IF error # NoError THEN "error" ELSE IF left \cup busy = {} THEN "ok" ELSE "running"

\* mutant of Outcome: an error is not looked for when the last worker is done
OutcomeForgetful(error, left, busy) ==
  IF left \cup busy = {} THEN (IF \A p \in Positions : worker[p].pc = "hashed" THEN "ok" ELSE "panic")
  ELSE IF error # NoError /\ ~\E p \in busy : p < error THEN "error" ELSE "running"

\* An error is returned once no earlier position is still being hashed.  The
\* loop ends when nothing is left, and expects every result to be there.
Outcome(error, left, busy) ==
  IF error # NoError /\ ~\E p \in busy : p < error THEN "error"
  ELSE IF left \cup busy # {} THEN "running"
  ELSE IF \A p \in Positions : worker[p].pc = "hashed" THEN "ok" ELSE "panic"

\* After an error only earlier positions are still of interest.
Kept(error, S) == {p \in S : p < error}

\* The result of one worker is taken in, and others are started.
TakeIn(p) ==
  /\ pool = "running" /\ p \in running /\ worker[p].pc \in Ended
  /\ LET error == IF worker[p].pc = "hashed" THEN firstError ELSE Min({firstError, p})
         left == Kept(error, waiting)
         busy == running \ {p}
     IN /\ firstError' = error
        /\ pool' = Outcome(error, left, busy)
        /\ cancelAll' = (pool' # "running")
        /\ IF pool' = "running" THEN Admit(left, busy, worker)
             ELSE waiting' = left /\ running' = busy /\ UNCHANGED worker
  /\ UNCHANGED <<work, readErrors>>

-----------------------------------------------------------------------------
(* The workers *)

IsCancelled(p) == cancelAll \/ p > firstError
workerRest == <<work, waiting, running, firstError, cancelAll, pool>>
Step(p, t) == worker' = [worker EXCEPT ![p] = t]
ThreadEnds(p, pc) == worker' = [worker EXCEPT ![p].pc = pc]

\* openat of what is at the path; from then on the worker has that inode.
Open(p) ==
  /\ worker[p].pc = "start"
  /\ LET ino == disk[work[p].path] IN
       IF ino # Absent THEN Step(p, [NoWorker EXCEPT !.pc = "opened", !.ino = ino])
                       ELSE ThreadEnds(p, "failed")
  /\ UNCHANGED <<workerRest, readErrors>>

\* mutant of CheckSource: what was opened is not compared with the entry
CheckSourceNever(p) ==
  /\ worker[p].pc = "opened"
  /\ IF worker[p].ino \notin Inodes THEN ThreadEnds(p, "failed")
       ELSE Step(p, [worker[p] EXCEPT !.pc = "checked", !.changed = inode[worker[p].ino].changed])
  /\ UNCHANGED <<workerRest, readErrors>>

\* fstat: it must be a file, the one of the scan, with the metadata it had there.
\* By now its name may be another.
CheckSource(p) ==
  /\ worker[p].pc = "opened"
  /\ LET e == work[p] IN
       IF worker[p].ino \in Inodes /\ worker[p].ino = e.ino /\ inode[e.ino].stamp = e.stamp
         THEN Step(p, [worker[p] EXCEPT !.pc = "checked", !.changed = inode[e.ino].changed])
         ELSE ThreadEnds(p, "failed")
  /\ UNCHANGED <<workerRest, readErrors>>

ReadHalf(p) ==
  /\ worker[p].pc = "checked" /\ ~IsCancelled(p)
  /\ Step(p, [worker[p] EXCEPT !.pc = "half", !.first = inode[worker[p].ino].content])
  /\ UNCHANGED <<workerRest, readErrors>>

ReadRest(p) ==
  /\ worker[p].pc = "half" /\ ~IsCancelled(p)
  /\ Step(p, [worker[p] EXCEPT !.pc = "read", !.second = inode[worker[p].ino].content])
  /\ UNCHANGED <<workerRest, readErrors>>

\* mutant of Finish: the metadata of the scan is compared, not the change time
FinishStamp(p) ==
  /\ worker[p].pc = "read" /\ ~IsCancelled(p)
  /\ ThreadEnds(p, IF inode[worker[p].ino].stamp = work[p].stamp THEN "hashed" ELSE "failed")
  /\ UNCHANGED <<workerRest, readErrors>>

\* At the end of the file its identity, the change time included, must be as
\* it was at the fstat before the first read.
Finish(p) ==
  /\ worker[p].pc = "read" /\ ~IsCancelled(p)
  /\ ThreadEnds(p, IF inode[worker[p].ino].changed = worker[p].changed THEN "hashed" ELSE "failed")
  /\ UNCHANGED <<workerRest, readErrors>>

WorkerCancelled(p) ==
  /\ worker[p].pc \in {"checked", "half", "read"} /\ IsCancelled(p)
  /\ ThreadEnds(p, "cancelled")
  /\ UNCHANGED <<workerRest, readErrors>>

\* A read fails, or the worker panics.
WorkerFails(p) ==
  /\ worker[p].pc \in {"start", "opened", "checked", "half", "read"}
  /\ readErrors < MaxReadErrors /\ readErrors' = readErrors + 1
  /\ ThreadEnds(p, "failed")
  /\ UNCHANGED workerRest

WorkerStep(p) ==
  Open(p) \/ CheckSource(p) \/ ReadHalf(p) \/ ReadRest(p) \/ Finish(p)
    \/ WorkerCancelled(p) \/ WorkerFails(p)

-----------------------------------------------------------------------------
(* Properties *)

\* ARCHITECTURE.md: results and errors are committed in path order.  The pool
\* returns the error a sequential hashing would have met first: its position
\* failed by itself, and every position before it was hashed.
FirstErrorReported ==
  pool = "error" =>
    /\ firstError \in Positions /\ worker[firstError].pc = "failed"
    /\ \A p \in Positions : p < firstError => worker[p].pc = "hashed"

\* The pool never ends with a result missing, which expect() would turn into a
\* panic, and succeeds only when every file was hashed.
AllOrError ==
  /\ pool # "panic"
  /\ pool = "ok" => \A p \in Positions : worker[p].pc = "hashed"

\* The file f was at p since the scan began.  Where users have moved a file
\* from p it may have been f at the path they took it to.
HeldAt(p, f) == f \in was[p] \/ (p \in touched /\ \E q \in touched : f \in was[q])

\* What is hashed is what the file of the entry held, whole, at one moment since
\* the scan began at which it had the metadata the scan has seen: at its path,
\* or, if it was moved after openat and written before fstat, where it is now.
DigestOfOneFile ==
  pool = "ok" => \A p \in Positions :
    LET t == worker[p]
        e == work[p]
    IN  t.first = t.second /\ HeldAt(e.path, [ino |-> e.ino, stamp |-> e.stamp, content |-> t.first])

=============================================================================
