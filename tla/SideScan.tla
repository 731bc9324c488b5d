------------------------------ MODULE SideScan ------------------------------
(***************************************************************************)
(* old_and_changes of state.rs: one side scans its tree, compares the scan *)
(* with its snapshot, and hashes the files that are new or changed; a file *)
(* whose metadata is as in the snapshot keeps the digest it has there.     *)
(***************************************************************************)
EXTENDS Scanner, HashPool

vars == <<treeVars, scanVars, poolVars>>

TypeOK == TreeTypeOK /\ ScanTypeOK /\ PoolTypeOK

Init == TreeInit /\ ScanInit /\ PoolInit

\* The entries of the snapshot: no file in it has changed its content since and
\* kept its metadata.
Snapshot == {[path |-> p, ino |-> InitialInode(p), stamp |-> 0] : p \in input.known}

\* Files whose metadata is not that of the snapshot
ToHash == {e \in entries : e.ino # 0} \ Snapshot

\* They are handed to the pool in path order.
HashChanged ==
  /\ scan = "ok" /\ pool = "idle"
  /\ \E w \in [1..Cardinality(ToHash) -> ToHash] :
       /\ \A i, k \in DOMAIN w : i < k => PathLess(w[i].path, w[k].path)
       /\ PoolStart(w)

\* The task of the scan, and then of the pool
Task ==
  /\ \/ ScanStep /\ UNCHANGED poolVars
     \/ (HashChanged \/ \E p \in Positions : TakeIn(p)) /\ UNCHANGED scanVars
  /\ UNCHANGED treeVars

Thread(p) ==
  /\ p \in Positions /\ WorkerStep(p)
  /\ UNCHANGED <<treeVars, scanVars>>

Users == UserEdits /\ UNCHANGED <<scanVars, poolVars>>

Next == Task \/ (\E p \in Positions : Thread(p)) \/ Users

Spec == Init /\ [][Next]_vars

\* The runtime polls the task whenever it can go on and runs the blocking
\* threads; nothing makes users edit.
FairSpec == Spec /\ WF_vars(Task) /\ \A p \in 1..Cardinality(FilePaths) : WF_vars(Thread(p))

\* The scan and the pool come to an end, a full channel and failing workers
\* included, and no worker is left running.
SideScanEnds ==
  <>(/\ scan = "error" \/ pool \in {"ok", "error"}
     /\ \A p \in Positions : worker[p].pc \in Ended \cup {"none"})

=============================================================================
