----------------------------- MODULE CommitEngine -----------------------------
(***************************************************************************)
(* PreparedApply::commit of one side (sync.rs), system call by system      *)
(* call: preflight and validation, the forward pass that publishes staged  *)
(* outputs and applies everything else, the reverse pass over directories  *)
(* with the pruning of what blocks a removal, and the ledger of directories*)
(* to sync before the marker may say committed.  Users change the tree     *)
(* between any two steps; any step may fail and end the commit.            *)
(*                                                                         *)
(* An entry is its kind and a version: "old" is what the scan saw, "new"   *)
(* what the plan wants, "raw" an entry made and not yet given its          *)
(* metadata, "user" what somebody else wrote.  A directory is also         *)
(* writable (by its owner) or not.                                         *)
(***************************************************************************)
EXTENDS Naturals, Sequences, FiniteSets, SequencesExt

CONSTANTS
  Order,      \* every path, parents before children: the order of actions
  Parent,     \* the directory of each path; Root for those of the base
  Root,
  Class,      \* of each path: "plain", "ignored", "pruned" or "excluded"
  Scenarios,  \* plans: from and to of each path, and the readonly set
  MaxEdits,   \* bound: changes by users
  MaxFaults   \* bound: 1 if a step may fail for no reason inside the model

Paths == ToSet(Order)

ASSUME OrderAssumption ==
  /\ Order \in Seq(Paths)
  /\ Parent \in [Paths -> Paths \cup {Root}] /\ Root \notin Paths
  /\ \A i, j \in 1..Len(Order) : Parent[Order[j]] = Order[i] => i < j
ASSUME BoundAssumption == MaxEdits \in Nat /\ MaxFaults \in Nat

Absent == [kind |-> "none", ver |-> "none", rw |-> TRUE]
Leaf(k, v) == [kind |-> k, ver |-> v, rw |-> TRUE]
Folder(v, w) == [kind |-> "dir", ver |-> v, rw |-> w]
Exists(n) == n.kind # "none"
IsDir(n) == n.kind = "dir"
Children(d) == {c \in Paths : Parent[c] = d}

(* A path and the directories above it: what every set holds that has the  *)
(* path, and with each of its members the parent.                          *)
Closed(S) == \A x \in S : Parent[x] \in S \cup {Root}
Ancestry == [p \in Paths |-> {a \in Paths : \A S \in SUBSET Paths : p \in S /\ Closed(S) => a \in S}]
Above(p) == IF Parent[p] = Root THEN {} ELSE Ancestry[Parent[p]]
Below == [d \in Paths |-> {p \in Paths \ {d} : d \in Ancestry[p]}]
Descendants(d) == Below[d]

(* What the scan finds, and what of it the streaming strategy can be asked *)
(* to make.                                                                *)
Leaves(k, vs) == {Leaf(k, v) : v \in vs}
Folders(v) == {Folder(v, w) : w \in BOOLEAN}
Scanned == {Absent} \cup Leaves("file", {"old"}) \cup Leaves("link", {"old"}) \cup Folders("old")
Wanted(n) ==
  {n, Absent} \cup Folders("new")
    \cup (IF IsDir(n) THEN {} ELSE Leaves("file", {"new"}) \cup Leaves("link", {"new"}))
    \cup (IF n.kind = "file" THEN Leaves("file", {"meta"}) ELSE {})
    \cup (IF n.kind = "link" THEN Leaves("link", {"same"}) ELSE {})

(* The old entries are a tree.  What is new has only directories above it, *)
(* or such as a partial sync does not know.                                *)
IsPlan(s) ==
  /\ s.from \in [Paths -> Scanned] /\ s.to \in [Paths -> UNION {Wanted(n) : n \in Scanned}]
  /\ \A p \in Paths : s.to[p] \in Wanted(s.from[p])
  /\ s.readonly \subseteq Paths /\ s.prune \in BOOLEAN
  /\ \A p \in Paths : Exists(s.from[p]) /\ Parent[p] # Root => IsDir(s.from[Parent[p]])
  /\ \A p \in Paths : s.from[p] # s.to[p] /\ Exists(s.to[p]) =>
       \A x \in Above(p) : IsDir(s.to[x]) \/ (~Exists(s.from[x]) /\ ~Exists(s.to[x]))
ASSUME PlanAssumption == \A s \in Scenarios : IsPlan(s)

(* The scans of both sides leave out what is ignored or pruned, and enter   *)
(* nothing of it, so no plan has a change of it or of what is below.        *)
Stray(p) == \E a \in Ancestry[p] : Class[a] \in {"ignored", "pruned"}
ASSUME IgnoredAssumption ==
  \A s \in Scenarios : \A p \in Paths : Stray(p) => s.from[p] = s.to[p]

VARIABLES
  plan,       \* the scenario: [from, to, readonly, prune], never changed
  disk,       \* the tree
  gen,        \* gen[d]: which directory is at d, as its inode tells
  marker,     \* phase of the recovery marker
  place,      \* "prepare", "valid", "fence", "forward", "reverse", "stage", "sync", an end
  ahead,      \* paths whose turn in the pass is not over
  step,       \* the operation of the one whose turn it is
  left, sub,  \* paths that operation has to go through, and its step for the first
  tok,        \* MutationDurabilityToken: the directory opened, and its identity
  guard,      \* WritableDirGuard: the directory made writable, and its identity
  dirty,      \* MutationDurabilityLedger: {<<directory, identity>>}
  unsynced,   \* entries changed since their directory was last synced
  results,    \* local_results that are assigned
  edits, faults,
  touched,    \* history: paths somebody else has changed
  lost        \* history: entries written by users that the commit destroyed

work == <<ahead, step, left, sub>>
vars == <<plan, disk, gen, marker, place, work, tok, guard, dirty, unsynced, results,
          edits, faults, touched, lost>>

From(p) == plan.from[p]
To(p) == plan.to[p]
Changed(p) == From(p) # To(p)
Removed(p) == Exists(From(p)) /\ ~Exists(To(p))
HasDetail(p) == To(p).kind = "file" /\ To(p).ver = "new"
EntriesOf(d) == {p \in unsynced : Parent[p] = d}
NoToken == <<Root, 0>>
IdOf(d) == IF d = Root THEN 0 ELSE gen[d]
At(d) == IF d = Root THEN Folder("old", TRUE) ELSE disk[d]

-----------------------------------------------------------------------------
(* Removal blockers: preflight and prune. *)

Prunable(c) ==
  \/ Class[c] = "pruned"
  \/ Class[c] = "ignored" /\ plan.prune

(* preflight_prunable_ignored_path and _dir *)
PruneFits(c) ==
  /\ At(Parent[c]).rw
  /\ IsDir(disk[c]) =>
       /\ disk[c].rw
       /\ \A x \in Descendants(c) :
            Exists(disk[x]) => Class[x] # "excluded" /\ disk[x].rw

Blockers ==
  {c \in Paths : /\ Exists(disk[c]) /\ ~Removed(c)
                 /\ Parent[c] # Root /\ Removed(Parent[c]) /\ IsDir(disk[Parent[c]])}

RemovalsFit == \A c \in Blockers : Prunable(c) /\ PruneFits(c)

-----------------------------------------------------------------------------
(* CommitPlan::parent_mutations: the changes that need a parent directory. *)

Mutates(p) ==
  /\ Changed(p)
  /\ \/ ~Exists(From(p)) \/ ~Exists(To(p))
     \/ /\ ~IsDir(From(p))
        /\ From(p).kind = To(p).kind =>
             HasDetail(p) \/ (To(p).kind = "link" /\ To(p).ver # "same")

PlannedFolder(p) == IsDir(To(p)) /\ ~IsDir(From(p))

(* The nearest ancestor that exists is a directory that can be written. *)
Creatable(d) ==
  \A x \in Ancestry[d] : ~Exists(disk[x]) /\ Exists(At(Parent[x])) =>
    IsDir(At(Parent[x])) /\ At(Parent[x]).rw

(* Mutant: every publication counts on a parent opened for the moment. *)
ParentFitsAnyKind(p) ==
  LET q == Parent[p] IN
  IF ~Exists(At(q))
  THEN \/ PlannedFolder(q)
       \/ ~Exists(From(p)) /\ Creatable(q)
  ELSE /\ IsDir(At(q))
       /\ At(q).rw \/ q \notin plan.readonly

(* preflight_commit_plan, for one change: the parent exists and can be     *)
(* written, or will be made, or is opened for the moment of a publication. *)
ParentFits(p) ==
  LET q == Parent[p] IN
  IF ~Exists(At(q))
  THEN \/ PlannedFolder(q)
       \/ ~Exists(From(p)) /\ Creatable(q)
  ELSE /\ IsDir(At(q))
       /\ At(q).rw \/ (To(p).kind = "file" /\ q \notin plan.readonly)

PreflightFits ==
  /\ RemovalsFit
  /\ \A p \in Paths : Changed(p) /\ Exists(From(p)) => Exists(disk[p])
  /\ \A p \in Paths : Mutates(p) => ParentFits(p)

(* validate_commit_targets_and_capacity, verify_current_matches_entry *)
Matches(p) == disk[p] = From(p)
TargetsFit == \A p \in Paths : Changed(p) => Matches(p)

-----------------------------------------------------------------------------
(* The operations of one action, as publish_prepared_output,               *)
(* apply_action_without_detail and apply_directory_second_pass take them.  *)

PublishOps(p) ==
  IF Exists(From(p)) THEN <<"parents", "target", "open", "rename", "close">>
  ELSE <<"parents", "open", "link", "close">>

LinkOps(p) ==
  IF Exists(From(p)) THEN <<"target", "prepare", "unlink", "prepare", "symlink", "prepare", "times">>
  ELSE <<"parents", "prepare", "symlink", "prepare", "times">>

DirOps(p) ==
  IF Exists(From(p)) THEN <<"target", "prepare", "unlink", "prepare", "mkdir">>
  ELSE <<"parents", "prepare", "mkdir">>

ForwardOps(p) ==
  IF ~Changed(p) \/ IsDir(From(p)) THEN <<>>
  ELSE CASE ~Exists(To(p)) -> <<"target", "prepare", "unlink">>
         [] HasDetail(p) -> PublishOps(p)
         [] To(p).kind = "file" /\ ~HasDetail(p) -> <<"target", "meta">>
         [] To(p).kind = "link" -> LinkOps(p)
         [] OTHER -> DirOps(p)

SecondOps(p) ==
  IF ~Changed(p) THEN <<>>
  ELSE CASE Removed(p) /\ IsDir(From(p)) -> <<"target", "prune", "prepare", "rmdir">>
         [] IsDir(To(p)) /\ IsDir(From(p)) -> <<"target", "dirmeta">>
         [] IsDir(To(p)) /\ ~IsDir(From(p)) -> <<"dirmeta">>
         [] OTHER -> <<>>

(* The passes take the changes in order, the second one in reverse.         *)
Forward == {p \in Paths : ForwardOps(p) # <<>>}
Second == {p \in Paths : SecondOps(p) # <<>>}
Pos(p) == CHOOSE i \in 1..Len(Order) : Order[i] = p
First(S) == CHOOSE p \in S : \A q \in S : Pos(p) <= Pos(q)
Final(S) == CHOOSE p \in S : \A q \in S : Pos(q) <= Pos(p)

Turn == IF place = "forward" THEN First(ahead) ELSE Final(ahead)
Ops == IF place = "forward" THEN ForwardOps(Turn) ELSE SecondOps(Turn)

(* Two operations go through other paths, with steps of their own: the      *)
(* missing parents are made, from the top; the blockers of a removal looked *)
(* at, put aside and removed.                                              *)
Inner == IF place = "forward" THEN <<"prepare", "mkdir">> ELSE <<"blocker", "quarantine", "sweep">>

-----------------------------------------------------------------------------
Init ==
  /\ plan \in Scenarios
  /\ disk = plan.from
  /\ gen = [p \in Paths |-> 0]
  /\ marker = "prepared"
  /\ place = "prepare"
  /\ ahead = {} /\ step = 1 /\ left = {} /\ sub = 1
  /\ tok = NoToken /\ guard = NoToken
  /\ dirty = {} /\ unsynced = {} /\ results = {}
  /\ edits = 0 /\ faults = 0
  /\ touched = {} /\ lost = {}

(* The mode of a directory that was made writable goes back, through its   *)
(* descriptor: wherever the directory is by now.                           *)
Restored ==
  IF guard # NoToken /\ guard[2] = gen[guard[1]]
  THEN [disk EXCEPT ![guard[1]].rw = FALSE] ELSE disk

Stop == ahead' = {} /\ step' = 1 /\ left' = {} /\ sub' = 1
Begin(pl, S) == place' = pl /\ ahead' = S /\ UNCHANGED <<step, left, sub>>

(* Mutant: an error leaves the mode of the parent as the guard made it. *)
FailUnrestored ==
  /\ place' = IF marker = "prepared" THEN "refused" ELSE "failed"
  /\ Stop
  /\ guard' = NoToken
  /\ UNCHANGED <<plan, disk, gen, marker, tok, dirty, unsynced, results, edits, faults,
                 touched, lost>>

Fail ==
  /\ place' = IF marker = "prepared" THEN "refused" ELSE "failed"
  /\ Stop
  /\ disk' = Restored /\ guard' = NoToken
  /\ UNCHANGED <<plan, gen, marker, tok, dirty, unsynced, results, edits, faults,
                 touched, lost>>

(* validate_commit: before the fence of the client, and again in commit. *)
Validate ==
  /\ place \in {"prepare", "valid"}
  /\ PreflightFits /\ TargetsFit
  /\ place' = IF place = "prepare" THEN "valid" ELSE "fence"
  /\ UNCHANGED <<plan, disk, gen, marker, work, tok, guard, dirty, unsynced, results, edits, faults,
                 touched, lost>>

Refuse ==
  /\ place \in {"prepare", "valid"}
  /\ ~(PreflightFits /\ TargetsFit)
  /\ Fail

(* Mutant: the marker is left at prepared. *)
StartCommitUnmarked ==
  /\ place = "fence"
  /\ Begin("forward", Forward)
  /\ UNCHANGED <<plan, disk, gen, marker, tok, guard, dirty, unsynced, results, edits, faults, touched, lost>>

(* The marker moves to committing, durably: RecoveryMarker has the steps.  *)
StartCommit ==
  /\ place = "fence"
  /\ marker' = "committing"
  /\ Begin("forward", Forward)
  /\ UNCHANGED <<plan, disk, gen, tok, guard, dirty, unsynced, results, edits, faults, touched, lost>>

-----------------------------------------------------------------------------
(* One operation. *)

Running == place \in {"forward", "reverse"}
Op == IF left = {} THEN Ops[step] ELSE Inner[sub]
Doing(op) == Running /\ ahead # {} /\ Op = op
P == IF left = {} THEN Turn ELSE First(left)

(* On to the next operation; the last one ends the turn.                   *)
Over ==
  IF left = {}
  THEN /\ IF step = Len(Ops) THEN ahead' = ahead \ {Turn} /\ step' = 1
                            ELSE ahead' = ahead /\ step' = step + 1
       /\ UNCHANGED <<left, sub>>
  ELSE /\ IF sub = Len(Inner) THEN left' = left \ {P} /\ sub' = 1
                             ELSE left' = left /\ sub' = sub + 1
       /\ UNCHANGED <<ahead, step>>

(* The second pass begins where the first has ended.                       *)
TurnBack ==
  /\ place = "forward" /\ ahead = {}
  /\ Begin("reverse", Second)
  /\ UNCHANGED <<plan, disk, gen, marker, tok, guard, dirty, unsynced, results, edits, faults, touched, lost>>

Settled == <<plan, marker, place, edits, faults, touched>>
Frame == UNCHANGED <<Settled, guard>>

DirtyElsewhere(d) == \E r \in dirty : r[1] = d /\ r[2] # IdOf(d)
Destroyed == IF Exists(disk[P]) /\ disk[P].ver = "user" THEN {P} ELSE {}

(* arm and prepare_retained verify the path still names the directory.     *)
TokenHolds == tok[1] = Parent[P] /\ tok[2] = IdOf(Parent[P]) /\ IsDir(At(Parent[P]))
Arm == dirty' = dirty \cup {tok}

Pass ==
  /\ Over
  /\ UNCHANGED <<disk, gen, tok, dirty, unsynced, results, lost>>
  /\ Frame

CheckTarget == Doing("target") /\ Matches(P) /\ Pass
TargetGone == Doing("target") /\ ~Matches(P) /\ Fail

(* ensure_parent_directory_staged: what is missing is listed at once.      *)
Missing == {x \in Above(P) : ~Exists(disk[x])}
List(S) ==
  /\ left' = S /\ sub' = 1 /\ step' = step + 1 /\ UNCHANGED ahead
  /\ UNCHANGED <<disk, gen, tok, dirty, unsynced, results, lost>>
  /\ Frame
ListMissing == Doing("parents") /\ List(Missing)

(* Mutant: the record of another directory of that name is not noticed. *)
PrepareParentBlindly ==
  /\ Doing("prepare")
  /\ IsDir(At(Parent[P]))
  /\ tok' = <<Parent[P], IdOf(Parent[P])>>
  /\ Over
  /\ UNCHANGED <<disk, gen, dirty, unsynced, results, lost>>
  /\ Frame

(* prepare_parent, prepare_retained *)
PrepareParent ==
  /\ Doing("prepare")
  /\ IsDir(At(Parent[P])) /\ ~DirtyElsewhere(Parent[P])
  /\ tok' = <<Parent[P], IdOf(Parent[P])>>
  /\ Over
  /\ UNCHANGED <<disk, gen, dirty, unsynced, results, lost>>
  /\ Frame
ParentGone ==
  /\ Doing("prepare") \/ Doing("open")
  /\ ~IsDir(At(Parent[P])) \/ DirtyElsewhere(Parent[P])
  /\ Fail

(* with_publication_parent: a parent that is not writable is made so for   *)
(* the moment of the publication.                                          *)
OpenParent ==
  /\ Doing("open")
  /\ IsDir(At(Parent[P])) /\ ~DirtyElsewhere(Parent[P])
  /\ tok' = <<Parent[P], IdOf(Parent[P])>>
  /\ IF At(Parent[P]).rw
     THEN UNCHANGED <<disk, guard>>
     ELSE disk' = [disk EXCEPT ![Parent[P]].rw = TRUE] /\ guard' = tok'
  /\ Over
  /\ UNCHANGED <<gen, dirty, unsynced, results, lost>>
  /\ UNCHANGED Settled
CloseParent ==
  /\ Doing("close")
  /\ guard # NoToken => guard[2] = gen[guard[1]]
  /\ disk' = Restored /\ guard' = NoToken
  /\ Over
  /\ UNCHANGED <<gen, tok, dirty, unsynced, results, lost>>
  /\ UNCHANGED Settled
CloseFails ==
  /\ Doing("close") /\ guard # NoToken /\ guard[2] # gen[guard[1]]
  /\ Fail

(* A namespace change of P through the token, and the arming of the ledger *)
Mutate(n) ==
  /\ TokenHolds
  /\ disk' = [disk EXCEPT ![P] = n]
  /\ Arm
  /\ unsynced' = unsynced \cup {P}
  /\ tok' = NoToken
  /\ Over
  /\ lost' = lost \cup Destroyed
  /\ Frame

Writable == At(Parent[P]).rw
Assign == P \notin results /\ results' = results \cup {P}

Unlink ==
  /\ Doing("unlink")
  /\ Writable /\ Exists(disk[P]) /\ ~IsDir(disk[P])
  /\ Mutate(Absent)
  /\ UNCHANGED <<gen, results>>

(* Mutant: a new file is put in place by renameat. *)
PublishNewByRename ==
  /\ Doing("link")
  /\ ~IsDir(disk[P])
  /\ Mutate(To(P))
  /\ Assign
  /\ UNCHANGED gen

(* publish_without_replacing: linkat refuses a name that is taken. *)
PublishNew ==
  /\ Doing("link")
  /\ ~Exists(disk[P])
  /\ Mutate(To(P))
  /\ Assign
  /\ UNCHANGED gen

(* publish_replacing: renameat replaces whatever file is there by now. *)
PublishOver ==
  /\ Doing("rename")
  /\ ~IsDir(disk[P])
  /\ Mutate(To(P))
  /\ Assign
  /\ UNCHANGED gen

Symlink ==
  /\ Doing("symlink")
  /\ Writable /\ ~Exists(disk[P])
  /\ Mutate(Leaf("link", "raw"))
  /\ UNCHANGED <<gen, results>>

(* Mutant: the new symlink is not entered in the local results. *)
LinkTimesUnlisted ==
  /\ Doing("times")
  /\ disk[P].kind = "link"
  /\ Mutate([disk[P] EXCEPT !.ver = IF disk[P].ver = "raw" THEN To(P).ver ELSE @])
  /\ UNCHANGED <<gen, results>>

(* symlink_times_staged *)
LinkTimes ==
  /\ Doing("times")
  /\ disk[P].kind = "link"
  /\ Mutate([disk[P] EXCEPT !.ver = IF disk[P].ver = "raw" THEN To(P).ver ELSE @])
  /\ Assign
  /\ UNCHANGED gen

MakeDir ==
  /\ Doing("mkdir")
  /\ Writable /\ ~Exists(disk[P])
  /\ Mutate(Folder("raw", TRUE))
  /\ gen' = [gen EXCEPT ![P] = @ + 1]
  /\ UNCHANGED results

(* The removal of a directory and the retirement of its dirty record.      *)
RemoveDir ==
  /\ Doing("rmdir")
  /\ TokenHolds /\ Writable
  /\ IsDir(disk[P]) /\ ~DirtyElsewhere(P)
  /\ \A c \in Children(P) : ~Exists(disk[c])
  /\ disk' = [disk EXCEPT ![P] = Absent]
  /\ dirty' = {r \in dirty : r[1] # P} \cup {tok}
  /\ unsynced' = (unsynced \ EntriesOf(P)) \cup {P}
  /\ tok' = NoToken
  /\ Over
  /\ UNCHANGED <<gen, results, lost>>
  /\ Frame

MutationFails ==
  /\ \/ Doing("unlink") /\ ~(TokenHolds /\ Writable /\ Exists(disk[P]) /\ ~IsDir(disk[P]))
     \/ Doing("link") /\ ~(TokenHolds /\ ~Exists(disk[P]) /\ P \notin results)
     \/ Doing("rename") /\ ~(TokenHolds /\ ~IsDir(disk[P]) /\ P \notin results)
     \/ Doing("symlink") /\ ~(TokenHolds /\ Writable /\ ~Exists(disk[P]))
     \/ Doing("times") /\ ~(TokenHolds /\ disk[P].kind = "link" /\ P \notin results)
     \/ Doing("mkdir") /\ ~(TokenHolds /\ Writable /\ ~Exists(disk[P]))
     \/ Doing("rmdir") /\ ~(/\ TokenHolds /\ Writable
                            /\ IsDir(disk[P]) /\ ~DirtyElsewhere(P)
                            /\ \A c \in Children(P) : ~Exists(disk[c]))
  /\ Fail

(* update_meta of a file: no directory changes, nothing is synced.         *)
UpdateMeta ==
  /\ Doing("meta")
  /\ disk[P].kind = "file"
  /\ disk' = [disk EXCEPT ![P].ver = IF @ = "user" THEN @ ELSE To(P).ver]
  /\ Assign
  /\ Over
  /\ UNCHANGED <<gen, tok, dirty, unsynced, lost>>
  /\ Frame

(* Mutant: the record of a directory is settled although only its metadata *)
(* was written.                                                            *)
UpdateDirMetaUnsynced ==
  /\ Doing("dirmeta")
  /\ IsDir(disk[P]) /\ ~DirtyElsewhere(P)
  /\ disk' = [disk EXCEPT ![P] = To(P)]
  /\ dirty' = {r \in dirty : r[1] # P}
  /\ Assign
  /\ Over
  /\ UNCHANGED <<gen, tok, unsynced, lost>>
  /\ Frame

(* update_directory_meta_staged: mode and time, then the directory itself  *)
(* is synced, which settles what the ledger holds about it.                *)
UpdateDirMeta ==
  /\ Doing("dirmeta")
  /\ IsDir(disk[P]) /\ ~DirtyElsewhere(P)
  /\ disk' = [disk EXCEPT ![P] = To(P)]
  /\ dirty' = {r \in dirty : r[1] # P}
  /\ unsynced' = unsynced \ EntriesOf(P)
  /\ Assign
  /\ Over
  /\ UNCHANGED <<gen, tok, lost>>
  /\ Frame
MetaFails ==
  /\ \/ Doing("meta") /\ disk[P].kind # "file"
     \/ Doing("dirmeta") /\ (~IsDir(disk[P]) \/ DirtyElsewhere(P))
  /\ Fail

-----------------------------------------------------------------------------
(* prune_ignored_removal_blockers *)

ListBlockers == Doing("prune") /\ List({c \in Children(P) : ~Removed(c)})

BlockerFits == Prunable(P) /\ (IsDir(disk[P]) => PruneFits(P))
Skip ==
  /\ UNCHANGED <<ahead, step, disk, gen, tok, dirty, unsynced, results, lost>>
  /\ Frame
CheckBlocker ==
  /\ Doing("blocker") /\ Exists(disk[P]) /\ BlockerFits
  /\ sub' = (IF IsDir(disk[P]) THEN 2 ELSE 3) /\ UNCHANGED left
  /\ Skip
NotListed == Doing("blocker") /\ ~Exists(disk[P]) /\ left' = left \ {P} /\ sub' = 1 /\ Skip
BlockerStays == Doing("blocker") /\ Exists(disk[P]) /\ ~BlockerFits /\ Fail

(* rename_staged_same_parent: a directory is moved to a name nobody knows, *)
(* with all that is in it by now, and its own dirty record is retired.     *)
CanPrune == At(Parent[P]).rw /\ IsDir(At(Parent[P])) /\ ~DirtyElsewhere(Parent[P])
Quarantine ==
  /\ Doing("quarantine")
  /\ IsDir(disk[P]) /\ CanPrune /\ ~DirtyElsewhere(P)
  /\ disk' = [disk EXCEPT ![P].kind = "aside"]
  /\ dirty' = {r \in dirty : r[1] # P} \cup {<<Parent[P], IdOf(Parent[P])>>}
  /\ unsynced' = (unsynced \ EntriesOf(P)) \cup {P}
  /\ Over
  /\ UNCHANGED <<gen, tok, results, lost>>
  /\ Frame

(* remove_quarantined_ignored_path, or the unlink of a file: all that is   *)
(* below goes, without another look at what it is.                         *)
Sweep ==
  /\ Doing("sweep")
  /\ Exists(disk[P]) /\ ~IsDir(disk[P]) /\ CanPrune
  /\ disk' = [p \in Paths |-> IF p \in {P} \cup Descendants(P) THEN Absent ELSE disk[p]]
  /\ lost' = lost \cup {p \in {P} \cup Descendants(P) : disk[p].ver = "user"}
  /\ dirty' = dirty \cup {<<Parent[P], IdOf(Parent[P])>>}
  /\ unsynced' = (unsynced \ Descendants(P)) \cup {P}
  /\ Over
  /\ UNCHANGED <<gen, tok, results>>
  /\ Frame
PruneFails ==
  /\ \/ Doing("quarantine") /\ ~(IsDir(disk[P]) /\ CanPrune /\ ~DirtyElsewhere(P))
     \/ Doing("sweep") /\ ~(Exists(disk[P]) /\ ~IsDir(disk[P]) /\ CanPrune)
  /\ Fail

-----------------------------------------------------------------------------
(* merge_staged_manifest: every entry added or modified has its result.    *)
Expected == {p \in Paths : Changed(p) /\ Exists(To(p))}
Merge ==
  /\ place = "reverse" /\ ahead = {}
  /\ results = Expected
  /\ place' = "stage"
  /\ UNCHANGED <<plan, disk, gen, marker, work, tok, guard, dirty, unsynced, results, edits, faults,
                 touched, lost>>

(* finish_staged: the staging directory goes, and the base is synced. *)
FinishStaging ==
  /\ place = "stage"
  /\ IF \E p \in Paths : Changed(p) /\ HasDetail(p)
     THEN /\ unsynced' = unsynced \ EntriesOf(Root)
          /\ dirty' = {r \in dirty : r[1] # Root}
     ELSE UNCHANGED <<unsynced, dirty>>
  /\ place' = "sync"
  /\ UNCHANGED <<plan, disk, gen, marker, work, tok, guard, results, edits, faults, touched, lost>>

Depth(d) == IF d = Root THEN 0 ELSE Cardinality(Ancestry[d])

(* sync_remaining, deepest first; sync_recorded_directory wants the        *)
(* directory the ledger recorded.                                          *)
SyncOne(r) ==
  /\ place = "sync"
  /\ \A s \in dirty : Depth(s[1]) <= Depth(r[1])
  /\ IsDir(At(r[1])) /\ r[2] = IdOf(r[1])
  /\ dirty' = dirty \ {r}
  /\ unsynced' = unsynced \ EntriesOf(r[1])
  /\ UNCHANGED <<plan, disk, gen, marker, place, work, tok, guard, results, edits, faults, touched, lost>>
SyncFails ==
  /\ place = "sync"
  /\ \E r \in dirty : ~(IsDir(At(r[1])) /\ r[2] = IdOf(r[1]))
  /\ Fail

(* sync_apply_recovery_records and the transition to committed. *)
EndCommit ==
  /\ place = "sync" /\ dirty = {}
  /\ marker' = "committed"
  /\ place' = "done"
  /\ UNCHANGED <<plan, disk, gen, work, tok, guard, dirty, unsynced, results, edits, faults, touched,
                 lost>>

-----------------------------------------------------------------------------
(* A call fails, or the process is killed, before it can put a mode back.  *)
Fault(killed) ==
  /\ place \in {"forward", "reverse", "stage", "sync"}
  /\ faults < MaxFaults
  /\ faults' = faults + 1
  /\ place' = "failed"
  /\ Stop
  /\ IF killed THEN UNCHANGED <<disk, guard>> ELSE disk' = Restored /\ guard' = NoToken
  /\ UNCHANGED <<plan, gen, marker, tok, dirty, unsynced, results, edits, touched, lost>>

Edit(T) ==
  /\ place \notin {"done", "refused", "failed"}
  /\ edits < MaxEdits
  /\ edits' = edits + 1
  /\ touched' = touched \cup T
  /\ UNCHANGED <<plan, marker, place, work, tok, guard, dirty, unsynced, results, faults, lost>>

(* A user writes or makes a file, or removes something that is no directory. *)
UserWrite(p) ==
  /\ IsDir(At(Parent[p])) /\ disk[p].kind \in {"none", "file"}
  /\ disk' = [disk EXCEPT ![p] = Leaf("file", "user")]
  /\ UNCHANGED gen
  /\ Edit({p})
UserRemove(p) ==
  /\ disk[p].kind \in {"file", "link"}
  /\ disk' = [disk EXCEPT ![p] = Absent]
  /\ UNCHANGED gen
  /\ Edit({p})
(* A user moves a directory away, with all that is in it, and makes another *)
(* in its place.                                                           *)
UserSwap(d) ==
  /\ IsDir(disk[d])
  /\ disk' = [p \in Paths |-> IF p \in Descendants(d) THEN Absent ELSE disk[p]]
  /\ gen' = [gen EXCEPT ![d] = @ + 1]
  /\ Edit({d} \cup Descendants(d))
(* Nobody else changes the mode of a directory while a guard holds it.     *)
UserChmod(d) ==
  /\ IsDir(disk[d]) /\ guard[1] # d
  /\ disk' = [disk EXCEPT ![d].rw = ~@]
  /\ UNCHANGED gen
  /\ Edit({d})

Next ==
  \/ Validate \/ Refuse \/ StartCommit
  \/ TurnBack \/ CheckTarget \/ TargetGone \/ ListMissing \/ PrepareParent \/ ParentGone
  \/ OpenParent \/ CloseParent \/ CloseFails
  \/ Unlink \/ PublishNew \/ PublishOver \/ Symlink \/ LinkTimes \/ MakeDir \/ RemoveDir
  \/ MutationFails \/ UpdateMeta \/ UpdateDirMeta \/ MetaFails
  \/ ListBlockers \/ CheckBlocker \/ NotListed \/ BlockerStays \/ Quarantine \/ Sweep
  \/ PruneFails
  \/ Merge \/ FinishStaging \/ EndCommit \/ SyncFails
  \/ \E r \in dirty : SyncOne(r)
  \/ \E killed \in BOOLEAN : Fault(killed)
  \/ \E p \in Paths : UserWrite(p) \/ UserRemove(p) \/ UserSwap(p) \/ UserChmod(p)

Spec == Init /\ [][Next]_vars

-----------------------------------------------------------------------------
Nodes == [kind : {"none", "file", "link", "dir", "aside"},
          ver : {"none", "old", "new", "same", "meta", "raw", "user"}, rw : BOOLEAN]
TypeOK ==
  /\ disk \in [Paths -> Nodes]
  /\ gen \in [Paths -> Nat]
  /\ marker \in {"prepared", "committing", "committed"}
  /\ place \in {"prepare", "valid", "fence", "forward", "reverse", "stage", "sync",
                "done", "refused", "failed"}
  /\ ahead \subseteq Paths /\ left \subseteq Paths /\ step \in Nat /\ sub \in Nat
  /\ dirty \subseteq ((Paths \cup {Root}) \X Nat)
  /\ \A r, q \in dirty : r[1] = q[1] => r = q
  /\ unsynced \subseteq Paths /\ results \subseteq Paths
  /\ touched \subseteq Paths /\ lost \subseteq touched

(* What a user puts where the plan expects nothing is never destroyed,     *)
(* however late it comes: linkat, mkdirat, symlinkat and the removal of a  *)
(* directory refuse.  Only what policy lets be pruned goes.                *)
NothingNewLost ==
  \A p \in lost : \/ Exists(From(p))
                  \/ \E a \in Ancestry[p] : Prunable(a)

(* When everything is published, nothing is missing from the manifest: the *)
(* merge, which comes too late to undo anything, never fails.              *)
ManifestComplete == place = "reverse" /\ ahead = {} => results = Expected

(* A marker says committed only when no directory entry that the commit    *)
(* changed could be undone by a power loss.                                *)
CommittedIsDurable == marker = "committed" => unsynced = {}

(* A directory made writable for a publication gets its mode back; if the  *)
(* process dies first, the marker is still there to tell.                  *)
ReadonlyKept ==
  /\ place \in {"done", "refused", "failed"} /\ faults = 0 => guard = NoToken
  /\ guard # NoToken => marker = "committing"
  /\ \A d \in Paths \ touched :
       IsDir(From(d)) /\ ~Changed(d) /\ disk[d] # From(d) => guard[1] = d \/ Stray(d)

(* A preflight that passes is enough: an undisturbed commit goes through   *)
(* once it has begun.  (A symlink made again with the target it had is the *)
(* exception: preflight does not look at its parent.)                      *)
Undisturbed == edits = 0 /\ faults = 0
PreflightSuffices ==
  Undisturbed /\ place = "failed" => \E p \in Paths : To(p).ver = "same" /\ ~At(Parent[p]).rw

(* A plan the scan made of the tree is not refused while every directory   *)
(* may be written and nothing blocks a removal.                            *)
FitPlanAccepted ==
  Undisturbed /\ (\A p \in Paths : From(p).rw) /\ Blockers = {} => place # "refused"

(* The commit is an atomic checkpoint in the sense of that module.         *)
Implied(p) == ~Changed(p) /\ ~Exists(From(p)) /\ \E c \in Descendants(p) : Exists(To(c))
StageOf(p) ==
  LET made == IF Implied(p) THEN Exists(disk[p]) ELSE Restored[p] = To(p)
  IN IF Stray(p) \/ made THEN 2
     ELSE IF Implied(p) \/ Restored[p] = From(p) THEN 0 ELSE 1
Checkpoint == INSTANCE AtomicCheckpoint WITH
  Entries <- Paths, phase <- marker, stage <- [p \in Paths |-> StageOf(p)], foreign <- touched
CommitIsCheckpoint == Checkpoint!Spec
=============================================================================
