--------------------------- MODULE CommitEngineProofs ---------------------------
(***************************************************************************)
(* A commit, for any tree, plan, number of edits by users and of faults:    *)
(* where the passes are and what they have done (Control, Types), then that *)
(* nothing of a user's is lost that the plan did not know (NewFilesStay),   *)
(* that the manifest is complete (Manifest), and that a marker at committed *)
(* is one no power loss can belie (CommittedDurable).                       *)
(* Then that a commit implements AtomicCheckpoint, and puts back the mode   *)
(* of every directory it made writable.  The invariant says of each path    *)
(* that nobody else touched what is there, from where the passes are        *)
(* (TreeInv), under which marker (MarkerInv), when a directory is open      *)
(* (GuardInv), and that what is above a new entry is made before it         *)
(* (ParentsInv).  The last part proves that a preflight that passes is      *)
(* enough: what it has seen of the tree is what each turn still finds there *)
(* (FitInv).                                                                *)
(***************************************************************************)
EXTENDS CommitEngine, TLAPS, WellFoundedInduction, FiniteSetTheorems

(***************************************************************************)
(* The order of actions: passes take the first or the last of a set.       *)
(***************************************************************************)

(* Sets of naturals have a least member: the intervals up to its members    *)
(* are finite sets, which inclusion orders well.                            *)
LEMMA NatMin ==
  ASSUME NEW T \in SUBSET Nat, T # {}
  PROVE  \E x \in T : \A y \in T : x <= y
  <1> DEFINE B == {0..n : n \in T}
  <1>1. IsWellFoundedOn(StrictSubsetOrdering(Nat), FiniteSubsetsOf(Nat))
    BY FS_StrictSubsetOrderingWellFounded
  <1>2. B \subseteq FiniteSubsetsOf(Nat)
    <2> SUFFICES ASSUME NEW n \in T PROVE 0..n \in FiniteSubsetsOf(Nat)
      OBVIOUS
    <2>1. n \in Nat
      OBVIOUS
    <2>2. IsFiniteSet(0..n)
      BY <2>1, FS_Interval
    <2>3. 0..n \in SUBSET Nat
      BY <2>1
    <2> QED
      BY <2>2, <2>3, Zenon DEF FiniteSubsetsOf
  <1>3. B # {}
    <2>1. PICK n : n \in T
      OBVIOUS
    <2>2. 0..n \in B
      BY <2>1
    <2> QED
      BY <2>2
  <1>4. PICK b \in B : \A c \in B : ~(<<c, b>> \in StrictSubsetOrdering(Nat))
    <2> HIDE DEF B
    <2> QED
      BY <1>1, <1>2, <1>3, WFMin
  <1>5. PICK x \in T : b = 0..x
    OBVIOUS
  <1>6. ASSUME NEW y \in T, ~(x <= y)
        PROVE  FALSE
    <2>1. 0..y \in B
      OBVIOUS
    <2>2. y \in Nat /\ x \in Nat
      OBVIOUS
    <2>3. 0..y \subseteq 0..x /\ x \in 0..x /\ x \notin 0..y /\ 0..x \subseteq Nat /\ 0..y \subseteq Nat
      BY <1>6, <2>2
    <2>4. <<0..y, b>> \in StrictSubsetOrdering(Nat)
      <3>1. 0..y \in SUBSET Nat /\ b \in SUBSET Nat /\ 0..y \subseteq b /\ 0..y # b
        BY <1>5, <2>3
      <3> QED
        BY <3>1, Zenon DEF StrictSubsetOrdering
    <2> QED
      BY <1>4, <2>1, <2>4
  <1> QED
    BY <1>6

LEMMA Positions ==
  /\ \A p \in Paths : Pos(p) \in 1..Len(Order) /\ Order[Pos(p)] = p
  /\ \A p \in Paths : Parent[p] \in Paths => Pos(Parent[p]) < Pos(p)
  <1>1. \A p \in Paths : Pos(p) \in 1..Len(Order) /\ Order[Pos(p)] = p
    <2> TAKE p \in Paths
    <2>1. \E i \in 1..Len(Order) : Order[i] = p
      BY OrderAssumption DEF Paths, ToSet
    <2> QED
      BY <2>1 DEF Pos
  <1>2. ASSUME NEW p \in Paths, Parent[p] \in Paths
        PROVE  Pos(Parent[p]) < Pos(p)
    BY <1>1, <1>2, OrderAssumption
  <1> QED
    BY <1>1, <1>2

LEMMA FirstIsFirst ==
  ASSUME NEW S \in SUBSET Paths, S # {}
  PROVE  First(S) \in S /\ \A q \in S : Pos(First(S)) <= Pos(q)
  <1> DEFINE T == {Pos(p) : p \in S}
  <1>1. T \in SUBSET Nat /\ T # {}
    BY Positions
  <1>2. PICK x \in T : \A y \in T : x <= y
    <2> HIDE DEF T
    <2> QED
      BY <1>1, NatMin
  <1>3. \E p \in S : \A q \in S : Pos(p) <= Pos(q)
    BY <1>2
  <1> QED
    BY <1>3, Zenon DEF First

(* The last one: the first from the other end.                              *)
LEMMA FinalIsLast ==
  ASSUME NEW S \in SUBSET Paths, S # {}
  PROVE  Final(S) \in S /\ \A q \in S : Pos(q) <= Pos(Final(S))
  <1> DEFINE T == {Len(Order) - Pos(p) : p \in S}
  <1>1. Len(Order) \in Nat /\ \A p \in S : Pos(p) \in 1..Len(Order)
    BY Positions, OrderAssumption
  <1>2. T \in SUBSET Nat /\ T # {}
    BY <1>1
  <1>3. PICK x \in T : \A y \in T : x <= y
    <2> HIDE DEF T
    <2> QED
      BY <1>2, NatMin
  <1>4. PICK p \in S : x = Len(Order) - Pos(p)
    OBVIOUS
  <1>5. ASSUME NEW q \in S PROVE Pos(q) <= Pos(p)
    <2>1. Len(Order) - Pos(q) \in T
      OBVIOUS
    <2>2. Len(Order) - Pos(p) <= Len(Order) - Pos(q)
      BY <1>3, <1>4, <2>1
    <2> QED
      BY <2>2, <1>1
  <1>6. \E r \in S : \A q \in S : Pos(q) <= Pos(r)
    BY <1>5
  <1> QED
    BY <1>6, Zenon DEF Final

(* The directories above a path come before it, and are those of its parent *)
(* with the parent itself.                                                  *)
LEMMA AboveBefore ==
  ASSUME NEW p \in Paths, NEW x \in Above(p)
  PROVE  x \in Paths /\ Pos(x) < Pos(p) /\ p \in Descendants(x) /\ x \in Ancestry[p]
  <1>1. Parent[p] \in Paths /\ x \in Ancestry[Parent[p]] /\ x \in Paths
    BY OrderAssumption DEF Above, Ancestry
  <1> DEFINE S == {y \in Paths : Pos(y) < Pos(p)}
  <1>2. Parent[p] \in S /\ Closed(S)
    <2>1. Parent[p] \in S
      BY <1>1, Positions
    <2>2. ASSUME NEW y \in S PROVE Parent[y] \in S \cup {Root}
      <3>1. Pos(p) \in Nat /\ Pos(y) \in Nat /\ Pos(y) < Pos(p)
        BY Positions
      <3>2. CASE Parent[y] \in Paths
        BY <3>1, <3>2, Positions
      <3> QED
        BY <3>2, OrderAssumption
    <2> QED
      BY <2>1, <2>2 DEF Closed
  <1>3. x \in S
    <2>1. S \in SUBSET Paths
      OBVIOUS
    <2> HIDE DEF S
    <2> QED
      BY <1>1, <1>2, <2>1 DEF Ancestry
  <1>4. x \in Ancestry[p]
    <2> SUFFICES ASSUME NEW T \in SUBSET Paths, p \in T, Closed(T) PROVE x \in T
      BY <1>1 DEF Ancestry
    <2>1. Parent[p] \in T
      BY <1>1, OrderAssumption DEF Closed
    <2> QED
      BY <1>1, <2>1 DEF Ancestry
  <1>5. x # p
    BY <1>3, Positions
  <1> QED
    BY <1>1, <1>3, <1>4, <1>5 DEF Descendants, Below

LEMMA DescendantAbove ==
  ASSUME NEW x \in Paths, NEW p \in Descendants(x)
  PROVE  p \in Paths /\ x \in Ancestry[p] /\ x \in Above(p)
  <1>1. p \in Paths /\ p # x /\ x \in Ancestry[p]
    BY DEF Descendants, Below
  <1>2. Parent[p] # Root
    <2> SUFFICES ASSUME Parent[p] = Root PROVE FALSE
      OBVIOUS
    <2>1. Closed({p}) /\ {p} \in SUBSET Paths
      BY <1>1 DEF Closed
    <2> QED
      BY <1>1, <2>1 DEF Ancestry
  <1>3. Parent[p] \in Paths
    BY <1>1, <1>2, OrderAssumption
  <1>4. ASSUME NEW S \in SUBSET Paths, Parent[p] \in S, Closed(S)
        PROVE  x \in S
    <2>1. Closed(S \cup {p}) /\ S \cup {p} \in SUBSET Paths
      BY <1>1, <1>4 DEF Closed
    <2> QED
      BY <1>1, <2>1 DEF Ancestry
  <1> QED
    BY <1>1, <1>2, <1>3, <1>4 DEF Above, Ancestry

LEMMA SelfAncestry ==
  ASSUME NEW p \in Paths
  PROVE  p \in Ancestry[p] /\ p \notin Descendants(p)
  BY DEF Ancestry, Descendants, Below

(***************************************************************************)
(* Plans, and the operations their changes take.                           *)
(***************************************************************************)

Kinds == {"none", "file", "link", "dir", "aside"}
Versions == {"none", "old", "new", "same", "meta", "raw", "user"}

LEMMA NodeForms ==
  /\ Absent \in Nodes /\ Absent.kind = "none" /\ Absent.ver = "none" /\ Absent.rw = TRUE
  /\ \A k \in Kinds, v \in Versions :
       Leaf(k, v) \in Nodes /\ Leaf(k, v).kind = k /\ Leaf(k, v).ver = v /\ Leaf(k, v).rw = TRUE
  /\ \A v \in Versions, w \in BOOLEAN :
       Folder(v, w) \in Nodes /\ Folder(v, w).kind = "dir" /\ Folder(v, w).ver = v /\ Folder(v, w).rw = w
  <1>1. Absent \in Nodes /\ Absent.kind = "none" /\ Absent.ver = "none" /\ Absent.rw = TRUE
    BY DEF Absent, Nodes
  <1>2. ASSUME NEW k \in Kinds, NEW v \in Versions
        PROVE  Leaf(k, v) \in Nodes /\ Leaf(k, v).kind = k /\ Leaf(k, v).ver = v /\ Leaf(k, v).rw = TRUE
    BY DEF Leaf, Nodes, Kinds, Versions
  <1>3. ASSUME NEW v \in Versions, NEW w \in BOOLEAN
        PROVE  Folder(v, w) \in Nodes /\ Folder(v, w).kind = "dir" /\ Folder(v, w).ver = v /\ Folder(v, w).rw = w
    BY DEF Folder, Nodes, Versions
  <1> QED
    BY <1>1, <1>2, <1>3

LEMMA PlanNodes ==
  ASSUME plan \in Scenarios, NEW p \in Paths
  PROVE  /\ From(p) \in Nodes /\ To(p) \in Nodes
         /\ From(p).kind # "aside" /\ To(p).kind # "aside"
         /\ From(p).ver \in {"none", "old"} /\ To(p).ver \in {"none", "old", "new", "same", "meta"}
         /\ ~Exists(From(p)) => From(p) = Absent
         /\ ~Exists(To(p)) => To(p) = Absent
         /\ IsDir(From(p)) => From(p).ver = "old"
         /\ IsDir(To(p)) /\ ~IsDir(From(p)) => To(p).ver = "new"
         /\ IsDir(From(p)) /\ ~IsDir(To(p)) => To(p) = Absent
         /\ To(p).kind = "file" /\ Changed(p) /\ ~HasDetail(p) =>
              From(p) = Leaf("file", "old") /\ To(p) = Leaf("file", "meta")
         /\ To(p).kind = "link" /\ Changed(p) => To(p) = Leaf("link", To(p).ver) /\ To(p).ver # "old"
  <1>1. From(p) \in Scanned /\ To(p) \in Wanted(From(p))
    BY PlanAssumption DEF IsPlan, From, To
  <1> DEFINE F == From(p)  T == To(p)
  <1>2. \/ F = Absent
        \/ F = Leaf("file", "old")
        \/ F = Leaf("link", "old")
        \/ \E w \in BOOLEAN : F = Folder("old", w)
    BY <1>1 DEF Scanned, Leaves, Folders
  <1>3. \/ T = F \/ T = Absent
        \/ \E w \in BOOLEAN : T = Folder("new", w)
        \/ ~IsDir(F) /\ (T = Leaf("file", "new") \/ T = Leaf("link", "new"))
        \/ F.kind = "file" /\ T = Leaf("file", "meta")
        \/ F.kind = "link" /\ T = Leaf("link", "same")
    BY <1>1 DEF Wanted, Leaves, Folders
  <1>4. From(p) = F /\ To(p) = T
    OBVIOUS
  <1> HIDE DEF F, T
  <1>5. /\ F \in Nodes /\ F.kind # "aside" /\ F.ver \in {"none", "old"}
        /\ ~Exists(F) => F = Absent
        /\ IsDir(F) => F.ver = "old"
    BY <1>2, NodeForms DEF Exists, IsDir, Kinds, Versions
  <1>6. CASE T = F
    BY <1>2, <1>4, <1>5, <1>6, NodeForms DEF Changed, Exists, IsDir, Kinds, Versions
  <1>7. CASE T # F
    BY <1>2, <1>3, <1>4, <1>5, <1>7, NodeForms DEF Exists, IsDir, Changed, HasDetail, Kinds, Versions
  <1> QED
    BY <1>6, <1>7

(* The eight ways of the forward pass.                                      *)
LEMMA ForwardShape ==
  ASSUME plan \in Scenarios, NEW p \in Forward
  PROVE  /\ p \in Paths /\ Changed(p) /\ ~IsDir(From(p))
         /\ \/ /\ Exists(From(p)) /\ To(p) = Absent
               /\ ForwardOps(p) = <<"target", "prepare", "unlink">>
            \/ /\ HasDetail(p) /\ Exists(From(p))
               /\ ForwardOps(p) = <<"parents", "target", "open", "rename", "close">>
            \/ /\ HasDetail(p) /\ From(p) = Absent
               /\ ForwardOps(p) = <<"parents", "open", "link", "close">>
            \/ /\ From(p) = Leaf("file", "old") /\ To(p) = Leaf("file", "meta")
               /\ ForwardOps(p) = <<"target", "meta">>
            \/ /\ To(p).kind = "link" /\ Exists(From(p))
               /\ ForwardOps(p) = <<"target", "prepare", "unlink", "prepare", "symlink", "prepare", "times">>
            \/ /\ To(p).kind = "link" /\ From(p) = Absent
               /\ ForwardOps(p) = <<"parents", "prepare", "symlink", "prepare", "times">>
            \/ /\ IsDir(To(p)) /\ Exists(From(p))
               /\ ForwardOps(p) = <<"target", "prepare", "unlink", "prepare", "mkdir">>
            \/ /\ IsDir(To(p)) /\ From(p) = Absent
               /\ ForwardOps(p) = <<"parents", "prepare", "mkdir">>
  <1>1. p \in Paths /\ ForwardOps(p) # <<>>
    BY DEF Forward
  <1>2. Changed(p) /\ ~IsDir(From(p))
    BY <1>1 DEF ForwardOps
  <1>3. To(p).kind \in {"none", "file", "link", "dir"}
    BY <1>1, PlanNodes DEF Nodes
  <1>4. CASE ~Exists(To(p))
    <2>1. Exists(From(p)) /\ To(p) = Absent
      BY <1>1, <1>2, <1>4, PlanNodes DEF Changed
    <2>2. ~HasDetail(p) /\ To(p).kind = "none" /\ ~IsDir(To(p))
      BY <1>4 DEF Exists, HasDetail, IsDir
    <2> QED
      BY <1>1, <1>2, <1>4, <2>1, <2>2 DEF ForwardOps
  <1>5. CASE HasDetail(p)
    <2>1. Exists(To(p)) /\ To(p).kind = "file" /\ ~IsDir(To(p))
      BY <1>5 DEF Exists, HasDetail, IsDir
    <2>2. ForwardOps(p) = PublishOps(p)
      BY <1>2, <1>5, <2>1 DEF ForwardOps
    <2> QED
      BY <1>1, <1>2, <1>5, <2>2, PlanNodes DEF PublishOps
  <1>6. CASE To(p).kind = "file" /\ ~HasDetail(p)
    <2>1. Exists(To(p)) /\ ~IsDir(To(p))
      BY <1>6 DEF Exists, IsDir
    <2> QED
      BY <1>1, <1>2, <1>6, <2>1, PlanNodes DEF ForwardOps
  <1>7. CASE To(p).kind = "link"
    <2>1. Exists(To(p)) /\ ~IsDir(To(p)) /\ ~HasDetail(p)
      BY <1>7 DEF Exists, HasDetail, IsDir
    <2>2. ForwardOps(p) = LinkOps(p)
      BY <1>2, <1>7, <2>1 DEF ForwardOps
    <2> QED
      BY <1>1, <1>2, <1>7, <2>2, PlanNodes DEF LinkOps
  <1>8. CASE To(p).kind = "dir"
    <2>1. Exists(To(p)) /\ IsDir(To(p)) /\ ~HasDetail(p)
      BY <1>8 DEF Exists, HasDetail, IsDir
    <2>2. ForwardOps(p) = DirOps(p)
      BY <1>2, <1>8, <2>1 DEF ForwardOps
    <2> QED
      BY <1>1, <1>2, <2>1, <2>2, PlanNodes DEF DirOps
  <1>9. To(p).kind = "none" => ~Exists(To(p))
    BY DEF Exists
  <1> QED
    BY <1>3, <1>4, <1>5, <1>6, <1>7, <1>8, <1>9

(* The three of the second one.                                             *)
LEMMA SecondShape ==
  ASSUME plan \in Scenarios, NEW p \in Second
  PROVE  /\ p \in Paths /\ Changed(p)
         /\ \/ /\ IsDir(From(p)) /\ To(p) = Absent
               /\ SecondOps(p) = <<"target", "prune", "prepare", "rmdir">>
            \/ /\ IsDir(From(p)) /\ IsDir(To(p))
               /\ SecondOps(p) = <<"target", "dirmeta">>
            \/ /\ ~IsDir(From(p)) /\ IsDir(To(p))
               /\ SecondOps(p) = <<"dirmeta">>
  <1>1. p \in Paths /\ SecondOps(p) # <<>>
    BY DEF Second
  <1>2. Changed(p)
    BY <1>1 DEF SecondOps
  <1>3. CASE IsDir(From(p)) /\ ~IsDir(To(p))
    <2>1. To(p) = Absent /\ Removed(p)
      BY <1>1, <1>3, PlanNodes DEF Removed, Exists, IsDir, Absent
    <2> QED
      BY <1>1, <1>2, <1>3, <2>1 DEF SecondOps
  <1>4. CASE IsDir(To(p))
    <2>1. ~Removed(p)
      BY <1>4 DEF Removed, Exists, IsDir
    <2> QED
      BY <1>1, <1>2, <1>4, <2>1 DEF SecondOps
  <1>5. CASE ~IsDir(From(p)) /\ ~IsDir(To(p))
    BY <1>1, <1>2, <1>5 DEF SecondOps
  <1> QED
    BY <1>3, <1>4, <1>5

(* Which changes have a turn in which pass.                                 *)
LEMMA Turns ==
  ASSUME plan \in Scenarios, NEW p \in Paths
  PROVE  /\ p \in Forward <=> Changed(p) /\ ~IsDir(From(p))
         /\ p \in Second <=> Changed(p) /\ (IsDir(From(p)) \/ IsDir(To(p)))
  <1>1. ASSUME Changed(p), ~IsDir(From(p)) PROVE ForwardOps(p) # <<>>
    <2>1. To(p).kind \in {"none", "file", "link", "dir"}
      BY PlanNodes DEF Nodes
    <2> QED
      BY <1>1, <2>1 DEF ForwardOps, PublishOps, LinkOps, DirOps, Exists, IsDir, HasDetail
  <1>2. ASSUME Changed(p), IsDir(From(p)) \/ IsDir(To(p)) PROVE SecondOps(p) # <<>>
    <2>1. IsDir(From(p)) /\ ~IsDir(To(p)) => Removed(p)
      BY PlanNodes DEF Removed, Exists, IsDir, Absent
    <2>2. IsDir(To(p)) => ~Removed(p)
      BY DEF Removed, Exists, IsDir
    <2> QED
      BY <1>2, <2>1, <2>2 DEF SecondOps
  <1> QED
    BY <1>1, <1>2, ForwardShape, SecondShape DEF Forward, Second

(***************************************************************************)
(* Where the passes are.                                                   *)
(***************************************************************************)

(* The turn: which operation is next, and what it has still to go through.  *)
(* A blocker that was found to be prunable is still the first on the list.  *)
InTurn ==
  /\ step \in 1..Len(Ops)
  /\ left = {} => sub = 1
  /\ left # {} =>
       /\ step > 1 /\ Ops[step - 1] = (IF place = "forward" THEN "parents" ELSE "prune")
       /\ sub \in 1..Len(Inner)
       /\ left \subseteq IF place = "forward" THEN Above(Turn)
                         ELSE {c \in Children(Turn) : ~Removed(c)}
       /\ place = "reverse" /\ sub > 1 => Prunable(First(left))

Control ==
  /\ plan \in Scenarios
  /\ ahead \subseteq (IF place = "forward" THEN Forward ELSE IF place = "reverse" THEN Second ELSE {})
  /\ IF ahead = {} THEN step = 1 /\ left = {} /\ sub = 1 ELSE InTurn

LEMMA SamePlan ==
  ASSUME plan' = plan
  PROVE  /\ Forward' = Forward /\ Second' = Second /\ Expected' = Expected
         /\ \A p \in Paths : /\ From(p)' = From(p) /\ To(p)' = To(p)
                             /\ Changed(p)' = Changed(p) /\ Removed(p)' = Removed(p)
                             /\ HasDetail(p)' = HasDetail(p)
                             /\ ForwardOps(p)' = ForwardOps(p) /\ SecondOps(p)' = SecondOps(p)
                             /\ Prunable(p)' = Prunable(p)
  <1>1. \A p \in Paths : /\ From(p)' = From(p) /\ To(p)' = To(p)
                         /\ Changed(p)' = Changed(p) /\ Removed(p)' = Removed(p)
                         /\ HasDetail(p)' = HasDetail(p)
    BY DEF From, To, Changed, Removed, HasDetail
  <1>2. \A p \in Paths : ForwardOps(p)' = ForwardOps(p) /\ SecondOps(p)' = SecondOps(p)
    <2> TAKE p \in Paths
    <2>1. PublishOps(p)' = PublishOps(p) /\ LinkOps(p)' = LinkOps(p) /\ DirOps(p)' = DirOps(p)
      BY <1>1 DEF PublishOps, LinkOps, DirOps
    <2>2. ForwardOps(p)' = ForwardOps(p)
      BY <1>1, <2>1 DEF ForwardOps
    <2>3. SecondOps(p)' = SecondOps(p)
      BY <1>1 DEF SecondOps
    <2> QED
      BY <2>2, <2>3
  <1>3. \A p \in Paths : Prunable(p)' = Prunable(p)
    BY DEF Prunable
  <1> QED
    BY <1>1, <1>2, <1>3 DEF Forward, Second, Expected

LEMMA TurnTrue ==
  ASSUME Control, ahead # {}
  PROVE  /\ Running /\ Turn \in ahead /\ Turn \in Paths /\ P \in Paths
         /\ place = "forward" => Turn \in Forward /\ \A q \in ahead : Pos(Turn) <= Pos(q)
         /\ place = "reverse" => Turn \in Second /\ \A q \in ahead : Pos(q) <= Pos(Turn)
         /\ left \subseteq Paths
         /\ left # {} => P \in left /\ P = First(left)
         /\ left = {} => P = Turn
  <1>1. Running /\ ahead \subseteq Paths
    BY DEF Control, Running, Forward, Second
  <1>2. Turn \in ahead /\ (place = "forward" => \A q \in ahead : Pos(Turn) <= Pos(q))
        /\ (place = "reverse" => \A q \in ahead : Pos(q) <= Pos(Turn))
    BY <1>1, FirstIsFirst, FinalIsLast DEF Turn, Running
  <1>3. left \subseteq Paths
    BY <1>1, <1>2, AboveBefore DEF Control, InTurn, Children
  <1>4. left # {} => First(left) \in left
    BY <1>3, FirstIsFirst
  <1> QED
    BY <1>1, <1>2, <1>3, <1>4 DEF Control, P, Running

(* Every turn has a first operation, and lists its paths before the last.   *)
LEMMA OpsShape ==
  ASSUME plan \in Scenarios
  PROVE  /\ \A p \in Forward : /\ Len(ForwardOps(p)) \in 2..7
                               /\ \A i \in 1..Len(ForwardOps(p)) :
                                    /\ ForwardOps(p)[i] \notin {"prune", "dirmeta", "rmdir", "blocker", "quarantine", "sweep"}
                                    /\ ForwardOps(p)[i] = "parents" => i = 1
         /\ \A p \in Second : /\ Len(SecondOps(p)) \in 1..4
                              /\ \A i \in 1..Len(SecondOps(p)) :
                                   /\ SecondOps(p)[i] \in {"target", "prune", "prepare", "rmdir", "dirmeta"}
                                   /\ SecondOps(p)[i] = "prune" => i = 2 /\ Len(SecondOps(p)) = 4
  <1>1. ASSUME NEW p \in Forward
        PROVE  /\ Len(ForwardOps(p)) \in 2..7
               /\ \A i \in 1..Len(ForwardOps(p)) :
                    /\ ForwardOps(p)[i] \notin {"prune", "dirmeta", "rmdir", "blocker", "quarantine", "sweep"}
                    /\ ForwardOps(p)[i] = "parents" => i = 1
    <2> DEFINE o == ForwardOps(p)
    <2>1. \/ o = <<"target", "prepare", "unlink">>
          \/ o = <<"parents", "target", "open", "rename", "close">>
          \/ o = <<"parents", "open", "link", "close">>
          \/ o = <<"target", "meta">>
          \/ o = <<"target", "prepare", "unlink", "prepare", "symlink", "prepare", "times">>
          \/ o = <<"parents", "prepare", "symlink", "prepare", "times">>
          \/ o = <<"target", "prepare", "unlink", "prepare", "mkdir">>
          \/ o = <<"parents", "prepare", "mkdir">>
      BY ForwardShape
    <2> HIDE DEF o
    <2>2. /\ Len(o) \in 2..7
          /\ \A i \in 1..Len(o) :
               /\ o[i] \notin {"prune", "dirmeta", "rmdir", "blocker", "quarantine", "sweep"}
               /\ o[i] = "parents" => i = 1
      BY <2>1
    <2> QED
      BY <2>2 DEF o
  <1>2. ASSUME NEW p \in Second
        PROVE  /\ Len(SecondOps(p)) \in 1..4
               /\ \A i \in 1..Len(SecondOps(p)) :
                    /\ SecondOps(p)[i] \in {"target", "prune", "prepare", "rmdir", "dirmeta"}
                    /\ SecondOps(p)[i] = "prune" => i = 2 /\ Len(SecondOps(p)) = 4
    <2> DEFINE o == SecondOps(p)
    <2>1. \/ o = <<"target", "prune", "prepare", "rmdir">>
          \/ o = <<"target", "dirmeta">>
          \/ o = <<"dirmeta">>
      BY SecondShape
    <2> HIDE DEF o
    <2>2. /\ Len(o) \in 1..4
          /\ \A i \in 1..Len(o) :
               /\ o[i] \in {"target", "prune", "prepare", "rmdir", "dirmeta"}
               /\ o[i] = "prune" => i = 2 /\ Len(o) = 4
      BY <2>1
    <2> QED
      BY <2>2 DEF o
  <1> QED
    BY <1>1, <1>2

LEMMA InitControl == Init => Control
  BY DEF Init, Control

(* A turn begins with the first operation.                                  *)
LEMMA TurnBegins ==
  ASSUME plan \in Scenarios, plan' = plan, place' \in {"forward", "reverse"},
         ahead' # {}, step' = 1, left' = {}, sub' = 1,
         ahead' \subseteq IF place' = "forward" THEN Forward ELSE Second
  PROVE  InTurn'
  <1>1. ahead' \in SUBSET Paths
    BY DEF Forward, Second
  <1>2. Turn' \in ahead'
    BY <1>1, FirstIsFirst, FinalIsLast DEF Turn
  <1>3. Turn' \in Paths
    BY <1>1, <1>2
  <1>4. Ops' = IF place' = "forward" THEN ForwardOps(Turn') ELSE SecondOps(Turn')
    BY <1>3, SamePlan DEF Ops
  <1>5. 1 \in 1..Len(Ops')
    BY <1>2, <1>4, OpsShape
  <1> QED
    BY <1>5 DEF InTurn

LEMMA OverControl ==
  ASSUME Control, Running, ahead # {}, Over, Op \notin {"parents", "prune", "blocker"},
         UNCHANGED <<plan, place>>
  PROVE  Control'
  <1>1. CASE left = {} /\ step = Len(Ops)
    <2>1. ahead' = ahead \ {Turn} /\ step' = 1 /\ left' = {} /\ sub' = 1
      BY <1>1 DEF Over, Control, InTurn
    <2>2. ahead' \subseteq (IF place' = "forward" THEN Forward' ELSE Second')
      BY <2>1, SamePlan DEF Control, Running
    <2>3. ahead' # {} => InTurn'
      BY <2>1, <2>2, TurnBegins, SamePlan DEF Control, Running
    <2> QED
      BY <2>1, <2>2, <2>3 DEF Control, Running
  <1>2. CASE ~(left = {} /\ step = Len(Ops))
    <2>1. ahead' = ahead /\ Turn' = Turn /\ Inner' = Inner
      BY <1>2 DEF Over, Turn, Inner
    <2>2. Ops' = Ops /\ Turn \in Paths
      BY <2>1, TurnTrue, SamePlan DEF Ops
    <2>3. InTurn
      BY DEF Control
    <2>4. CASE left = {}
      <3>1. step' = step + 1 /\ left' = {} /\ sub' = 1
        BY <1>2, <2>3, <2>4 DEF Over, InTurn
      <3>2. Len(Ops) \in Nat
        BY TurnTrue, OpsShape DEF Ops, Running, Control
      <3> QED
        BY <1>2, <2>1, <2>2, <2>3, <2>4, <3>1, <3>2, SamePlan DEF InTurn, Control
    <2>5. CASE left # {}
      <3>1. step' = step /\ left' \subseteq left /\ P \in left
            /\ IF sub = Len(Inner) THEN sub' = 1 ELSE left' = left /\ sub' = sub + 1
        BY <2>1, <2>5, TurnTrue DEF Over
      <3>2. Len(Inner) \in {2, 3} /\ (place = "reverse" => sub > 1)
        BY <2>3, <2>5 DEF Inner, Op, Running, InTurn
      <3>3. \A c \in Paths : Removed(c)' = Removed(c) /\ Prunable(c)' = Prunable(c)
        BY SamePlan
      <3>4. left \subseteq Paths /\ First(left) \in Paths
        BY <2>5, TurnTrue
      <3>5. sub' \in 1..Len(Inner') /\ (place' = "reverse" /\ sub' > 1 => Prunable(First(left))')
        BY <2>1, <2>3, <2>5, <3>1, <3>2, <3>3, <3>4 DEF InTurn
      <3> QED
        <4>1. left' \subseteq IF place' = "forward" THEN Above(Turn')
                              ELSE {c \in Children(Turn') : ~Removed(c)'}
          BY <2>1, <2>3, <2>5, <3>1, <3>3, <3>4 DEF InTurn
        <4>2. step' \in 1..Len(Ops') /\ step' > 1
              /\ Ops'[step' - 1] = (IF place' = "forward" THEN "parents" ELSE "prune")
          BY <2>1, <2>2, <2>3, <2>5, <3>1 DEF InTurn
        <4>3. left' = {} => sub' = 1
          BY <2>5, <3>1
        <4>4. InTurn'
          BY <3>5, <4>1, <4>2, <4>3 DEF InTurn
        <4> QED
          BY <2>1, <4>4, SamePlan DEF Control
    <2> QED
      BY <2>4, <2>5
  <1> QED
    BY <1>1, <1>2

LEMMA ListControl ==
  ASSUME Control, NEW op \in {"parents", "prune"}, Doing(op), NEW S, List(S),
         S \subseteq IF op = "parents" THEN Above(P) ELSE {c \in Children(P) : ~Removed(c)}
  PROVE  Control'
  <1>1. InTurn /\ Running /\ ahead # {} /\ Op = op
    BY DEF Doing, Control
  <1>2. UNCHANGED <<plan, place, ahead>> /\ Turn' = Turn /\ Inner' = Inner
        /\ left' = S /\ sub' = 1 /\ step' = step + 1
    BY DEF List, Frame, Settled, Turn, Inner
  <1>3. left = {} /\ Ops[step] = op /\ P = Turn
    BY <1>1 DEF Op, Inner, InTurn, P
  <1>4. op = (IF place = "forward" THEN "parents" ELSE "prune") /\ step < Len(Ops) /\ Len(Ops) \in Nat
    <2>1. step \in 1..Len(Ops)
      BY <1>1 DEF InTurn
    <2>2. CASE place = "forward"
      <3>1. Ops = ForwardOps(Turn) /\ Turn \in Forward
        BY <1>1, <2>2, TurnTrue DEF Ops
      <3>2. Len(Ops) \in 2..7 /\ Ops[step] # "prune" /\ (Ops[step] = "parents" => step = 1)
        BY <2>1, <3>1, OpsShape DEF Control
      <3> QED
        BY <1>3, <2>2, <3>2
    <2>3. CASE place = "reverse"
      <3>1. Ops = SecondOps(Turn) /\ Turn \in Second
        BY <1>1, <2>3, TurnTrue DEF Ops
      <3>2. Len(Ops) \in 1..4 /\ Ops[step] # "parents" /\ (Ops[step] = "prune" => step = 2 /\ Len(Ops) = 4)
        BY <2>1, <3>1, OpsShape DEF Control
      <3> QED
        BY <1>3, <2>3, <3>2
    <2> QED
      BY <1>1, <2>2, <2>3 DEF Running
  <1>5. Ops' = Ops
    BY <1>1, <1>2, TurnTrue, SamePlan DEF Ops
  <1>6. left' \subseteq IF place' = "forward" THEN Above(Turn')
                        ELSE {c \in Children(Turn') : ~Removed(c)'}
    <2>1. \A c \in Children(Turn) : Removed(c)' = Removed(c)
      BY <1>2, SamePlan DEF Children
    <2> QED
      BY <1>1, <1>2, <1>3, <1>4, <2>1 DEF Running
  <1>7. Len(Inner') \in {2, 3}
    BY DEF Inner
  <1>8. step' \in 1..Len(Ops') /\ step' > 1
        /\ Ops'[step' - 1] = (IF place' = "forward" THEN "parents" ELSE "prune")
    BY <1>1, <1>2, <1>3, <1>4, <1>5 DEF InTurn
  <1>9. InTurn'
    <2>1. left' # {} => sub' \in 1..Len(Inner')
      BY <1>2, <1>7
    <2>2. place' = "reverse" /\ sub' > 1 => Prunable(First(left))'
      BY <1>2
    <2> QED
      BY <1>2, <1>6, <1>8, <2>1, <2>2 DEF InTurn
  <1> QED
    BY <1>1, <1>2, <1>9, SamePlan DEF Control

LEMMA BlockerControl ==
  ASSUME Control, CheckBlocker \/ NotListed
  PROVE  Control'
  <1>1. InTurn /\ Running /\ ahead # {} /\ Op = "blocker"
    BY DEF CheckBlocker, NotListed, Doing, Control
  <1>2. UNCHANGED <<plan, place, ahead, step>> /\ Turn' = Turn /\ Inner' = Inner
    BY DEF CheckBlocker, NotListed, Skip, Frame, Settled, Turn, Inner
  <1>3. Ops' = Ops
    BY <1>1, <1>2, TurnTrue, SamePlan DEF Ops
  <1>4. place = "reverse" /\ left # {}
    BY <1>1, TurnTrue, OpsShape DEF Op, Inner, Ops, InTurn, Control, Running
  <1>5. P = First(left) /\ P \in left /\ left \subseteq Paths
    BY <1>1, <1>4, TurnTrue
  <1>6. /\ left' \subseteq left /\ sub' \in 1..3
        /\ left' = {} => sub' = 1
        /\ sub' > 1 => left' = left /\ Prunable(P)
    BY <1>4, <1>5 DEF CheckBlocker, NotListed, BlockerFits
  <1>7. sub' > 1 => Prunable(First(left))'
    BY <1>2, <1>5, <1>6, SamePlan
  <1>8. left' \subseteq IF place' = "forward" THEN Above(Turn')
                        ELSE {c \in Children(Turn') : ~Removed(c)'}
    <2>1. \A c \in Children(Turn) : Removed(c)' = Removed(c)
      BY <1>2, SamePlan DEF Children
    <2> QED
      BY <1>1, <1>2, <1>4, <1>6, <2>1 DEF InTurn
  <1>9. Len(Inner') = 3
    BY <1>2, <1>4 DEF Inner
  <1>10. InTurn'
    BY <1>1, <1>2, <1>3, <1>4, <1>6, <1>7, <1>8, <1>9 DEF InTurn
  <1> QED
    BY <1>1, <1>2, <1>10, SamePlan DEF Control

(* The steps of the passes that end an operation.                           *)
Passing ==
  \/ CheckTarget \/ PrepareParent \/ OpenParent \/ CloseParent
  \/ Unlink \/ PublishNew \/ PublishOver \/ Symlink \/ LinkTimes \/ MakeDir \/ RemoveDir
  \/ UpdateMeta \/ UpdateDirMeta \/ Quarantine \/ Sweep

LEMMA PassingFrame ==
  ASSUME Passing
  PROVE  /\ Running /\ ahead # {} /\ Over /\ UNCHANGED Settled
         /\ Op \notin {"parents", "prune", "blocker"}
  BY DEF Passing, CheckTarget, PrepareParent, OpenParent, CloseParent, Unlink, PublishNew,
         PublishOver, Symlink, LinkTimes, MakeDir, RemoveDir, UpdateMeta, UpdateDirMeta,
         Quarantine, Sweep, Mutate, Pass, Frame, Doing

(* The steps that fail.                                                     *)
Failing ==
  \/ Refuse \/ TargetGone \/ ParentGone \/ CloseFails \/ MutationFails \/ MetaFails
  \/ BlockerStays \/ PruneFails \/ SyncFails

LEMMA FailingFrame ==
  ASSUME Failing
  PROVE  /\ Fail
         /\ place \in {"prepare", "valid", "forward", "reverse", "sync"}
         /\ place \in {"prepare", "valid"} <=> Refuse
  BY DEF Failing, Refuse, TargetGone, ParentGone, CloseFails, MutationFails, MetaFails,
         BlockerStays, PruneFails, SyncFails, Doing, Running

UserStep == \E p \in Paths : UserWrite(p) \/ UserRemove(p) \/ UserSwap(p) \/ UserChmod(p)

LEMMA UserFrame ==
  ASSUME UserStep
  PROVE  /\ place \notin {"done", "refused", "failed"} /\ touched \subseteq touched'
         /\ UNCHANGED <<plan, marker, place, work, tok, guard, dirty, unsynced, results, faults, lost>>
  BY DEF UserStep, UserWrite, UserRemove, UserSwap, UserChmod, Edit

(* The remaining ones, outside the passes or at their bounds.               *)
Staging ==
  \/ Validate \/ StartCommit \/ TurnBack \/ Merge \/ FinishStaging \/ EndCommit
  \/ \E r \in dirty : SyncOne(r)

LEMMA NextCases ==
  ASSUME [Next]_vars
  PROVE  \/ Passing \/ Failing \/ Staging \/ UserStep \/ ListMissing \/ ListBlockers
         \/ CheckBlocker \/ NotListed \/ (\E killed \in BOOLEAN : Fault(killed))
         \/ UNCHANGED vars
  BY DEF Next, Passing, Failing, Staging, UserStep

LEMMA StepControl ==
  ASSUME Control, [Next]_vars
  PROVE  Control'
  <1>1. CASE Passing
    BY <1>1, PassingFrame, OverControl DEF Settled
  <1>2. CASE ListMissing
    <2>1. Missing \subseteq Above(P)
      BY DEF Missing
    <2> QED
      BY <1>2, <2>1, ListControl DEF ListMissing
  <1>3. CASE ListBlockers
    BY <1>3, ListControl DEF ListBlockers
  <1>4. CASE CheckBlocker \/ NotListed
    BY <1>4, BlockerControl
  <1>5. CASE Failing \/ \E killed \in BOOLEAN : Fault(killed)
    <2>1. Stop /\ plan' = plan
      BY <1>5, FailingFrame DEF Fail, Fault
    <2> QED
      BY <2>1, SamePlan DEF Stop, Control
  <1>6. CASE UserStep \/ UNCHANGED vars
    <2>1. UNCHANGED <<plan, place, ahead, step, left, sub>>
      BY <1>6, UserFrame DEF vars, work
    <2>2. Forward' = Forward /\ Second' = Second /\ Turn' = Turn /\ Inner' = Inner
      BY <2>1, SamePlan DEF Turn, Inner
    <2>3. ahead # {} => InTurn'
      <3> SUFFICES ASSUME ahead # {} PROVE InTurn'
        OBVIOUS
      <3>1. Ops' = Ops
        BY <2>1, <2>2, TurnTrue, SamePlan DEF Ops
      <3>2. \A c \in Paths : Removed(c)' = Removed(c) /\ Prunable(c)' = Prunable(c)
        BY <2>1, SamePlan
      <3>3. left \subseteq Paths /\ (left # {} => First(left) \in Paths)
        BY TurnTrue
      <3>4. {c \in Children(Turn) : ~Removed(c)}' = {c \in Children(Turn) : ~Removed(c)}
        BY <2>2, <3>2 DEF Children
      <3>5. left # {} => Prunable(First(left))' = Prunable(First(left))
        BY <2>1, <3>2, <3>3
      <3> QED
        BY <2>1, <2>2, <3>1, <3>4, <3>5 DEF InTurn, Control
    <2> QED
      BY <2>1, <2>2, <2>3 DEF Control
  <1>7. CASE Staging
    <2>1. CASE StartCommit \/ TurnBack
      <3>1. /\ plan' = plan /\ step' = 1 /\ left' = {} /\ sub' = 1
            /\ \/ place' = "forward" /\ ahead' = Forward
               \/ place' = "reverse" /\ ahead' = Second
        BY <2>1 DEF StartCommit, TurnBack, Begin, Control
      <3>2. ahead' # {} => InTurn'
        BY <3>1, TurnBegins DEF Control
      <3> QED
        BY <3>1, <3>2, SamePlan DEF Control
    <2>2. CASE ~(StartCommit \/ TurnBack)
      <3>1. /\ UNCHANGED <<plan, ahead, step, left, sub>>
            /\ ahead = {}
        BY <1>7, <2>2 DEF Staging, Validate, Merge, FinishStaging, EndCommit, SyncOne, work, Control
      <3> QED
        BY <3>1, SamePlan DEF Control
    <2> QED
      BY <2>1, <2>2
  <1> QED
    BY <1>1, <1>2, <1>3, <1>4, <1>5, <1>6, <1>7, NextCases

(***************************************************************************)
(* Types, the identities of the ledger, and what users wrote.               *)
(***************************************************************************)

Dirs == Paths \cup {Root}

(* A token is of a directory that was there, and the ledger has no other    *)
(* identity for the directory it is of.                                    *)
Tokens ==
  /\ tok \in Dirs \X Nat /\ guard \in Dirs \X Nat
  /\ guard # NoToken => guard[1] \in Paths
  /\ tok[2] <= IdOf(tok[1])
  /\ \A r \in dirty : /\ r[1] = Root => r[2] = 0
                      /\ r[1] = tok[1] /\ tok[2] = IdOf(tok[1]) => r[2] = tok[2]

(* Users write files, and what they write is known to be theirs.            *)
Foreign == \A p \in Paths : disk[p].ver = "user" => p \in touched /\ disk[p].kind = "file"

Types == TypeOK /\ Tokens /\ Foreign

LEMMA InitTypes == Init => Types
  <1> SUFFICES ASSUME Init PROVE Types
    OBVIOUS
  <1>1. plan.from = [p \in Paths |-> From(p)]
    BY PlanAssumption DEF Init, IsPlan, From
  <1>2. disk \in [Paths -> Nodes] /\ \A p \in Paths : disk[p] = From(p)
    BY <1>1, PlanNodes DEF Init
  <1>3. Foreign
    BY <1>2, PlanNodes DEF Foreign, Init
  <1>4. TypeOK
    BY <1>2 DEF Init, TypeOK
  <1>5. Tokens
    BY DEF Init, Tokens, NoToken, IdOf, Dirs
  <1> QED
    BY <1>3, <1>4, <1>5 DEF Types

LEMMA RestoredType ==
  ASSUME Types
  PROVE  /\ Restored \in [Paths -> Nodes]
         /\ \A p \in Paths : Restored[p].kind = disk[p].kind /\ Restored[p].ver = disk[p].ver
         /\ \A p \in Paths : Restored[p] # disk[p] => p = guard[1] /\ guard # NoToken
  <1>1. CASE guard # NoToken /\ guard[2] = gen[guard[1]]
    <2>1. Restored = [disk EXCEPT ![guard[1]].rw = FALSE] /\ guard[1] \in Paths
      BY <1>1 DEF Restored, Types, Tokens
    <2>2. \A n \in Nodes : /\ [n EXCEPT !.rw = FALSE] \in Nodes
                           /\ [n EXCEPT !.rw = FALSE].kind = n.kind
                           /\ [n EXCEPT !.rw = FALSE].ver = n.ver
      BY DEF Nodes
    <2>3. disk \in [Paths -> Nodes]
      BY DEF Types, TypeOK
    <2> QED
      BY <1>1, <2>1, <2>2, <2>3
  <1>2. CASE ~(guard # NoToken /\ guard[2] = gen[guard[1]])
    BY <1>2 DEF Restored, Types, TypeOK
  <1> QED
    BY <1>1, <1>2

(* A mutation through the token.                                            *)
LEMMA MutateTypes ==
  ASSUME Types, Control, ahead # {}, NEW n \in Nodes, n.ver # "user", Mutate(n)
  PROVE  /\ disk' = [disk EXCEPT ![P] = n] /\ disk' \in [Paths -> Nodes] /\ Foreign'
         /\ lost' \subseteq touched'
         /\ dirty' = dirty \cup {<<Parent[P], IdOf(Parent[P])>>}
         /\ tok[1] = Parent[P] /\ tok[2] = IdOf(Parent[P]) /\ tok' = NoToken
         /\ unsynced' \subseteq Paths /\ UNCHANGED <<guard, touched>>
  <1>1. P \in Paths
    BY TurnTrue
  <1>2. disk' = [disk EXCEPT ![P] = n] /\ UNCHANGED <<guard, touched>>
        /\ lost' = lost \cup Destroyed /\ unsynced' = unsynced \cup {P} /\ tok' = NoToken
        /\ dirty' = dirty \cup {tok} /\ tok[1] = Parent[P] /\ tok[2] = IdOf(Parent[P])
    BY DEF Mutate, Frame, Settled, Arm, TokenHolds
  <1>3. disk' \in [Paths -> Nodes] /\ Foreign'
    BY <1>1, <1>2 DEF Types, TypeOK, Foreign
  <1>4. tok = <<Parent[P], IdOf(Parent[P])>>
    BY <1>2 DEF Types, Tokens
  <1>5. lost' \subseteq touched'
    BY <1>1, <1>2 DEF Types, TypeOK, Foreign, Destroyed
  <1> QED
    BY <1>1, <1>2, <1>3, <1>4, <1>5 DEF Types, TypeOK

(* The records that a step adds are of the directory as it is.              *)
LEMMA LedgerTypes ==
  ASSUME Types, NEW R \in SUBSET Dirs, dirty' \subseteq dirty \cup {<<d, IdOf(d)>> : d \in R},
         \A r \in dirty' : r[1] \in R => r[2] = IdOf(r[1]),
         gen' \in [Paths -> Nat], \A d \in Paths : gen[d] <= gen'[d],
         \/ tok' = tok
         \/ tok' = NoToken
         \/ \E d \in Dirs : tok' = <<d, IdOf(d)>> /\ (\A r \in dirty' : r[1] = d => r[2] = IdOf(d))
                            /\ gen' = gen,
         guard' \in Dirs \X Nat, guard' # NoToken => guard'[1] \in Paths
  PROVE  /\ dirty' \subseteq Dirs \X Nat
         /\ \A r, q \in dirty' : r[1] = q[1] => r = q
         /\ Tokens'
  <1>1. \A d \in Dirs : IdOf(d) \in Nat /\ IdOf(d) <= IdOf(d)' /\ IdOf(d)' \in Nat /\ (d = Root => IdOf(d) = 0 /\ IdOf(d)' = 0)
    BY OrderAssumption DEF IdOf, Types, TypeOK, Dirs
  <1>2. \A r \in dirty' : r \in dirty \/ (r[1] \in R /\ r = <<r[1], IdOf(r[1])>>)
    OBVIOUS
  <1>3. dirty' \subseteq Dirs \X Nat
    BY <1>1, <1>2 DEF Types, TypeOK, Dirs
  <1>4. \A r, q \in dirty' : r[1] = q[1] => r = q
    <2> TAKE r, q \in dirty'
    <2> HAVE r[1] = q[1]
    <2>1. r = <<r[1], r[2]>> /\ q = <<q[1], q[2]>>
      BY <1>3
    <2>2. CASE r[1] \in R
      BY <2>1, <2>2
    <2>3. CASE r[1] \notin R
      <3>1. r \in dirty /\ q \in dirty
        BY <1>2, <2>3
      <3> QED
        BY <3>1 DEF Types, TypeOK
    <2> QED
      BY <2>2, <2>3
  <1>5. \A r \in dirty' : r[1] = Root => r[2] = 0
    BY <1>1, <1>2 DEF Types, Tokens
  <1>6. CASE tok' = tok
    <2>1. tok \in Dirs \X Nat /\ tok[1] \in Dirs /\ tok[2] \in Nat /\ tok[2] <= IdOf(tok[1])
      BY DEF Types, Tokens
    <2>2. tok'[2] <= IdOf(tok[1])' /\ (tok'[2] = IdOf(tok[1])' => tok[2] = IdOf(tok[1]))
      BY <1>6, <2>1, <1>1 DEF IdOf
    <2>3. \A r \in dirty' : r[1] = tok[1] /\ tok[2] = IdOf(tok[1]) => r[2] = tok[2]
      BY <1>2 DEF Types, Tokens
    <2> QED
      BY <1>3, <1>4, <1>5, <1>6, <2>1, <2>2, <2>3 DEF Tokens
  <1>7. CASE tok' = NoToken
    <2>1. tok' \in Dirs \X Nat /\ tok'[1] = Root /\ tok'[2] = 0 /\ IdOf(tok[1])' = 0
      BY <1>1, <1>7 DEF NoToken, Dirs, IdOf
    <2> QED
      BY <1>3, <1>4, <1>5, <2>1 DEF Tokens
  <1>8. CASE \E d \in Dirs : tok' = <<d, IdOf(d)>> /\ (\A r \in dirty' : r[1] = d => r[2] = IdOf(d))
                             /\ gen' = gen
    <2>1. PICK d \in Dirs : tok' = <<d, IdOf(d)>> /\ (\A r \in dirty' : r[1] = d => r[2] = IdOf(d))
                            /\ gen' = gen
      BY <1>8
    <2>2. IdOf(d)' = IdOf(d)
      BY <2>1 DEF IdOf
    <2>3. tok' \in Dirs \X Nat /\ tok'[1] = d /\ tok'[2] = IdOf(d)
      BY <1>1, <2>1
    <2>4. tok'[2] <= IdOf(tok[1])'
      BY <1>1, <2>1, <2>3 DEF IdOf
    <2> QED
      BY <1>3, <1>4, <1>5, <2>1, <2>3, <2>4 DEF Tokens
  <1> QED
    BY <1>6, <1>7, <1>8

LEMMA PassingTypes ==
  ASSUME Types, Control, Passing
  PROVE  /\ disk' \in [Paths -> Nodes] /\ Foreign' /\ lost' \subseteq touched
         /\ gen' \in [Paths -> Nat] /\ \A d \in Paths : gen[d] <= gen'[d]
         /\ dirty' \subseteq Dirs \X Nat /\ (\A r, q \in dirty' : r[1] = q[1] => r = q)
         /\ Tokens'
         /\ unsynced' \subseteq Paths /\ results' \subseteq Paths
  <1> DEFINE Goal == /\ disk' \in [Paths -> Nodes] /\ Foreign' /\ lost' \subseteq touched
                     /\ gen' \in [Paths -> Nat] /\ \A d \in Paths : gen[d] <= gen'[d]
                     /\ dirty' \subseteq Dirs \X Nat /\ (\A r, q \in dirty' : r[1] = q[1] => r = q)
                     /\ Tokens'
                     /\ unsynced' \subseteq Paths /\ results' \subseteq Paths
  <1>1. ahead # {} /\ P \in Paths /\ Parent[P] \in Dirs /\ touched' = touched /\ plan \in Scenarios
    BY PassingFrame, TurnTrue, OrderAssumption DEF Settled, Dirs, Control
  <1>2. /\ disk \in [Paths -> Nodes] /\ gen \in [Paths -> Nat] /\ dirty \subseteq Dirs \X Nat
        /\ (\A r, q \in dirty : r[1] = q[1] => r = q) /\ unsynced \subseteq Paths
        /\ results \subseteq Paths /\ lost \subseteq touched /\ touched \subseteq Paths
        /\ Foreign /\ Tokens
    BY DEF Types, TypeOK, Dirs
  <1>3. To(P) \in Nodes /\ To(P).ver # "user" /\ To(P).ver \in Versions
    BY <1>1, PlanNodes DEF Versions
  <1>4. ASSUME NEW n \in Nodes, n.ver # "user", Mutate(n),
               gen' = gen \/ gen' = [gen EXCEPT ![P] = @ + 1],
               results' = results \/ results' = results \cup {P}
        PROVE  Goal
    <2>1. /\ disk' \in [Paths -> Nodes] /\ Foreign' /\ lost' \subseteq touched
          /\ dirty' = dirty \cup {<<Parent[P], IdOf(Parent[P])>>}
          /\ tok[1] = Parent[P] /\ tok[2] = IdOf(Parent[P]) /\ tok' = NoToken
          /\ unsynced' \subseteq Paths /\ guard' = guard
      BY <1>1, <1>4, MutateTypes
    <2>2. gen' \in [Paths -> Nat] /\ \A d \in Paths : gen[d] <= gen'[d]
      BY <1>2, <1>4
    <2>3. \A r \in dirty' : r[1] \in {Parent[P]} => r[2] = IdOf(r[1])
      BY <1>2, <2>1 DEF Tokens
    <2>4. dirty' \subseteq dirty \cup {<<d, IdOf(d)>> : d \in {Parent[P]}}
      BY <2>1
    <2>5. Tokens' /\ dirty' \subseteq Dirs \X Nat /\ (\A r, q \in dirty' : r[1] = q[1] => r = q)
      BY <1>1, <1>2, <2>1, <2>2, <2>3, <2>4, LedgerTypes DEF Tokens
    <2> QED
      BY <1>1, <1>2, <1>4, <2>1, <2>2, <2>5
  <1>5. CASE Unlink
    BY <1>5, <1>4, NodeForms DEF Unlink
  <1>6. CASE PublishNew \/ PublishOver
    BY <1>6, <1>3, <1>4 DEF PublishNew, PublishOver, Assign
  <1>7. CASE Symlink
    <2>1. Leaf("link", "raw") \in Nodes /\ Leaf("link", "raw").ver # "user"
      BY NodeForms DEF Kinds, Versions
    <2> QED
      BY <1>7, <2>1, <1>4 DEF Symlink
  <1>8. CASE MakeDir
    <2>1. Folder("raw", TRUE) \in Nodes /\ Folder("raw", TRUE).ver # "user"
      BY NodeForms DEF Versions
    <2> QED
      BY <1>8, <2>1, <1>4 DEF MakeDir
  <1>9. CASE LinkTimes
    <2> DEFINE n == [disk[P] EXCEPT !.ver = IF disk[P].ver = "raw" THEN To(P).ver ELSE @]
    <2>1. disk[P] \in Nodes /\ disk[P].kind = "link" /\ disk[P].ver # "user"
      BY <1>1, <1>2, <1>9 DEF LinkTimes, Foreign
    <2>2. n \in Nodes /\ n.ver # "user"
      BY <2>1, <1>3 DEF Nodes, Versions
    <2>3. Mutate(n) /\ gen' = gen /\ results' = results \cup {P}
      BY <1>9 DEF LinkTimes, Assign
    <2> HIDE DEF n
    <2> QED
      BY <2>2, <2>3, <1>4
  <1>10. ASSUME NEW R \in SUBSET {Parent[P]}, dirty' \subseteq dirty \cup {<<d, IdOf(d)>> : d \in R},
                R # {} => ~DirtyElsewhere(Parent[P]) \/ (tok[1] = Parent[P] /\ tok[2] = IdOf(Parent[P])),
                tok' = tok \/ tok' = NoToken, UNCHANGED <<gen, guard>>
         PROVE  Tokens' /\ dirty' \subseteq Dirs \X Nat /\ (\A r, q \in dirty' : r[1] = q[1] => r = q)
    <2>1. \A r \in dirty' : r[1] \in R => r[2] = IdOf(r[1])
      BY <1>2, <1>10 DEF DirtyElsewhere, Tokens
    <2>2. \A d \in Paths : gen[d] <= gen'[d]
      BY <1>2, <1>10
    <2> QED
      BY <1>1, <1>2, <1>10, <2>1, <2>2, LedgerTypes DEF Tokens
  <1>11. ASSUME dirty' \subseteq dirty, tok' = tok \/ tok' = NoToken, UNCHANGED <<gen, guard>>
         PROVE  Tokens' /\ dirty' \subseteq Dirs \X Nat /\ (\A r, q \in dirty' : r[1] = q[1] => r = q)
    <2>1. {} \in SUBSET {Parent[P]} /\ dirty' \subseteq dirty \cup {<<d, IdOf(d)>> : d \in {}}
      BY <1>11
    <2> QED
      BY <2>1, <1>10, <1>11
  <1>12. ASSUME dirty' \subseteq dirty \cup {<<Parent[P], IdOf(Parent[P])>>},
                ~DirtyElsewhere(Parent[P]) \/ (tok[1] = Parent[P] /\ tok[2] = IdOf(Parent[P])),
                tok' = tok \/ tok' = NoToken, UNCHANGED <<gen, guard>>
         PROVE  Tokens' /\ dirty' \subseteq Dirs \X Nat /\ (\A r, q \in dirty' : r[1] = q[1] => r = q)
    <2>1. {Parent[P]} \in SUBSET {Parent[P]}
          /\ dirty' \subseteq dirty \cup {<<d, IdOf(d)>> : d \in {Parent[P]}}
      BY <1>12
    <2> QED
      BY <2>1, <1>10, <1>12
  <1>13. CASE RemoveDir
    <2>1. dirty' \subseteq dirty \cup {<<Parent[P], IdOf(Parent[P])>>}
          /\ tok[1] = Parent[P] /\ tok[2] = IdOf(Parent[P]) /\ tok' = NoToken /\ UNCHANGED <<gen, guard>>
      BY <1>2, <1>13 DEF RemoveDir, TokenHolds, Tokens, Frame, Dirs
    <2>2. disk' = [disk EXCEPT ![P] = Absent] /\ UNCHANGED <<results, lost>> /\ unsynced' \subseteq unsynced \cup {P}
      BY <1>13 DEF RemoveDir
    <2>3. disk' \in [Paths -> Nodes] /\ Foreign'
      BY <1>1, <1>2, <2>2, NodeForms DEF Foreign
    <2> QED
      BY <1>1, <1>2, <2>1, <2>2, <2>3, <1>11, <1>12
  <1>14. CASE Quarantine \/ Sweep
    <2>1. dirty' \subseteq dirty \cup {<<Parent[P], IdOf(Parent[P])>>}
          /\ ~DirtyElsewhere(Parent[P]) /\ tok' = tok /\ UNCHANGED <<gen, guard, results>>
      BY <1>14 DEF Quarantine, Sweep, CanPrune, Frame
    <2>2. unsynced' \subseteq unsynced \cup {P} /\ lost' \subseteq touched
      BY <1>1, <1>2, <1>14 DEF Quarantine, Sweep, Foreign, Descendants, Below
    <2>3. disk' \in [Paths -> Nodes] /\ Foreign'
      <3>1. CASE Quarantine
        <4>1. disk[P] \in Nodes /\ disk[P].kind = "dir" /\ disk[P].ver # "user"
          BY <1>1, <1>2, <3>1 DEF Quarantine, IsDir, Foreign
        <4>2. [disk[P] EXCEPT !.kind = "aside"] \in Nodes /\ [disk[P] EXCEPT !.kind = "aside"].ver # "user"
          BY <4>1 DEF Nodes
        <4>3. disk' = [disk EXCEPT ![P] = [disk[P] EXCEPT !.kind = "aside"]]
          BY <3>1 DEF Quarantine
        <4> QED
          BY <1>1, <1>2, <4>2, <4>3 DEF Foreign
      <3>2. CASE Sweep
        BY <1>1, <1>2, <3>2, NodeForms DEF Sweep, Foreign
      <3> QED
        BY <1>14, <3>1, <3>2
    <2> QED
      BY <1>1, <1>2, <2>1, <2>2, <2>3, <1>11, <1>12
  <1>15. CASE UpdateDirMeta
    <2>1. dirty' \subseteq dirty /\ UNCHANGED <<gen, tok, guard, lost>>
          /\ unsynced' \subseteq unsynced /\ results' = results \cup {P} /\ disk' = [disk EXCEPT ![P] = To(P)]
      BY <1>15 DEF UpdateDirMeta, Frame, Assign
    <2>2. disk' \in [Paths -> Nodes] /\ Foreign'
      BY <1>1, <1>2, <1>3, <2>1 DEF Foreign
    <2> QED
      BY <1>1, <1>2, <2>1, <2>2, <1>11
  <1>16. CASE UpdateMeta
    <2>1. dirty' = dirty /\ UNCHANGED <<gen, tok, guard, lost, unsynced>>
          /\ results' = results \cup {P}
          /\ disk' = [disk EXCEPT ![P] = [disk[P] EXCEPT !.ver = IF @ = "user" THEN @ ELSE To(P).ver]]
      BY <1>16 DEF UpdateMeta, Frame, Assign
    <2> DEFINE n == [disk[P] EXCEPT !.ver = IF @ = "user" THEN @ ELSE To(P).ver]
    <2>2. n \in Nodes /\ (n.ver = "user" => disk[P].ver = "user") /\ n.kind = disk[P].kind
      BY <1>1, <1>2, <1>3 DEF Nodes, Versions
    <2>3. disk' = [disk EXCEPT ![P] = n]
      BY <2>1
    <2> HIDE DEF n
    <2>4. disk' \in [Paths -> Nodes] /\ Foreign'
      BY <1>1, <1>2, <2>2, <2>3 DEF Foreign
    <2>5. dirty' \subseteq dirty
      BY <2>1
    <2> QED
      BY <1>1, <1>2, <2>1, <2>4, <2>5, <1>11
  <1>17. CASE CheckTarget
    <2>1. UNCHANGED <<disk, gen, tok, guard, dirty, unsynced, results, lost, touched>>
      BY <1>17 DEF CheckTarget, Pass, Frame, Settled
    <2>2. dirty' \subseteq dirty
      BY <2>1
    <2>3. Foreign'
      BY <1>2, <2>1 DEF Foreign
    <2> QED
      BY <1>2, <2>1, <2>2, <2>3, <1>11, <1>12
  <1>18. CASE CloseParent
    <2>1. UNCHANGED <<gen, tok, dirty, unsynced, results, lost, touched>> /\ disk' = Restored /\ guard' = NoToken
      BY <1>18 DEF CloseParent, Settled
    <2>2. dirty' \subseteq dirty
      BY <2>1
    <2>3. disk' \in [Paths -> Nodes] /\ Foreign'
      BY <1>2, <2>1, RestoredType DEF Foreign
    <2>4. NoToken \in Dirs \X Nat
      BY DEF NoToken, Dirs
    <2>5. Tokens'
      BY <1>2, <2>1, <2>4 DEF Tokens, IdOf
    <2> QED
      BY <1>2, <2>1, <2>2, <2>3, <2>5
  <1>19. CASE PrepareParent \/ OpenParent
    <2> DEFINE t == <<Parent[P], IdOf(Parent[P])>>
    <2>1. UNCHANGED <<gen, dirty, unsynced, results, lost>> /\ tok' = t /\ ~DirtyElsewhere(Parent[P])
          /\ \/ UNCHANGED <<disk, guard>>
             \/ /\ disk' = [disk EXCEPT ![Parent[P]].rw = TRUE] /\ guard' = t
                /\ ~At(Parent[P]).rw
      BY <1>19 DEF PrepareParent, OpenParent, Frame
    <2>2. t \in Dirs \X Nat
      BY <1>1, <1>2 DEF IdOf, Dirs
    <2>3. ~At(Parent[P]).rw => Parent[P] \in Paths
      BY <1>1, NodeForms DEF At, Dirs, Versions
    <2>4. disk' \in [Paths -> Nodes] /\ Foreign'
      <3>1. CASE disk' = disk
        BY <1>1, <1>2, <3>1 DEF Foreign
      <3>2. CASE disk' # disk
        <4>1. disk' = [disk EXCEPT ![Parent[P]] = [disk[Parent[P]] EXCEPT !.rw = TRUE]] /\ Parent[P] \in Paths
          BY <2>1, <2>3, <3>2
        <4>2. \A n \in Nodes : /\ [n EXCEPT !.rw = TRUE] \in Nodes
                               /\ [n EXCEPT !.rw = TRUE].ver = n.ver /\ [n EXCEPT !.rw = TRUE].kind = n.kind
          BY DEF Nodes
        <4> QED
          BY <1>1, <1>2, <4>1, <4>2 DEF Foreign
      <3> QED
        BY <3>1, <3>2
    <2>5. guard' \in Dirs \X Nat /\ (guard' # NoToken => guard'[1] \in Paths)
      BY <1>2, <2>1, <2>2, <2>3 DEF Tokens
    <2>6. \A r \in dirty' : r[1] = Parent[P] => r[2] = IdOf(Parent[P])
      BY <2>1 DEF DirtyElsewhere
    <2>7. dirty' \subseteq dirty \cup {<<d, IdOf(d)>> : d \in {}} /\ {} \in SUBSET Dirs
          /\ (\A r \in dirty' : r[1] \in {} => r[2] = IdOf(r[1])) /\ gen' \in [Paths -> Nat]
          /\ \A d \in Paths : gen[d] <= gen'[d]
      BY <1>2, <2>1
    <2>8. \E d \in Dirs : tok' = <<d, IdOf(d)>> /\ (\A r \in dirty' : r[1] = d => r[2] = IdOf(d)) /\ gen' = gen
      BY <1>1, <2>1, <2>6
    <2>9. Tokens'
      BY <2>5, <2>7, <2>8, LedgerTypes
    <2> QED
      BY <1>2, <2>1, <2>4, <2>7, <2>9
  <1> QED
    BY <1>5, <1>6, <1>7, <1>8, <1>9, <1>13, <1>14, <1>15, <1>16, <1>17, <1>18, <1>19 DEF Passing

LEMMA UserTypes ==
  ASSUME Types, UserStep
  PROVE  /\ disk' \in [Paths -> Nodes] /\ Foreign' /\ touched' \subseteq Paths
         /\ gen' \in [Paths -> Nat] /\ \A d \in Paths : gen[d] <= gen'[d]
  <1>1. disk \in [Paths -> Nodes] /\ gen \in [Paths -> Nat] /\ touched \subseteq Paths /\ Foreign
    BY DEF Types, TypeOK
  <1>2. PICK p \in Paths : UserWrite(p) \/ UserRemove(p) \/ UserSwap(p) \/ UserChmod(p)
    BY DEF UserStep
  <1>3. CASE UserWrite(p)
    <2>1. Leaf("file", "user") \in Nodes /\ Leaf("file", "user").kind = "file"
      BY NodeForms DEF Kinds, Versions
    <2> QED
      BY <1>1, <1>3, <2>1 DEF UserWrite, Edit, Foreign
  <1>4. CASE UserRemove(p)
    BY <1>1, <1>4, NodeForms DEF UserRemove, Edit, Foreign
  <1>5. CASE UserSwap(p)
    BY <1>1, <1>5, NodeForms DEF UserSwap, Edit, Foreign, Descendants, Below
  <1>6. CASE UserChmod(p)
    <2>1. \A n \in Nodes : /\ [n EXCEPT !.rw = ~n.rw] \in Nodes
                           /\ [n EXCEPT !.rw = ~n.rw].ver = n.ver /\ [n EXCEPT !.rw = ~n.rw].kind = n.kind
      BY DEF Nodes
    <2>2. disk' = [disk EXCEPT ![p] = [disk[p] EXCEPT !.rw = ~disk[p].rw]]
          /\ gen' = gen /\ touched' = touched \cup {p}
      BY <1>6 DEF UserChmod, Edit
    <2> QED
      BY <1>1, <2>1, <2>2 DEF Foreign
  <1> QED
    BY <1>2, <1>3, <1>4, <1>5, <1>6

LEMMA FailTypes ==
  ASSUME Types, Fail \/ \E killed \in BOOLEAN : Fault(killed)
  PROVE  /\ disk' \in [Paths -> Nodes] /\ Foreign' /\ Tokens'
         /\ place' \in {"refused", "failed"}
         /\ UNCHANGED <<plan, gen, marker, dirty, unsynced, results, touched, lost>>
  <1>1. /\ UNCHANGED <<plan, gen, marker, tok, dirty, unsynced, results, touched, lost>>
        /\ place' \in {"refused", "failed"}
        /\ UNCHANGED <<disk, guard>> \/ (disk' = Restored /\ guard' = NoToken)
    BY DEF Fail, Fault
  <1>2. disk' \in [Paths -> Nodes] /\ Foreign'
    BY <1>1, RestoredType DEF Types, TypeOK, Foreign
  <1>3. NoToken \in Dirs \X Nat
    BY DEF NoToken, Dirs
  <1> QED
    BY <1>1, <1>2, <1>3 DEF Types, Tokens, IdOf

LEMMA ControlTypes == Control => ahead \subseteq Paths /\ left \subseteq Paths /\ step \in Nat /\ sub \in Nat
  <1> SUFFICES ASSUME Control
               PROVE  ahead \subseteq Paths /\ left \subseteq Paths /\ step \in Nat /\ sub \in Nat
    OBVIOUS
  <1>1. CASE ahead = {}
    BY <1>1 DEF Control
  <1>2. CASE ahead # {}
    <2>1. Len(Inner) \in Nat
      BY DEF Inner
    <2> QED
      BY <1>2, <2>1, TurnTrue DEF Control, InTurn, Forward, Second
  <1> QED
    BY <1>1, <1>2

LEMMA StepTypes ==
  ASSUME Types, Control, [Next]_vars
  PROVE  Types'
  <1>1. ahead' \subseteq Paths /\ left' \subseteq Paths /\ step' \in Nat /\ sub' \in Nat
    <2>1. Control'
      BY StepControl
    <2>2. (ahead \subseteq Paths /\ left \subseteq Paths /\ step \in Nat /\ sub \in Nat)'
      BY <2>1, ControlTypes, PTL
    <2> QED
      BY <2>2
  <1>2. /\ marker' \in {"prepared", "committing", "committed"}
        /\ place' \in {"prepare", "valid", "fence", "forward", "reverse", "stage", "sync",
                       "done", "refused", "failed"}
    BY NextCases, PassingFrame, FailingFrame, UserFrame
    DEF Settled, Fail, Fault, Staging, ListMissing, ListBlockers, List, CheckBlocker, NotListed,
        Skip, Frame, vars, Validate, StartCommit, TurnBack, Begin, Merge, FinishStaging, EndCommit,
        SyncOne, Types, TypeOK
  <1> DEFINE Rest == /\ disk' \in [Paths -> Nodes] /\ Foreign' /\ lost' \subseteq touched'
                     /\ gen' \in [Paths -> Nat] /\ touched' \subseteq Paths
                     /\ dirty' \subseteq Dirs \X Nat /\ (\A r, q \in dirty' : r[1] = q[1] => r = q)
                     /\ Tokens'
                     /\ unsynced' \subseteq Paths /\ results' \subseteq Paths
  <1>3. CASE Passing
    <2>1. touched' = touched /\ touched \subseteq Paths
      BY <1>3, PassingFrame DEF Settled, Types, TypeOK
    <2>2. Rest
      BY <1>3, <2>1, PassingTypes
    <2> QED
      BY <1>1, <1>2, <2>2 DEF Types, TypeOK, Dirs
  <1>4. CASE Failing \/ \E killed \in BOOLEAN : Fault(killed)
    <2>1. Rest
      BY <1>4, FailingFrame, FailTypes DEF Types, TypeOK, Dirs
    <2> QED
      BY <1>1, <1>2, <2>1 DEF Types, TypeOK, Dirs
  <1>5. CASE UserStep
    <2>1. Tokens'
      <3>1. {} \in SUBSET Dirs /\ dirty' \subseteq dirty \cup {<<d, IdOf(d)>> : d \in {}}
            /\ \A r \in dirty' : r[1] \in {} => r[2] = IdOf(r[1])
        BY <1>5, UserFrame
      <3>2. guard' \in Dirs \X Nat /\ (guard' # NoToken => guard'[1] \in Paths) /\ tok' = tok
        BY <1>5, UserFrame DEF Types, Tokens
      <3> QED
        BY <1>5, <3>1, <3>2, UserTypes, LedgerTypes
    <2>2. Rest
      BY <1>5, <2>1, UserFrame, UserTypes DEF Types, TypeOK, Dirs
    <2> QED
      BY <1>1, <1>2, <2>2 DEF Types, TypeOK, Dirs
  <1>6. CASE \/ Staging \/ ListMissing \/ ListBlockers \/ CheckBlocker \/ NotListed \/ UNCHANGED vars
    <2>1. /\ UNCHANGED <<disk, gen, tok, guard, results, touched, lost>>
          /\ dirty' \subseteq dirty /\ unsynced' \subseteq unsynced
      BY <1>6 DEF Staging, Validate, StartCommit, TurnBack, Merge, FinishStaging, EndCommit, SyncOne,
                  ListMissing, ListBlockers, List, CheckBlocker, NotListed, Skip, Frame, Settled, vars
    <2>2. Tokens' /\ Foreign'
      BY <2>1 DEF Types, Tokens, Foreign, IdOf
    <2>3. Rest
      BY <2>1, <2>2 DEF Types, TypeOK, Dirs
    <2> QED
      BY <1>1, <1>2, <2>3 DEF Types, TypeOK, Dirs
  <1> QED
    BY <1>3, <1>4, <1>5, <1>6, NextCases

BaseInv == Control /\ Types

LEMMA InitBase == Init => BaseInv
  BY InitControl, InitTypes DEF BaseInv

LEMMA StepBase == BaseInv /\ [Next]_vars => BaseInv'
  BY StepControl, StepTypes DEF BaseInv

(* The types, and with them: the ledger never has two identities for one    *)
(* directory, and what is lost was somebody's.                              *)
THEOREM TypeCorrect == Spec => []TypeOK
  <1>1. BaseInv => TypeOK
    BY DEF BaseInv, Types
  <1> QED
    BY <1>1, InitBase, StepBase, PTL DEF Spec

(***************************************************************************)
(* What users write where the plan expects nothing is not lost.             *)
(***************************************************************************)

(* Which operations are taken where.                                        *)
LEMMA OpPlace ==
  ASSUME Control, NEW op, Doing(op)
  PROVE  /\ Running /\ ahead # {} /\ Op = op
         /\ left = {} => P = Turn /\ op = Ops[step] /\ step \in 1..Len(Ops) /\ sub = 1
         /\ left # {} => P = First(left) /\ op = Inner[sub] /\ sub \in 1..Len(Inner)
         /\ op \in {"target", "open", "close", "unlink", "link", "rename", "symlink", "times", "meta",
                    "rmdir", "dirmeta", "parents", "prune"} => left = {}
         /\ op \in {"open", "close", "unlink", "link", "rename", "symlink", "times", "meta", "mkdir",
                    "parents"} => place = "forward"
         /\ op \in {"rmdir", "dirmeta", "prune", "blocker", "quarantine", "sweep"} => place = "reverse"
         /\ op \in {"blocker", "quarantine", "sweep"} => left # {}
         /\ op \in {"quarantine", "sweep"} => Prunable(P)
  <1>1. Running /\ ahead # {} /\ Op = op /\ InTurn /\ plan \in Scenarios
    BY DEF Doing, Control
  <1>2. CASE left = {}
    <2>1. P = Turn /\ op = Ops[step] /\ step \in 1..Len(Ops) /\ sub = 1
      BY <1>1, <1>2, TurnTrue DEF InTurn, Op
    <2>2. CASE place = "forward"
      <3>1. Ops = ForwardOps(Turn) /\ Turn \in Forward
        BY <1>1, <2>2, TurnTrue DEF Ops
      <3>2. op \notin {"prune", "dirmeta", "rmdir", "blocker", "quarantine", "sweep"}
        BY <1>1, <2>1, <3>1, OpsShape
      <3> QED
        BY <1>1, <1>2, <2>1, <2>2, <3>2
    <2>3. CASE place = "reverse"
      <3>1. Ops = SecondOps(Turn) /\ Turn \in Second
        BY <1>1, <2>3, TurnTrue DEF Ops
      <3>2. op \in {"target", "prune", "prepare", "rmdir", "dirmeta"}
        BY <1>1, <2>1, <3>1, OpsShape
      <3> QED
        BY <1>1, <1>2, <2>1, <2>3, <3>2
    <2> QED
      BY <1>1, <2>2, <2>3 DEF Running
  <1>3. CASE left # {}
    <2>1. P = First(left) /\ op = Inner[sub] /\ sub \in 1..Len(Inner)
      BY <1>1, <1>3, TurnTrue DEF InTurn, Op
    <2>2. CASE place = "forward"
      <3>1. op \in {"prepare", "mkdir"}
        BY <2>1, <2>2 DEF Inner
      <3> QED
        BY <1>1, <1>3, <2>1, <2>2, <3>1
    <2>3. CASE place = "reverse"
      <3>1. op \in {"blocker", "quarantine", "sweep"} /\ (op # "blocker" => sub > 1)
        BY <2>1, <2>3 DEF Inner
      <3>2. op # "blocker" => Prunable(P)
        BY <1>1, <1>3, <2>1, <2>3, <3>1 DEF InTurn
      <3> QED
        BY <1>1, <1>3, <2>1, <2>3, <3>1, <3>2
    <2> QED
      BY <1>1, <2>2, <2>3 DEF Running
  <1> QED
    BY <1>1, <1>2, <1>3

(* Only what the plan had there is unlinked or replaced.                    *)
LEMMA ReplacesKnown ==
  ASSUME plan \in Scenarios, NEW p \in Forward, NEW i \in 1..Len(ForwardOps(p)),
         ForwardOps(p)[i] \in {"unlink", "rename"}
  PROVE  Exists(From(p))
  <1> DEFINE o == ForwardOps(p)
  <1>1. \/ Exists(From(p))
        \/ o = <<"parents", "open", "link", "close">>
        \/ o = <<"target", "meta">>
        \/ o = <<"parents", "prepare", "symlink", "prepare", "times">>
        \/ o = <<"parents", "prepare", "mkdir">>
    BY ForwardShape
  <1>2. o[i] \in {"unlink", "rename"} /\ i \in 1..Len(o)
    OBVIOUS
  <1> HIDE DEF o
  <1> QED
    BY <1>1, <1>2

LEMMA LossesKnown ==
  ASSUME BaseInv, Passing, NEW p \in lost' \ lost
  PROVE  p \in Paths /\ (Exists(From(p)) \/ \E a \in Ancestry[p] : Prunable(a))
  <1>1. /\ Control /\ Types /\ ahead # {} /\ P \in Paths /\ plan \in Scenarios
        /\ disk \in [Paths -> Nodes] /\ Foreign
    BY PassingFrame, TurnTrue DEF BaseInv, Types, TypeOK, Control
  <1>2. CASE Unlink \/ PublishOver
    <2>1. p = P
      BY <1>2 DEF Unlink, PublishOver, Mutate, Destroyed
    <2>2. PICK op \in {"unlink", "rename"} : Doing(op)
      BY <1>2 DEF Unlink, PublishOver
    <2>3. P = Turn /\ place = "forward" /\ step \in 1..Len(Ops) /\ Ops[step] = op
      BY <1>1, <2>2, OpPlace
    <2>4. Turn \in Forward /\ Ops = ForwardOps(Turn)
      BY <1>1, <2>3, TurnTrue DEF Ops
    <2>5. Exists(From(Turn))
      BY <1>1, <2>3, <2>4, ReplacesKnown
    <2> QED
      BY <1>1, <2>1, <2>3, <2>5
  <1>3. CASE PublishNew \/ Symlink \/ MakeDir \/ LinkTimes
    <2>1. p \in Destroyed
      BY <1>3 DEF PublishNew, Symlink, MakeDir, LinkTimes, Mutate
    <2>2. ~Exists(disk[P]) \/ disk[P].kind = "link"
      BY <1>3 DEF PublishNew, Symlink, MakeDir, LinkTimes
    <2>3. disk[P].ver = "user" => disk[P].kind = "file"
      BY <1>1 DEF Foreign
    <2> QED
      BY <2>1, <2>2, <2>3 DEF Destroyed
  <1>4. CASE Sweep
    <2>1. p \in {P} \cup Descendants(P)
      BY <1>4 DEF Sweep
    <2>2. P \in Ancestry[p] /\ p \in Paths
      BY <1>1, <2>1, SelfAncestry DEF Descendants, Below
    <2>3. Prunable(P)
      BY <1>1, <1>4, OpPlace DEF Sweep
    <2> QED
      BY <2>2, <2>3
  <1>5. CASE ~(Unlink \/ PublishOver \/ PublishNew \/ Symlink \/ MakeDir \/ LinkTimes \/ Sweep)
    <2>1. lost' = lost
      BY <1>5 DEF Passing, CheckTarget, Pass, PrepareParent, OpenParent, CloseParent, RemoveDir,
                  UpdateMeta, UpdateDirMeta, Quarantine
    <2> QED
      BY <2>1
  <1> QED
    BY <1>2, <1>3, <1>4, <1>5

LEMMA PlanKept ==
  ASSUME [Next]_vars
  PROVE  plan' = plan
  BY NextCases, PassingFrame, FailingFrame, UserFrame
  DEF Settled, Fail, Fault, Staging, ListMissing, ListBlockers, List, CheckBlocker, NotListed,
      Skip, Frame, vars, Validate, StartCommit, TurnBack, Merge, FinishStaging, EndCommit, SyncOne

LEMMA StepLost ==
  ASSUME BaseInv, NothingNewLost, [Next]_vars
  PROVE  NothingNewLost'
  <1>1. Passing \/ lost' = lost
    BY NextCases, FailingFrame, UserFrame
    DEF Fail, Fault, Staging, ListMissing, ListBlockers, List, CheckBlocker, NotListed, Skip, vars,
        Validate, StartCommit, TurnBack, Merge, FinishStaging, EndCommit, SyncOne
  <1>2. \A p \in lost' : p \in Paths /\ (Exists(From(p)) \/ \E a \in Ancestry[p] : Prunable(a))
    BY <1>1, LossesKnown DEF NothingNewLost, BaseInv, Types, TypeOK
  <1>3. \A p \in Paths : From(p)' = From(p) /\ Prunable(p)' = Prunable(p)
    BY PlanKept, SamePlan
  <1>4. \A p \in Paths : Ancestry[p] \subseteq Paths
    BY DEF Ancestry
  <1> QED
    BY <1>2, <1>3, <1>4 DEF NothingNewLost

(* linkat, mkdirat, symlinkat and the removal of a directory refuse a name  *)
(* that is taken: so whatever a user puts where the plan expects nothing    *)
(* stays, at whatever moment of whatever commit it comes, unless policy     *)
(* lets it be pruned.                                                       *)
THEOREM NewFilesStay == Spec => []NothingNewLost
  <1>1. Init => NothingNewLost
    BY DEF Init, NothingNewLost
  <1>2. BaseInv /\ NothingNewLost /\ [Next]_vars => NothingNewLost'
    BY StepLost
  <1> QED
    BY <1>1, <1>2, InitBase, StepBase, PTL DEF Spec

(***************************************************************************)
(* The local results, as the passes go on.                                  *)
(***************************************************************************)

Assigning == {"link", "rename", "times", "meta", "dirmeta"}

(* The operation of a turn that assigns the result of the change: a file    *)
(* published has a parent to close after it.                                *)
LEMMA AssignShape ==
  ASSUME plan \in Scenarios
  PROVE  /\ \A p \in Forward : \A i \in 1..Len(ForwardOps(p)) :
              ForwardOps(p)[i] \in Assigning <=>
                p \in Expected /\ ~IsDir(To(p)) /\ i = IF HasDetail(p) THEN Len(ForwardOps(p)) - 1 ELSE Len(ForwardOps(p))
         /\ \A p \in Second : \A i \in 1..Len(SecondOps(p)) :
              SecondOps(p)[i] \in Assigning <=> p \in Expected /\ i = Len(SecondOps(p))
  <1>1. ASSUME NEW p \in Forward, NEW i \in 1..Len(ForwardOps(p))
        PROVE  ForwardOps(p)[i] \in Assigning <=>
                 p \in Expected /\ ~IsDir(To(p)) /\ i = IF HasDetail(p) THEN Len(ForwardOps(p)) - 1 ELSE Len(ForwardOps(p))
    <2> DEFINE o == ForwardOps(p)  want == p \in Expected /\ ~IsDir(To(p))  detail == HasDetail(p)
    <2>1. \/ ~want /\ o = <<"target", "prepare", "unlink">>
          \/ want /\ detail /\ o = <<"parents", "target", "open", "rename", "close">>
          \/ want /\ detail /\ o = <<"parents", "open", "link", "close">>
          \/ want /\ ~detail /\ o = <<"target", "meta">>
          \/ want /\ ~detail /\ o = <<"target", "prepare", "unlink", "prepare", "symlink", "prepare", "times">>
          \/ want /\ ~detail /\ o = <<"parents", "prepare", "symlink", "prepare", "times">>
          \/ ~want /\ o = <<"target", "prepare", "unlink", "prepare", "mkdir">>
          \/ ~want /\ o = <<"parents", "prepare", "mkdir">>
      BY ForwardShape, NodeForms DEF Expected, HasDetail, IsDir, Exists, Kinds, Versions
    <2>2. i \in 1..Len(o)
      OBVIOUS
    <2> HIDE DEF o, want, detail
    <2>3. o[i] \in Assigning <=> want /\ i = IF detail THEN Len(o) - 1 ELSE Len(o)
      <3>1. CASE ~want /\ o = <<"target", "prepare", "unlink">>
        BY <2>2, <3>1 DEF Assigning
      <3>2. CASE want /\ detail /\ o = <<"parents", "target", "open", "rename", "close">>
        BY <2>2, <3>2 DEF Assigning
      <3>3. CASE want /\ detail /\ o = <<"parents", "open", "link", "close">>
        BY <2>2, <3>3 DEF Assigning
      <3>4. CASE want /\ ~detail /\ o = <<"target", "meta">>
        BY <2>2, <3>4 DEF Assigning
      <3>5. CASE want /\ ~detail /\ o = <<"target", "prepare", "unlink", "prepare", "symlink", "prepare", "times">>
        BY <2>2, <3>5 DEF Assigning
      <3>6. CASE want /\ ~detail /\ o = <<"parents", "prepare", "symlink", "prepare", "times">>
        BY <2>2, <3>6 DEF Assigning
      <3>7. CASE ~want /\ o = <<"target", "prepare", "unlink", "prepare", "mkdir">>
        BY <2>2, <3>7 DEF Assigning
      <3>8. CASE ~want /\ o = <<"parents", "prepare", "mkdir">>
        BY <2>2, <3>8 DEF Assigning
      <3> QED
        BY <2>1, <3>1, <3>2, <3>3, <3>4, <3>5, <3>6, <3>7, <3>8
    <2> QED
      BY <2>3 DEF o, want, detail
  <1>2. ASSUME NEW p \in Second, NEW i \in 1..Len(SecondOps(p))
        PROVE  SecondOps(p)[i] \in Assigning <=> p \in Expected /\ i = Len(SecondOps(p))
    <2> DEFINE o == SecondOps(p)  want == p \in Expected
    <2>1. \/ ~want /\ o = <<"target", "prune", "prepare", "rmdir">>
          \/ want /\ o = <<"target", "dirmeta">>
          \/ want /\ o = <<"dirmeta">>
      BY SecondShape, NodeForms DEF Expected, IsDir, Exists
    <2>2. i \in 1..Len(o)
      OBVIOUS
    <2> HIDE DEF o, want
    <2>3. o[i] \in Assigning <=> want /\ i = Len(o)
      <3>1. CASE ~want /\ o = <<"target", "prune", "prepare", "rmdir">>
        BY <2>2, <3>1 DEF Assigning
      <3>2. CASE want /\ o = <<"target", "dirmeta">>
        BY <2>2, <3>2 DEF Assigning
      <3>3. CASE want /\ o = <<"dirmeta">>
        BY <2>2, <3>3 DEF Assigning
      <3> QED
        BY <2>1, <3>1, <3>2, <3>3
    <2> QED
      BY <2>3 DEF o, want
  <1> QED
    BY <1>1, <1>2

(* A change has its result once its turn, or that operation of it, is over: *)
(* a directory in the second pass, all others in the first.                 *)
Listed(p) ==
  IF place = "forward"
  THEN ~IsDir(To(p)) /\ (p \notin ahead \/ (p = Turn /\ HasDetail(p) /\ step = Len(Ops)))
  ELSE ~IsDir(To(p)) \/ p \notin ahead
ResultsInv ==
  /\ place \in {"prepare", "valid", "fence"} => results = {}
  /\ Running => results = {p \in Expected : Listed(p)}

LEMMA PassingResults ==
  ASSUME BaseInv, Passing
  PROVE  /\ Op \in Assigning => results' = results \cup {P}
         /\ Op \notin Assigning => results' = results
         /\ left # {} => Op \notin Assigning
         /\ left = {} => P = Turn /\ Op = Ops[step] /\ step \in 1..Len(Ops)
  <1>1. /\ Op \in Assigning => results' = results \cup {P}
        /\ Op \notin Assigning => results' = results
    BY DEF Passing, CheckTarget, Pass, PrepareParent, OpenParent, CloseParent, Unlink, PublishNew,
           PublishOver, Symlink, LinkTimes, MakeDir, RemoveDir, UpdateMeta, UpdateDirMeta,
           Quarantine, Sweep, Assign, Assigning, Doing
  <1>2. Doing(Op) /\ Control
    BY PassingFrame DEF Doing, BaseInv
  <1>3. left # {} => Op \notin Assigning
    BY <1>2, OpPlace DEF Assigning
  <1>4. left = {} => P = Turn /\ Op = Ops[step] /\ step \in 1..Len(Ops)
    BY <1>2, OpPlace
  <1> QED
    BY <1>1, <1>3, <1>4

LEMMA PassingListed ==
  ASSUME BaseInv, ResultsInv, Passing
  PROVE  results' = {p \in Expected : Listed(p)'}
  <1>1. /\ Control /\ Running /\ ahead # {} /\ Over /\ plan' = plan /\ place' = place
        /\ plan \in Scenarios /\ Turn \in ahead /\ Turn \in Paths
    BY PassingFrame, TurnTrue DEF Settled, BaseInv, Control
  <1>2. results = {p \in Expected : Listed(p)}
    BY <1>1 DEF ResultsInv
  <1>3. \A p \in Expected : p \in Paths /\ To(p)' = To(p) /\ HasDetail(p)' = HasDetail(p)
    BY <1>1, SamePlan DEF Expected
  <1>4. CASE left # {} \/ step # Len(Ops)
    <2>1. ahead' = ahead /\ Turn' = Turn /\ Ops' = Ops
      <3>1. ahead' = ahead
        BY <1>1, <1>4 DEF Over
      <3>2. Turn' = Turn
        BY <1>1, <3>1 DEF Turn
      <3> QED
        BY <1>1, <3>1, <3>2, SamePlan DEF Ops
    <2>2. CASE left # {}
      <3>1. step' = step /\ results' = results
        BY <1>1, <2>2, PassingResults DEF Over
      <3>2. \A p \in Expected : Listed(p)' <=> Listed(p)
        BY <1>1, <1>3, <2>1, <3>1 DEF Listed
      <3> QED
        BY <1>2, <3>1, <3>2
    <2>3. CASE left = {}
      <3>1. step' = step + 1 /\ P = Turn /\ Op = Ops[step] /\ step \in 1..Len(Ops) /\ step # Len(Ops)
        BY <1>1, <1>4, <2>3, PassingResults DEF Over
      <3>2. CASE place = "forward"
        <4>1. Turn \in Forward /\ Ops = ForwardOps(Turn) /\ Len(Ops) \in 2..7
          BY <1>1, <3>2, TurnTrue, OpsShape DEF Ops
        <4>2. Op \in Assigning <=> Turn \in Expected /\ ~IsDir(To(Turn)) /\ HasDetail(Turn) /\ step = Len(Ops) - 1
          BY <1>1, <3>1, <4>1, AssignShape
        <4>3. \A p \in Expected : Listed(p)' <=> Listed(p) \/ (p = Turn /\ Op \in Assigning)
          BY <1>1, <1>3, <2>1, <3>1, <3>2, <4>1, <4>2 DEF Listed
        <4>4. Op \in Assigning => Turn \in Expected
          BY <4>2
        <4> QED
          BY <1>2, <3>1, <4>3, <4>4, PassingResults
      <3>3. CASE place = "reverse"
        <4>1. Turn \in Second /\ Ops = SecondOps(Turn)
          BY <1>1, <3>3, TurnTrue DEF Ops
        <4>2. Op \notin Assigning
          BY <1>1, <3>1, <4>1, AssignShape
        <4>3. \A p \in Expected : Listed(p)' <=> Listed(p)
          BY <1>1, <1>3, <2>1, <3>3 DEF Listed
        <4> QED
          BY <1>2, <4>2, <4>3, PassingResults
      <3> QED
        BY <1>1, <3>2, <3>3 DEF Running
    <2> QED
      BY <2>2, <2>3
  <1>5. CASE left = {} /\ step = Len(Ops)
    <2>1. ahead' = ahead \ {Turn} /\ step' = 1 /\ P = Turn /\ Op = Ops[step] /\ step \in 1..Len(Ops)
      BY <1>1, <1>5, PassingResults DEF Over
    <2>2. CASE place = "forward"
      <3>1. Turn \in Forward /\ Ops = ForwardOps(Turn) /\ Len(Ops) \in 2..7
        BY <1>1, <2>2, TurnTrue, OpsShape DEF Ops
      <3>2. Op \in Assigning <=> Turn \in Expected /\ ~IsDir(To(Turn)) /\ ~HasDetail(Turn)
        BY <1>1, <1>5, <2>1, <3>1, AssignShape
      <3>3. ASSUME NEW p \in Expected, p = Turn', p \in ahead' PROVE Len(Ops') # 1
        <4>1. p \in Forward /\ p \in Paths
          BY <1>1, <1>3, <2>1, <2>2, <3>3 DEF Control
        <4>2. Ops' = ForwardOps(p)
          BY <1>1, <2>2, <3>3, <4>1, SamePlan DEF Ops
        <4> QED
          BY <1>1, <4>1, <4>2, OpsShape
      <3>4. \A p \in Expected : Listed(p)' <=> Listed(p) \/ (p = Turn /\ Op \in Assigning)
        <4> TAKE p \in Expected
        <4>1. Listed(p)' <=> ~IsDir(To(p)) /\ p \notin ahead'
          BY <1>1, <1>3, <2>1, <2>2, <3>3 DEF Listed
        <4>2. Listed(p) <=> ~IsDir(To(p)) /\ (p \notin ahead \/ (p = Turn /\ HasDetail(p)))
          BY <1>5, <2>2 DEF Listed
        <4> QED
          BY <1>1, <2>1, <3>2, <4>1, <4>2
      <3>5. Op \in Assigning => Turn \in Expected
        BY <3>2
      <3> QED
        BY <1>2, <2>1, <3>4, <3>5, PassingResults
    <2>3. CASE place = "reverse"
      <3>1. Turn \in Second /\ Ops = SecondOps(Turn)
        BY <1>1, <2>3, TurnTrue DEF Ops
      <3>2. Op \in Assigning <=> Turn \in Expected
        BY <1>1, <1>5, <2>1, <3>1, AssignShape
      <3>3. \A p \in Expected : Listed(p)' <=> Listed(p) \/ p = Turn
        BY <1>1, <1>3, <2>1, <2>3 DEF Listed
      <3> QED
        BY <1>2, <2>1, <3>2, <3>3, PassingResults
    <2> QED
      BY <1>1, <2>2, <2>3 DEF Running
  <1> QED
    BY <1>4, <1>5

LEMMA DetailLength ==
  ASSUME plan \in Scenarios, NEW p \in Forward, HasDetail(p)
  PROVE  Len(ForwardOps(p)) \in {4, 5}
  BY ForwardShape DEF HasDetail, Absent, Leaf, IsDir

(* The steps within the passes that end no operation.                       *)
LEMMA InnerListed ==
  ASSUME BaseInv, Running, ahead # {},
         ListMissing \/ ListBlockers \/ CheckBlocker \/ NotListed
  PROVE  \A p \in Expected : Listed(p)' <=> Listed(p)
  <1>1. Control /\ plan \in Scenarios
    BY DEF BaseInv, Control
  <1>2. UNCHANGED <<plan, place, ahead>>
    BY DEF ListMissing, ListBlockers, CheckBlocker, NotListed, List, Skip, Frame, Settled
  <1>3. Turn' = Turn /\ Ops' = Ops
    BY <1>1, <1>2, TurnTrue, SamePlan DEF Turn, Ops
  <1>4. \A p \in Expected : To(p)' = To(p) /\ HasDetail(p)' = HasDetail(p)
    BY <1>2, SamePlan DEF Expected
  <1>5. CASE place = "reverse"
    BY <1>2, <1>4, <1>5 DEF Listed
  <1>6. CASE place = "forward"
    <2>1. ListMissing
      <3>1. \A op \in {"prune", "blocker"} : ~Doing(op)
        BY <1>1, <1>6, OpPlace
      <3> QED
        BY <3>1 DEF ListBlockers, CheckBlocker, NotListed
    <2>2. Doing("parents") /\ step' = step + 1
      BY <2>1 DEF ListMissing, List
    <2>3. left = {} /\ Ops[step] = "parents" /\ step \in 1..Len(Ops)
      BY <1>1, <2>2, OpPlace
    <2>4. Turn \in Forward /\ Ops = ForwardOps(Turn)
      BY <1>1, <1>6, TurnTrue DEF Ops
    <2>5. step = 1
      BY <1>1, <2>3, <2>4, OpsShape
    <2>6. HasDetail(Turn) => Len(Ops) \in {4, 5}
      BY <1>1, <2>4, DetailLength
    <2> QED
      BY <1>2, <1>3, <1>4, <1>6, <2>2, <2>5, <2>6 DEF Listed
  <1> QED
    BY <1>5, <1>6 DEF Running

LEMMA StagingResults ==
  ASSUME BaseInv, ResultsInv, Staging
  PROVE  ResultsInv'
  <1>1. Control /\ plan \in Scenarios /\ plan' = plan /\ results' = results
    BY DEF BaseInv, Control, Staging, Validate, StartCommit, TurnBack, Merge, FinishStaging,
           EndCommit, SyncOne
  <1>2. Expected' = Expected /\ \A p \in Expected : p \in Paths /\ To(p)' = To(p) /\ HasDetail(p)' = HasDetail(p)
    BY <1>1, SamePlan DEF Expected
  <1>3. CASE StartCommit
    <2>1. place' = "forward" /\ ahead' = Forward /\ step' = 1 /\ results = {}
      BY <1>1, <1>3 DEF StartCommit, Begin, Control, ResultsInv
    <2>2. ASSUME NEW p \in Expected PROVE ~Listed(p)'
      <3>1. ~IsDir(To(p)) => p \in Forward
        BY <1>1, <1>2, <2>2, PlanNodes, Turns DEF Expected, Exists, IsDir, Absent
      <3>2. CASE p = Turn' /\ HasDetail(p) /\ p \in Forward
        <4>1. Ops' = ForwardOps(p)
          BY <1>1, <2>1, <3>2, SamePlan, Turns DEF Ops, Forward
        <4>2. Len(Ops') \in {4, 5}
          BY <1>1, <3>2, <4>1, DetailLength
        <4> QED
          BY <1>2, <2>1, <3>1, <4>2 DEF Listed
      <3>3. CASE ~(p = Turn' /\ HasDetail(p) /\ p \in Forward)
        BY <1>2, <2>1, <3>1, <3>3 DEF Listed
      <3> QED
        BY <3>2, <3>3
    <2> QED
      BY <1>1, <1>2, <2>1, <2>2 DEF ResultsInv
  <1>4. CASE TurnBack
    <2>1. place = "forward" /\ ahead = {} /\ place' = "reverse" /\ ahead' = Second
      BY <1>4 DEF TurnBack, Begin
    <2>2. ASSUME NEW p \in Expected PROVE Listed(p)' <=> Listed(p)
      <3>1. Listed(p) <=> ~IsDir(To(p))
        BY <2>1 DEF Listed
      <3>2. IsDir(To(p)) => p \in Second
        BY <1>1, <1>2, Turns DEF Expected
      <3> QED
        BY <1>2, <2>1, <3>1, <3>2 DEF Listed
    <2> QED
      BY <1>1, <1>2, <2>1, <2>2 DEF ResultsInv, Running
  <1>5. CASE ~(StartCommit \/ TurnBack)
    <2>1. \/ place \in {"prepare", "valid"} /\ place' \in {"valid", "fence"}
          \/ place' \in {"stage", "sync", "done"}
      BY <1>5 DEF Staging, Validate, Merge, FinishStaging, EndCommit, SyncOne
    <2> QED
      BY <1>1, <2>1 DEF ResultsInv, Running
  <1> QED
    BY <1>3, <1>4, <1>5

LEMMA StepResults ==
  ASSUME BaseInv, ResultsInv, [Next]_vars
  PROVE  ResultsInv'
  <1>1. plan' = plan /\ Control /\ Expected' = Expected
        /\ \A p \in Expected : p \in Paths /\ To(p)' = To(p) /\ HasDetail(p)' = HasDetail(p)
    BY PlanKept, SamePlan DEF BaseInv, Expected
  <1>2. CASE Passing
    BY <1>1, <1>2, PassingListed, PassingFrame DEF ResultsInv, Settled, Running
  <1>3. CASE ListMissing \/ ListBlockers \/ CheckBlocker \/ NotListed
    <2>1. UNCHANGED <<place, results>> /\ Running /\ ahead # {}
      BY <1>3 DEF ListMissing, ListBlockers, CheckBlocker, NotListed, List, Skip, Frame, Settled,
                  Doing
    <2> QED
      BY <1>1, <1>3, <2>1, InnerListed DEF ResultsInv, Running
  <1>4. CASE Staging
    BY <1>4, StagingResults
  <1>5. CASE Failing \/ \E killed \in BOOLEAN : Fault(killed)
    <2>1. place' \in {"refused", "failed"}
      BY <1>5, FailingFrame DEF Fail, Fault
    <2> QED
      BY <2>1 DEF ResultsInv, Running
  <1>6. CASE UserStep \/ UNCHANGED vars
    <2>1. UNCHANGED <<place, ahead, step, results>>
      BY <1>6, UserFrame DEF vars, work
    <2>2. Turn' = Turn /\ (ahead # {} => Ops' = Ops)
      <3>1. Turn' = Turn
        BY <2>1 DEF Turn
      <3> QED
        BY <1>1, <2>1, <3>1, TurnTrue, SamePlan DEF Ops
    <2>3. \A p \in Expected : Listed(p)' <=> Listed(p)
      BY <1>1, <2>1, <2>2, TurnTrue DEF Listed
    <2> QED
      BY <1>1, <2>1, <2>3 DEF ResultsInv, Running
  <1> QED
    BY <1>2, <1>3, <1>4, <1>5, <1>6, NextCases

(* When the passes are over, every entry added or modified has its result,  *)
(* none has it twice and nothing else has one: the merge of the manifest,   *)
(* which comes too late to undo anything, never fails.                      *)
THEOREM Manifest == Spec => []ManifestComplete
  <1>1. Init => ResultsInv
    BY DEF Init, ResultsInv, Running
  <1>2. BaseInv /\ ResultsInv => ManifestComplete
    BY DEF ResultsInv, Running, ManifestComplete, Listed
  <1> QED
    BY <1>1, <1>2, StepResults, InitBase, StepBase, PTL DEF Spec

(***************************************************************************)
(* What a power loss cannot undo.                                           *)
(***************************************************************************)

(* Every entry whose directory was not synced since it changed is covered   *)
(* by a record of the ledger, under whatever identity.                      *)
LedgerCovers == \A p \in unsynced : \E r \in dirty : r[1] = Parent[p]

(* After the transition to committed there is nothing left to do.           *)
CommittedAtEnd == marker = "committed" => place = "done" /\ unsynced = {}

DurableInv == LedgerCovers /\ CommittedAtEnd

LEMMA InitDurable == Init => DurableInv
  BY DEF Init, DurableInv, LedgerCovers, CommittedAtEnd

(* A step that leaves the ledger alone and does not end the commit.         *)
LEMMA SameLedger ==
  ASSUME DurableInv, UNCHANGED <<dirty, unsynced>>, marker' # "committed"
  PROVE  DurableInv'
  BY DEF DurableInv, LedgerCovers, CommittedAtEnd

(* An entry is covered by a record of the next state, or was covered by one *)
(* that is kept.                                                            *)
LEMMA Recording ==
  ASSUME DurableInv, marker' # "committed",
         \A p \in unsynced' :
           \/ \E r \in dirty' : r[1] = Parent[p]
           \/ p \in unsynced /\ \A r \in dirty : r[1] = Parent[p] => r \in dirty'
  PROVE  DurableInv'
  BY DEF DurableInv, LedgerCovers, CommittedAtEnd

(* While anything is still to be done the marker is not at committed.       *)
LEMMA NotYetCommitted ==
  ASSUME DurableInv, place # "done"
  PROVE  marker # "committed"
  BY DEF DurableInv, CommittedAtEnd

LEMMA FailDurable ==
  ASSUME DurableInv, Fail, place # "done"
  PROVE  DurableInv'
  <1>1. UNCHANGED <<dirty, unsynced, marker>>
    BY DEF Fail
  <1> QED
    BY <1>1, NotYetCommitted, SameLedger

(* A namespace change through the token.                                    *)
LEMMA MutateDurable ==
  ASSUME NEW n, DurableInv, Mutate(n), Running
  PROVE  DurableInv'
  <1>1. marker' # "committed"
    BY NotYetCommitted DEF Mutate, Frame, Settled, Running
  <1>2. /\ dirty' = dirty \cup {tok}
        /\ unsynced' = unsynced \cup {P}
        /\ tok[1] = Parent[P]
    BY DEF Mutate, Arm, TokenHolds
  <1> QED
    BY <1>1, <1>2, Recording

(* The steps that touch neither ledger nor marker, or that end in Fail.     *)
LEMMA QuietDurable ==
  ASSUME DurableInv,
         \/ Validate \/ Refuse \/ StartCommit
         \/ TurnBack \/ CheckTarget \/ TargetGone \/ ListMissing \/ PrepareParent \/ ParentGone
         \/ OpenParent \/ CloseParent \/ CloseFails
         \/ MutationFails \/ UpdateMeta \/ MetaFails
         \/ ListBlockers \/ CheckBlocker \/ NotListed \/ BlockerStays \/ PruneFails
         \/ Merge \/ SyncFails
         \/ \E killed \in BOOLEAN : Fault(killed)
         \/ \E p \in Paths : UserWrite(p) \/ UserRemove(p) \/ UserSwap(p) \/ UserChmod(p)
  PROVE  DurableInv'
  <1>1. CASE \/ Refuse \/ TargetGone \/ ParentGone \/ CloseFails \/ MutationFails \/ MetaFails
             \/ BlockerStays \/ PruneFails \/ SyncFails
    <2>1. Fail /\ place # "done"
      BY <1>1 DEF Refuse, TargetGone, ParentGone, CloseFails, MutationFails, MetaFails,
                  BlockerStays, PruneFails, SyncFails, Doing, Running
    <2> QED
      BY <2>1, FailDurable
  <1>2. CASE \/ Validate \/ StartCommit \/ TurnBack \/ Merge \/ \E killed \in BOOLEAN : Fault(killed)
             \/ \E p \in Paths : UserWrite(p) \/ UserRemove(p) \/ UserSwap(p) \/ UserChmod(p)
    <2>1. UNCHANGED <<dirty, unsynced>> /\ place # "done"
      BY <1>2 DEF Validate, StartCommit, TurnBack, Merge, Fault, UserWrite, UserRemove, UserSwap,
                  UserChmod, Edit
    <2>2. marker' \in {marker, "committing"}
      BY <1>2 DEF Validate, StartCommit, TurnBack, Merge, Fault, UserWrite, UserRemove, UserSwap,
                  UserChmod, Edit
    <2> QED
      BY <2>1, <2>2, NotYetCommitted, SameLedger
  <1>3. CASE \/ CheckTarget \/ ListMissing \/ PrepareParent \/ OpenParent \/ CloseParent
             \/ UpdateMeta \/ ListBlockers \/ CheckBlocker \/ NotListed
    <2>1. UNCHANGED <<dirty, unsynced, marker>> /\ place # "done"
      BY <1>3 DEF CheckTarget, ListMissing, PrepareParent, OpenParent, CloseParent, UpdateMeta,
                  ListBlockers, CheckBlocker, NotListed, List, Doing, Running, Pass, Skip,
                  Frame, Settled
    <2> QED
      BY <2>1, NotYetCommitted, SameLedger
  <1> QED
    BY <1>1, <1>2, <1>3

(* The steps of the passes that change the ledger.                          *)
LEMMA PassDurable ==
  ASSUME DurableInv,
         \/ Unlink \/ PublishNew \/ PublishOver \/ Symlink \/ LinkTimes \/ MakeDir
         \/ RemoveDir \/ UpdateDirMeta \/ Quarantine \/ Sweep
  PROVE  DurableInv'
  <1>1. Running /\ marker' = marker
    BY DEF Unlink, PublishNew, PublishOver, Symlink, LinkTimes, MakeDir, RemoveDir,
           UpdateDirMeta, Quarantine, Sweep, Mutate, Doing, Frame, Settled
  <1>2. marker' # "committed"
    BY <1>1, NotYetCommitted DEF Running
  <1>3. CASE Unlink \/ PublishNew \/ PublishOver \/ Symlink \/ LinkTimes \/ MakeDir
    <2>1. PICK n : Mutate(n)
      BY <1>3 DEF Unlink, PublishNew, PublishOver, Symlink, LinkTimes, MakeDir
    <2> QED
      BY <2>1, <1>1, MutateDurable
  <1>4. CASE RemoveDir
    <2>1. /\ dirty' = {r \in dirty : r[1] # P} \cup {tok}
          /\ unsynced' = (unsynced \ EntriesOf(P)) \cup {P}
          /\ tok[1] = Parent[P]
      BY <1>4 DEF RemoveDir, TokenHolds
    <2> QED
      BY <2>1, <1>2, Recording DEF EntriesOf
  <1>5. CASE Quarantine
    <2> DEFINE rec == <<Parent[P], IdOf(Parent[P])>>
    <2>1. /\ dirty' = {r \in dirty : r[1] # P} \cup {rec}
          /\ unsynced' = (unsynced \ EntriesOf(P)) \cup {P}
      BY <1>5 DEF Quarantine
    <2>2. rec[1] = Parent[P]
      OBVIOUS
    <2> HIDE DEF rec
    <2> QED
      BY <2>1, <2>2, <1>2, Recording DEF EntriesOf
  <1>6. CASE Sweep
    <2> DEFINE rec == <<Parent[P], IdOf(Parent[P])>>
    <2>1. dirty' = dirty \cup {rec} /\ unsynced' \subseteq unsynced \cup {P}
      BY <1>6 DEF Sweep
    <2>2. rec[1] = Parent[P]
      OBVIOUS
    <2> HIDE DEF rec
    <2> QED
      BY <2>1, <2>2, <1>2, Recording
  <1>7. CASE UpdateDirMeta
    <2>1. /\ dirty' = {r \in dirty : r[1] # P}
          /\ unsynced' = unsynced \ EntriesOf(P)
      BY <1>7 DEF UpdateDirMeta
    <2> QED
      BY <2>1, <1>2, Recording DEF EntriesOf
  <1> QED
    BY <1>3, <1>4, <1>5, <1>6, <1>7

(* The syncs at the end of the commit.                                      *)
LEMMA SyncDurable ==
  ASSUME DurableInv, FinishStaging \/ \E r \in dirty : SyncOne(r)
  PROVE  DurableInv'
  <1>1. marker' = marker /\ marker # "committed"
    BY NotYetCommitted DEF FinishStaging, SyncOne
  <1>2. CASE FinishStaging /\ UNCHANGED <<unsynced, dirty>>
    BY <1>1, <1>2, SameLedger
  <1>3. CASE FinishStaging /\ ~UNCHANGED <<unsynced, dirty>>
    <2>1. /\ dirty' = {r \in dirty : r[1] # Root}
          /\ unsynced' = unsynced \ EntriesOf(Root)
      BY <1>3 DEF FinishStaging
    <2> QED
      BY <2>1, <1>1, Recording DEF EntriesOf
  <1>4. ASSUME NEW r \in dirty, SyncOne(r)
        PROVE  DurableInv'
    <2>1. /\ dirty' = dirty \ {r}
          /\ unsynced' = unsynced \ EntriesOf(r[1])
      BY <1>4 DEF SyncOne
    <2> QED
      BY <2>1, <1>1 DEF DurableInv, LedgerCovers, CommittedAtEnd, EntriesOf
  <1> QED
    BY <1>2, <1>3, <1>4

(* Committed is only said when the ledger is empty, and then it covers      *)
(* nothing: whatever the commit changed has been synced.                    *)
LEMMA EndDurable ==
  ASSUME DurableInv, EndCommit
  PROVE  DurableInv'
  BY DEF DurableInv, LedgerCovers, CommittedAtEnd, EndCommit

LEMMA StepDurable ==
  ASSUME DurableInv, [Next]_vars
  PROVE  DurableInv'
  <1>1. CASE UNCHANGED vars
    BY <1>1 DEF vars, DurableInv, LedgerCovers, CommittedAtEnd
  <1>2. CASE Next
    BY <1>2, QuietDurable, PassDurable, SyncDurable, EndDurable DEF Next
  <1> QED
    BY <1>1, <1>2

(* complete_apply_phase says committed only after sync_remaining: when it   *)
(* does, no directory entry the commit changed could still be undone by a   *)
(* power loss, whatever users and failures did in between.                  *)
THEOREM CommittedDurable == Spec => []CommittedIsDurable
  <1>1. DurableInv => CommittedIsDurable
    BY DEF DurableInv, CommittedAtEnd, CommittedIsDurable
  <1> QED
    BY <1>1, InitDurable, StepDurable, PTL DEF Spec
-----------------------------------------------------------------------------
(* A path the invariant speaks of: nobody else changed it, and no policy    *)
(* lets it go.                                                              *)
Kept(p) == p \in Paths \ touched /\ ~Stray(p)

(* What the first pass leaves of a change.                                  *)
Forwarded(p) ==
  IF ~Changed(p) \/ IsDir(From(p)) THEN From(p)
  ELSE IF IsDir(To(p)) THEN Folder("raw", TRUE) ELSE To(p)

(* What is there in the middle of its turn.                                 *)
Taken(op) == \E i \in 1..(step - 1) : Ops[i] = op
Midway(p) ==
  IF Taken("link") \/ Taken("rename") THEN To(p)
  ELSE IF Taken("symlink") THEN Leaf("link", "raw")
  ELSE IF Taken("unlink") THEN Absent
  ELSE From(p)

Planned(p) ==
  IF place \in {"prepare", "valid", "fence"} THEN From(p)
  ELSE IF place = "forward"
       THEN IF p \notin ahead THEN Forwarded(p) ELSE IF p = Turn THEN Midway(p) ELSE From(p)
  ELSE IF p \in ahead THEN Forwarded(p) ELSE To(p)

(* The tree, but for the mode a guard is about to put back.                 *)
Right(p) ==
  IF Implied(p) THEN Restored[p] \in {Absent, Folder("raw", TRUE)}
  ELSE IF ~Changed(p) THEN Restored[p] = From(p)
  ELSE place \notin {"refused", "failed"} => Restored[p] = Planned(p)
TreeInv == \A p \in Paths : Kept(p) => Right(p)

(* The marker goes with the place.                                          *)
MarkerInv ==
  /\ place \in {"prepare", "valid", "fence", "refused"} => marker = "prepared"
  /\ place \in {"forward", "reverse", "stage", "sync", "failed"} => marker = "committing"
  /\ place = "done" => marker = "committed"

(* A directory stays open for the moment of one publication, or because the *)
(* process died.                                                            *)
GuardInv ==
  /\ faults \in Nat
  /\ guard # NoToken =>
       \/ place = "failed" /\ faults > 0
       \/ /\ place = "forward" /\ ahead # {} /\ left = {}
          /\ Ops[step] \in {"link", "rename", "close"}
          /\ guard[1] = Parent[Turn]

(* The directories above what is new are made, or on the list to be made.   *)
Begun(c) ==
  /\ place \in {"forward", "reverse", "stage", "sync", "done"}
  /\ place = "forward" /\ c \in ahead => c = Turn /\ step > 1
Provided(c, x) ==
  Exists(disk[x]) \/ (place = "forward" /\ ahead # {} /\ c = Turn /\ x \in left)
ParentsInv ==
  \A c \in Paths : ~Exists(From(c)) /\ Exists(To(c)) /\ Begun(c) =>
    \A x \in Above(c) : Kept(x) /\ Implied(x) => Provided(c, x)

CheckpointInv == TreeInv /\ MarkerInv /\ GuardInv /\ ParentsInv

(* The operations of a turn in the first pass: what has to come before and  *)
(* after each.                                                              *)
LEMMA ForwardTurn ==
  ASSUME plan \in Scenarios, NEW p \in Forward, NEW i \in 1..Len(ForwardOps(p))
  PROVE  LET o == ForwardOps(p)
             Earlier(op) == \E j \in 1..(i - 1) : o[j] = op
         IN /\ o[i] = "parents" => i = 1 /\ Exists(To(p))
            /\ ~Exists(From(p)) /\ i > 1 => Earlier("parents")
            /\ o[i] = "open" => i < Len(o) /\ o[i + 1] \in {"link", "rename"}
            /\ o[i] \in {"link", "rename"} =>
                 /\ i < Len(o) /\ o[i + 1] = "close"
                 /\ ~Earlier("unlink") /\ ~Earlier("symlink") /\ ~Earlier("link") /\ ~Earlier("rename")
            /\ o[i] = "close" => i = Len(o) /\ ~IsDir(To(p)) /\ (Earlier("link") \/ Earlier("rename"))
            /\ o[i] = "unlink" =>
                 /\ ~Earlier("unlink") /\ ~Earlier("symlink") /\ ~Earlier("link") /\ ~Earlier("rename")
                 /\ i = Len(o) => To(p) = Absent
            /\ o[i] = "symlink" =>
                 /\ i < Len(o) /\ To(p).kind = "link"
                 /\ ~Earlier("symlink") /\ ~Earlier("link") /\ ~Earlier("rename")
            /\ o[i] = "times" =>
                 /\ i = Len(o) /\ To(p).kind = "link"
                 /\ Earlier("symlink") /\ ~Earlier("link") /\ ~Earlier("rename")
            /\ o[i] = "mkdir" =>
                 /\ i = Len(o) /\ IsDir(To(p))
                 /\ ~Earlier("symlink") /\ ~Earlier("link") /\ ~Earlier("rename")
            /\ o[i] = "meta" =>
                 /\ i = Len(o) /\ From(p) = Leaf("file", "old") /\ To(p) = Leaf("file", "meta")
                 /\ ~Earlier("unlink") /\ ~Earlier("symlink") /\ ~Earlier("link") /\ ~Earlier("rename")
            /\ i = Len(o) => o[i] \in {"unlink", "close", "meta", "times", "mkdir"}
  <1> DEFINE o == ForwardOps(p)
             Earlier(op) == \E j \in 1..(i - 1) : o[j] = op
             from == Exists(From(p))  to == Exists(To(p))  dir == IsDir(To(p))  link == To(p).kind = "link"
             gone == To(p) = Absent  meta == From(p) = Leaf("file", "old") /\ To(p) = Leaf("file", "meta")
  <1>1. \/ from /\ gone /\ o = <<"target", "prepare", "unlink">>
        \/ from /\ to /\ ~dir /\ o = <<"parents", "target", "open", "rename", "close">>
        \/ ~from /\ to /\ ~dir /\ o = <<"parents", "open", "link", "close">>
        \/ from /\ meta /\ o = <<"target", "meta">>
        \/ from /\ link /\ o = <<"target", "prepare", "unlink", "prepare", "symlink", "prepare", "times">>
        \/ ~from /\ to /\ link /\ o = <<"parents", "prepare", "symlink", "prepare", "times">>
        \/ from /\ dir /\ o = <<"target", "prepare", "unlink", "prepare", "mkdir">>
        \/ ~from /\ to /\ dir /\ o = <<"parents", "prepare", "mkdir">>
    BY ForwardShape, NodeForms DEF HasDetail, IsDir, Exists, Kinds, Versions
  <1>2. i \in 1..Len(o)
    OBVIOUS
  <1> HIDE DEF o, from, to, dir, link, gone, meta
  <1> DEFINE Goal ==
        /\ o[i] = "parents" => i = 1 /\ to
        /\ ~from /\ i > 1 => Earlier("parents")
        /\ o[i] = "open" => i < Len(o) /\ o[i + 1] \in {"link", "rename"}
        /\ o[i] \in {"link", "rename"} =>
             /\ i < Len(o) /\ o[i + 1] = "close"
             /\ ~Earlier("unlink") /\ ~Earlier("symlink") /\ ~Earlier("link") /\ ~Earlier("rename")
        /\ o[i] = "close" => i = Len(o) /\ ~dir /\ (Earlier("link") \/ Earlier("rename"))
        /\ o[i] = "unlink" =>
             /\ ~Earlier("unlink") /\ ~Earlier("symlink") /\ ~Earlier("link") /\ ~Earlier("rename")
             /\ i = Len(o) => gone
        /\ o[i] = "symlink" =>
             /\ i < Len(o) /\ link
             /\ ~Earlier("symlink") /\ ~Earlier("link") /\ ~Earlier("rename")
        /\ o[i] = "times" =>
             /\ i = Len(o) /\ link
             /\ Earlier("symlink") /\ ~Earlier("link") /\ ~Earlier("rename")
        /\ o[i] = "mkdir" =>
             /\ i = Len(o) /\ dir
             /\ ~Earlier("symlink") /\ ~Earlier("link") /\ ~Earlier("rename")
        /\ o[i] = "meta" =>
             /\ i = Len(o) /\ meta
             /\ ~Earlier("unlink") /\ ~Earlier("symlink") /\ ~Earlier("link") /\ ~Earlier("rename")
        /\ i = Len(o) => o[i] \in {"unlink", "close", "meta", "times", "mkdir"}
  <1>3. Goal
    <2>1. CASE from /\ gone /\ o = <<"target", "prepare", "unlink">>
      BY <1>2, <2>1
    <2>2. CASE from /\ to /\ ~dir /\ o = <<"parents", "target", "open", "rename", "close">>
      BY <1>2, <2>2
    <2>3. CASE ~from /\ to /\ ~dir /\ o = <<"parents", "open", "link", "close">>
      BY <1>2, <2>3
    <2>4. CASE from /\ meta /\ o = <<"target", "meta">>
      BY <1>2, <2>4
    <2>5. CASE from /\ link /\ o = <<"target", "prepare", "unlink", "prepare", "symlink", "prepare", "times">>
      BY <1>2, <2>5
    <2>6. CASE ~from /\ to /\ link /\ o = <<"parents", "prepare", "symlink", "prepare", "times">>
      BY <1>2, <2>6
    <2>7. CASE from /\ dir /\ o = <<"target", "prepare", "unlink", "prepare", "mkdir">>
      BY <1>2, <2>7
    <2>8. CASE ~from /\ to /\ dir /\ o = <<"parents", "prepare", "mkdir">>
      BY <1>2, <2>8
    <2> HIDE DEF Goal
    <2> QED
      BY <1>1, <2>1, <2>2, <2>3, <2>4, <2>5, <2>6, <2>7, <2>8
  <1> QED
    BY <1>3 DEF o, from, to, dir, link, gone, meta

LEMMA SecondTurn ==
  ASSUME plan \in Scenarios, NEW p \in Second, NEW i \in 1..Len(SecondOps(p))
  PROVE  /\ SecondOps(p)[i] = "rmdir" => i = Len(SecondOps(p)) /\ To(p) = Absent
         /\ SecondOps(p)[i] = "dirmeta" => i = Len(SecondOps(p)) /\ IsDir(To(p))
         /\ i = Len(SecondOps(p)) => SecondOps(p)[i] \in {"rmdir", "dirmeta"}
  <1> DEFINE o == SecondOps(p)  gone == To(p) = Absent  dir == IsDir(To(p))
  <1>1. \/ gone /\ o = <<"target", "prune", "prepare", "rmdir">>
        \/ dir /\ o = <<"target", "dirmeta">>
        \/ dir /\ o = <<"dirmeta">>
    BY SecondShape
  <1>2. i \in 1..Len(o)
    OBVIOUS
  <1> HIDE DEF o, gone, dir
  <1>3. /\ o[i] = "rmdir" => i = Len(o) /\ gone
        /\ o[i] = "dirmeta" => i = Len(o) /\ dir
        /\ i = Len(o) => o[i] \in {"rmdir", "dirmeta"}
    <2>1. CASE gone /\ o = <<"target", "prune", "prepare", "rmdir">>
      BY <1>2, <2>1
    <2>2. CASE dir /\ o = <<"target", "dirmeta">>
      BY <1>2, <2>2
    <2>3. CASE dir /\ o = <<"dirmeta">>
      BY <1>2, <2>3
    <2> QED
      BY <1>1, <2>1, <2>2, <2>3
  <1> QED
    BY <1>3 DEF o, gone, dir

(* Nothing of the plan, nor what is seen through it, changes.               *)
LEMMA PlanFixed ==
  ASSUME plan' = plan
  PROVE  \A p \in Paths : /\ From(p)' = From(p) /\ To(p)' = To(p) /\ Changed(p)' = Changed(p)
                          /\ Implied(p)' = Implied(p) /\ Forwarded(p)' = Forwarded(p)
                          /\ Stray(p)' = Stray(p)
  <1>1. \A p \in Paths : /\ From(p)' = From(p) /\ To(p)' = To(p) /\ Changed(p)' = Changed(p)
    BY SamePlan
  <1>2. \A p \in Paths : Descendants(p) \subseteq Paths
    BY DEF Descendants, Below
  <1>3. \A p \in Paths : Implied(p)' = Implied(p)
    <2> TAKE p \in Paths
    <2>1. Descendants(p)' = Descendants(p)
      BY DEF Descendants
    <2> QED
      BY <1>1, <1>2, <2>1 DEF Implied
  <1> QED
    BY <1>1, <1>3 DEF Forwarded, Stray

(* The two ways the tree is told of: with the mode as it is, and with the   *)
(* one to be put back.                                                      *)
LEMMA RestoredExists ==
  ASSUME Types, NEW p \in Paths
  PROVE  Exists(Restored[p]) <=> Exists(disk[p])
  BY RestoredType DEF Exists

(* A turn begins with the change as it was.                                 *)
LEMMA MidwayFirst ==
  ASSUME step = 1, NEW p
  PROVE  Midway(p) = From(p)
  BY DEF Midway, Taken

(* What an operation in the middle of a turn adds.                          *)
LEMMA TakenNext ==
  ASSUME Ops' = Ops, step \in Nat \ {0}, step' = step + 1, NEW op
  PROVE  Taken(op)' <=> Taken(op) \/ Ops[step] = op
  <1>1. ASSUME Taken(op)' PROVE Taken(op) \/ Ops[step] = op
    BY <1>1 DEF Taken
  <1>2. ASSUME Taken(op) PROVE Taken(op)'
    BY <1>2 DEF Taken
  <1>3. ASSUME Ops[step] = op PROVE Taken(op)'
    <2>1. step \in 1..(step' - 1) /\ Ops'[step] = op
      BY <1>3
    <2> QED
      BY <2>1 DEF Taken
  <1> QED
    BY <1>1, <1>2, <1>3

(* An operation says nothing of other paths than its own.                   *)
LEMMA OthersPlanned ==
  ASSUME Control, Running, ahead # {}, Over, UNCHANGED <<plan, place>>, NEW p \in Paths,
         left # {} \/ p # Turn
  PROVE  Planned(p)' = Planned(p)
  <1>1. /\ Turn \in ahead /\ Turn \in Paths /\ plan \in Scenarios
        /\ From(p)' = From(p) /\ To(p)' = To(p) /\ Forwarded(p)' = Forwarded(p)
    BY TurnTrue, PlanFixed DEF Control
  <1>2. CASE left # {}
    <2>1. ahead' = ahead /\ step' = step
      BY <1>2 DEF Over
    <2>2. Turn' = Turn
      BY <2>1 DEF Turn
    <2>3. Ops' = Ops
      BY <1>1, <2>2, SamePlan DEF Ops
    <2>4. Midway(p)' = Midway(p)
      BY <1>1, <2>1, <2>3 DEF Midway, Taken
    <2> QED
      BY <1>1, <2>1, <2>2, <2>4 DEF Planned
  <1>3. CASE left = {} /\ p # Turn
    <2>1. CASE step # Len(Ops)
      <3>1. ahead' = ahead
        BY <1>3, <2>1 DEF Over
      <3>2. Turn' = Turn
        BY <3>1 DEF Turn
      <3> QED
        BY <1>1, <1>3, <3>1, <3>2 DEF Planned
    <2>2. CASE step = Len(Ops)
      <3>1. ahead' = ahead \ {Turn} /\ step' = 1
        BY <1>3, <2>2 DEF Over
      <3>2. Midway(p)' = From(p)
        BY <1>1, <3>1, MidwayFirst DEF Midway, Taken
      <3> QED
        BY <1>1, <1>3, <3>1, <3>2 DEF Planned, Running
    <2> QED
      BY <2>1, <2>2
  <1> QED
    BY <1>2, <1>3

(* While the passes go on, a directory is open only for the publication     *)
(* whose turn it is.                                                        *)
LEMMA GuardHeld ==
  ASSUME Control, GuardInv, Running, ahead # {}, guard # NoToken
  PROVE  /\ place = "forward" /\ left = {} /\ P = Turn /\ Op \in {"link", "rename", "close"}
         /\ guard[1] = Parent[P] /\ guard[1] # P
  <1>1. place = "forward" /\ left = {} /\ Ops[step] \in {"link", "rename", "close"}
        /\ guard[1] = Parent[Turn]
    BY DEF GuardInv, Running
  <1>2. P = Turn /\ P \in Paths
    BY <1>1, TurnTrue
  <1>3. Parent[P] # P
    <2>1. CASE Parent[P] \in Paths
      <3>1. Pos(Parent[P]) < Pos(P) /\ Pos(P) \in Nat
        BY <1>2, <2>1, Positions
      <3> QED
        BY <3>1
    <2> QED
      BY <1>2, <2>1
  <1> QED
    BY <1>1, <1>2, <1>3 DEF Op

(* What is written at a path shows but for a guard on that path.            *)
LEMMA WriteRestored ==
  ASSUME Types, NEW q \in Paths, NEW n \in Nodes, disk' = [disk EXCEPT ![q] = n], guard' = guard,
         gen' = gen \/ guard = NoToken, guard # NoToken => guard[1] # q
  PROVE  /\ Restored[q] = disk[q]
         /\ \A p \in Paths : Restored'[p] = IF p = q THEN n ELSE Restored[p]
  <1>1. disk \in [Paths -> Nodes] /\ (guard # NoToken => guard[1] \in Paths)
    BY DEF Types, TypeOK, Tokens
  <1>2. CASE guard # NoToken /\ guard[2] = gen[guard[1]]
    <2>1. Restored = [disk EXCEPT ![guard[1]].rw = FALSE]
          /\ Restored' = [disk' EXCEPT ![guard[1]].rw = FALSE]
      BY <1>2 DEF Restored
    <2> QED
      BY <1>1, <1>2, <2>1
  <1>3. CASE ~(guard # NoToken /\ guard[2] = gen[guard[1]])
    <2>1. Restored = disk /\ Restored' = disk'
      BY <1>3 DEF Restored
    <2> QED
      BY <1>1, <2>1
  <1> QED
    BY <1>2, <1>3

(* The steps that show in the tree write one entry.                         *)
Writing ==
  \/ Unlink \/ PublishNew \/ PublishOver \/ Symlink \/ LinkTimes \/ MakeDir \/ RemoveDir
  \/ UpdateMeta \/ UpdateDirMeta
Written(n) ==
  \/ Op \in {"unlink", "rmdir"} /\ n = Absent
  \/ Op \in {"link", "rename", "dirmeta"} /\ n = To(P)
  \/ Op = "symlink" /\ n = Leaf("link", "raw")
  \/ Op = "times" /\ n = [Restored[P] EXCEPT !.ver = IF @ = "raw" THEN To(P).ver ELSE @]
  \/ Op = "mkdir" /\ n = Folder("raw", TRUE) /\ ~Exists(disk[P])
  \/ Op = "meta" /\ n = [Restored[P] EXCEPT !.ver = IF @ = "user" THEN @ ELSE To(P).ver]

LEMMA WritingEffect ==
  ASSUME BaseInv, GuardInv, Writing
  PROVE  \E n \in Nodes : Written(n) /\ \A p \in Paths : Restored'[p] = IF p = P THEN n ELSE Restored[p]
  <1>1. /\ Passing /\ Control /\ Types /\ Running /\ ahead # {} /\ P \in Paths
        /\ plan \in Scenarios
    BY PassingFrame, TurnTrue DEF Writing, Passing, BaseInv, Control
  <1>2. disk \in [Paths -> Nodes] /\ To(P) \in Nodes /\ Absent \in Nodes
        /\ Leaf("link", "raw") \in Nodes /\ Folder("raw", TRUE) \in Nodes
    <2>1. "link" \in Kinds /\ "raw" \in Versions
      BY DEF Kinds, Versions
    <2>2. disk \in [Paths -> Nodes] /\ To(P) \in Nodes
      BY <1>1, PlanNodes DEF Types, TypeOK
    <2> QED
      BY <2>1, <2>2, NodeForms
  <1>3. \A w \in Nodes : \A v \in Versions : [w EXCEPT !.ver = v] \in Nodes
    BY DEF Nodes, Versions
  <1>4. guard' = guard /\ (gen' = gen \/ MakeDir)
    BY DEF Writing, Unlink, PublishNew, PublishOver, Symlink, LinkTimes, MakeDir, RemoveDir,
           UpdateMeta, UpdateDirMeta, Mutate, Frame
  <1>5. guard # NoToken => guard[1] # P /\ Op \in {"link", "rename", "close"}
    BY <1>1, GuardHeld
  <1>6. MakeDir => Op = "mkdir"
    BY DEF MakeDir, Doing
  <1>7. Restored[P] = disk[P]
    <2>1. CASE guard # NoToken /\ guard[2] = gen[guard[1]]
      BY <1>1, <1>2, <1>5, <2>1, RestoredType
    <2>2. CASE ~(guard # NoToken /\ guard[2] = gen[guard[1]])
      BY <2>2 DEF Restored
    <2> QED
      BY <2>1, <2>2
  <1>8. \E n \in Nodes : Written(n) /\ disk' = [disk EXCEPT ![P] = n]
    <2>1. CASE Unlink \/ RemoveDir
      BY <1>2, <2>1 DEF Unlink, RemoveDir, Mutate, Doing, Written
    <2>2. CASE PublishNew \/ PublishOver \/ UpdateDirMeta
      BY <1>2, <2>2 DEF PublishNew, PublishOver, UpdateDirMeta, Mutate, Doing, Written
    <2>3. CASE Symlink \/ MakeDir
      BY <1>2, <2>3 DEF Symlink, MakeDir, Mutate, Doing, Written
    <2>4. CASE LinkTimes
      <3> DEFINE v == IF disk[P].ver = "raw" THEN To(P).ver ELSE disk[P].ver
      <3>1. v \in Versions
        BY <1>1, <1>2 DEF Nodes, Versions
      <3>2. [disk[P] EXCEPT !.ver = v] \in Nodes
        BY <1>1, <1>2, <1>3, <3>1
      <3>3. Written([disk[P] EXCEPT !.ver = v]) /\ disk' = [disk EXCEPT ![P] = [disk[P] EXCEPT !.ver = v]]
        BY <1>7, <2>4 DEF LinkTimes, Mutate, Doing, Written
      <3> QED
        BY <3>2, <3>3
    <2>5. CASE UpdateMeta
      <3> DEFINE v == IF disk[P].ver = "user" THEN disk[P].ver ELSE To(P).ver
      <3>1. v \in Versions
        BY <1>1, <1>2 DEF Nodes, Versions
      <3>2. [disk[P] EXCEPT !.ver = v] \in Nodes
        BY <1>1, <1>2, <1>3, <3>1
      <3>3. Written([disk[P] EXCEPT !.ver = v]) /\ disk' = [disk EXCEPT ![P] = [disk[P] EXCEPT !.ver = v]]
        BY <1>7, <2>5 DEF UpdateMeta, Doing, Written
      <3> QED
        BY <3>2, <3>3
    <2> QED
      BY <2>1, <2>2, <2>3, <2>4, <2>5 DEF Writing
  <1> QED
    BY <1>1, <1>4, <1>5, <1>6, <1>8, WriteRestored

(* The others leave what is told of the tree.                               *)
LEMMA StillEffect ==
  ASSUME BaseInv, GuardInv, Passing, ~Writing
  PROVE  /\ Op \in {"target", "prepare", "open", "close", "quarantine", "sweep"}
         /\ \A p \in Paths : ~Stray(p) => Restored'[p] = Restored[p]
  <1>1. /\ Control /\ Types /\ Running /\ ahead # {} /\ P \in Paths /\ plan \in Scenarios
        /\ disk \in [Paths -> Nodes] /\ gen \in [Paths -> Nat]
    BY PassingFrame, TurnTrue DEF BaseInv, Control, Types, TypeOK
  <1>2. CASE CheckTarget \/ PrepareParent
    <2>1. UNCHANGED <<disk, gen, guard>> /\ Op \in {"target", "prepare"}
      BY <1>2 DEF CheckTarget, Pass, PrepareParent, Frame, Doing
    <2> QED
      BY <2>1 DEF Restored
  <1>3. CASE OpenParent
    <2>1. guard = NoToken /\ Op = "open"
      BY <1>1, <1>3, GuardHeld DEF OpenParent, Doing
    <2>2. Restored = disk /\ gen' = gen
      BY <1>3, <2>1 DEF Restored, OpenParent
    <2>3. CASE At(Parent[P]).rw
      <3>1. disk' = disk /\ guard' = guard
        BY <1>3, <2>3 DEF OpenParent
      <3> QED
        BY <2>1, <2>2, <3>1 DEF Restored
    <2>4. CASE ~At(Parent[P]).rw
      <3>1. disk' = [disk EXCEPT ![Parent[P]].rw = TRUE] /\ guard' = <<Parent[P], IdOf(Parent[P])>>
        BY <1>3, <2>4 DEF OpenParent
      <3>2. Parent[P] # Root /\ Parent[P] \in Paths
        BY <1>1, <2>4, OrderAssumption DEF At, Folder
      <3>3. guard' # NoToken /\ guard'[1] = Parent[P] /\ guard'[2] = gen'[guard'[1]]
        BY <2>2, <3>1, <3>2 DEF NoToken, IdOf
      <3>4. Restored' = [disk' EXCEPT ![Parent[P]].rw = FALSE]
        BY <3>3 DEF Restored
      <3>5. disk[Parent[P]].rw = FALSE /\ disk[Parent[P]] \in Nodes
        BY <1>1, <2>4, <3>2 DEF At, Nodes
      <3>6. \A w \in Nodes : w.rw = FALSE => [[w EXCEPT !.rw = TRUE] EXCEPT !.rw = FALSE] = w
        BY DEF Nodes
      <3> QED
        BY <1>1, <2>1, <2>2, <3>1, <3>2, <3>4, <3>5, <3>6
    <2> QED
      BY <2>3, <2>4
  <1>4. CASE CloseParent
    BY <1>4 DEF CloseParent, Restored, Doing
  <1>5. CASE Quarantine \/ Sweep
    <2>1. Op \in {"quarantine", "sweep"} /\ Prunable(P) /\ gen' = gen /\ guard' = guard /\ guard = NoToken
      BY <1>1, <1>5, OpPlace, GuardHeld DEF Quarantine, Sweep, Doing, Frame
    <2>2. Restored = disk /\ Restored' = disk'
      BY <2>1 DEF Restored
    <2>3. Class[P] \in {"ignored", "pruned"}
      BY <2>1 DEF Prunable
    <2>4. \A p \in {P} \cup Descendants(P) : Stray(p)
      BY <1>1, <2>3, SelfAncestry DEF Stray, Descendants, Below
    <2>5. \A p \in Paths : p \notin {P} \cup Descendants(P) => disk'[p] = disk[p]
      BY <1>1, <1>5 DEF Quarantine, Sweep
    <2> QED
      BY <2>1, <2>2, <2>4, <2>5
  <1> QED
    BY <1>2, <1>3, <1>4, <1>5 DEF Passing, Writing

LEMMA OneNode ==
  ASSUME NEW a \in Nodes, NEW b \in Nodes, a.kind = b.kind, a.ver = b.ver, a.rw = b.rw
  PROVE  a = b
  BY DEF Nodes

LEMMA OtherVersion ==
  ASSUME NEW a \in Nodes, NEW v
  PROVE  /\ [a EXCEPT !.ver = v].kind = a.kind /\ [a EXCEPT !.ver = v].rw = a.rw
         /\ [a EXCEPT !.ver = v].ver = v
  BY DEF Nodes

(* What the operation of a turn writes is what the plan has there next, and *)
(* never takes the change back.                                             *)
LEMMA TurnWritten ==
  ASSUME BaseInv, Writing, left = {}, NEW t \in Paths, t = Turn, NEW n \in Nodes, Written(n),
         Restored[t] = Planned(t)
  PROVE  /\ n = Planned(t)'
         /\ Restored[t] = From(t) \/ n = To(t) \/ (Restored[t] # To(t) /\ n # From(t))
  <1>1. /\ Passing /\ Control /\ Types /\ Running /\ ahead # {} /\ Over /\ UNCHANGED <<plan, place>>
        /\ plan \in Scenarios
    BY PassingFrame DEF Writing, Passing, BaseInv, Control, Settled
  <1>2. /\ P = t /\ t \in ahead /\ Op = Ops[step] /\ step \in 1..Len(Ops)
        /\ From(t)' = From(t) /\ To(t)' = To(t) /\ Forwarded(t)' = Forwarded(t)
    BY <1>1, TurnTrue, PlanFixed DEF Control, InTurn, Op
  <1>3. CASE place = "forward"
    <2>1. t \in Forward /\ Ops = ForwardOps(t) /\ Planned(t) = Midway(t) /\ Len(Ops) \in 2..7
      BY <1>1, <1>2, <1>3, TurnTrue, OpsShape DEF Ops, Planned
    <2>2. Changed(t) /\ ~IsDir(From(t))
      BY <1>1, <2>1, ForwardShape
    <2>3. step = Len(Ops) => Planned(t)' = Forwarded(t)
      BY <1>1, <1>2, <1>3 DEF Over, Planned
    <2>4. ASSUME step # Len(Ops)
          PROVE  Planned(t)' = Midway(t)' /\ Ops' = Ops /\ step' = step + 1 /\ step \in Nat \ {0}
      <3>1. ahead' = ahead /\ step' = step + 1 /\ step \in Nat \ {0}
        BY <1>1, <1>2, <2>1, <2>4 DEF Over
      <3>2. Turn' = Turn
        BY <1>1, <3>1 DEF Turn
      <3> QED
        BY <1>1, <1>2, <1>3, <3>1, <3>2, SamePlan DEF Planned, Ops
    <2>5. step # Len(Ops) => \A op \in {"link", "rename", "symlink", "unlink"} :
                               Taken(op)' <=> Taken(op) \/ Op = op
      BY <1>2, <2>4, TakenNext
    <2>6. From(t).ver \in {"none", "old"} /\ (~IsDir(To(t)) => Forwarded(t) = To(t))
          /\ (IsDir(To(t)) => Forwarded(t) = Folder("raw", TRUE))
          /\ Absent.kind = "none" /\ Leaf("link", "raw").ver = "raw" /\ Leaf("link", "raw").kind = "link"
          /\ Folder("raw", TRUE).ver = "raw" /\ Folder("raw", TRUE).kind = "dir"
          /\ To(t).ver \in {"none", "old", "new", "same", "meta"}
      <3>1. "link" \in Kinds /\ "raw" \in Versions
        BY DEF Kinds, Versions
      <3>2. From(t).ver \in {"none", "old"} /\ To(t).ver \in {"none", "old", "new", "same", "meta"}
        BY <1>1, PlanNodes
      <3>3. (~IsDir(To(t)) => Forwarded(t) = To(t)) /\ (IsDir(To(t)) => Forwarded(t) = Folder("raw", TRUE))
        BY <2>2 DEF Forwarded
      <3> QED
        BY <3>1, <3>2, <3>3, NodeForms
    <2>7. CASE Op = "unlink"
      <3>1. /\ ~Taken("unlink") /\ ~Taken("symlink") /\ ~Taken("link") /\ ~Taken("rename")
            /\ step = Len(Ops) => To(t) = Absent
        BY <1>1, <1>2, <2>1, <2>7, ForwardTurn DEF Taken
      <3>2. Midway(t) = From(t) /\ n = Absent
        BY <2>7, <3>1 DEF Midway, Written
      <3>3. step # Len(Ops) => Midway(t)' = Absent
        BY <2>5, <2>7, <3>1 DEF Midway
      <3> QED
        BY <2>1, <2>3, <2>4, <2>6, <3>1, <3>2, <3>3 DEF IsDir
    <2>8. CASE Op \in {"link", "rename"}
      <3>1. /\ ~Taken("unlink") /\ ~Taken("symlink") /\ ~Taken("link") /\ ~Taken("rename")
            /\ step # Len(Ops)
        BY <1>1, <1>2, <2>1, <2>8, ForwardTurn DEF Taken
      <3>2. Midway(t) = From(t) /\ n = To(t)
        BY <1>2, <2>8, <3>1 DEF Midway, Written
      <3>3. Midway(t)' = To(t)
        BY <1>2, <2>5, <2>8, <3>1 DEF Midway
      <3> QED
        BY <2>1, <2>4, <3>1, <3>2, <3>3
    <2>9. CASE Op = "symlink"
      <3>1. /\ ~Taken("symlink") /\ ~Taken("link") /\ ~Taken("rename")
            /\ To(t).kind = "link" /\ step # Len(Ops)
        BY <1>1, <1>2, <2>1, <2>9, ForwardTurn DEF Taken
      <3>2. Midway(t) \in {From(t), Absent} /\ n = Leaf("link", "raw")
        BY <2>9, <3>1 DEF Midway, Written
      <3>3. Midway(t)' = Leaf("link", "raw")
        BY <2>5, <2>9, <3>1 DEF Midway
      <3> QED
        BY <2>1, <2>4, <2>6, <3>1, <3>2, <3>3
    <2>10. CASE Op = "times"
      <3>1. Midway(t) = Leaf("link", "raw") /\ step = Len(Ops) /\ To(t).kind = "link"
        BY <1>1, <1>2, <2>1, <2>10, ForwardTurn DEF Taken, Midway
      <3>2. n = [Restored[t] EXCEPT !.ver = IF Restored[t].ver = "raw" THEN To(t).ver ELSE Restored[t].ver]
        BY <1>2, <2>10 DEF Written
      <3>3. To(t) = Leaf("link", To(t).ver)
        BY <1>1, <2>2, <3>1, PlanNodes
      <3>4. n = To(t)
        <4>1. Restored[t] = Leaf("link", "raw") /\ Leaf("link", "raw") \in Nodes
          BY <2>1, <3>1, NodeForms DEF Kinds, Versions
        <4>2. n.kind = "link" /\ n.ver = To(t).ver /\ n.rw = TRUE
          BY <2>6, <3>2, <4>1, OtherVersion, NodeForms DEF Kinds, Versions
        <4>3. To(t) \in Nodes /\ To(t).rw = TRUE
          BY <1>1, <3>3, PlanNodes DEF Leaf
        <4> QED
          BY <3>1, <4>2, <4>3, OneNode
      <3> QED
        BY <2>3, <2>6, <3>1, <3>4 DEF IsDir
    <2>11. CASE Op = "mkdir"
      <3>1. /\ ~Taken("symlink") /\ ~Taken("link") /\ ~Taken("rename")
            /\ IsDir(To(t)) /\ step = Len(Ops)
        BY <1>1, <1>2, <2>1, <2>11, ForwardTurn DEF Taken
      <3>2. Midway(t) \in {From(t), Absent} /\ n = Folder("raw", TRUE)
        BY <2>11, <3>1 DEF Midway, Written
      <3> QED
        BY <2>1, <2>3, <2>6, <3>1, <3>2 DEF IsDir
    <2>12. CASE Op = "meta"
      <3>1. Midway(t) = From(t) /\ step = Len(Ops) /\ From(t) = Leaf("file", "old")
            /\ To(t) = Leaf("file", "meta")
        BY <1>1, <1>2, <2>1, <2>12, ForwardTurn DEF Taken, Midway
      <3>2. n = [Restored[t] EXCEPT !.ver = IF Restored[t].ver = "user" THEN Restored[t].ver ELSE To(t).ver]
        BY <1>2, <2>12 DEF Written
      <3>3. n = To(t)
        <4>1. /\ Leaf("file", "old") \in Nodes /\ Leaf("file", "meta") \in Nodes
              /\ Leaf("file", "old").kind = "file" /\ Leaf("file", "meta").kind = "file"
              /\ Leaf("file", "old").ver = "old" /\ Leaf("file", "meta").ver = "meta"
              /\ Leaf("file", "old").rw = TRUE /\ Leaf("file", "meta").rw = TRUE
          BY NodeForms DEF Kinds, Versions
        <4>2. n.kind = "file" /\ n.ver = "meta" /\ n.rw = TRUE
          BY <2>1, <3>1, <3>2, <4>1, OtherVersion
        <4> QED
          BY <3>1, <4>1, <4>2, OneNode
      <3> QED
        BY <2>3, <2>6, <3>1, <3>3 DEF IsDir, Leaf
    <2>13. Op \notin {"rmdir", "dirmeta"}
      BY <1>1, <1>2, <2>1, OpsShape
    <2> QED
      BY <2>7, <2>8, <2>9, <2>10, <2>11, <2>12, <2>13 DEF Written
  <1>4. CASE place = "reverse"
    <2>1. t \in Second /\ Ops = SecondOps(t)
      BY <1>1, <1>2, <1>4, TurnTrue DEF Ops
    <2>2. Op \in {"rmdir", "dirmeta"} /\ step = Len(Ops) /\ n = To(t)
      BY <1>1, <1>2, <2>1, SecondTurn, OpsShape DEF Written
    <2>3. Planned(t)' = To(t)
      BY <1>1, <1>2, <1>4, <2>2 DEF Over, Planned
    <2> QED
      BY <2>2, <2>3
  <1> QED
    BY <1>1, <1>3, <1>4 DEF Running

(* An operation of a turn that writes nothing leaves it where it was.       *)
LEMMA TurnStill ==
  ASSUME BaseInv, Passing, Op \in {"target", "prepare", "open", "close"}, left = {},
         NEW t \in Paths, t = Turn
  PROVE  Planned(t)' = Planned(t)
  <1>1. /\ Control /\ Running /\ ahead # {} /\ Over /\ UNCHANGED <<plan, place>>
        /\ plan \in Scenarios
    BY PassingFrame DEF BaseInv, Control, Settled
  <1>2. /\ P = t /\ t \in ahead /\ Op = Ops[step] /\ step \in 1..Len(Ops)
        /\ From(t)' = From(t) /\ To(t)' = To(t) /\ Forwarded(t)' = Forwarded(t)
    BY <1>1, TurnTrue, PlanFixed DEF Control, InTurn, Op
  <1>3. CASE step # Len(Ops)
    <2>1. ahead' = ahead /\ step' = step + 1
      BY <1>1, <1>3 DEF Over
    <2>2. Turn' = Turn
      BY <1>1, <2>1 DEF Turn
    <2>3. Ops' = Ops
      BY <1>1, <1>2, <2>2, SamePlan DEF Ops
    <2>4. CASE place = "forward"
      <3>1. step \in Nat \ {0}
        BY <1>1, <1>2, <2>4, TurnTrue, OpsShape DEF Ops
      <3>2. \A op \in {"link", "rename", "symlink", "unlink"} : Taken(op)' <=> Taken(op)
        BY <1>2, <2>1, <2>3, <3>1, TakenNext
      <3>3. Midway(t)' = Midway(t)
        BY <1>2, <3>2 DEF Midway
      <3> QED
        BY <1>1, <1>2, <2>1, <2>2, <2>4, <3>3 DEF Planned
    <2>5. CASE place = "reverse"
      BY <1>1, <1>2, <2>1, <2>5 DEF Planned
    <2> QED
      BY <1>1, <2>4, <2>5 DEF Running
  <1>4. CASE step = Len(Ops)
    <2>1. place = "forward"
      <3> SUFFICES ASSUME place = "reverse" PROVE FALSE
        BY <1>1 DEF Running
      <3>1. t \in Second /\ Ops = SecondOps(t)
        BY <1>1, <1>2, TurnTrue DEF Ops
      <3> QED
        BY <1>1, <1>2, <1>4, <3>1, SecondTurn
    <2>2. t \in Forward /\ Ops = ForwardOps(t)
      BY <1>1, <1>2, <2>1, TurnTrue DEF Ops
    <2>3. Op = "close" /\ ~IsDir(To(t)) /\ (Taken("link") \/ Taken("rename"))
      BY <1>1, <1>2, <1>4, <2>2, ForwardTurn DEF Taken
    <2>4. Planned(t) = To(t) /\ Forwarded(t) = To(t)
      BY <1>1, <1>2, <2>1, <2>2, <2>3, ForwardShape DEF Planned, Midway, Forwarded
    <2>5. Planned(t)' = Forwarded(t)
      BY <1>1, <1>2, <1>4, <2>1 DEF Over, Planned
    <2> QED
      BY <2>4, <2>5
  <1> QED
    BY <1>3, <1>4

(* What is above a new entry: a directory, or one the sync does not know.   *)
LEMMA AboveNew ==
  ASSUME plan \in Scenarios, NEW p \in Paths, Changed(p), Exists(To(p)), NEW x \in Above(p)
  PROVE  IsDir(To(x)) \/ (~Exists(From(x)) /\ ~Exists(To(x)))
  BY PlanAssumption DEF IsPlan, From, To, Changed

(* What is above an old one was there.                                      *)
LEMMA AboveOld ==
  ASSUME plan \in Scenarios, NEW p \in Paths, Exists(From(p)), NEW a \in Ancestry[p]
  PROVE  Exists(From(a))
  <1> DEFINE S == {x \in Paths : Exists(From(x))}
  <1>1. \A x \in Paths : Exists(From(x)) /\ Parent[x] # Root => IsDir(From(Parent[x]))
    BY PlanAssumption DEF IsPlan, From
  <1>2. \A x \in S : Parent[x] \in S \cup {Root}
    <2> TAKE x \in S
    <2>1. Parent[x] # Root => Parent[x] \in Paths /\ IsDir(From(Parent[x]))
      BY <1>1, OrderAssumption
    <2> QED
      BY <2>1 DEF IsDir, Exists
  <1>3. S \in SUBSET Paths /\ p \in S /\ Closed(S)
    BY <1>2 DEF Closed
  <1> HIDE DEF S
  <1>4. a \in S
    BY <1>3 DEF Ancestry
  <1> QED
    BY <1>4 DEF S

(* A directory that is missing above the entry whose turn it is, and that   *)
(* nobody touched, is one that the sync does not know: had it a change of   *)
(* its own, that would have had its turn.                                   *)
LEMMA MissingImplied ==
  ASSUME Control, Types, TreeInv, place = "forward", ahead # {},
         Changed(Turn), Exists(To(Turn)),
         NEW x \in Above(Turn), Kept(x), ~Exists(disk[x])
  PROVE  Implied(x)
  <1>1. Turn \in Paths /\ plan \in Scenarios /\ (\A q \in ahead : Pos(Turn) <= Pos(q))
    BY TurnTrue DEF Control
  <1>2. x \in Paths /\ Pos(x) < Pos(Turn) /\ Turn \in Descendants(x)
    BY <1>1, AboveBefore
  <1>3. x \notin ahead
    <2>1. Pos(x) \in Nat /\ Pos(Turn) \in Nat
      BY <1>1, <1>2, Positions
    <2> QED
      BY <1>1, <1>2, <2>1
  <1>4. ~Exists(Restored[x]) /\ Right(x)
    BY <1>2, RestoredExists DEF TreeInv
  <1>5. CASE IsDir(To(x))
    <2>1. Changed(x) => Restored[x] = Forwarded(x)
      BY <1>3, <1>4 DEF Right, Implied, Planned
    <2>2. ~Changed(x) => Restored[x] = From(x) /\ From(x) = To(x)
      BY <1>4, <1>5 DEF Right, Implied, Changed, Exists, IsDir
    <2>3. Exists(Folder("raw", TRUE))
      BY DEF Exists, Folder
    <2> QED
      BY <1>4, <1>5, <2>1, <2>2, <2>3 DEF Forwarded, Exists, IsDir
  <1>6. CASE ~Exists(From(x)) /\ ~Exists(To(x))
    BY <1>1, <1>2, <1>6, PlanNodes DEF Implied, Changed
  <1> QED
    BY <1>1, <1>5, <1>6, AboveNew

(* What is on the list of the missing is above the entry.                   *)
LEMMA ListedMissing ==
  ASSUME Control, place = "forward", ahead # {}, left # {}
  PROVE  /\ P \in Above(Turn) /\ P \in left /\ P \in Paths
         /\ Turn \in Paths /\ Changed(Turn) /\ Exists(To(Turn))
  <1>1. /\ InTurn /\ P \in left /\ P \in Paths /\ Turn \in Forward /\ Turn \in Paths
        /\ plan \in Scenarios /\ Ops = ForwardOps(Turn)
    BY TurnTrue DEF Control, Ops
  <1>2. P \in Above(Turn) /\ step - 1 \in 1..Len(Ops) /\ Ops[step - 1] = "parents"
    BY <1>1, OpsShape DEF InTurn
  <1> QED
    BY <1>1, <1>2, ForwardTurn, ForwardShape

LEMMA PassingTree ==
  ASSUME BaseInv, TreeInv, GuardInv, Passing
  PROVE  TreeInv'
  <1>1. /\ Control /\ Types /\ Running /\ ahead # {} /\ Over /\ plan' = plan /\ place' = place
        /\ touched' = touched /\ plan \in Scenarios /\ Turn \in Paths /\ P \in Paths
    BY PassingFrame, TurnTrue DEF BaseInv, Control, Settled
  <1> SUFFICES ASSUME NEW p \in Paths, Kept(p)' PROVE Right(p)'
    BY DEF TreeInv
  <1>2. /\ From(p)' = From(p) /\ To(p)' = To(p) /\ Changed(p)' = Changed(p)
        /\ Implied(p)' = Implied(p) /\ Stray(p)' = Stray(p)
    BY <1>1, PlanFixed
  <1>3. Kept(p) /\ Right(p) /\ ~Stray(p)
    BY <1>1, <1>2 DEF Kept, TreeInv
  <1>4. Changed(Turn)
    BY <1>1, TurnTrue, ForwardShape, SecondShape DEF Running
  <1>5. CASE Writing /\ p = P
    <2>1. PICK n \in Nodes : Written(n) /\ Restored'[p] = n
      BY <1>5, WritingEffect
    <2>2. CASE left # {}
      <3>1. Op = "mkdir" /\ place = "forward"
        BY <1>1, <1>5, <2>2, OpPlace
        DEF Writing, Unlink, PublishNew, PublishOver, Symlink, LinkTimes, MakeDir, RemoveDir,
            UpdateMeta, UpdateDirMeta, Doing
      <3>2. n = Folder("raw", TRUE) /\ ~Exists(disk[P])
        BY <2>1, <3>1 DEF Written
      <3>3. Implied(p)
        BY <1>1, <1>3, <1>5, <2>2, <3>1, <3>2, ListedMissing, MissingImplied
      <3> QED
        BY <1>2, <2>1, <3>2, <3>3 DEF Right
    <2>3. CASE left = {}
      <3>1. p = Turn /\ ~Implied(p) /\ Changed(p)
        BY <1>1, <1>4, <1>5, <2>3, TurnTrue DEF Implied
      <3>2. Restored[p] = Planned(p)
        BY <1>1, <1>3, <3>1 DEF Right, Running
      <3>3. n = Planned(p)'
        BY <1>5, <2>1, <2>3, <3>1, <3>2, TurnWritten
      <3> QED
        BY <1>2, <2>1, <3>1, <3>3 DEF Right
    <2> QED
      BY <2>2, <2>3
  <1>6. CASE ~(Writing /\ p = P)
    <2>1. Restored'[p] = Restored[p]
      <3>1. CASE Writing
        BY <1>6, <3>1, WritingEffect
      <3>2. CASE ~Writing
        BY <1>3, <3>2, StillEffect
      <3> QED
        BY <3>1, <3>2
    <2>2. CASE Implied(p) \/ ~Changed(p)
      BY <1>2, <1>3, <2>1, <2>2 DEF Right
    <2>3. CASE ~Implied(p) /\ Changed(p)
      <3>1. Restored[p] = Planned(p)
        BY <1>1, <1>3, <2>3 DEF Right, Running
      <3>2. Planned(p)' = Planned(p)
        <4>1. CASE left # {} \/ p # Turn
          BY <1>1, <4>1, OthersPlanned
        <4>2. CASE left = {} /\ p = Turn
          <5>1. ~Writing
            BY <1>1, <1>6, <4>2, TurnTrue
          <5>2. Op \in {"target", "prepare", "open", "close", "quarantine", "sweep"}
            BY <5>1, StillEffect
          <5>3. Op \notin {"quarantine", "sweep"}
            BY <1>1, <4>2, OpPlace DEF Doing
          <5> QED
            BY <4>2, <5>2, <5>3, TurnStill
        <4> QED
          BY <4>1, <4>2
      <3> QED
        BY <1>2, <2>1, <2>3, <3>1, <3>2 DEF Right
    <2> QED
      BY <2>2, <2>3
  <1> QED
    BY <1>5, <1>6

(* Outside the operations that pass, what is told of the tree stays, and so *)
(* does what the plan has of it.                                            *)
LEMMA SameTree ==
  ASSUME TreeInv, plan' = plan, touched \subseteq touched',
         \A p \in Paths : Kept(p)' => Restored'[p] = Restored[p],
         place' \notin {"refused", "failed"} =>
           /\ place \notin {"refused", "failed"}
           /\ \A p \in Paths : Changed(p) => Planned(p)' = Planned(p)
  PROVE  TreeInv'
  <1> SUFFICES ASSUME NEW p \in Paths, Kept(p)' PROVE Right(p)'
    BY DEF TreeInv
  <1>1. /\ From(p)' = From(p) /\ To(p)' = To(p) /\ Changed(p)' = Changed(p)
        /\ Implied(p)' = Implied(p) /\ Stray(p)' = Stray(p)
    BY PlanFixed
  <1>2. Kept(p) /\ Right(p) /\ Restored'[p] = Restored[p]
    BY <1>1 DEF Kept, TreeInv
  <1> QED
    BY <1>1, <1>2 DEF Right

RestoredEach ==
  \A p \in Paths :
    Restored[p] = IF guard # NoToken /\ guard[1] = p /\ guard[2] = gen[p]
                  THEN [disk[p] EXCEPT !.rw = FALSE] ELSE disk[p]

LEMMA RestoredAt == Types => RestoredEach
  <1> SUFFICES ASSUME Types PROVE RestoredEach
    OBVIOUS
  <1>1. disk \in [Paths -> Nodes] /\ (guard # NoToken => guard[1] \in Paths)
    BY DEF Types, TypeOK, Tokens
  <1> QED
    BY <1>1 DEF Restored, RestoredEach

LEMMA FailEffect ==
  ASSUME Types, Fail \/ \E killed \in BOOLEAN : Fault(killed)
  PROVE  Restored' = Restored /\ place' \in {"refused", "failed"} /\ UNCHANGED <<plan, marker, touched>>
  BY DEF Fail, Fault, Restored

LEMMA UserEffect ==
  ASSUME BaseInv, UserStep, NEW p \in Paths, p \notin touched'
  PROVE  Restored'[p] = Restored[p] /\ disk'[p] = disk[p]
  <1>1. Types /\ Types'
    <2>1. [Next]_vars
      BY DEF UserStep, Next
    <2> QED
      BY <2>1, StepBase DEF BaseInv
  <1>2. PICK d \in Paths : UserWrite(d) \/ UserRemove(d) \/ UserSwap(d) \/ UserChmod(d)
    BY DEF UserStep
  <1>3. guard' = guard /\ disk \in [Paths -> Nodes] /\ gen \in [Paths -> Nat]
    BY <1>1, UserFrame DEF Types, TypeOK
  <1>4. disk'[p] = disk[p] /\ gen'[p] = gen[p]
    BY <1>2, <1>3 DEF UserWrite, UserRemove, UserSwap, UserChmod, Edit
  <1>5. RestoredEach /\ RestoredEach'
    BY <1>1, RestoredAt, PTL
  <1> QED
    BY <1>3, <1>4, <1>5 DEF RestoredEach

(* Where nothing of a turn moves, nothing of the plan does.                 *)
LEMMA SamePlace ==
  ASSUME Control, UNCHANGED <<plan, place, ahead, step>>, NEW p \in Paths
  PROVE  Planned(p)' = Planned(p)
  <1>1. From(p)' = From(p) /\ To(p)' = To(p) /\ Forwarded(p)' = Forwarded(p)
    BY PlanFixed
  <1>2. Turn' = Turn
    BY DEF Turn
  <1>3. ASSUME p \in ahead, p = Turn, place = "forward" PROVE Midway(p)' = Midway(p)
    <2>1. Ops' = Ops
      BY <1>2, <1>3, SamePlan DEF Ops
    <2> QED
      BY <1>1, <2>1 DEF Midway, Taken
  <1> QED
    BY <1>1, <1>2, <1>3 DEF Planned

(* The list of what is missing, or of the blockers, is made on the way.     *)
LEMMA ListPlanned ==
  ASSUME Control, NEW op \in {"parents", "prune"}, Doing(op), NEW S, List(S), NEW p \in Paths
  PROVE  Planned(p)' = Planned(p)
  <1>1. /\ UNCHANGED <<plan, place, ahead>> /\ step' = step + 1 /\ Running /\ ahead # {}
        /\ From(p)' = From(p) /\ To(p)' = To(p) /\ Forwarded(p)' = Forwarded(p)
    BY PlanFixed DEF List, Frame, Settled, Doing
  <1>2. Turn' = Turn /\ Turn \in Paths
    BY <1>1, TurnTrue DEF Turn
  <1>3. ASSUME p \in ahead, p = Turn, place = "forward" PROVE Midway(p)' = Midway(p)
    <2>1. Ops' = Ops
      BY <1>1, <1>2, SamePlan DEF Ops
    <2>2. Ops[step] = op /\ step \in 1..Len(Ops) /\ Len(Ops) \in 2..7
      BY <1>3, OpPlace, TurnTrue, OpsShape DEF Control, Ops
    <2>3. \A a \in {"link", "rename", "symlink", "unlink"} : Taken(a)' <=> Taken(a)
      BY <1>1, <2>1, <2>2, TakenNext
    <2> QED
      BY <1>1, <2>3 DEF Midway
  <1> QED
    BY <1>1, <1>2, <1>3 DEF Planned

LEMMA StagingPlanned ==
  ASSUME Control, Staging, NEW p \in Paths, Changed(p)
  PROVE  Planned(p)' = Planned(p)
  <1>1. plan \in Scenarios /\ plan' = plan
    BY DEF Control, Staging, Validate, StartCommit, TurnBack, Merge, FinishStaging, EndCommit, SyncOne
  <1>2. From(p)' = From(p) /\ To(p)' = To(p) /\ Forwarded(p)' = Forwarded(p)
    BY <1>1, PlanFixed
  <1>3. CASE StartCommit
    <2>1. place = "fence" /\ place' = "forward" /\ ahead' = Forward /\ step' = 1
      BY <1>3 DEF StartCommit, Begin, Control
    <2>2. p \notin Forward => Forwarded(p) = From(p)
      BY <1>1, Turns DEF Forwarded
    <2>3. Midway(p)' = From(p)
      BY <1>2, <2>1 DEF Midway, Taken
    <2> QED
      BY <1>2, <2>1, <2>2, <2>3 DEF Planned
  <1>4. CASE TurnBack
    <2>1. place = "forward" /\ ahead = {} /\ place' = "reverse" /\ ahead' = Second
      BY <1>4 DEF TurnBack, Begin
    <2>2. p \notin Second => Forwarded(p) = To(p)
      BY <1>1, Turns DEF Forwarded
    <2> QED
      BY <1>2, <2>1, <2>2 DEF Planned
  <1>5. CASE ~(StartCommit \/ TurnBack)
    <2>1. /\ UNCHANGED ahead
          /\ \/ place \in {"prepare", "valid"} /\ place' \in {"valid", "fence"}
             \/ place \in {"reverse", "stage", "sync"} /\ place' \in {"stage", "sync", "done"} /\ ahead = {}
      BY <1>5 DEF Staging, Validate, Merge, FinishStaging, EndCommit, SyncOne, work, Control
    <2> QED
      BY <1>2, <2>1 DEF Planned
  <1> QED
    BY <1>3, <1>4, <1>5

LEMMA StepTree ==
  ASSUME BaseInv, TreeInv, GuardInv, [Next]_vars
  PROVE  TreeInv'
  <1>1. Control /\ Types /\ plan' = plan
    BY PlanKept DEF BaseInv
  <1>2. CASE Passing
    BY <1>2, PassingTree
  <1>3. CASE Failing \/ \E killed \in BOOLEAN : Fault(killed)
    BY <1>1, <1>3, FailingFrame, FailEffect, SameTree
  <1>4. CASE UserStep
    <2>1. UNCHANGED <<place, ahead, step>> /\ touched \subseteq touched' /\ place \notin {"refused", "failed"}
      BY <1>4, UserFrame DEF work
    <2>2. \A p \in Paths : Planned(p)' = Planned(p)
      BY <1>1, <2>1, SamePlace
    <2>3. \A p \in Paths : Kept(p)' => Restored'[p] = Restored[p]
      BY <1>4, UserEffect DEF Kept
    <2> QED
      BY <1>1, <2>1, <2>2, <2>3, SameTree
  <1>5. CASE Staging
    <2>1. UNCHANGED <<disk, gen, guard, touched>> /\ place \notin {"refused", "failed"}
      BY <1>5 DEF Staging, Validate, StartCommit, TurnBack, Merge, FinishStaging, EndCommit, SyncOne
    <2>2. Restored' = Restored
      BY <2>1 DEF Restored
    <2> QED
      BY <1>1, <1>5, <2>1, <2>2, StagingPlanned, SameTree
  <1>6. CASE ListMissing \/ ListBlockers \/ CheckBlocker \/ NotListed \/ UNCHANGED vars
    <2>1. UNCHANGED <<disk, gen, guard, touched, place>>
      BY <1>6 DEF ListMissing, ListBlockers, List, CheckBlocker, NotListed, Skip, Frame, Settled, vars
    <2>2. Restored' = Restored
      BY <2>1 DEF Restored
    <2>3. \A p \in Paths : Planned(p)' = Planned(p)
      <3>1. CASE ListMissing \/ ListBlockers
        BY <1>1, <3>1, ListPlanned DEF ListMissing, ListBlockers
      <3>2. CASE CheckBlocker \/ NotListed \/ UNCHANGED vars
        <4>1. UNCHANGED <<plan, place, ahead, step>>
          BY <3>2 DEF CheckBlocker, NotListed, Skip, Frame, Settled, vars, work
        <4> QED
          BY <1>1, <4>1, SamePlace
      <3> QED
        BY <1>6, <3>1, <3>2
    <2> QED
      BY <1>1, <2>1, <2>2, <2>3, SameTree
  <1> QED
    BY <1>2, <1>3, <1>4, <1>5, <1>6, NextCases

LEMMA StepMarker ==
  ASSUME MarkerInv, [Next]_vars
  PROVE  MarkerInv'
  <1>1. CASE Passing
    BY <1>1, PassingFrame DEF Settled, MarkerInv
  <1>2. CASE Failing
    <2>1. marker' = marker /\ place' = (IF marker = "prepared" THEN "refused" ELSE "failed")
          /\ place \in {"prepare", "valid", "forward", "reverse", "sync"}
      BY <1>2, FailingFrame DEF Fail
    <2> QED
      BY <2>1 DEF MarkerInv
  <1>3. CASE \E killed \in BOOLEAN : Fault(killed)
    <2>1. marker' = marker /\ place' = "failed" /\ place \in {"forward", "reverse", "stage", "sync"}
      BY <1>3 DEF Fault
    <2> QED
      BY <2>1 DEF MarkerInv
  <1>4. CASE UserStep
    BY <1>4, UserFrame DEF MarkerInv
  <1>5. CASE Staging
    BY <1>5 DEF Staging, Validate, StartCommit, TurnBack, Begin, Merge, FinishStaging, EndCommit,
                SyncOne, MarkerInv
  <1>6. CASE ListMissing \/ ListBlockers \/ CheckBlocker \/ NotListed \/ UNCHANGED vars
    <2>1. UNCHANGED <<marker, place>>
      BY <1>6 DEF ListMissing, ListBlockers, List, CheckBlocker, NotListed, Skip, Frame, Settled, vars
    <2> QED
      BY <2>1 DEF MarkerInv
  <1> QED
    BY <1>1, <1>2, <1>3, <1>4, <1>5, <1>6, NextCases

LEMMA PassingGuard ==
  ASSUME BaseInv, GuardInv, Passing
  PROVE  GuardInv'
  <1>1. /\ Control /\ Running /\ ahead # {} /\ Over /\ UNCHANGED <<plan, place, faults>>
        /\ plan \in Scenarios /\ Doing(Op) /\ faults \in Nat
    BY PassingFrame DEF BaseInv, Control, Settled, Doing, GuardInv
  <1>2. ASSUME Op \in {"open", "link", "rename"}
        PROVE  /\ place = "forward" /\ left' = {} /\ left = {} /\ ahead' # {} /\ P = Turn /\ Turn' = Turn
               /\ Op = "open" => Ops'[step'] \in {"link", "rename"}
               /\ Op \in {"link", "rename"} => Ops'[step'] = "close"
    <2>1. place = "forward" /\ left = {} /\ P = Turn /\ Op = Ops[step] /\ step \in 1..Len(Ops)
      BY <1>1, <1>2, OpPlace
    <2>2. Turn \in Forward /\ Ops = ForwardOps(Turn) /\ Turn \in Paths
      BY <1>1, <2>1, TurnTrue DEF Ops
    <2>3. /\ step < Len(Ops)
          /\ Op = "open" => Ops[step + 1] \in {"link", "rename"}
          /\ Op \in {"link", "rename"} => Ops[step + 1] = "close"
      BY <1>1, <1>2, <2>1, <2>2, ForwardTurn
    <2>4. ahead' = ahead /\ step' = step + 1 /\ left' = left
      BY <1>1, <2>1, <2>3 DEF Over
    <2>5. Turn' = Turn
      BY <1>1, <2>4 DEF Turn
    <2>6. Ops' = Ops
      BY <1>1, <2>2, <2>5, SamePlan DEF Ops
    <2> QED
      BY <1>1, <2>1, <2>3, <2>4, <2>5, <2>6
  <1>3. CASE OpenParent
    <2>1. guard = NoToken /\ Op = "open"
      BY <1>1, <1>3, GuardHeld DEF OpenParent, Doing
    <2>2. guard' = guard \/ guard' = <<Parent[P], IdOf(Parent[P])>>
      BY <1>3 DEF OpenParent
    <2> QED
      BY <1>1, <1>2, <2>1, <2>2 DEF GuardInv
  <1>4. CASE CloseParent
    BY <1>1, <1>4 DEF CloseParent, GuardInv
  <1>5. CASE ~(OpenParent \/ CloseParent)
    <2>1. guard' = guard /\ Op # "close"
      BY <1>5 DEF Passing, CheckTarget, Pass, PrepareParent, Unlink, PublishNew, PublishOver, Symlink,
                  LinkTimes, MakeDir, RemoveDir, UpdateMeta, UpdateDirMeta, Quarantine, Sweep,
                  Mutate, Frame, Doing
    <2>2. guard # NoToken => Op \in {"link", "rename"} /\ guard[1] = Parent[P]
      BY <1>1, <2>1, GuardHeld
    <2> QED
      BY <1>1, <1>2, <2>1, <2>2 DEF GuardInv
  <1> QED
    BY <1>3, <1>4, <1>5

LEMMA StepGuard ==
  ASSUME BaseInv, GuardInv, [Next]_vars
  PROVE  GuardInv'
  <1>1. Control /\ plan' = plan /\ faults \in Nat
    BY PlanKept DEF BaseInv, GuardInv
  <1>2. CASE Passing
    BY <1>2, PassingGuard
  <1>3. CASE Failing
    BY <1>1, <1>3, FailingFrame DEF Fail, GuardInv
  <1>4. CASE \E killed \in BOOLEAN : Fault(killed)
    BY <1>1, <1>4 DEF Fault, GuardInv
  <1>5. CASE UserStep \/ UNCHANGED vars
    <2>1. UNCHANGED <<plan, place, ahead, step, left, guard, faults>>
      BY <1>5, UserFrame DEF vars, work
    <2>2. Turn' = Turn
      BY <2>1 DEF Turn
    <2>3. ahead # {} => Ops' = Ops
      BY <1>1, <2>1, <2>2, TurnTrue, SamePlan DEF Ops
    <2> QED
      BY <2>1, <2>2, <2>3 DEF GuardInv
  <1>6. CASE Staging
    <2>1. /\ UNCHANGED <<guard, faults>>
          /\ place # "failed" /\ (place = "forward" => ahead = {})
      BY <1>6 DEF Staging, Validate, StartCommit, TurnBack, Merge, FinishStaging, EndCommit, SyncOne
    <2> QED
      BY <2>1 DEF GuardInv
  <1>7. CASE ListMissing \/ ListBlockers \/ CheckBlocker \/ NotListed
    <2>1. UNCHANGED <<guard, faults>> /\ Running /\ ahead # {} /\ Op \in {"parents", "prune", "blocker"}
      BY <1>7 DEF ListMissing, ListBlockers, List, CheckBlocker, NotListed, Skip, Frame, Settled, Doing
    <2>2. guard = NoToken
      BY <1>1, <2>1, GuardHeld
    <2> QED
      BY <1>1, <2>1, <2>2 DEF GuardInv
  <1> QED
    BY <1>2, <1>3, <1>4, <1>5, <1>6, <1>7, NextCases

(* What is there and nobody else touches stays there, unless the plan says  *)
(* otherwise.                                                               *)
LEMMA ImpliedStays ==
  ASSUME BaseInv, GuardInv, Passing, NEW x \in Paths, Kept(x), Implied(x)
  PROVE  /\ Exists(disk[x]) => Exists(disk'[x])
         /\ left # {} /\ x = P /\ Op = "mkdir" => Exists(disk'[x])
  <1>1. /\ Control /\ Types /\ Running /\ ahead # {} /\ plan \in Scenarios /\ Types'
    <2>1. [Next]_vars
      BY DEF Passing, Next
    <2> QED
      BY <2>1, StepBase, PassingFrame DEF BaseInv, Control
  <1>2. RestoredEach /\ RestoredEach' /\ (disk \in [Paths -> Nodes] /\ disk' \in [Paths -> Nodes])
    <2>1. RestoredEach /\ RestoredEach'
      BY <1>1, RestoredAt, PTL
    <2> QED
      BY <1>1, <2>1 DEF Types, TypeOK
  <1>3. (Exists(Restored[x]) <=> Exists(disk[x])) /\ (Exists(Restored'[x]) <=> Exists(disk'[x]))
    <2>1. \A w \in Nodes : [w EXCEPT !.rw = FALSE].kind = w.kind
      BY DEF Nodes
    <2> QED
      BY <1>2, <2>1 DEF RestoredEach, Exists
  <1>4. CASE Writing
    <2>1. PICK n \in Nodes : Written(n) /\ Restored'[x] = IF x = P THEN n ELSE Restored[x]
      BY <1>4, WritingEffect
    <2>2. CASE x = P
      <3>1. left # {}
        BY <1>1, <2>2, TurnTrue, ForwardShape, SecondShape DEF Implied, Running
      <3>2. Op = "mkdir"
        BY <1>1, <1>4, <3>1, OpPlace
        DEF Writing, Unlink, PublishNew, PublishOver, Symlink, LinkTimes, MakeDir, RemoveDir,
            UpdateMeta, UpdateDirMeta, Doing
      <3>3. n = Folder("raw", TRUE)
        BY <2>1, <3>2 DEF Written
      <3> QED
        BY <1>3, <2>1, <2>2, <3>3 DEF Exists, Folder
    <2> QED
      BY <1>3, <2>1, <2>2
  <1>5. CASE ~Writing
    BY <1>3, <1>5, StillEffect DEF Kept
  <1> QED
    BY <1>4, <1>5

LEMMA PassingParents ==
  ASSUME BaseInv, GuardInv, ParentsInv, Passing
  PROVE  ParentsInv'
  <1>1. /\ Control /\ Running /\ ahead # {} /\ Over /\ plan' = plan /\ place' = place
        /\ touched' = touched /\ plan \in Scenarios /\ Turn \in Paths /\ Turn \in ahead
        /\ Op \notin {"parents", "prune", "blocker"}
    BY PassingFrame, TurnTrue DEF BaseInv, Control, Settled
  <1> SUFFICES ASSUME NEW c \in Paths, ~Exists(From(c))', Exists(To(c))', Begun(c)',
                      NEW x \in Above(c)', Kept(x)', Implied(x)'
               PROVE  Provided(c, x)'
    BY DEF ParentsInv
  <1>2. x \in Above(c) /\ x \in Paths
    BY AboveBefore DEF Above
  <1>3. ~Exists(From(c)) /\ Exists(To(c)) /\ Kept(x) /\ Implied(x)
    BY <1>1, <1>2, PlanFixed DEF Kept
  <1>4. Changed(c) /\ ~IsDir(From(c)) /\ c \in Forward
    BY <1>1, <1>3, Turns DEF Changed, Exists, IsDir
  <1>5. Begun(c)
    <2> SUFFICES ASSUME place = "forward", c \in ahead PROVE c = Turn /\ step > 1
      BY <1>1 DEF Begun, Running
    <2>1. Turn \in Forward /\ Ops = ForwardOps(Turn) /\ Len(Ops) \in 2..7 /\ step \in 1..Len(Ops)
      BY <1>1, TurnTrue, OpsShape DEF Ops, Control, InTurn
    <2>2. CASE left = {} /\ step = Len(Ops)
      <3>1. ahead' = ahead \ {Turn} /\ step' = 1
        BY <1>1, <2>2 DEF Over
      <3> QED
        BY <1>1, <2>1, <2>2, <3>1 DEF Begun
    <2>3. CASE left # {}
      <3>1. ahead' = ahead /\ step' = step
        BY <1>1, <2>3 DEF Over
      <3>2. Turn' = Turn
        BY <1>1, <3>1 DEF Turn
      <3> QED
        BY <1>1, <3>1, <3>2 DEF Begun
    <2>4. CASE left = {} /\ step # Len(Ops)
      <3>1. ahead' = ahead /\ step' = step + 1
        BY <1>1, <2>4 DEF Over
      <3>2. Turn' = Turn
        BY <1>1, <3>1 DEF Turn
      <3>3. c = Turn
        BY <1>1, <3>1, <3>2 DEF Begun
      <3>4. step # 1
        <4> SUFFICES ASSUME step = 1 PROVE FALSE
          OBVIOUS
        <4>1. 2 \in 1..Len(Ops) /\ Op = Ops[1]
          BY <2>1, <2>4 DEF Op
        <4>2. \E j \in 1..(2 - 1) : Ops[j] = "parents"
          BY <1>1, <1>3, <2>1, <3>3, <4>1, ForwardTurn
        <4> QED
          BY <1>1, <4>1, <4>2
      <3> QED
        BY <2>1, <3>3, <3>4
    <2> QED
      BY <2>2, <2>3, <2>4
  <1>6. Provided(c, x)
    BY <1>2, <1>3, <1>5 DEF ParentsInv
  <1>7. CASE Exists(disk[x])
    BY <1>2, <1>3, <1>7, ImpliedStays DEF Provided
  <1>8. CASE ~Exists(disk[x])
    <2>1. place = "forward" /\ c = Turn /\ x \in left
      BY <1>6, <1>8 DEF Provided
    <2>2. ahead' = ahead /\ InTurn /\ P \in left
      BY <1>1, <2>1, TurnTrue DEF Over, Control
    <2>3. Turn' = Turn
      BY <1>1, <2>2 DEF Turn
    <2>4. CASE x \in left'
      BY <1>1, <2>1, <2>2, <2>3, <2>4 DEF Provided
    <2>5. CASE x \notin left'
      <3>1. x = P /\ sub = Len(Inner)
        BY <1>1, <2>1, <2>5 DEF Over
      <3>2. Op = "mkdir"
        BY <2>1, <3>1 DEF Op, Inner
      <3> QED
        BY <1>2, <1>3, <2>1, <3>1, <3>2, ImpliedStays DEF Provided
    <2> QED
      BY <2>4, <2>5
  <1> QED
    BY <1>7, <1>8

(* Steps that let every directory that is there stay, and begin nothing.    *)
LEMMA SameParents ==
  ASSUME ParentsInv, plan' = plan, touched \subseteq touched',
         \A c \in Paths : ~Exists(From(c)) /\ Exists(To(c)) /\ Begun(c)' =>
           /\ Begun(c)
           /\ \A x \in Above(c) : Kept(x)' /\ Provided(c, x) => Provided(c, x)'
  PROVE  ParentsInv'
  <1> SUFFICES ASSUME NEW c \in Paths, ~Exists(From(c))', Exists(To(c))', Begun(c)',
                      NEW x \in Above(c)', Kept(x)', Implied(x)'
               PROVE  Provided(c, x)'
    BY DEF ParentsInv
  <1>1. x \in Above(c) /\ x \in Paths
    BY AboveBefore DEF Above
  <1>2. ~Exists(From(c)) /\ Exists(To(c)) /\ Kept(x) /\ Implied(x)
    BY <1>1, PlanFixed DEF Kept
  <1> QED
    BY <1>1, <1>2 DEF ParentsInv

LEMMA StepParents ==
  ASSUME BaseInv, GuardInv, ParentsInv, [Next]_vars
  PROVE  ParentsInv'
  <1>1. Control /\ plan' = plan /\ plan \in Scenarios
    BY PlanKept DEF BaseInv, Control
  <1>2. \A c \in Paths : ~Exists(From(c)) /\ Exists(To(c)) => c \in Forward
    BY <1>1, Turns DEF Changed, Exists, IsDir
  <1>3. CASE Passing
    BY <1>3, PassingParents
  <1>4. CASE Failing \/ \E killed \in BOOLEAN : Fault(killed)
    <2>1. place' \in {"refused", "failed"}
      BY <1>4, FailingFrame DEF Fail, Fault
    <2> QED
      BY <2>1 DEF ParentsInv, Begun
  <1>5. CASE UserStep \/ UNCHANGED vars \/ CheckBlocker \/ NotListed \/ ListBlockers
    <2>1. UNCHANGED <<place, ahead>> /\ touched \subseteq touched'
      BY <1>5, UserFrame
      DEF vars, work, CheckBlocker, NotListed, ListBlockers, List, Skip, Frame, Settled
    <2>2. Turn' = Turn
      BY <2>1 DEF Turn
    <2>3. place # "forward" \/ UNCHANGED <<step, left>>
      <3>1. CheckBlocker \/ NotListed \/ ListBlockers => place # "forward"
        BY <1>1, OpPlace DEF CheckBlocker, NotListed, ListBlockers
      <3> QED
        BY <1>5, <3>1, UserFrame DEF vars, work
    <2>4. ASSUME NEW x \in Paths, Kept(x)' PROVE disk'[x] = disk[x]
      BY <1>5, <2>4, UserEffect
      DEF Kept, vars, CheckBlocker, NotListed, ListBlockers, List, Skip
    <2>5. \A c \in Paths : \A x \in Above(c) : x \in Paths
      BY AboveBefore
    <2>6. \A c \in Paths : Begun(c)' => Begun(c)
      BY <2>1, <2>2, <2>3 DEF Begun
    <2>7. \A c \in Paths : \A x \in Paths : Kept(x)' /\ Provided(c, x) => Provided(c, x)'
      BY <2>1, <2>2, <2>3, <2>4 DEF Provided
    <2> QED
      BY <1>1, <2>1, <2>5, <2>6, <2>7, SameParents
  <1>6. CASE Staging
    <2>1. UNCHANGED <<disk, touched>>
      BY <1>6 DEF Staging, Validate, StartCommit, TurnBack, Merge, FinishStaging, EndCommit, SyncOne
    <2>2. CASE StartCommit
      <3>1. place' = "forward" /\ ahead' = Forward /\ step' = 1
        BY <1>1, <2>2 DEF StartCommit, Begin, Control
      <3>2. \A c \in Paths : ~Exists(From(c)) /\ Exists(To(c)) => ~Begun(c)'
        BY <1>2, <3>1 DEF Begun
      <3> QED
        BY <1>1, <2>1, <3>2, SameParents
    <2>3. CASE ~StartCommit
      <3>1. \A c \in Paths : Begun(c)' => Begun(c) /\ place' # "forward" /\ (place = "forward" => ahead = {})
        BY <1>6, <2>3
        DEF Begun, Staging, Validate, TurnBack, Begin, Merge, FinishStaging, EndCommit, SyncOne
      <3>2. \A c \in Paths : Begun(c)' => \A x \in Above(c) : Provided(c, x) => Provided(c, x)'
        BY <2>1, <3>1 DEF Provided
      <3> QED
        BY <1>1, <2>1, <3>1, <3>2, SameParents
    <2> QED
      BY <2>2, <2>3
  <1>7. CASE ListMissing
    <2>1. /\ UNCHANGED <<disk, touched, place, ahead>> /\ left' = Missing /\ step' = step + 1
          /\ place = "forward" /\ P = Turn /\ ahead # {} /\ left = {}
      BY <1>1, <1>7, OpPlace DEF ListMissing, List, Frame, Settled
    <2>2. Turn' = Turn
      BY <2>1 DEF Turn
    <2> SUFFICES ASSUME NEW c \in Paths, ~Exists(From(c))', Exists(To(c))', Begun(c)',
                        NEW x \in Above(c)', Kept(x)', Implied(x)'
                 PROVE  Provided(c, x)'
      BY DEF ParentsInv
    <2>3. x \in Above(c) /\ x \in Paths
      BY AboveBefore DEF Above
    <2>4. ~Exists(From(c)) /\ Exists(To(c)) /\ Kept(x) /\ Implied(x)
      BY <1>1, <2>1, <2>3, PlanFixed DEF Kept
    <2>5. CASE c = Turn
      BY <2>1, <2>2, <2>3, <2>5 DEF Provided, Missing
    <2>6. CASE c # Turn
      <3>1. Begun(c)
        BY <2>1, <2>2, <2>6 DEF Begun
      <3>2. Exists(disk[x])
        BY <2>1, <2>3, <2>4, <2>6, <3>1 DEF ParentsInv, Provided
      <3> QED
        BY <2>1, <3>2 DEF Provided
    <2> QED
      BY <2>5, <2>6
  <1> QED
    BY <1>3, <1>4, <1>5, <1>6, <1>7, NextCases

LEMMA InitCheckpoint == Init => CheckpointInv
  <1> SUFFICES ASSUME Init PROVE CheckpointInv
    OBVIOUS
  <1>1. /\ plan \in Scenarios /\ place = "prepare" /\ marker = "prepared" /\ guard = NoToken
        /\ Restored = disk /\ faults = 0
    BY DEF Init, Restored
  <1>2. \A p \in Paths : disk[p] = From(p)
    BY DEF Init, From
  <1>3. TreeInv
    BY <1>1, <1>2, PlanNodes DEF TreeInv, Right, Planned, Implied
  <1> QED
    BY <1>1, <1>3 DEF CheckpointInv, MarkerInv, GuardInv, ParentsInv, Begun

LEMMA StepCheckpoint == BaseInv /\ CheckpointInv /\ [Next]_vars => CheckpointInv'
  BY StepTree, StepMarker, StepGuard, StepParents DEF CheckpointInv

(* The mode of a directory made writable for a publication goes back at the *)
(* end of every commit that no call failed, whatever users do and wherever  *)
(* they move things; when the process dies first, the marker still says so; *)
(* and no directory without a change of its own is left another than it was.*)
THEOREM ModesReturn == Spec => []ReadonlyKept
  <1>1. BaseInv /\ CheckpointInv => ReadonlyKept
    <2> SUFFICES ASSUME BaseInv, CheckpointInv PROVE ReadonlyKept
      OBVIOUS
    <2>1. GuardInv /\ MarkerInv /\ TreeInv /\ Types
      BY DEF BaseInv, CheckpointInv
    <2>2. place \in {"done", "refused", "failed"} /\ faults = 0 => guard = NoToken
      BY <2>1 DEF GuardInv
    <2>3. guard # NoToken => marker = "committing"
      BY <2>1 DEF GuardInv, MarkerInv
    <2>4. ASSUME NEW d \in Paths \ touched, IsDir(From(d)), ~Changed(d), disk[d] # From(d), ~Stray(d)
          PROVE  guard[1] = d
      <3>1. Restored[d] = From(d)
        BY <2>1, <2>4 DEF TreeInv, Kept, Right, Implied, IsDir, Exists
      <3> QED
        BY <2>1, <2>4, <3>1, RestoredType
    <2> QED
      BY <2>2, <2>3, <2>4 DEF ReadonlyKept
  <1> QED
    BY <1>1, InitBase, InitCheckpoint, StepBase, StepCheckpoint, PTL DEF Spec

(***************************************************************************)
(* The commit is an atomic checkpoint.                                     *)
(***************************************************************************)

ModesOnly == \A p \in Paths : Exists(Restored[p]) <=> Exists(disk[p])

LEMMA RestoredModes == Types => ModesOnly
  BY RestoredExists DEF ModesOnly

(* The stage of an entry, told of the tree with its modes put back.         *)
LEMMA StageForm ==
  ASSUME Types, NEW p \in Paths
  PROVE  /\ Stray(p) => StageOf(p) = 2
         /\ ~Stray(p) /\ Implied(p) => StageOf(p) = IF Exists(Restored[p]) THEN 2 ELSE 0
         /\ ~Stray(p) /\ ~Implied(p) => StageOf(p) = IF Restored[p] = To(p) THEN 2
                                                     ELSE IF Restored[p] = From(p) THEN 0 ELSE 1
  BY RestoredModes DEF StageOf, ModesOnly

LEMMA NextStageForm ==
  ASSUME Types', plan' = plan, NEW p \in Paths
  PROVE  /\ Stray(p) => StageOf(p)' = 2
         /\ ~Stray(p) /\ Implied(p) => StageOf(p)' = IF Exists(Restored'[p]) THEN 2 ELSE 0
         /\ ~Stray(p) /\ ~Implied(p) => StageOf(p)' = IF Restored'[p] = To(p) THEN 2
                                                      ELSE IF Restored'[p] = From(p) THEN 0 ELSE 1
  <1>1. ModesOnly'
    BY RestoredModes, PTL
  <1>2. Stray(p)' = Stray(p) /\ Implied(p)' = Implied(p) /\ To(p)' = To(p) /\ From(p)' = From(p)
    BY PlanFixed
  <1> QED
    BY <1>1, <1>2 DEF StageOf, ModesOnly

LEMMA SameStage ==
  ASSUME Types, Types', plan' = plan, NEW p \in Paths, Stray(p) \/ Restored'[p] = Restored[p]
  PROVE  StageOf(p)' = StageOf(p)
  BY StageForm, NextStageForm

(* An operation moves the entry it is about forward, and no other.          *)
LEMMA PassingStages ==
  ASSUME BaseInv, CheckpointInv, Passing
  PROVE  \/ \A p \in Paths \ touched : StageOf(p)' = StageOf(p)
         \/ \E t \in Paths \ touched :
              /\ StageOf(t) < StageOf(t)' /\ StageOf(t) \in 0..2 /\ StageOf(t)' \in 0..2
              /\ \A p \in Paths \ {t} : StageOf(p)' = StageOf(p)
  <1>1. /\ Control /\ Types /\ Running /\ ahead # {} /\ plan' = plan /\ plan \in Scenarios
        /\ P \in Paths /\ Types' /\ TreeInv /\ GuardInv
    <2>1. [Next]_vars
      BY DEF Passing, Next
    <2> QED
      BY <2>1, StepBase, PassingFrame, TurnTrue DEF BaseInv, Control, CheckpointInv, Settled
  <1>2. CASE ~Writing
    <2>1. \A p \in Paths : ~Stray(p) => Restored'[p] = Restored[p]
      BY <1>1, <1>2, StillEffect
    <2> QED
      BY <1>1, <2>1, SameStage
  <1>3. CASE Writing
    <2>1. PICK n \in Nodes : Written(n) /\ \A p \in Paths : Restored'[p] = IF p = P THEN n ELSE Restored[p]
      BY <1>1, <1>3, WritingEffect
    <2>2. PICK t \in Paths : t = P
      BY <1>1
    <2>3. \A p \in Paths \ {t} : StageOf(p)' = StageOf(p)
      BY <1>1, <2>1, <2>2, SameStage
    <2>4. CASE ~Kept(t)
      <3>1. CASE t \in touched
        BY <2>3, <3>1
      <3>2. CASE Stray(t)
        BY <1>1, <2>3, <3>2, SameStage
      <3> QED
        BY <2>4, <3>1, <3>2 DEF Kept
    <2>5. CASE Kept(t)
      <3>1. t \in Paths \ touched /\ ~Stray(t) /\ Right(t)
        BY <1>1, <2>5 DEF Kept, TreeInv
      <3>2. StageOf(t) \in 0..2 /\ StageOf(t)' \in 0..2
        BY <1>1, <3>1, StageForm, NextStageForm
      <3>3. StageOf(t) <= StageOf(t)'
        <4>1. CASE left # {}
          <5>1. Op = "mkdir" /\ place = "forward"
            BY <1>1, <1>3, <4>1, OpPlace
            DEF Writing, Unlink, PublishNew, PublishOver, Symlink, LinkTimes, MakeDir, RemoveDir,
                UpdateMeta, UpdateDirMeta, Doing
          <5>2. n = Folder("raw", TRUE) /\ ~Exists(disk[P])
            BY <2>1, <5>1 DEF Written
          <5>3. Implied(t)
            BY <1>1, <2>2, <2>5, <4>1, <5>1, <5>2, ListedMissing, MissingImplied
          <5>4. Exists(Restored'[t])
            BY <2>1, <2>2, <5>2 DEF Exists, Folder
          <5> QED
            BY <1>1, <3>1, <3>2, <5>3, <5>4, NextStageForm
        <4>2. CASE left = {}
          <5>1. t = Turn /\ Changed(t) /\ ~Implied(t)
            BY <1>1, <2>2, <4>2, TurnTrue, ForwardShape, SecondShape DEF Implied, Running
          <5>2. Restored[t] = Planned(t) /\ Restored'[t] = n
            BY <1>1, <2>1, <2>2, <3>1, <5>1 DEF Right, Running
          <5>3. Restored[t] = From(t) \/ n = To(t) \/ (Restored[t] # To(t) /\ n # From(t))
            BY <1>3, <2>1, <4>2, <5>1, <5>2, TurnWritten
          <5>4. From(t) # To(t)
            BY <5>1 DEF Changed
          <5> QED
            BY <1>1, <3>1, <5>1, <5>2, <5>3, <5>4, StageForm, NextStageForm
        <4> QED
          BY <4>1, <4>2
      <3>4. StageOf(t)' = StageOf(t) \/ StageOf(t) < StageOf(t)'
        BY <3>2, <3>3
      <3> QED
        BY <2>3, <3>1, <3>2, <3>4
    <2> QED
      BY <2>4, <2>5
  <1> QED
    BY <1>2, <1>3

(* A step with which no entry moves but such as others touch.               *)
LEMMA OutsideStep ==
  ASSUME marker' = marker, touched \subseteq touched', touched' \subseteq Paths,
         \A p \in Paths \ touched' : StageOf(p)' = StageOf(p)
  PROVE  Checkpoint!Outside
  <1>1. \A p \in Paths : StageOf(p)' \in 0..2
    BY DEF StageOf
  <1> QED
    BY <1>1 DEF Checkpoint!Outside

(* When everything is done but the marker, all that nobody touched is as    *)
(* planned.                                                                *)
LEMMA AllPlanned ==
  ASSUME BaseInv, CheckpointInv, place = "sync", NEW p \in Paths \ touched
  PROVE  StageOf(p) = 2
  <1>1. /\ Types /\ Control /\ plan \in Scenarios /\ ahead = {} /\ (~Stray(p) => Right(p))
    BY DEF BaseInv, Control, CheckpointInv, TreeInv, Kept
  <1>2. CASE ~Stray(p) /\ Implied(p)
    <2>1. PICK c \in Descendants(p) : Exists(To(c))
      BY <1>2 DEF Implied
    <2>2. c \in Paths /\ p \in Ancestry[c] /\ p \in Above(c)
      BY <2>1, DescendantAbove
    <2>3. ~Exists(From(c))
      BY <1>1, <1>2, <2>2, AboveOld DEF Implied
    <2>4. Exists(disk[p])
      BY <1>2, <2>1, <2>2, <2>3 DEF CheckpointInv, ParentsInv, Begun, Kept, Provided
    <2> QED
      BY <1>1, <1>2, <2>4, StageForm, RestoredExists
  <1>3. CASE ~Stray(p) /\ ~Implied(p)
    <2>1. Restored[p] = To(p)
      BY <1>1, <1>3 DEF Right, Planned, Changed
    <2> QED
      BY <1>1, <1>3, <2>1, StageForm
  <1> QED
    BY <1>1, <1>2, <1>3, StageForm

LEMMA InitImplements == Init => Checkpoint!Init
  <1> SUFFICES ASSUME Init PROVE Checkpoint!Init
    OBVIOUS
  <1>1. Types /\ Restored = disk
    BY InitTypes DEF Init, Restored
  <1>2. \A p \in Paths : disk[p] = From(p)
    BY DEF Init, From
  <1>3. \A p \in Paths : StageOf(p) \in {0, 2}
    BY <1>1, <1>2, StageForm
  <1> QED
    BY <1>3 DEF Checkpoint!Init, Init

LEMMA StepImplements ==
  ASSUME BaseInv, CheckpointInv, [Next]_vars
  PROVE  [Checkpoint!Next]_(Checkpoint!vars)
  <1>1. Types /\ Types' /\ plan' = plan /\ touched' \subseteq Paths /\ MarkerInv
    BY StepBase, PlanKept DEF BaseInv, Types, TypeOK, CheckpointInv
  <1>2. ASSUME marker' = marker, touched \subseteq touched',
               \A p \in Paths \ touched' : Restored'[p] = Restored[p]
        PROVE  Checkpoint!Outside
    BY <1>1, <1>2, SameStage, OutsideStep
  <1>3. CASE Passing
    <2>1. marker' = marker /\ touched' = touched /\ marker = "committing"
      BY <1>1, <1>3, PassingFrame DEF Settled, Running, MarkerInv
    <2>2. CASE \A p \in Paths \ touched : StageOf(p)' = StageOf(p)
      BY <1>1, <2>1, <2>2, OutsideStep DEF Checkpoint!Next
    <2>3. CASE \E t \in Paths \ touched :
                 /\ StageOf(t) < StageOf(t)' /\ StageOf(t) \in 0..2 /\ StageOf(t)' \in 0..2
                 /\ \A p \in Paths \ {t} : StageOf(p)' = StageOf(p)
      <3>1. PICK t \in Paths \ touched :
                 /\ StageOf(t) < StageOf(t)' /\ StageOf(t) \in 0..2 /\ StageOf(t)' \in 0..2
                 /\ \A p \in Paths \ {t} : StageOf(p)' = StageOf(p)
        BY <2>3
      <3>2. StageOf(t)' \in {1, 2}
        BY <3>1
      <3>3. [p \in Paths |-> StageOf(p)]' = [[p \in Paths |-> StageOf(p)] EXCEPT ![t] = StageOf(t)']
        BY <3>1
      <3>4. Checkpoint!Advance
        BY <2>1, <3>1, <3>2, <3>3 DEF Checkpoint!Advance
      <3> QED
        BY <3>4 DEF Checkpoint!Next
    <2> QED
      BY <1>3, <2>2, <2>3, PassingStages
  <1>4. CASE Failing \/ \E killed \in BOOLEAN : Fault(killed)
    <2>1. Restored' = Restored /\ UNCHANGED <<marker, touched>>
      BY <1>1, <1>4, FailingFrame, FailEffect
    <2> QED
      BY <1>2, <2>1 DEF Checkpoint!Next
  <1>5. CASE UserStep
    BY <1>2, <1>5, UserFrame, UserEffect DEF Checkpoint!Next
  <1>6. CASE Staging \/ ListMissing \/ ListBlockers \/ CheckBlocker \/ NotListed \/ UNCHANGED vars
    <2>1. UNCHANGED <<disk, gen, guard, touched>>
      BY <1>6 DEF Staging, Validate, StartCommit, TurnBack, Merge, FinishStaging, EndCommit, SyncOne,
                  ListMissing, ListBlockers, List, CheckBlocker, NotListed, Skip, Frame, Settled, vars
    <2>2. Restored' = Restored
      BY <2>1 DEF Restored
    <2>3. [p \in Paths |-> StageOf(p)]' = [p \in Paths |-> StageOf(p)]
      <3>1. \A p \in Paths : StageOf(p)' = StageOf(p)
        BY <1>1, <2>2, SameStage
      <3> QED
        BY <3>1
    <2>4. CASE StartCommit
      <3>1. marker = "prepared" /\ marker' = "committing"
        BY <1>1, <2>4 DEF StartCommit, MarkerInv
      <3> QED
        BY <2>1, <2>3, <3>1 DEF Checkpoint!Next, Checkpoint!Fence
    <2>5. CASE EndCommit
      <3>1. marker = "committing" /\ marker' = "committed" /\ place = "sync"
        BY <1>1, <2>5 DEF EndCommit, MarkerInv
      <3> QED
        BY <2>1, <2>3, <3>1, AllPlanned DEF Checkpoint!Next, Checkpoint!Settle
    <2>6. CASE ~(StartCommit \/ EndCommit)
      <3>1. marker' = marker
        BY <1>6, <2>6 DEF Staging, Validate, TurnBack, Merge, FinishStaging, SyncOne,
                  ListMissing, ListBlockers, List, CheckBlocker, NotListed, Skip, Frame, Settled, vars
      <3> QED
        BY <1>2, <2>1, <2>2, <3>1 DEF Checkpoint!Next
    <2> QED
      BY <2>4, <2>5, <2>6
  <1>7. Checkpoint!Next => [Checkpoint!Next]_(Checkpoint!vars)
    OBVIOUS
  <1> QED
    BY <1>3, <1>4, <1>5, <1>6, <1>7, NextCases

(* The commit implements the checkpoint: nothing changes before the marker  *)
(* says committing; then every change of the plan only moves forward, one   *)
(* at a time; and the marker says committed only when all that nobody else  *)
(* touched is as planned, the directories above what is new included.       *)
THEOREM Implements == Spec => CommitIsCheckpoint
  <1>1. BaseInv /\ CheckpointInv /\ [Next]_vars => [Checkpoint!Next]_(Checkpoint!vars)
    BY StepImplements
  <1> QED
    BY <1>1, InitImplements, InitBase, InitCheckpoint, StepBase, StepCheckpoint, PTL
    DEF Spec, CommitIsCheckpoint, Checkpoint!Spec

(***************************************************************************)
(* A preflight that passes is enough.                                       *)
(***************************************************************************)

(* What preflight has seen of the tree when it passed, which was then as    *)
(* the plan has it.                                                         *)
FromAt(d) == IF d = Root THEN Folder("old", TRUE) ELSE From(d)
PlanCreatable(d) ==
  \A x \in Ancestry[d] : ~Exists(From(x)) /\ Exists(FromAt(Parent[x])) =>
    IsDir(FromAt(Parent[x])) /\ FromAt(Parent[x]).rw
Blocks(c) ==
  /\ Exists(From(c)) /\ ~Removed(c)
  /\ Parent[c] # Root /\ Removed(Parent[c]) /\ IsDir(From(Parent[c]))
BlockersFit ==
  \A c \in Paths : Blocks(c) =>
    /\ Prunable(c) /\ From(Parent[c]).rw
    /\ IsDir(From(c)) =>
         /\ From(c).rw
         /\ \A x \in Descendants(c) : Exists(From(x)) => Class[x] # "excluded" /\ From(x).rw
ParentsFit ==
  \A p \in Paths : Mutates(p) =>
    IF ~Exists(FromAt(Parent[p]))
    THEN PlannedFolder(Parent[p]) \/ (~Exists(From(p)) /\ PlanCreatable(Parent[p]))
    ELSE /\ IsDir(FromAt(Parent[p]))
         /\ FromAt(Parent[p]).rw \/ To(p).kind = "file"

BeforeInv ==
  /\ touched = {}
  /\ place \in {"prepare", "valid", "fence"} => disk = plan.from /\ dirty = {}
  /\ place # "prepare" => BlockersFit /\ ParentsFit

(* What policy leaves out of the plan is as it was, put aside, or swept.    *)
StrayInv ==
  \A x \in Paths : Stray(x) =>
    \/ disk[x] \in {From(x), Absent}
    \/ IsDir(From(x)) /\ disk[x] = [From(x) EXCEPT !.kind = "aside"]

(* The ledger has directories that are there, under their identity, and the *)
(* guard and the token are of the one they were made for.                   *)
LedgerTrue ==
  \A r \in dirty : r[1] # Root => ~Stray(r[1]) /\ IsDir(disk[r[1]]) /\ r[2] = gen[r[1]]
GuardTrue == guard # NoToken => guard[2] = gen[guard[1]]
Mutating == {"unlink", "link", "rename", "symlink", "times", "mkdir", "rmdir"}
Armed == Running /\ ahead # {} /\ Op \in Mutating => tok = <<Parent[P], IdOf(Parent[P])>>

(* In the second pass directories go before those above them.              *)
UpFirst == place = "reverse" => \A a \in ahead : Parent[a] \in Second => Parent[a] \in ahead

(* The lists of an operation: what is missing, and what still blocks.       *)
ListTrue ==
  /\ place = "forward" => \A x \in left : ~Exists(disk[x])
  /\ place = "reverse" /\ left # {} =>
       /\ sub = 2 => IsDir(disk[P])
       /\ sub = 3 => Exists(disk[P]) /\ ~IsDir(disk[P])
  /\ place = "reverse" /\ ahead # {} /\ step > 2 =>
       \A c \in Children(Turn) : ~Removed(c) /\ Exists(disk[c]) => c \in left

Fit == BeforeInv /\ StrayInv /\ LedgerTrue /\ GuardTrue /\ Armed /\ UpFirst /\ ListTrue
Ended == {"refused", "failed", "done"}
Smooth == BaseInv /\ CheckpointInv /\ Undisturbed /\ place \notin Ended /\ Fit

-----------------------------------------------------------------------------
(* The tree of paths.                                                       *)

LEMMA AncestryUp ==
  ASSUME NEW p \in Paths, NEW x \in Ancestry[p], NEW a \in Ancestry[x]
  PROVE  x \in Paths /\ a \in Paths /\ a \in Ancestry[p]
  <1>1. x \in Paths
    BY DEF Ancestry
  <1>2. a \in Paths /\ \A S \in SUBSET Paths : x \in S /\ Closed(S) => a \in S
    BY <1>1 DEF Ancestry
  <1>3. \A S \in SUBSET Paths : p \in S /\ Closed(S) => x \in S
    BY DEF Ancestry
  <1> QED
    BY <1>1, <1>2, <1>3 DEF Ancestry

LEMMA ParentAbove ==
  ASSUME NEW p \in Paths, Parent[p] # Root
  PROVE  Parent[p] \in Paths /\ Parent[p] \in Above(p) /\ Parent[p] # p /\ Parent[p] \in Ancestry[p]
  <1>1. Parent[p] \in Paths
    BY OrderAssumption
  <1>2. Parent[p] \in Above(p)
    BY <1>1, SelfAncestry DEF Above
  <1>3. Pos(Parent[p]) < Pos(p) /\ Pos(p) \in Nat
    BY <1>1, Positions
  <1> QED
    BY <1>1, <1>2, <1>3, AboveBefore

LEMMA AboveUp ==
  ASSUME NEW p \in Paths, NEW x \in Above(p)
  PROVE  /\ Above(x) \subseteq Above(p)
         /\ Parent[x] # Root => Parent[x] \in Above(p)
  <1>1. x \in Paths /\ Parent[p] \in Paths /\ x \in Ancestry[Parent[p]] /\ Parent[p] # Root
    BY AboveBefore, OrderAssumption DEF Above
  <1>2. \A a \in Ancestry[x] : a \in Above(p)
    BY <1>1, AncestryUp DEF Above
  <1>3. \A a \in Above(x) : a \in Ancestry[x]
    BY <1>1, AboveBefore
  <1>4. Parent[x] # Root => Parent[x] \in Above(x)
    BY <1>1, ParentAbove
  <1> QED
    BY <1>2, <1>3, <1>4

LEMMA ChildBelow ==
  ASSUME NEW d \in Paths, NEW c \in Children(d)
  PROVE  c \in Paths /\ Parent[c] = d /\ Parent[c] # Root /\ d \in Above(c) /\ c \in Descendants(d) /\ c # d
  <1>1. c \in Paths /\ Parent[c] = d /\ Parent[c] # Root
    BY OrderAssumption DEF Children
  <1> QED
    BY <1>1, ParentAbove, AboveBefore

LEMMA StrayDown ==
  ASSUME NEW p \in Paths, NEW x \in Ancestry[p], Stray(x)
  PROVE  Stray(p)
  BY AncestryUp DEF Stray

LEMMA ChangedKept ==
  ASSUME plan \in Scenarios, NEW p \in Paths, Changed(p)
  PROVE  ~Stray(p) /\ \A x \in Above(p) : x \in Paths /\ ~Stray(x)
  <1>1. ~Stray(p)
    BY IgnoredAssumption DEF Changed, From, To
  <1>2. \A x \in Above(p) : x \in Paths /\ x \in Ancestry[p]
    BY AboveBefore
  <1> QED
    BY <1>1, <1>2, StrayDown

(* What is above an old entry is an old directory.                          *)
LEMMA OldAbove ==
  ASSUME plan \in Scenarios, NEW p \in Paths, Exists(From(p)), NEW x \in Above(p)
  PROVE  IsDir(From(x))
  <1> DEFINE S == {p} \cup {y \in Paths : IsDir(From(y))}
  <1>1. \A y \in Paths : Exists(From(y)) /\ Parent[y] # Root => IsDir(From(Parent[y]))
    BY PlanAssumption DEF IsPlan, From
  <1>2. \A y \in S : y \in Paths /\ Exists(From(y))
    BY DEF IsDir, Exists
  <1>3. \A y \in S : Parent[y] \in S \cup {Root}
    BY <1>1, <1>2, OrderAssumption
  <1>4. S \in SUBSET Paths /\ p \in S /\ Closed(S)
    BY <1>3 DEF Closed
  <1>5. x \in Paths /\ x \in Ancestry[p] /\ x # p
    <2>1. x \in Paths /\ x \in Ancestry[p] /\ Pos(x) < Pos(p) /\ Pos(p) \in Nat
      BY AboveBefore, Positions
    <2> QED
      BY <2>1
  <1>6. x \in S
    <2> HIDE DEF S
    <2> QED
      BY <1>4, <1>5 DEF Ancestry
  <1> QED
    BY <1>5, <1>6
-----------------------------------------------------------------------------
(* What comes before what in a turn.                                        *)

LEMMA ForwardOrder ==
  ASSUME plan \in Scenarios, NEW p \in Forward, NEW i \in 1..Len(ForwardOps(p))
  PROVE  LET o == ForwardOps(p)
             Earlier(op) == \E j \in 1..(i - 1) : o[j] = op
             Fresh == ~Earlier("unlink") /\ ~Earlier("symlink") /\ ~Earlier("link") /\ ~Earlier("rename")
         IN /\ i = 1 => o[i] \in {"parents", "target"}
            /\ o[i] \in {"target", "open", "link", "rename", "unlink", "meta"} => Fresh
            /\ o[i] \in Mutating => i > 1 /\ o[i - 1] \in {"prepare", "open"}
            /\ o[i] = "link" => ~Exists(From(p))
            /\ o[i] \in {"rename", "unlink", "meta"} => Exists(From(p))
            /\ o[i] \in {"unlink", "symlink", "mkdir"} => To(p).kind # "file"
            /\ o[i] \in {"symlink", "mkdir"} /\ Exists(From(p)) => Earlier("unlink")
            /\ o[i] \in {"symlink", "mkdir"} =>
                 ~Earlier("symlink") /\ ~Earlier("link") /\ ~Earlier("rename")
            /\ o[i] \notin {"parents", "target"} => i > 1
            /\ ~Exists(From(p)) /\ o[i] # "parents" => i > 1
            /\ o[i] = "times" => Earlier("symlink") /\ ~Earlier("link") /\ ~Earlier("rename")
            /\ o[i] = "meta" => From(p) = Leaf("file", "old")
  <1> DEFINE o == ForwardOps(p)
             Earlier(op) == \E j \in 1..(i - 1) : o[j] = op
             Fresh == ~Earlier("unlink") /\ ~Earlier("symlink") /\ ~Earlier("link") /\ ~Earlier("rename")
             from == Exists(From(p))  file == To(p).kind = "file"  meta == From(p) = Leaf("file", "old")
  <1>1. \/ from /\ ~file /\ o = <<"target", "prepare", "unlink">>
        \/ from /\ o = <<"parents", "target", "open", "rename", "close">>
        \/ ~from /\ o = <<"parents", "open", "link", "close">>
        \/ from /\ meta /\ o = <<"target", "meta">>
        \/ from /\ ~file /\ o = <<"target", "prepare", "unlink", "prepare", "symlink", "prepare", "times">>
        \/ ~from /\ ~file /\ o = <<"parents", "prepare", "symlink", "prepare", "times">>
        \/ from /\ ~file /\ o = <<"target", "prepare", "unlink", "prepare", "mkdir">>
        \/ ~from /\ ~file /\ o = <<"parents", "prepare", "mkdir">>
    BY ForwardShape, NodeForms DEF IsDir, Exists, Kinds, Versions
  <1>2. i \in 1..Len(o)
    OBVIOUS
  <1> DEFINE Goal ==
            /\ i = 1 => o[i] \in {"parents", "target"}
            /\ o[i] \in {"target", "open", "link", "rename", "unlink", "meta"} => Fresh
            /\ o[i] \in Mutating => i > 1 /\ o[i - 1] \in {"prepare", "open"}
            /\ o[i] = "link" => ~from
            /\ o[i] \in {"rename", "unlink", "meta"} => from
            /\ o[i] \in {"unlink", "symlink", "mkdir"} => ~file
            /\ o[i] \in {"symlink", "mkdir"} /\ from => Earlier("unlink")
            /\ o[i] \in {"symlink", "mkdir"} =>
                 ~Earlier("symlink") /\ ~Earlier("link") /\ ~Earlier("rename")
            /\ o[i] \notin {"parents", "target"} => i > 1
            /\ ~from /\ o[i] # "parents" => i > 1
            /\ o[i] = "times" => Earlier("symlink") /\ ~Earlier("link") /\ ~Earlier("rename")
            /\ o[i] = "meta" => meta
  <1> HIDE DEF o, from, file, meta
  <1>3. Goal
    <2>1. CASE from /\ ~file /\ o = <<"target", "prepare", "unlink">>
      BY <1>2, <2>1 DEF Mutating
    <2>2. CASE from /\ o = <<"parents", "target", "open", "rename", "close">>
      BY <1>2, <2>2 DEF Mutating
    <2>3. CASE ~from /\ o = <<"parents", "open", "link", "close">>
      BY <1>2, <2>3 DEF Mutating
    <2>4. CASE from /\ meta /\ o = <<"target", "meta">>
      BY <1>2, <2>4 DEF Mutating
    <2>5. CASE from /\ ~file /\ o = <<"target", "prepare", "unlink", "prepare", "symlink", "prepare", "times">>
      BY <1>2, <2>5 DEF Mutating
    <2>6. CASE ~from /\ ~file /\ o = <<"parents", "prepare", "symlink", "prepare", "times">>
      BY <1>2, <2>6 DEF Mutating
    <2>7. CASE from /\ ~file /\ o = <<"target", "prepare", "unlink", "prepare", "mkdir">>
      BY <1>2, <2>7 DEF Mutating
    <2>8. CASE ~from /\ ~file /\ o = <<"parents", "prepare", "mkdir">>
      BY <1>2, <2>8 DEF Mutating
    <2> HIDE DEF Goal
    <2> QED
      BY <1>1, <2>1, <2>2, <2>3, <2>4, <2>5, <2>6, <2>7, <2>8
  <1> QED
    BY <1>3 DEF o, from, file, meta

LEMMA SecondOrder ==
  ASSUME plan \in Scenarios, NEW p \in Second, NEW i \in 1..Len(SecondOps(p))
  PROVE  LET o == SecondOps(p)
         IN /\ i = 1 => o[i] \in {"target", "dirmeta"}
            /\ o[i] \in Mutating => i > 1 /\ o[i - 1] \in {"prepare", "open"}
            /\ o[i] = "target" => IsDir(From(p))
            /\ o[i] \in {"prune", "prepare", "rmdir"} \/ i > 2 => IsDir(From(p)) /\ To(p) = Absent
            /\ o[i] \in {"prepare", "rmdir"} <=> i > 2
            /\ o[i] = "dirmeta" => IsDir(To(p))
  <1> DEFINE o == SecondOps(p)  from == IsDir(From(p))  gone == To(p) = Absent  dir == IsDir(To(p))
  <1>1. \/ from /\ gone /\ o = <<"target", "prune", "prepare", "rmdir">>
        \/ from /\ dir /\ o = <<"target", "dirmeta">>
        \/ dir /\ o = <<"dirmeta">>
    BY SecondShape
  <1>2. i \in 1..Len(o)
    OBVIOUS
  <1> HIDE DEF o, from, gone, dir
  <1>3. /\ i = 1 => o[i] \in {"target", "dirmeta"}
        /\ o[i] \in Mutating => i > 1 /\ o[i - 1] \in {"prepare", "open"}
        /\ o[i] = "target" => from
        /\ o[i] \in {"prune", "prepare", "rmdir"} \/ i > 2 => from /\ gone
        /\ o[i] \in {"prepare", "rmdir"} <=> i > 2
        /\ o[i] = "dirmeta" => dir
    <2>1. CASE from /\ gone /\ o = <<"target", "prune", "prepare", "rmdir">>
      BY <1>2, <2>1 DEF Mutating
    <2>2. CASE from /\ dir /\ o = <<"target", "dirmeta">>
      BY <1>2, <2>2 DEF Mutating
    <2>3. CASE dir /\ o = <<"dirmeta">>
      BY <1>2, <2>3 DEF Mutating
    <2> QED
      BY <1>1, <2>1, <2>2, <2>3
  <1> QED
    BY <1>3 DEF o, from, gone, dir

-----------------------------------------------------------------------------
(* What an undisturbed commit finds at its turn.                            *)

LEMMA SmoothTurn ==
  ASSUME Smooth, ahead # {}
  PROVE  /\ Running /\ Control /\ Types /\ plan \in Scenarios /\ touched = {}
         /\ Turn \in ahead /\ Turn \in Paths /\ P \in Paths /\ step \in 1..Len(Ops)
         /\ Changed(Turn) /\ ~Stray(Turn) /\ ~Implied(Turn) /\ Restored[Turn] = Planned(Turn)
         /\ place = "forward" => Turn \in Forward /\ Ops = ForwardOps(Turn) /\ Planned(Turn) = Midway(Turn)
         /\ place = "reverse" => Turn \in Second /\ Ops = SecondOps(Turn) /\ Planned(Turn) = Forwarded(Turn)
         /\ \A x \in Above(Turn) : x \in Paths /\ ~Stray(x) /\ Right(x)
  <1>1. /\ Control /\ Types /\ TreeInv /\ touched = {} /\ plan \in Scenarios /\ InTurn
    BY DEF Smooth, BaseInv, CheckpointInv, Control, Fit, BeforeInv
  <1>2. /\ Running /\ Turn \in ahead /\ Turn \in Paths /\ P \in Paths
        /\ place = "forward" => Turn \in Forward
        /\ place = "reverse" => Turn \in Second
    BY <1>1, TurnTrue
  <1>3. Changed(Turn)
    BY <1>1, <1>2, ForwardShape, SecondShape DEF Running
  <1>4. ~Stray(Turn) /\ \A x \in Above(Turn) : x \in Paths /\ ~Stray(x)
    BY <1>1, <1>2, <1>3, ChangedKept
  <1>5. Right(Turn) /\ \A x \in Above(Turn) : Right(x)
    BY <1>1, <1>2, <1>4 DEF TreeInv, Kept
  <1>6. ~Implied(Turn) /\ Restored[Turn] = Planned(Turn)
    BY <1>2, <1>3, <1>5 DEF Right, Implied, Running
  <1>7. /\ place = "forward" => Ops = ForwardOps(Turn) /\ Planned(Turn) = Midway(Turn)
        /\ place = "reverse" => Ops = SecondOps(Turn) /\ Planned(Turn) = Forwarded(Turn)
    BY <1>2 DEF Ops, Planned
  <1>8. step \in 1..Len(Ops)
    BY <1>1 DEF InTurn
  <1> QED
    BY <1>1, <1>2, <1>3, <1>4, <1>5, <1>6, <1>7, <1>8

LEMMA SmoothGuard ==
  ASSUME Smooth
  PROVE  /\ guard = NoToken => Restored = disk
         /\ guard # NoToken => /\ Running /\ ahead # {} /\ place = "forward" /\ left = {} /\ P = Turn
                               /\ Op \in {"link", "rename", "close"}
                               /\ guard[1] = Parent[P] /\ guard[1] # P /\ guard[1] \in Paths
  <1>1. guard = NoToken => Restored = disk
    BY DEF Restored
  <1>2. ASSUME guard # NoToken
        PROVE  /\ Running /\ ahead # {} /\ place = "forward" /\ left = {} /\ P = Turn
               /\ Op \in {"link", "rename", "close"}
               /\ guard[1] = Parent[P] /\ guard[1] # P /\ guard[1] \in Paths
    <2>1. GuardInv /\ Control /\ Tokens /\ place # "failed"
      BY DEF Smooth, BaseInv, CheckpointInv, Types, Ended
    <2>2. Running /\ ahead # {}
      BY <1>2, <2>1 DEF GuardInv, Running
    <2> QED
      BY <1>2, <2>1, <2>2, GuardHeld DEF Tokens
  <1> QED
    BY <1>1, <1>2

LEMMA OldFolder ==
  ASSUME Smooth, ahead # {}, Exists(From(Turn)), NEW x \in Above(Turn),
         place = "forward" \/ x = Parent[Turn]
  PROVE  Restored[x] = From(x) /\ IsDir(From(x))
  <1>1. /\ plan \in Scenarios /\ Turn \in Paths /\ Turn \in ahead /\ Running
        /\ x \in Paths /\ Right(x) /\ Control
    BY SmoothTurn
  <1>2. IsDir(From(x))
    BY <1>1, OldAbove
  <1>3. ~Implied(x)
    BY <1>2 DEF Implied, IsDir, Exists
  <1>4. CASE ~Changed(x)
    BY <1>1, <1>2, <1>3, <1>4 DEF Right
  <1>5. CASE Changed(x)
    <2>1. Restored[x] = Planned(x) /\ Forwarded(x) = From(x)
      BY <1>1, <1>2, <1>3, <1>5 DEF Right, Running, Forwarded
    <2>2. CASE place = "forward"
      <3>1. x \notin ahead
        BY <1>1, <1>2, <2>2, Turns DEF Control
      <3> QED
        BY <1>2, <2>1, <2>2, <3>1 DEF Planned
    <2>3. CASE place = "reverse"
      <3>1. x \in Second /\ x = Parent[Turn]
        BY <1>1, <1>2, <1>5, <2>3, Turns
      <3>2. x \in ahead
        BY <1>1, <2>3, <3>1 DEF Smooth, Fit, UpFirst
      <3> QED
        BY <1>2, <2>1, <2>3, <3>2 DEF Planned
    <2> QED
      BY <1>1, <2>2, <2>3 DEF Running
  <1> QED
    BY <1>4, <1>5

LEMMA NewFolder ==
  ASSUME Smooth, ahead # {}, place = "forward", ~Exists(From(Turn)), step > 1, NEW x \in Above(Turn)
  PROVE  \/ x \in left
         \/ Restored[x] = From(x) /\ IsDir(From(x))
         \/ Restored[x] = Folder("raw", TRUE) /\ ~IsDir(From(x))
  <1>1. /\ plan \in Scenarios /\ Turn \in Paths /\ Turn \in ahead /\ Running /\ Types
        /\ x \in Paths /\ Right(x) /\ Control /\ Changed(Turn) /\ ~Stray(x) /\ touched = {}
        /\ \A q \in ahead : Pos(Turn) <= Pos(q)
    BY SmoothTurn, TurnTrue
  <1>2. Exists(To(Turn))
    BY <1>1, PlanNodes DEF Changed
  <1>3. Pos(x) < Pos(Turn) /\ Turn \in Descendants(x)
    BY <1>1, AboveBefore
  <1>4. x \notin ahead
    <2>1. Pos(x) \in Nat /\ Pos(Turn) \in Nat
      BY <1>1, Positions
    <2> QED
      BY <1>1, <1>3, <2>1
  <1>5. CASE IsDir(To(x))
    <2>1. ~Implied(x)
      BY <1>5 DEF Implied, Changed, IsDir, Exists
    <2>2. CASE ~Changed(x)
      BY <1>1, <1>5, <2>1, <2>2 DEF Right, Changed
    <2>3. CASE Changed(x)
      <3>1. Restored[x] = Forwarded(x)
        BY <1>1, <1>4, <2>1, <2>3 DEF Right, Planned
      <3> QED
        BY <1>5, <2>3, <3>1 DEF Forwarded
    <2> QED
      BY <2>2, <2>3
  <1>6. CASE ~Exists(From(x)) /\ ~Exists(To(x))
    <2>1. Implied(x)
      BY <1>1, <1>2, <1>3, <1>6, PlanNodes DEF Implied, Changed
    <2>2. Provided(Turn, x)
      BY <1>1, <1>2, <2>1 DEF Smooth, CheckpointInv, ParentsInv, Begun, Kept
    <2>3. ~IsDir(From(x))
      BY <1>6 DEF IsDir, Exists
    <2>4. CASE Exists(disk[x])
      <3>1. Exists(Restored[x])
        BY <1>1, <2>4, RestoredExists
      <3>2. Restored[x] \in {Absent, Folder("raw", TRUE)}
        BY <1>1, <2>1 DEF Right
      <3>3. ~Exists(Absent)
        BY DEF Exists, Absent
      <3> QED
        BY <2>3, <3>1, <3>2, <3>3
    <2> QED
      BY <2>2, <2>4 DEF Provided
  <1> QED
    BY <1>1, <1>2, <1>5, <1>6, AboveNew

(* The directory an operation of the first pass works in is there.          *)
LEMMA ParentThere ==
  ASSUME Smooth, NEW op, Doing(op), place = "forward", op # "parents", Parent[P] # Root
  PROVE  /\ Parent[P] \in Paths /\ ~Stray(Parent[P]) /\ Parent[P] \in Above(Turn)
         /\ \/ Restored[Parent[P]] = From(Parent[P]) /\ IsDir(From(Parent[P]))
            \/ /\ Restored[Parent[P]] = Folder("raw", TRUE) /\ ~IsDir(From(Parent[P]))
               /\ ~Exists(From(Turn))
         /\ left # {} => ~Exists(From(Turn)) /\ P \in Above(Turn) /\ ~Exists(disk[P])
  <1>1. ahead # {} /\ Op = op
    BY DEF Doing
  <1>2. /\ plan \in Scenarios /\ Turn \in Paths /\ Turn \in Forward /\ Ops = ForwardOps(Turn)
        /\ step \in 1..Len(Ops) /\ Control /\ Types /\ InTurn
        /\ \A x \in Above(Turn) : x \in Paths /\ ~Stray(x)
    BY <1>1, SmoothTurn DEF Control
  <1>3. left = {} => P = Turn /\ op = Ops[step]
    BY <1>2, OpPlace
  <1>4. left # {} => P \in left /\ P \in Above(Turn) /\ step > 1 /\ \A y \in left : y \in Paths /\ Pos(P) <= Pos(y)
    <2> SUFFICES ASSUME left # {} PROVE P \in left /\ P \in Above(Turn) /\ step > 1 /\ \A y \in left : y \in Paths /\ Pos(P) <= Pos(y)
      OBVIOUS
    <2>1. P = First(left) /\ P \in left /\ left \subseteq Paths /\ left \subseteq Above(Turn) /\ step > 1
      BY <1>1, <1>2, TurnTrue DEF InTurn
    <2> QED
      BY <2>1, FirstIsFirst
  <1>5. Parent[P] \in Above(Turn)
    BY <1>2, <1>3, <1>4, ParentAbove, AboveUp
  <1>6. Parent[P] \notin left
    <2> SUFFICES ASSUME Parent[P] \in left PROVE FALSE
      OBVIOUS
    <2>1. P \in Paths /\ Parent[P] \in Paths
      BY <1>2, <1>4, <1>5
    <2>2. Pos(Parent[P]) < Pos(P) /\ Pos(P) \in Nat /\ Pos(Parent[P]) \in Nat
      BY <2>1, Positions
    <2> QED
      BY <1>4, <2>2
  <1>7. left # {} => ~Exists(From(Turn)) /\ ~Exists(disk[P])
    <2> SUFFICES ASSUME left # {} PROVE ~Exists(From(Turn)) /\ ~Exists(disk[P])
      OBVIOUS
    <2>1. ~Exists(disk[P]) /\ P \in Paths
      BY <1>2, <1>4 DEF Smooth, Fit, ListTrue
    <2>2. ASSUME Exists(From(Turn)) PROVE FALSE
      <3>1. Restored[P] = From(P) /\ IsDir(From(P))
        BY <1>1, <1>4, <2>2, OldFolder
      <3> QED
        BY <1>2, <2>1, <3>1, RestoredExists DEF IsDir, Exists
    <2> QED
      BY <2>1, <2>2
  <1>8. CASE Exists(From(Turn))
    BY <1>1, <1>2, <1>4, <1>5, <1>7, <1>8, OldFolder
  <1>9. CASE ~Exists(From(Turn))
    <2>1. step > 1
      BY <1>2, <1>3, <1>4, <1>9, ForwardOrder
    <2> QED
      BY <1>1, <1>2, <1>4, <1>5, <1>6, <1>7, <1>9, <2>1, NewFolder
  <1> QED
    BY <1>8, <1>9

-----------------------------------------------------------------------------
(* What preflight has seen still holds when an operation relies on it.      *)

LEMMA TargetHolds ==
  ASSUME Smooth, Doing("target")
  PROVE  Matches(P)
  <1>1. ahead # {} /\ Op = "target"
    BY DEF Doing
  <1>2. /\ plan \in Scenarios /\ Running /\ Control /\ step \in 1..Len(Ops)
        /\ Restored[Turn] = Planned(Turn) /\ Restored = disk
        /\ place = "forward" => Turn \in Forward /\ Ops = ForwardOps(Turn) /\ Planned(Turn) = Midway(Turn)
        /\ place = "reverse" => Turn \in Second /\ Ops = SecondOps(Turn) /\ Planned(Turn) = Forwarded(Turn)
    BY <1>1, SmoothTurn, SmoothGuard
  <1>3. P = Turn /\ Ops[step] = "target"
    BY <1>2, OpPlace
  <1>4. CASE place = "forward"
    <2>1. ~Taken("unlink") /\ ~Taken("symlink") /\ ~Taken("link") /\ ~Taken("rename")
      BY <1>2, <1>3, <1>4, ForwardOrder DEF Taken
    <2> QED
      BY <1>2, <1>3, <1>4, <2>1 DEF Midway, Matches
  <1>5. CASE place = "reverse"
    <2>1. IsDir(From(Turn))
      BY <1>2, <1>3, <1>5, SecondOrder
    <2> QED
      BY <1>2, <1>3, <1>5, <2>1 DEF Forwarded, Matches
  <1> QED
    BY <1>2, <1>4, <1>5 DEF Running

LEMMA NoDirtyElsewhere ==
  ASSUME Smooth
  PROVE  /\ \A d : ~DirtyElsewhere(d)
         /\ \A r \in dirty : IsDir(At(r[1])) /\ r[2] = IdOf(r[1])
  <1>1. Tokens /\ LedgerTrue
    BY DEF Smooth, BaseInv, Types, Fit
  <1>2. \A r \in dirty : r[2] = IdOf(r[1]) /\ IsDir(At(r[1]))
    BY <1>1 DEF Tokens, LedgerTrue, IdOf, At, IsDir, Folder
  <1> QED
    BY <1>2 DEF DirtyElsewhere

LEMMA ReverseParent ==
  ASSUME Smooth, place = "reverse", NEW op \in {"prepare", "rmdir"}, Doing(op)
  PROVE  /\ P = Turn /\ left = {} /\ step > 2 /\ IsDir(From(Turn)) /\ To(Turn) = Absent
         /\ disk[Turn] = From(Turn) /\ Restored = disk
         /\ Parent[P] # Root => disk[Parent[P]] = From(Parent[P]) /\ IsDir(From(Parent[P]))
  <1>1. ahead # {} /\ Op = op
    BY DEF Doing
  <1>2. /\ plan \in Scenarios /\ Control /\ step \in 1..Len(Ops) /\ Restored = disk
        /\ Restored[Turn] = Planned(Turn) /\ Turn \in Paths
        /\ Turn \in Second /\ Ops = SecondOps(Turn) /\ Planned(Turn) = Forwarded(Turn)
    BY <1>1, SmoothTurn, SmoothGuard
  <1>3. P = Turn /\ left = {} /\ Ops[step] = op
    <2>1. left = {}
      <3> SUFFICES ASSUME left # {} PROVE FALSE
        OBVIOUS
      <3>1. op = Inner[sub] /\ sub \in 1..Len(Inner)
        BY <1>2, OpPlace
      <3>2. Inner = <<"blocker", "quarantine", "sweep">>
        BY DEF Inner
      <3> QED
        BY <3>1, <3>2
    <2> QED
      BY <1>2, <2>1, OpPlace
  <1>4. step > 2 /\ IsDir(From(Turn)) /\ To(Turn) = Absent
    BY <1>2, <1>3, SecondOrder
  <1>5. disk[Turn] = From(Turn)
    BY <1>2, <1>4 DEF Forwarded
  <1>6. Parent[P] # Root => disk[Parent[P]] = From(Parent[P]) /\ IsDir(From(Parent[P]))
    BY <1>1, <1>2, <1>3, <1>4, ParentAbove, OldFolder DEF IsDir, Exists
  <1> QED
    BY <1>2, <1>3, <1>4, <1>5, <1>6

LEMMA ParentReady ==
  ASSUME Smooth, NEW op \in {"prepare", "open"} \cup Mutating, Doing(op)
  PROVE  IsDir(At(Parent[P])) /\ ~DirtyElsewhere(Parent[P])
  <1>1. ahead # {} /\ Op = op /\ Running
    BY DEF Doing
  <1>2. Control /\ Types
    BY DEF Smooth, BaseInv
  <1>3. CASE Parent[P] = Root
    BY <1>3, NoDirtyElsewhere DEF At, IsDir, Folder
  <1>4. CASE Parent[P] # Root /\ place = "forward"
    <2>1. Parent[P] \in Paths /\ IsDir(Restored[Parent[P]])
      BY <1>4, ParentThere DEF IsDir, Folder, Mutating
    <2> QED
      BY <1>2, <1>4, <2>1, NoDirtyElsewhere, RestoredType DEF At, IsDir
  <1>5. CASE Parent[P] # Root /\ place = "reverse"
    <2>1. op \in {"prepare", "rmdir"}
      BY <1>2, <1>5, OpPlace DEF Mutating
    <2> QED
      BY <1>5, <2>1, ReverseParent, NoDirtyElsewhere DEF At
  <1> QED
    BY <1>1, <1>3, <1>4, <1>5 DEF Running

(* Preflight has seen that the parent may be written, or that it is made,   *)
(* or that the first of what is made on the way can be.  It does not look   *)
(* at the parent of a symlink that keeps its target.                        *)
LEMMA TurnWrites ==
  ASSUME Smooth, place = "forward", ahead # {}, To(Turn).kind # "file", To(Turn).ver # "same"
  PROVE  /\ Mutates(Turn) /\ Changed(Turn)
         /\ LET q == Parent[Turn] IN
              IF ~Exists(FromAt(q))
              THEN PlannedFolder(q) \/ (~Exists(From(Turn)) /\ PlanCreatable(q))
              ELSE IsDir(FromAt(q)) /\ FromAt(q).rw
  <1>1. /\ plan \in Scenarios /\ Turn \in Forward /\ Changed(Turn) /\ Turn \in Paths
    BY SmoothTurn
  <1>2. ~IsDir(From(Turn))
    BY <1>1, ForwardShape
  <1>3. Mutates(Turn)
    <2>1. CASE ~Exists(From(Turn)) \/ ~Exists(To(Turn))
      BY <1>1, <2>1 DEF Mutates
    <2>2. CASE Exists(From(Turn)) /\ Exists(To(Turn))
      <3>1. From(Turn).kind \in {"file", "link"} /\ To(Turn).kind \in {"link", "dir"}
        BY <1>1, <1>2, <2>2, PlanNodes DEF Nodes, Exists, IsDir
      <3> QED
        BY <1>1, <1>2, <3>1 DEF Mutates
    <2> QED
      BY <2>1, <2>2
  <1>4. ParentsFit
    BY DEF Smooth, Fit, BeforeInv
  <1> QED
    BY <1>1, <1>3, <1>4 DEF ParentsFit

LEMMA MayWrite ==
  ASSUME Smooth, place = "forward", NEW op \in {"unlink", "symlink", "mkdir"}, Doing(op)
  PROVE  Writable \/ (left = {} /\ To(Turn).ver = "same")
  <1> SUFFICES ASSUME Parent[P] # Root, left # {} \/ To(Turn).ver # "same" PROVE disk[Parent[P]].rw
    BY DEF Writable, At, Folder
  <1>1. ahead # {} /\ Op = op /\ op # "parents" /\ plan \in Scenarios
        /\ Turn \in Forward /\ Ops = ForwardOps(Turn) /\ Turn \in Paths /\ step \in 1..Len(Ops)
        /\ Control /\ Types /\ InTurn /\ touched = {} /\ Changed(Turn)
    BY SmoothTurn DEF Doing, Control
  <1>2. Restored = disk
    BY <1>1, SmoothGuard
  <1> DEFINE q == Parent[P]
  <1>3. /\ q \in Paths /\ ~Stray(q)
        /\ \/ disk[q] = From(q) /\ IsDir(From(q))
           \/ disk[q] = Folder("raw", TRUE) /\ ~IsDir(From(q)) /\ ~Exists(From(Turn))
        /\ left # {} => ~Exists(From(Turn)) /\ P \in Above(Turn) /\ ~Exists(disk[P])
    BY <1>1, <1>2, ParentThere
  <1>4. SUFFICES ASSUME disk[q] = From(q), IsDir(From(q)) PROVE From(q).rw
    BY <1>3 DEF Folder
  <1>5. Exists(From(q)) /\ FromAt(q) = From(q)
    BY <1>4 DEF IsDir, Exists, FromAt
  <1>6. CASE left = {}
    <2>1. P = Turn /\ op = Ops[step]
      BY <1>1, <1>6, OpPlace
    <2>2. To(Turn).kind # "file"
      BY <1>1, <2>1, ForwardOrder
    <2> QED
      BY <1>1, <1>5, <1>6, <2>1, <2>2, TurnWrites
  <1>7. CASE left # {}
    <2>1. P \in Above(Turn) /\ P \in Paths /\ P \in left /\ Exists(To(Turn)) /\ step > 1
      BY <1>1, <1>7, ListedMissing DEF InTurn
    <2>2. Kept(P) /\ TreeInv /\ ~Stray(P)
      BY <1>1, <2>1, SmoothTurn DEF Kept, Smooth, CheckpointInv
    <2>3. Implied(P)
      BY <1>1, <1>3, <1>7, <2>1, <2>2, MissingImplied
    <2>4. ~Exists(From(P)) /\ ~Changed(P)
      BY <2>3 DEF Implied
    <2> DEFINE d == Parent[Turn]
    <2>5. d # Root /\ d \in Paths /\ P \in Ancestry[d] /\ d \in Above(Turn)
      <3>1. d # Root /\ P \in Ancestry[d]
        BY <2>1 DEF Above
      <3> QED
        BY <1>1, <3>1, ParentAbove
    <2>6. ~Exists(From(d)) /\ FromAt(d) = From(d)
      BY <1>1, <2>4, <2>5, AboveOld DEF FromAt
    <2>7. Mutates(Turn) /\ ParentsFit
      BY <1>1, <1>3, <1>7 DEF Mutates, Smooth, Fit, BeforeInv
    <2>8. PlannedFolder(d) \/ PlanCreatable(d)
      BY <1>1, <2>6, <2>7 DEF ParentsFit
    <2>9. CASE PlanCreatable(d)
      BY <1>5, <2>4, <2>5, <2>9 DEF PlanCreatable
    <2>10. CASE PlannedFolder(d)
      <3>1. IsDir(To(d)) /\ ~IsDir(From(d))
        BY <2>10 DEF PlannedFolder
      <3>2. Changed(d) /\ d # P
        BY <2>4, <3>1 DEF Changed
      <3>3. P \in Above(d)
        <4>1. d \in Descendants(P)
          BY <2>1, <2>5, <3>2 DEF Descendants, Below
        <4> QED
          BY <2>1, <4>1, DescendantAbove
      <3>4. d \notin ahead
        <4>1. Pos(d) < Pos(Turn) /\ Pos(d) \in Nat /\ Pos(Turn) \in Nat
          BY <1>1, <2>5, AboveBefore, Positions
        <4>2. \A y \in ahead : Pos(Turn) <= Pos(y)
          BY <1>1, TurnTrue
        <4> QED
          BY <4>1, <4>2
      <3>5. Begun(d) /\ d # Turn
        BY <1>1, <3>4, SmoothTurn DEF Begun
      <3>6. Provided(d, P)
        BY <2>2, <2>3, <2>5, <2>6, <3>1, <3>3, <3>5
        DEF Smooth, CheckpointInv, ParentsInv, Exists, IsDir
      <3> QED
        BY <1>3, <1>7, <3>5, <3>6 DEF Provided
    <2> QED
      BY <2>8, <2>9, <2>10
  <1> QED
    BY <1>6, <1>7

LEMMA NoneThere == ~Exists(Absent) /\ ~IsDir(Absent)
  BY DEF Exists, IsDir, Absent

LEMMA AsideNode ==
  ASSUME NEW n \in Nodes
  PROVE  /\ [n EXCEPT !.kind = "aside"].kind = "aside" /\ [n EXCEPT !.kind = "aside"].rw = n.rw
         /\ [n EXCEPT !.kind = "aside"] \in Nodes
  BY DEF Nodes

(* What of it is there was there, with the mode it has.                     *)
LEMMA StrayKnown ==
  ASSUME plan \in Scenarios, StrayInv, NEW x \in Paths, Stray(x), Exists(disk[x])
  PROVE  Exists(From(x)) /\ disk[x].rw = From(x).rw /\ (IsDir(disk[x]) => disk[x] = From(x))
  <1>1. From(x) \in Nodes /\ disk[x] # Absent
    BY NoneThere, PlanNodes
  <1>2. CASE disk[x] = From(x)
    BY <1>2
  <1>3. CASE IsDir(From(x)) /\ disk[x] = [From(x) EXCEPT !.kind = "aside"]
    <2>1. disk[x].kind = "aside" /\ disk[x].rw = From(x).rw
      BY <1>1, <1>3, AsideNode
    <2> QED
      BY <1>3, <2>1 DEF IsDir, Exists
  <1> QED
    BY <1>1, <1>2, <1>3 DEF StrayInv

(* What still is in a directory to be removed, and is not removed with it,  *)
(* is what preflight has seen there, and it may be pruned.                  *)
LEMMA BlockerKnown ==
  ASSUME Smooth, place = "reverse", ahead # {}, IsDir(From(Turn)), To(Turn) = Absent,
         NEW c \in Children(Turn), ~Removed(c), Exists(disk[c])
  PROVE  /\ Prunable(c) /\ Stray(c) /\ c \in Paths /\ Parent[c] = Turn /\ Turn # Root
         /\ disk[Turn] = From(Turn) /\ From(Turn).rw
         /\ IsDir(disk[c]) => disk[c] = From(c) /\ PruneFits(c)
  <1>1. /\ plan \in Scenarios /\ Control /\ Types /\ touched = {} /\ Running
        /\ Turn \in Paths /\ Restored = disk /\ Changed(Turn)
        /\ Restored[Turn] = Planned(Turn) /\ Planned(Turn) = Forwarded(Turn)
        /\ TreeInv /\ StrayInv /\ BlockersFit
    BY SmoothTurn, SmoothGuard DEF Smooth, CheckpointInv, Fit, BeforeInv
  <1>2. c \in Paths /\ Parent[c] = Turn /\ Turn # Root /\ Turn \in Above(c) /\ c \in Descendants(Turn)
    BY <1>1, ChildBelow
  <1>3. disk[Turn] = From(Turn) /\ Exists(From(Turn)) /\ ~Exists(To(Turn)) /\ ~IsDir(To(Turn))
    BY <1>1 DEF Forwarded, IsDir, Exists, Absent
  <1>4. \A e \in Paths : Changed(e) /\ Exists(To(e)) => Turn \notin Above(e)
    BY <1>1, <1>3, AboveNew
  <1>5. Exists(From(c))
    <2> SUFFICES ASSUME ~Exists(From(c)) PROVE FALSE
      OBVIOUS
    <2>1. CASE Stray(c)
      BY <1>1, <1>2, <2>1, StrayKnown
    <2>2. CASE ~Stray(c) /\ Implied(c)
      <3>1. PICK e \in Descendants(c) : Exists(To(e))
        BY <2>2 DEF Implied
      <3>2. e \in Paths /\ c \in Ancestry[e] /\ c \in Above(e)
        BY <1>2, <3>1, DescendantAbove
      <3>3. ~Exists(From(e))
        BY <1>1, <3>2, AboveOld
      <3>4. Changed(e) /\ Turn \in Above(e)
        BY <1>2, <3>1, <3>2, <3>3, AboveUp DEF Changed
      <3> QED
        BY <1>4, <3>1, <3>2, <3>4
    <2>3. CASE ~Stray(c) /\ ~Implied(c)
      <3>1. Right(c)
        BY <1>1, <1>2, <2>3 DEF TreeInv, Kept
      <3>2. Changed(c)
        BY <1>1, <2>3, <3>1 DEF Right
      <3>3. Exists(To(c))
        BY <1>1, <1>2, <3>2, PlanNodes DEF Changed
      <3> QED
        BY <1>2, <1>4, <3>2, <3>3
    <2> QED
      BY <2>1, <2>2, <2>3
  <1>6. Blocks(c)
    BY <1>2, <1>3, <1>5 DEF Blocks, Removed
  <1>7. /\ Prunable(c) /\ From(Turn).rw
        /\ IsDir(From(c)) =>
             /\ From(c).rw
             /\ \A x \in Descendants(c) : Exists(From(x)) => Class[x] # "excluded" /\ From(x).rw
    BY <1>1, <1>2, <1>6 DEF BlockersFit
  <1>8. c \in Ancestry[c] /\ Stray(c)
    <2>1. c \in Ancestry[c]
      BY <1>2, SelfAncestry
    <2> QED
      BY <1>7, <2>1 DEF Stray, Prunable
  <1>9. ASSUME IsDir(disk[c])
        PROVE  disk[c] = From(c) /\ PruneFits(c)
    <2>3. disk[c] = From(c)
      BY <1>1, <1>2, <1>8, <1>9, StrayKnown
    <2>4. ASSUME NEW x \in Descendants(c), Exists(disk[x])
          PROVE  Class[x] # "excluded" /\ disk[x].rw
      <3>1. x \in Paths /\ c \in Ancestry[x]
        BY <1>2, DescendantAbove
      <3>2. Stray(x)
        BY <1>8, <3>1, StrayDown
      <3>3. Exists(From(x)) /\ disk[x].rw = From(x).rw
        BY <1>1, <2>4, <3>1, <3>2, StrayKnown
      <3> QED
        BY <1>7, <1>9, <2>3, <2>4, <3>3
    <2> QED
      BY <1>2, <1>3, <1>7, <1>9, <2>3, <2>4 DEF PruneFits, At
  <1> QED
    BY <1>2, <1>3, <1>7, <1>8, <1>9

(* The same of the blocker at hand.                                         *)
LEMMA PruneTurn ==
  ASSUME Smooth, NEW op \in {"blocker", "quarantine", "sweep"}, Doing(op)
  PROVE  /\ place = "reverse" /\ ahead # {} /\ left # {} /\ guard = NoToken
         /\ IsDir(From(Turn)) /\ To(Turn) = Absent
         /\ P \in left /\ P \in Children(Turn) /\ ~Removed(P) /\ Inner[sub] = op /\ sub \in 1..3
         /\ Inner = <<"blocker", "quarantine", "sweep">>
  <1>1. ahead # {} /\ Op = op
    BY DEF Doing
  <1>2. Control /\ InTurn /\ plan \in Scenarios
    BY <1>1 DEF Smooth, BaseInv, Control
  <1>3. place = "reverse" /\ left # {} /\ op = Inner[sub] /\ sub \in 1..Len(Inner)
    BY <1>2, OpPlace
  <1>4. Inner = <<"blocker", "quarantine", "sweep">>
    BY <1>3 DEF Inner
  <1>5. P \in left /\ P \in Children(Turn) /\ ~Removed(P)
    BY <1>1, <1>2, <1>3, TurnTrue DEF InTurn
  <1>6. step > 1 /\ Ops[step - 1] = "prune" /\ Turn \in Second /\ Ops = SecondOps(Turn) /\ step \in 1..Len(Ops)
    BY <1>1, <1>2, <1>3, SmoothTurn DEF InTurn
  <1>7. Len(Ops) \in 1..4
    BY <1>2, <1>6, OpsShape
  <1>8. step - 1 \in 1..Len(Ops)
    BY <1>6, <1>7
  <1>9. IsDir(From(Turn)) /\ To(Turn) = Absent
    BY <1>2, <1>6, <1>8, SecondOrder
  <1>10. guard = NoToken
    BY <1>3, SmoothGuard
  <1> QED
    BY <1>1, <1>3, <1>4, <1>5, <1>9, <1>10

LEMMA BlockerReady ==
  ASSUME Smooth
  PROVE  /\ Doing("blocker") /\ Exists(disk[P]) => BlockerFits
         /\ Doing("quarantine") => IsDir(disk[P]) /\ CanPrune /\ ~DirtyElsewhere(P)
         /\ Doing("sweep") => Exists(disk[P]) /\ ~IsDir(disk[P]) /\ CanPrune
  <1>1. ASSUME Doing("blocker"), Exists(disk[P]) PROVE BlockerFits
    BY <1>1, PruneTurn, BlockerKnown DEF BlockerFits
  <1>2. ASSUME NEW op \in {"quarantine", "sweep"}, Doing(op)
        PROVE  /\ CanPrune
               /\ op = "quarantine" => IsDir(disk[P])
               /\ op = "sweep" => Exists(disk[P]) /\ ~IsDir(disk[P])
    <2>1. /\ place = "reverse" /\ ahead # {} /\ left # {} /\ IsDir(From(Turn)) /\ To(Turn) = Absent
          /\ P \in Children(Turn) /\ ~Removed(P)
          /\ op = "quarantine" => sub = 2
          /\ op = "sweep" => sub = 3
      BY <1>2, PruneTurn
    <2>2. /\ op = "quarantine" => IsDir(disk[P])
          /\ op = "sweep" => Exists(disk[P]) /\ ~IsDir(disk[P])
      BY <2>1 DEF Smooth, Fit, ListTrue
    <2>3. Exists(disk[P])
      BY <1>2, <2>2 DEF Exists, IsDir
    <2>4. Parent[P] = Turn /\ Turn # Root /\ disk[Turn] = From(Turn) /\ From(Turn).rw
      BY <2>1, <2>3, BlockerKnown
    <2>5. CanPrune
      BY <2>1, <2>4, NoDirtyElsewhere DEF CanPrune, At
    <2> QED
      BY <2>2, <2>5
  <1> QED
    BY <1>1, <1>2, NoDirtyElsewhere

(* The namespace operations have what they need.                            *)
LEMMA MutationReady ==
  ASSUME Smooth, ResultsInv, MutationFails
  PROVE  \E p \in Paths : To(p).ver = "same" /\ ~At(Parent[p]).rw /\ guard = NoToken
  <1>1. PICK op \in Mutating : Doing(op)
    BY DEF MutationFails, Mutating
  <1>2. ahead # {} /\ Op = op /\ \A o : Doing(o) => o = op
    BY <1>1 DEF Doing
  <1>3. /\ plan \in Scenarios /\ Control /\ Types /\ touched = {} /\ Running
        /\ Turn \in Paths /\ Turn \in ahead /\ Changed(Turn) /\ step \in 1..Len(Ops)
        /\ Restored[Turn] = Planned(Turn) /\ P \in Paths
        /\ place = "forward" => Turn \in Forward /\ Ops = ForwardOps(Turn) /\ Planned(Turn) = Midway(Turn)
        /\ place = "reverse" => Turn \in Second /\ Ops = SecondOps(Turn) /\ Planned(Turn) = Forwarded(Turn)
    BY <1>2, SmoothTurn
  <1>4. TokenHolds
    <2>1. tok = <<Parent[P], IdOf(Parent[P])>>
      BY <1>1, <1>2, <1>3 DEF Smooth, Fit, Armed
    <2> QED
      BY <1>1, <2>1, ParentReady DEF TokenHolds
  <1>5. /\ Exists(Restored[P]) <=> Exists(disk[P])
        /\ Restored[P].kind = disk[P].kind
    BY <1>3, RestoredExists, RestoredType
  <1>6. left = {} => P = Turn /\ Ops[step] = op
    BY <1>1, <1>3, OpPlace
  <1>7. op # "mkdir" => left = {}
    BY <1>1, <1>3, OpPlace DEF Mutating
  <1>8. op # "rmdir" => place = "forward"
    BY <1>1, <1>3, OpPlace DEF Mutating
  <1>9. CASE op = "unlink"
    <2>1. Midway(Turn) = From(Turn) /\ Exists(From(Turn)) /\ ~IsDir(From(Turn))
      BY <1>3, <1>6, <1>7, <1>8, <1>9, ForwardOrder, ForwardShape DEF Midway, Taken
    <2>2. Exists(disk[P]) /\ ~IsDir(disk[P])
      BY <1>3, <1>5, <1>6, <1>7, <1>8, <1>9, <2>1 DEF IsDir, Exists
    <2>3. ~Writable
      BY <1>2, <1>4, <1>9, <2>2 DEF MutationFails
    <2>4. guard = NoToken
      BY <1>2, <1>9, SmoothGuard
    <2> QED
      BY <1>1, <1>3, <1>6, <1>7, <1>8, <1>9, <2>3, <2>4, MayWrite DEF Writable
  <1>10. CASE op \in {"symlink", "mkdir"}
    <2>1. ~Exists(disk[P])
      <3>1. CASE left = {}
        <4>1. Midway(Turn) \in {From(Turn), Absent} /\ (Exists(From(Turn)) => Midway(Turn) = Absent)
          BY <1>3, <1>6, <1>8, <1>10, <3>1, ForwardOrder DEF Midway, Taken
        <4>2. ~Exists(Midway(Turn))
          BY <4>1 DEF Exists, Absent
        <4> QED
          BY <1>3, <1>5, <1>6, <1>8, <1>10, <3>1, <4>2
      <3>2. CASE left # {}
        BY <1>2, <1>3, <1>8, <1>10, <3>2, TurnTrue DEF Smooth, Fit, ListTrue
      <3> QED
        BY <3>1, <3>2
    <2>2. ~Writable
      BY <1>2, <1>4, <1>10, <2>1 DEF MutationFails
    <2>3. guard = NoToken
      BY <1>2, <1>10, SmoothGuard
    <2> QED
      BY <1>1, <1>3, <1>6, <1>8, <1>10, <2>2, <2>3, MayWrite DEF Writable
  <1>11. CASE op \in {"link", "rename", "times"}
    <2>1. left = {} /\ P = Turn /\ place = "forward" /\ Ops[step] = op
      BY <1>6, <1>7, <1>8, <1>11
    <2>2. P \notin results
      <3>1. op # "times" => step # Len(Ops)
        BY <1>3, <1>11, <2>1, ForwardTurn
      <3>2. op = "times" => ~HasDetail(Turn)
        BY <1>3, <1>11, <2>1, ForwardTurn DEF HasDetail
      <3> QED
        BY <1>3, <1>11, <2>1, <3>1, <3>2 DEF ResultsInv, Listed
    <2>3. CASE op = "link"
      <3>1. Midway(Turn) = From(Turn) /\ ~Exists(From(Turn))
        BY <1>3, <2>1, <2>3, ForwardOrder DEF Midway, Taken
      <3> QED
        BY <1>2, <1>3, <1>4, <1>5, <2>1, <2>2, <2>3, <3>1 DEF MutationFails
    <2>4. CASE op = "rename"
      <3>1. Midway(Turn) = From(Turn) /\ ~IsDir(From(Turn))
        BY <1>3, <2>1, <2>4, ForwardOrder, ForwardShape DEF Midway, Taken
      <3> QED
        BY <1>2, <1>3, <1>4, <1>5, <2>1, <2>2, <2>4, <3>1 DEF MutationFails, IsDir
    <2>5. CASE op = "times"
      <3>1. Midway(Turn) = Leaf("link", "raw")
        BY <1>3, <2>1, <2>5, ForwardOrder DEF Midway, Taken
      <3>2. disk[P].kind = "link"
        BY <1>3, <1>5, <2>1, <3>1 DEF Leaf
      <3> QED
        BY <1>2, <1>4, <2>2, <2>5, <3>2 DEF MutationFails
    <2> QED
      BY <1>11, <2>3, <2>4, <2>5
  <1>12. CASE op = "rmdir"
    <2>1. place = "reverse"
      BY <1>1, <1>3, <1>12, OpPlace
    <2>2. /\ P = Turn /\ left = {} /\ step > 2 /\ IsDir(From(Turn)) /\ To(Turn) = Absent
          /\ disk[Turn] = From(Turn) /\ Restored = disk
          /\ Parent[P] # Root => disk[Parent[P]] = From(Parent[P]) /\ IsDir(From(Parent[P]))
      BY <1>1, <1>12, <2>1, ReverseParent
    <2>3. Writable
      <3>1. CASE Parent[P] = Root
        BY <3>1 DEF Writable, At, Folder
      <3>2. CASE Parent[P] # Root
        <4>1. Mutates(Turn) /\ ParentsFit
          <5>1. ~Exists(To(Turn))
            BY <2>2, NoneThere
          <5> QED
            BY <1>3, <2>1, <5>1 DEF Mutates, Smooth, Fit, BeforeInv
        <4>2. FromAt(Parent[P]) = From(Parent[P]) /\ Exists(From(Parent[P]))
          BY <2>2, <3>2 DEF FromAt, IsDir, Exists
        <4>3. From(Parent[P]).rw
          BY <1>3, <2>2, <4>1, <4>2 DEF ParentsFit, Absent
        <4> QED
          BY <2>2, <3>2, <4>3 DEF Writable, At
      <3> QED
        BY <3>1, <3>2
    <2>4. ASSUME NEW c \in Children(P), Exists(disk[c])
          PROVE  FALSE
      <3>1. c \in Paths /\ Turn \in Above(c) /\ Turn # Root
        BY <1>3, <2>2, ChildBelow
      <3>2. Removed(c)
        BY <1>2, <2>1, <2>2, <2>4 DEF Smooth, Fit, ListTrue
      <3>3. Changed(c) /\ ~Exists(To(c)) /\ ~Implied(c)
        BY <3>2 DEF Removed, Changed, Implied
      <3>4. Right(c)
        BY <1>3, <3>1, <3>3, ChangedKept DEF Smooth, CheckpointInv, TreeInv, Kept
      <3>5. Restored[c] = Planned(c)
        BY <2>1, <3>3, <3>4 DEF Right
      <3>6. c \notin ahead
        <4>1. Pos(Turn) < Pos(c) /\ Pos(Turn) \in Nat /\ Pos(c) \in Nat
          BY <1>3, <3>1, AboveBefore, Positions
        <4>2. \A y \in ahead : Pos(y) <= Pos(Turn)
          BY <1>2, <1>3, <2>1, TurnTrue
        <4> QED
          BY <4>1, <4>2
      <3> QED
        BY <2>1, <2>2, <2>4, <3>3, <3>5, <3>6 DEF Planned
    <2> QED
      BY <1>2, <1>4, <1>12, <2>2, <2>3, <2>4, NoDirtyElsewhere DEF MutationFails
  <1> QED
    BY <1>9, <1>10, <1>11, <1>12 DEF Mutating

LEMMA MetaReady ==
  ASSUME Smooth
  PROVE  /\ Doing("meta") => disk[P].kind = "file"
         /\ Doing("dirmeta") => IsDir(disk[P]) /\ ~DirtyElsewhere(P)
  <1>1. ASSUME NEW op \in {"meta", "dirmeta"}, Doing(op)
        PROVE  /\ op = "meta" => disk[P].kind = "file"
               /\ op = "dirmeta" => IsDir(disk[P])
    <2>1. ahead # {} /\ Op = op
      BY <1>1 DEF Doing
    <2>2. /\ plan \in Scenarios /\ Control /\ Types /\ step \in 1..Len(Ops) /\ Turn \in Paths
          /\ Turn \in ahead /\ Changed(Turn) /\ Restored[Turn] = Planned(Turn)
          /\ place = "forward" => Turn \in Forward /\ Ops = ForwardOps(Turn) /\ Planned(Turn) = Midway(Turn)
          /\ place = "reverse" => Turn \in Second /\ Ops = SecondOps(Turn) /\ Planned(Turn) = Forwarded(Turn)
      BY <2>1, SmoothTurn
    <2>3. /\ P = Turn /\ Ops[step] = op
          /\ op = "meta" => place = "forward"
          /\ op = "dirmeta" => place = "reverse"
      BY <1>1, <2>2, OpPlace
    <2>4. Restored[P].kind = disk[P].kind
      BY <2>2, <2>3, RestoredType
    <2>5. CASE op = "meta"
      <3>1. From(Turn) = Leaf("file", "old") /\ Midway(Turn) = From(Turn)
        BY <2>2, <2>3, <2>5, ForwardOrder DEF Midway, Taken
      <3>2. Leaf("file", "old").kind = "file"
        BY NodeForms DEF Kinds, Versions
      <3> QED
        BY <2>2, <2>3, <2>4, <2>5, <3>1, <3>2
    <2>6. CASE op = "dirmeta"
      <3>1. IsDir(To(Turn))
        BY <2>2, <2>3, <2>6, SecondOrder
      <3>2. IsDir(Forwarded(Turn))
        BY <2>2, <3>1 DEF Forwarded, IsDir, Folder
      <3> QED
        BY <2>2, <2>3, <2>4, <2>6, <3>2 DEF IsDir
    <2> QED
      BY <2>5, <2>6
  <1> QED
    BY <1>1, NoDirtyElsewhere

(* Nothing fails in an undisturbed commit that has begun, but for what      *)
(* preflight does not look at.                                              *)
LEMMA FailureExcused ==
  ASSUME Smooth, ResultsInv, Failing, ~Refuse
  PROVE  \E p \in Paths : To(p).ver = "same" /\ ~At(Parent[p]).rw /\ guard = NoToken
  <1>1. ~TargetGone
    BY TargetHolds DEF TargetGone
  <1>2. ~ParentGone
    BY ParentReady DEF ParentGone
  <1>3. ~CloseFails
    BY DEF CloseFails, Smooth, Fit, GuardTrue
  <1>4. ~MetaFails
    BY MetaReady DEF MetaFails
  <1>5. ~BlockerStays /\ ~PruneFails
    BY BlockerReady DEF BlockerStays, PruneFails
  <1>6. ~SyncFails
    BY NoDirtyElsewhere DEF SyncFails
  <1> QED
    BY <1>1, <1>2, <1>3, <1>4, <1>5, <1>6, MutationReady DEF Failing

-----------------------------------------------------------------------------
(* Every step of an undisturbed commit leaves things fit for the next.      *)

LEMMA SmoothStep ==
  ASSUME Undisturbed', edits \in Nat, faults \in Nat, [Next]_vars, place' \notin Ended
  PROVE  /\ \/ Passing \/ ListMissing \/ ListBlockers \/ CheckBlocker \/ NotListed \/ UNCHANGED vars
            \/ Validate \/ StartCommit \/ TurnBack \/ Merge \/ FinishStaging \/ \E r \in dirty : SyncOne(r)
         /\ Undisturbed /\ place \notin Ended
         /\ UNCHANGED <<plan, touched>>
  <1>1. ~Failing
    BY FailingFrame DEF Fail, Ended
  <1>2. ~UserStep
    BY DEF UserStep, UserWrite, UserRemove, UserSwap, UserChmod, Edit, Undisturbed
  <1>3. ~\E killed \in BOOLEAN : Fault(killed)
    BY DEF Fault, Ended
  <1>4. ~EndCommit
    BY DEF EndCommit, Ended
  <1>5. \/ Passing \/ ListMissing \/ ListBlockers \/ CheckBlocker \/ NotListed \/ UNCHANGED vars
        \/ Validate \/ StartCommit \/ TurnBack \/ Merge \/ FinishStaging \/ \E r \in dirty : SyncOne(r)
    BY <1>1, <1>2, <1>3, <1>4, NextCases DEF Staging
  <1>6. CASE Passing
    BY <1>5, <1>6, PassingFrame DEF Settled, Undisturbed, Running, Ended
  <1>7. CASE ListMissing \/ ListBlockers \/ CheckBlocker \/ NotListed
    BY <1>5, <1>7 DEF ListMissing, ListBlockers, List, CheckBlocker, NotListed, Skip, Frame, Settled,
                      Undisturbed
  <1>8. CASE \/ UNCHANGED vars
             \/ Validate \/ StartCommit \/ TurnBack \/ Merge \/ FinishStaging \/ \E r \in dirty : SyncOne(r)
    BY <1>5, <1>8 DEF Validate, StartCommit, TurnBack, Merge, FinishStaging, SyncOne, vars, Undisturbed, Ended
  <1> QED
    BY <1>5, <1>6, <1>7, <1>8

LEMMA SamePlanFits ==
  ASSUME plan' = plan
  PROVE  BlockersFit' = BlockersFit /\ ParentsFit' = ParentsFit
  <1>1. \A p \in Paths : /\ From(p)' = From(p) /\ To(p)' = To(p) /\ Changed(p)' = Changed(p)
                         /\ Removed(p)' = Removed(p) /\ HasDetail(p)' = HasDetail(p)
                         /\ Prunable(p)' = Prunable(p)
    BY SamePlan
  <1>2. \A p \in Paths : /\ Parent[p] \in Paths \cup {Root} /\ Ancestry[p] \subseteq Paths
                         /\ Descendants(p) \subseteq Paths
    BY OrderAssumption DEF Ancestry, Descendants, Below
  <1>3. \A d \in Paths \cup {Root} : FromAt(d)' = FromAt(d)
    BY <1>1 DEF FromAt
  <1>4. \A d \in Paths : PlanCreatable(d)' = PlanCreatable(d)
    <2> TAKE d \in Paths
    <2>1. \A x \in Ancestry[d] : /\ From(x)' = From(x) /\ FromAt(Parent[x])' = FromAt(Parent[x])
      BY <1>1, <1>2, <1>3
    <2> QED
      BY <2>1 DEF PlanCreatable
  <1>5. \A p \in Paths : Mutates(p)' = Mutates(p)
    BY <1>1 DEF Mutates
  <1>6. \A p \in Paths : Blocks(p)' = Blocks(p)
    BY <1>1, <1>2 DEF Blocks
  <1>7. \A d \in Paths : PlannedFolder(d)' = PlannedFolder(d)
    BY <1>1 DEF PlannedFolder
  <1>8. BlockersFit' = BlockersFit
    <2>1. \A c \in Paths : Blocks(c) => Parent[c] \in Paths
      BY <1>2 DEF Blocks
    <2> QED
      BY <1>1, <1>2, <1>6, <2>1 DEF BlockersFit
  <1>9. ParentsFit' = ParentsFit
    <2>1. \A p \in Paths : ~Exists(FromAt(Parent[p])) => Parent[p] \in Paths
      BY <1>2 DEF FromAt, Exists, Folder
    <2> QED
      BY <1>1, <1>2, <1>3, <1>4, <1>5, <1>7, <2>1 DEF ParentsFit
  <1> QED
    BY <1>8, <1>9

(* A preflight on the tree of the plan has seen what counts.                *)
LEMMA PreflightSeen ==
  ASSUME plan \in Scenarios, disk = plan.from, PreflightFits
  PROVE  BlockersFit /\ ParentsFit
  <1>1. \A p \in Paths : disk[p] = From(p)
    BY DEF From
  <1>2. \A p \in Paths : /\ Parent[p] \in Paths \cup {Root} /\ Ancestry[p] \subseteq Paths
                         /\ Descendants(p) \subseteq Paths
    BY OrderAssumption DEF Ancestry, Descendants, Below
  <1>3. \A d \in Paths \cup {Root} : FromAt(d) = At(d)
    BY <1>1 DEF FromAt, At
  <1>4. BlockersFit
    <2> SUFFICES ASSUME NEW c \in Paths, Blocks(c)
                 PROVE  /\ Prunable(c) /\ From(Parent[c]).rw
                        /\ IsDir(From(c)) =>
                             /\ From(c).rw
                             /\ \A x \in Descendants(c) : Exists(From(x)) => Class[x] # "excluded" /\ From(x).rw
      BY DEF BlockersFit
    <2>1. Parent[c] # Root /\ Parent[c] \in Paths /\ c \in Blockers
      BY <1>1, <1>2 DEF Blocks, Blockers
    <2>2. Prunable(c) /\ PruneFits(c)
      BY <2>1 DEF PreflightFits, RemovalsFit
    <2> QED
      BY <1>1, <1>2, <2>1, <2>2 DEF PruneFits, At
  <1>5. ParentsFit
    <2> SUFFICES ASSUME NEW p \in Paths, Mutates(p)
                 PROVE  IF ~Exists(FromAt(Parent[p]))
                        THEN PlannedFolder(Parent[p]) \/ (~Exists(From(p)) /\ PlanCreatable(Parent[p]))
                        ELSE /\ IsDir(FromAt(Parent[p]))
                             /\ FromAt(Parent[p]).rw \/ To(p).kind = "file"
      BY DEF ParentsFit
    <2>1. ParentFits(p)
      BY DEF PreflightFits
    <2>2. FromAt(Parent[p]) = At(Parent[p])
      BY <1>2, <1>3
    <2>3. CASE ~Exists(At(Parent[p]))
      <3>1. Parent[p] \in Paths
        BY <1>2, <2>3 DEF At, Exists, Folder
      <3>2. Creatable(Parent[p]) => PlanCreatable(Parent[p])
        BY <1>1, <1>2, <1>3, <3>1 DEF Creatable, PlanCreatable
      <3> QED
        BY <2>1, <2>2, <2>3, <3>2 DEF ParentFits
    <2>4. CASE Exists(At(Parent[p]))
      BY <2>1, <2>2, <2>4 DEF ParentFits
    <2> QED
      BY <2>3, <2>4
  <1> QED
    BY <1>4, <1>5

LEMMA StepBefore ==
  ASSUME Smooth, Undisturbed', [Next]_vars, place' \notin Ended, edits \in Nat
  PROVE  BeforeInv'
  <1>1. faults \in Nat /\ BeforeInv /\ plan \in Scenarios
    BY DEF Smooth, CheckpointInv, GuardInv, Fit, BaseInv, Control
  <1>2. /\ \/ Passing \/ ListMissing \/ ListBlockers \/ CheckBlocker \/ NotListed \/ UNCHANGED vars
           \/ Validate \/ StartCommit \/ TurnBack \/ Merge \/ FinishStaging \/ \E r \in dirty : SyncOne(r)
        /\ UNCHANGED <<plan, touched>>
    BY <1>1, SmoothStep
  <1>3. place' \in {"prepare", "valid", "fence"} =>
          /\ place \in {"prepare", "valid", "fence"} /\ UNCHANGED <<disk, dirty>>
    BY <1>2, PassingFrame DEF ListMissing, ListBlockers, List, CheckBlocker, NotListed, Skip, Frame, Settled, vars,
            Validate, StartCommit, TurnBack, Begin, Merge, FinishStaging, SyncOne, Doing, Running
  <1>4. place' # "prepare" => place # "prepare" \/ Validate
    BY <1>2, PassingFrame DEF ListMissing, ListBlockers, List, CheckBlocker, NotListed, Skip, Frame, Settled, vars,
            StartCommit, TurnBack, Begin, Merge, FinishStaging, SyncOne, Doing, Running
  <1>5. place' # "prepare" => BlockersFit' /\ ParentsFit'
    <2>1. Validate => disk = plan.from /\ PreflightFits
      BY <1>1 DEF Validate, BeforeInv
    <2> QED
      BY <1>1, <1>2, <1>4, <2>1, PreflightSeen, SamePlanFits DEF BeforeInv
  <1> QED
    BY <1>1, <1>2, <1>3, <1>5 DEF BeforeInv

(* The paths an operation is about, and what it writes of the tree.         *)
LEMMA PassingPaths ==
  ASSUME Smooth, Passing
  PROVE  /\ P \in Paths /\ Parent[P] # P
         /\ Parent[P] # Root => Parent[P] \in Paths /\ ~Stray(Parent[P])
         /\ Quarantine \/ Sweep => Stray(P) /\ (\A x \in Descendants(P) : Stray(x)) /\ P \in Children(Turn)
         /\ ~(Quarantine \/ Sweep) => ~Stray(P)
  <1>1. Running /\ ahead # {} /\ Control /\ P \in Paths /\ plan \in Scenarios /\ Turn \in Paths
        /\ ~Stray(Turn) /\ \A x \in Above(Turn) : x \in Paths /\ ~Stray(x)
    BY PassingFrame, SmoothTurn
  <1>2. Parent[P] # P
    <2> SUFFICES ASSUME Parent[P] = P PROVE FALSE
      OBVIOUS
    <2>1. Pos(P) < Pos(P) /\ Pos(P) \in Nat
      BY <1>1, Positions
    <2> QED
      BY <2>1
  <1>3. CASE Quarantine \/ Sweep
    <2>1. P \in Children(Turn) /\ Prunable(P)
      BY <1>1, <1>3, PruneTurn, OpPlace DEF Quarantine, Sweep
    <2>2. Parent[P] = Turn
      BY <1>1, <2>1, ChildBelow
    <2>3. Class[P] \in {"ignored", "pruned"}
      BY <2>1 DEF Prunable
    <2>4. \A p \in {P} \cup Descendants(P) : Stray(p)
      BY <1>1, <2>3, SelfAncestry DEF Stray, Descendants, Below
    <2> QED
      BY <1>1, <1>2, <1>3, <2>1, <2>2, <2>4
  <1>4. CASE ~(Quarantine \/ Sweep)
    <2>1. P = Turn \/ P \in Above(Turn)
      <3>1. CASE left = {}
        BY <1>1, <3>1, TurnTrue
      <3>2. CASE left # {} /\ place = "forward"
        BY <1>1, <3>2, ListedMissing
      <3>3. CASE left # {} /\ place = "reverse"
        <4>1. PICK op \in {"target", "prepare", "open", "close", "unlink", "link", "rename", "symlink", "times",
                           "mkdir", "rmdir", "meta", "dirmeta"} : Doing(op)
          BY <1>4 DEF Passing, CheckTarget, PrepareParent, OpenParent, CloseParent, Unlink, PublishNew,
             PublishOver, Symlink, LinkTimes, MakeDir, RemoveDir, UpdateMeta, UpdateDirMeta
        <4>2. op = Inner[sub] /\ sub \in 1..Len(Inner)
          BY <1>1, <3>3, <4>1, OpPlace
        <4>3. Inner = <<"blocker", "quarantine", "sweep">>
          BY <3>3 DEF Inner
        <4> QED
          BY <4>1, <4>2, <4>3
      <3> QED
        BY <1>1, <3>1, <3>2, <3>3 DEF Running
    <2>2. Parent[P] # Root => Parent[P] \in Above(Turn)
      BY <1>1, <2>1, ParentAbove, AboveUp
    <2> QED
      BY <1>1, <1>2, <1>4, <2>1, <2>2
  <1> QED
    BY <1>3, <1>4

LEMMA PassingDisk ==
  ASSUME Smooth, Passing, NEW x \in Paths
  PROVE  /\ CheckTarget \/ PrepareParent => disk'[x] = disk[x]
         /\ OpenParent \/ CloseParent =>
              disk'[x].kind = disk[x].kind /\ (x # Parent[P] => disk'[x] = disk[x])
         /\ Writing => (x # P => disk'[x] = disk[x])
         /\ Quarantine => disk'[x] = IF x = P THEN [disk[P] EXCEPT !.kind = "aside"] ELSE disk[x]
         /\ Sweep => disk'[x] = IF x \in {P} \cup Descendants(P) THEN Absent ELSE disk[x]
  <1>1. Types /\ disk \in [Paths -> Nodes]
    BY DEF Smooth, BaseInv, Types, TypeOK
  <1>2. CheckTarget \/ PrepareParent => disk'[x] = disk[x]
    BY DEF CheckTarget, Pass, PrepareParent
  <1>3. OpenParent => disk'[x].kind = disk[x].kind /\ (x # Parent[P] => disk'[x] = disk[x])
    <2>1. \A n \in Nodes : [n EXCEPT !.rw = TRUE].kind = n.kind
      BY DEF Nodes
    <2> QED
      BY <1>1, <2>1 DEF OpenParent
  <1>4. CloseParent => disk'[x].kind = disk[x].kind /\ (x # Parent[P] => disk'[x] = disk[x])
    <2> SUFFICES ASSUME CloseParent
                 PROVE  disk'[x].kind = disk[x].kind /\ (x # Parent[P] => disk'[x] = disk[x])
      OBVIOUS
    <2>1. disk' = Restored
      BY DEF CloseParent
    <2>2. Restored[x].kind = disk[x].kind
      BY <1>1, RestoredType
    <2>3. guard # NoToken => guard[1] = Parent[P]
      BY SmoothGuard
    <2>4. x # Parent[P] => Restored[x] = disk[x]
      BY <1>1, <2>3 DEF Restored
    <2> QED
      BY <2>1, <2>2, <2>4
  <1>5. Writing => (x # P => disk'[x] = disk[x])
    BY <1>1 DEF Writing, Unlink, PublishNew, PublishOver, Symlink, LinkTimes, MakeDir, RemoveDir,
                UpdateMeta, UpdateDirMeta, Mutate
  <1>6. Quarantine => disk'[x] = IF x = P THEN [disk[P] EXCEPT !.kind = "aside"] ELSE disk[x]
    BY <1>1 DEF Quarantine
  <1>7. Sweep => disk'[x] = IF x \in {P} \cup Descendants(P) THEN Absent ELSE disk[x]
    BY <1>1 DEF Sweep
  <1> QED
    BY <1>2, <1>3, <1>4, <1>5, <1>6, <1>7

LEMMA StillSteps ==
  ASSUME \/ ListMissing \/ ListBlockers \/ CheckBlocker \/ NotListed \/ UNCHANGED vars
         \/ Validate \/ StartCommit \/ TurnBack \/ Merge \/ FinishStaging \/ \E r \in dirty : SyncOne(r)
  PROVE  UNCHANGED <<plan, disk, gen, tok, guard>> /\ dirty' \subseteq dirty
  BY DEF ListMissing, ListBlockers, List, CheckBlocker, NotListed, Skip, Frame, Settled, vars,
         Validate, StartCommit, TurnBack, Begin, Merge, FinishStaging, SyncOne

LEMMA StepStray ==
  ASSUME Smooth, Undisturbed', [Next]_vars, place' \notin Ended, edits \in Nat
  PROVE  StrayInv'
  <1>1. faults \in Nat /\ StrayInv /\ plan \in Scenarios
    BY DEF Smooth, CheckpointInv, GuardInv, Fit, BaseInv, Control
  <1>2. plan' = plan /\ \A x \in Paths : From(x)' = From(x) /\ Stray(x)' = Stray(x)
    BY PlanKept, PlanFixed
  <1> SUFFICES ASSUME NEW x \in Paths, Stray(x), disk'[x] # disk[x]
               PROVE  \/ disk'[x] = Absent
                      \/ IsDir(From(x)) /\ disk'[x] = [From(x) EXCEPT !.kind = "aside"]
    BY <1>1, <1>2 DEF StrayInv
  <1>3. Passing
    BY <1>1, SmoothStep, StillSteps
  <1>4. P \in Paths /\ (x = Parent[P] => Parent[P] = Root) /\ (~(Quarantine \/ Sweep) => x # P)
    BY <1>3, PassingPaths
  <1>5. Quarantine \/ Sweep
    BY <1>3, <1>4, PassingDisk, OrderAssumption DEF Passing, Writing
  <1>6. CASE Sweep
    BY <1>3, <1>6, PassingDisk
  <1>7. CASE Quarantine
    <2>1. x = P /\ disk'[x] = [disk[P] EXCEPT !.kind = "aside"] /\ IsDir(disk[P])
      BY <1>3, <1>7, PassingDisk DEF Quarantine
    <2>2. disk[P] = From(P)
      BY <1>1, <2>1, StrayKnown DEF IsDir, Exists
    <2> QED
      BY <2>1, <2>2
  <1> QED
    BY <1>5, <1>6, <1>7

LEMMA StepLedgerTrue ==
  ASSUME Smooth, Undisturbed', [Next]_vars, place' \notin Ended, edits \in Nat
  PROVE  LedgerTrue'
  <1>1. faults \in Nat /\ LedgerTrue /\ plan \in Scenarios /\ Types /\ Types' /\ gen \in [Paths -> Nat]
        /\ dirty \subseteq (Paths \cup {Root}) \X Nat /\ dirty' \subseteq (Paths \cup {Root}) \X Nat
    BY StepBase DEF Smooth, CheckpointInv, GuardInv, Fit, BaseInv, Control, Types, TypeOK
  <1>2. plan' = plan /\ \A x \in Paths : Stray(x)' = Stray(x)
    BY PlanKept, PlanFixed
  <1> SUFFICES ASSUME NEW r \in dirty', r[1] # Root
               PROVE  ~Stray(r[1]) /\ IsDir(disk'[r[1]]) /\ r[2] = gen'[r[1]]
    BY <1>1, <1>2 DEF LedgerTrue
  <1>3. r[1] \in Paths
    BY <1>1
  <1>4. CASE ~Passing
    <2>1. UNCHANGED <<disk, gen>> /\ r \in dirty
      BY <1>1, <1>4, SmoothStep, StillSteps
    <2> QED
      BY <1>1, <2>1 DEF LedgerTrue
  <1>5. CASE Passing
    <2>1. /\ P \in Paths /\ Parent[P] # P
          /\ Parent[P] # Root => Parent[P] \in Paths /\ ~Stray(Parent[P])
          /\ Quarantine \/ Sweep => Stray(P) /\ (\A x \in Descendants(P) : Stray(x))
      BY <1>5, PassingPaths
    <2>2. gen' = gen \/ (MakeDir /\ gen' = [gen EXCEPT ![P] = @ + 1])
      BY <1>5 DEF Passing, CheckTarget, Pass, PrepareParent, OpenParent, CloseParent, Unlink, PublishNew,
             PublishOver, Symlink, LinkTimes, MakeDir, RemoveDir, UpdateMeta, UpdateDirMeta, Quarantine, Sweep
    <2>3. CASE r \in dirty
      <3>1. ~Stray(r[1]) /\ IsDir(disk[r[1]]) /\ r[2] = gen[r[1]]
        BY <1>1, <2>3 DEF LedgerTrue
      <3>2. ASSUME r[1] = P PROVE CheckTarget \/ PrepareParent \/ OpenParent \/ CloseParent
        <4>1. IsDir(disk[P]) /\ Exists(disk[P]) /\ disk[P].kind \notin {"file", "link"}
          BY <3>1, <3>2 DEF IsDir, Exists
        <4>2. ~Unlink /\ ~PublishNew /\ ~PublishOver /\ ~Symlink /\ ~LinkTimes /\ ~MakeDir /\ ~UpdateMeta
          BY <4>1 DEF Unlink, PublishNew, PublishOver, Symlink, LinkTimes, MakeDir, UpdateMeta
        <4>3. ~RemoveDir
          <5> SUFFICES ASSUME RemoveDir PROVE FALSE
            OBVIOUS
          <5>1. tok[1] = Parent[P] /\ r \in {q \in dirty : q[1] # P} \cup {tok}
            BY DEF RemoveDir, TokenHolds
          <5> QED
            BY <2>1, <3>2, <5>1
        <4>4. ~UpdateDirMeta
          BY <3>2 DEF UpdateDirMeta
        <4>5. ~Quarantine /\ ~Sweep
          BY <2>1, <3>1, <3>2
        <4> QED
          BY <1>5, <4>2, <4>3, <4>4, <4>5 DEF Passing
      <3>3. gen'[r[1]] = gen[r[1]]
        <4>1. MakeDir => r[1] # P
          BY <3>1, <3>2 DEF MakeDir, IsDir, Exists
        <4> QED
          BY <1>1, <1>3, <2>1, <2>2, <4>1
      <3>4. disk'[r[1]].kind = disk[r[1]].kind
        <4>1. CASE CheckTarget \/ PrepareParent \/ OpenParent \/ CloseParent
          BY <1>3, <1>5, <4>1, PassingDisk
        <4>2. CASE Writing
          <5>1. r[1] # P
            <6> SUFFICES ASSUME r[1] = P PROVE FALSE
              OBVIOUS
            <6>1. Op \in {"target", "prepare", "open", "close"}
              BY <3>2 DEF CheckTarget, PrepareParent, OpenParent, CloseParent, Doing
            <6> QED
              BY <4>2, <6>1 DEF Writing, Unlink, PublishNew, PublishOver, Symlink, LinkTimes, MakeDir,
                 RemoveDir, UpdateMeta, UpdateDirMeta, Doing
          <5> QED
            BY <1>3, <1>5, <4>2, <5>1, PassingDisk
        <4>3. CASE Quarantine \/ Sweep
          BY <1>3, <1>5, <2>1, <3>1, <4>3, PassingDisk
        <4> QED
          BY <1>5, <4>1, <4>2, <4>3 DEF Passing, Writing
      <3> QED
        BY <3>1, <3>3, <3>4 DEF IsDir
    <2>4. CASE r \notin dirty
      <3>1. r = <<Parent[P], IdOf(Parent[P])>> /\ IsDir(At(Parent[P]))
        <4>1. CASE Quarantine \/ Sweep
          BY <2>4, <4>1 DEF Quarantine, Sweep, CanPrune
        <4>2. CASE ~(Quarantine \/ Sweep)
          <5>1. r = tok /\ TokenHolds
            BY <1>5, <2>4, <4>2 DEF Passing, CheckTarget, Pass, PrepareParent, OpenParent, CloseParent, Unlink,
               PublishNew, PublishOver, Symlink, LinkTimes, MakeDir, RemoveDir, UpdateMeta, UpdateDirMeta, Mutate, Arm
          <5>2. tok = <<tok[1], tok[2]>>
            BY <1>1 DEF Types, Tokens
          <5> QED
            BY <5>1, <5>2 DEF TokenHolds
        <4> QED
          BY <4>1, <4>2
      <3>2. r[1] = Parent[P] /\ ~Stray(r[1]) /\ IsDir(disk[r[1]]) /\ r[2] = gen[r[1]]
        BY <1>1, <2>1, <3>1 DEF At, IdOf
      <3>3. Writing \/ Quarantine \/ Sweep
        BY <1>5, <2>4 DEF Writing, Passing, CheckTarget, Pass, PrepareParent, OpenParent, CloseParent
      <3>4. disk'[r[1]] = disk[r[1]]
        BY <1>3, <1>5, <2>1, <3>2, <3>3, PassingDisk
      <3> QED
        BY <1>1, <1>3, <2>1, <2>2, <3>2, <3>4
    <2> QED
      BY <2>3, <2>4
  <1> QED
    BY <1>4, <1>5

LEMMA StepGuardTrue ==
  ASSUME Smooth, Undisturbed', [Next]_vars, place' \notin Ended, edits \in Nat
  PROVE  GuardTrue'
  <1>1. faults \in Nat /\ GuardTrue
    BY DEF Smooth, CheckpointInv, GuardInv, Fit
  <1>2. CASE ~Passing
    BY <1>1, <1>2, SmoothStep, StillSteps DEF GuardTrue
  <1>3. CASE OpenParent
    <2>1. \/ guard' = guard /\ gen' = gen
          \/ guard' = <<Parent[P], IdOf(Parent[P])>> /\ gen' = gen /\ Parent[P] # Root
      BY <1>3 DEF OpenParent, At, Folder
    <2> QED
      BY <1>1, <2>1 DEF GuardTrue, IdOf
  <1>4. CASE CloseParent
    BY <1>4 DEF CloseParent, GuardTrue
  <1>5. CASE MakeDir
    <2>1. guard = NoToken /\ guard' = guard
      BY <1>5, SmoothGuard DEF MakeDir, Mutate, Frame, Doing
    <2> QED
      BY <2>1 DEF GuardTrue
  <1>6. CASE Passing /\ ~OpenParent /\ ~CloseParent /\ ~MakeDir
    <2>1. UNCHANGED <<guard, gen>>
      BY <1>6 DEF Passing, CheckTarget, Pass, PrepareParent, Unlink, PublishNew, PublishOver, Symlink, LinkTimes,
             RemoveDir, UpdateMeta, UpdateDirMeta, Quarantine, Sweep, Mutate, Frame
    <2> QED
      BY <1>1, <2>1 DEF GuardTrue
  <1> QED
    BY <1>2, <1>3, <1>4, <1>5, <1>6

LEMMA StepUpFirst ==
  ASSUME Smooth, Undisturbed', [Next]_vars, place' \notin Ended, edits \in Nat
  PROVE  UpFirst'
  <1>1. faults \in Nat /\ UpFirst /\ Control /\ plan \in Scenarios /\ ahead \subseteq Paths
    BY ControlTypes DEF Smooth, CheckpointInv, GuardInv, Fit, BaseInv, Control
  <1>2. Second' = Second
    BY PlanKept, SamePlan
  <1>3. CASE Passing
    <2>1. place' = place /\ ahead # {} /\ (ahead' = ahead \/ ahead' = ahead \ {Turn})
      BY <1>3, PassingFrame DEF Settled, Over
    <2> SUFFICES ASSUME place = "reverse", NEW a \in ahead', Parent[a] \in Second
                 PROVE  Parent[a] \in ahead'
      BY <1>2, <2>1 DEF UpFirst
    <2>2. a \in ahead /\ Parent[a] \in ahead /\ a \in Paths /\ Parent[a] \in Paths
      BY <1>1, <2>1 DEF UpFirst
    <2>3. Pos(a) <= Pos(Turn)
      BY <1>1, <2>1, <2>2, TurnTrue
    <2>4. Pos(Parent[a]) < Pos(a) /\ Pos(a) \in Nat /\ Pos(Parent[a]) \in Nat
      BY <2>2, Positions
    <2>5. Parent[a] # Turn
      BY <2>3, <2>4
    <2> QED
      BY <2>1, <2>2, <2>5
  <1>4. CASE ~Passing
    <2>1. \/ TurnBack
          \/ UNCHANGED <<place, ahead>>
          \/ place' # "reverse"
      BY <1>1, <1>4, SmoothStep
      DEF ListMissing, ListBlockers, List, CheckBlocker, NotListed, Skip, Frame, Settled, vars, work,
          Validate, StartCommit, Begin, Merge, FinishStaging, SyncOne
    <2> QED
      BY <1>1, <1>2, <2>1 DEF UpFirst, TurnBack, Begin
  <1> QED
    BY <1>3, <1>4

(* Before a namespace operation its parent is opened.                       *)
Preceded ==
  Running /\ ahead # {} /\ Op \in Mutating =>
    \/ left = {} /\ step > 1 /\ Ops[step - 1] \in {"prepare", "open"}
    \/ left # {} /\ place = "forward" /\ sub = 2

LEMMA OpPreceded == Control => Preceded
  <1> SUFFICES ASSUME Control, Running, ahead # {}, Op \in Mutating
               PROVE  \/ left = {} /\ step > 1 /\ Ops[step - 1] \in {"prepare", "open"}
                      \/ left # {} /\ place = "forward" /\ sub = 2
    BY DEF Preceded
  <1>1. Doing(Op) /\ plan \in Scenarios /\ InTurn
    BY DEF Doing, Control
  <1>2. CASE left = {}
    <2>1. Op = Ops[step] /\ step \in 1..Len(Ops)
      BY <1>1, <1>2, OpPlace
    <2>2. CASE place = "forward"
      <3>1. Turn \in Forward /\ Ops = ForwardOps(Turn)
        BY <2>2, TurnTrue DEF Ops
      <3> QED
        BY <1>1, <1>2, <2>1, <3>1, ForwardOrder
    <2>3. CASE place = "reverse"
      <3>1. Turn \in Second /\ Ops = SecondOps(Turn)
        BY <2>3, TurnTrue DEF Ops
      <3> QED
        BY <1>1, <1>2, <2>1, <3>1, SecondOrder
    <2> QED
      BY <2>2, <2>3 DEF Running
  <1>3. CASE left # {}
    <2>1. Op = Inner[sub] /\ sub \in 1..Len(Inner)
      BY <1>1, <1>3, OpPlace
    <2>2. CASE place = "forward"
      BY <1>3, <2>1, <2>2 DEF Inner, Mutating
    <2>3. CASE place = "reverse"
      BY <2>1, <2>3 DEF Inner, Mutating
    <2> QED
      BY <2>2, <2>3 DEF Running
  <1> QED
    BY <1>2, <1>3

LEMMA StepArmed ==
  ASSUME Smooth, Undisturbed', [Next]_vars, place' \notin Ended, edits \in Nat
  PROVE  Armed'
  <1>1. faults \in Nat /\ Armed /\ Control /\ Control' /\ plan \in Scenarios /\ plan' = plan
    BY StepBase, PlanKept DEF Smooth, CheckpointInv, GuardInv, Fit, BaseInv, Control
  <1>2. Control' => Preceded'
    BY OpPreceded, PTL
  <1> SUFFICES ASSUME Running', ahead' # {}, Op' \in Mutating
               PROVE  tok' = <<Parent[P], IdOf(Parent[P])>>'
    BY DEF Armed, Mutating
  <1>3. \/ left' = {} /\ step' > 1 /\ Ops'[step' - 1] \in {"prepare", "open"}
        \/ left' # {} /\ place' = "forward" /\ sub' = 2
    BY <1>1, <1>2 DEF Preceded, Mutating
  <1>4. CASE Passing
    <2>1. Running /\ ahead # {} /\ Over /\ place' = place /\ InTurn
      BY <1>1, <1>4, PassingFrame DEF Settled, Control
    <2>2. ahead' = ahead => Turn' = Turn /\ Ops' = Ops
      BY <1>1, <2>1, TurnTrue, SamePlan DEF Turn, Ops
    <2>3. Op \in {"prepare", "open"} /\ P' = P
      <3>1. CASE left = {} /\ step = Len(Ops)
        BY <1>3, <2>1, <3>1 DEF Over, InTurn
      <3>2. CASE left = {} /\ step # Len(Ops)
        <4>1. ahead' = ahead /\ step' = step + 1 /\ left' = {} /\ step \in 1..Len(Ops)
          BY <2>1, <3>2 DEF Over, InTurn
        <4>2. Ops'[step' - 1] = Op
          BY <2>2, <3>2, <4>1 DEF Op
        <4> QED
          BY <1>3, <2>2, <3>2, <4>1, <4>2 DEF P
      <3>3. CASE left # {} /\ sub = Len(Inner)
        <4>1. ahead' = ahead /\ step' = step /\ sub' = 1
          BY <2>1, <3>3 DEF Over
        <4>2. Ops'[step' - 1] \in {"parents", "prune"}
          BY <2>1, <2>2, <3>3, <4>1 DEF InTurn
        <4> QED
          BY <1>3, <4>1, <4>2
      <3>4. CASE left # {} /\ sub # Len(Inner)
        <4>1. left' = left /\ sub' = sub + 1 /\ sub \in 1..Len(Inner)
          BY <2>1, <3>4 DEF Over, InTurn
        <4>2. place = "forward" /\ sub = 1
          BY <1>3, <2>1, <3>4, <4>1
        <4>3. Op = "prepare"
          BY <3>4, <4>2 DEF Op, Inner
        <4> QED
          BY <3>4, <4>1, <4>3 DEF P
      <3> QED
        BY <3>1, <3>2, <3>3, <3>4
    <2>4. PrepareParent \/ OpenParent
      BY <1>4, <2>3 DEF Passing, Doing, CheckTarget, CloseParent, Unlink, PublishNew, PublishOver, Symlink,
         LinkTimes, MakeDir, RemoveDir, UpdateMeta, UpdateDirMeta, Quarantine, Sweep
    <2>5. tok' = <<Parent[P], IdOf(Parent[P])>> /\ gen' = gen
      BY <2>4 DEF PrepareParent, OpenParent
    <2> QED
      BY <2>3, <2>5 DEF IdOf
  <1>5. CASE ListMissing \/ ListBlockers
    <2>1. PICK op \in {"parents", "prune"} : Doing(op) /\ sub' = 1 /\ step' = step + 1 /\ ahead' = ahead /\ place' = place
      BY <1>5 DEF ListMissing, ListBlockers, List, Frame, Settled
    <2>2. left = {} /\ op = Ops[step] /\ step \in 1..Len(Ops) /\ ahead # {}
      BY <1>1, <2>1, OpPlace
    <2>3. Ops' = Ops
      BY <1>1, <2>1, <2>2, TurnTrue, SamePlan DEF Turn, Ops
    <2> QED
      BY <1>3, <2>1, <2>2, <2>3
  <1>6. CASE CheckBlocker \/ NotListed
    <2>1. Doing("blocker") /\ step' = step /\ ahead' = ahead /\ place' = place
      BY <1>6 DEF CheckBlocker, NotListed, Skip, Frame, Settled
    <2>2. left # {} /\ place = "reverse" /\ ahead # {}
      BY <1>1, <2>1, OpPlace
    <2>3. Ops' = Ops
      BY <1>1, <2>1, <2>2, TurnTrue, SamePlan DEF Turn, Ops
    <2>4. Ops[step - 1] = "prune"
      BY <1>1, <2>2 DEF Control, InTurn
    <2> QED
      BY <1>3, <2>1, <2>2, <2>3, <2>4
  <1>7. CASE UNCHANGED vars
    <2>1. UNCHANGED <<place, ahead, left, sub, tok, gen>> /\ Op' = Op /\ P' = P /\ ahead # {} /\ Running
      <3>1. UNCHANGED <<plan, place, ahead, step, left, sub, tok, gen>>
        BY <1>7 DEF vars, work
      <3>2. Turn' = Turn /\ Inner' = Inner
        BY <3>1 DEF Turn, Inner
      <3>3. Ops' = Ops
        BY <1>1, <3>1, <3>2, TurnTrue, SamePlan DEF Ops
      <3> QED
        BY <3>1, <3>2, <3>3 DEF Op, P, Running
    <2> QED
      BY <1>1, <2>1 DEF Armed, IdOf
  <1>8. CASE StartCommit \/ TurnBack
    BY <1>1, <1>3, <1>8 DEF StartCommit, TurnBack, Begin, Control
  <1>9. CASE Validate \/ Merge \/ FinishStaging \/ \E r \in dirty : SyncOne(r)
    BY <1>9 DEF Validate, Merge, FinishStaging, SyncOne, Running
  <1> QED
    BY <1>1, <1>4, <1>5, <1>6, <1>7, <1>8, <1>9, SmoothStep

(* A directory that is removed is pruned before anything else is done.      *)
LEMMA PruneFirst ==
  ASSUME plan \in Scenarios, NEW p \in Second
  PROVE  Len(SecondOps(p)) > 2 => Len(SecondOps(p)) = 4 /\ SecondOps(p)[2] = "prune"
  <1> DEFINE o == SecondOps(p)
  <1>1. \/ o = <<"target", "prune", "prepare", "rmdir">>
        \/ o = <<"target", "dirmeta">>
        \/ o = <<"dirmeta">>
    BY SecondShape
  <1> HIDE DEF o
  <1> DEFINE Pruned == Len(o) > 2 => Len(o) = 4 /\ o[2] = "prune"
  <1>2. Pruned
    <2>1. CASE o = <<"target", "prune", "prepare", "rmdir">>
      BY <2>1
    <2>2. CASE o = <<"target", "dirmeta">>
      BY <2>2
    <2>3. CASE o = <<"dirmeta">>
      BY <2>3
    <2> HIDE DEF Pruned
    <2> QED
      BY <1>1, <2>1, <2>2, <2>3
  <1> QED
    BY <1>2 DEF o

(* What becomes of a turn in a step of the passes.                          *)
LEMMA SameTurn ==
  ASSUME Control, Running, ahead # {}, UNCHANGED <<plan, place, ahead>>
  PROVE  Turn' = Turn /\ Ops' = Ops /\ Inner' = Inner
         /\ \A c \in Paths : Removed(c)' = Removed(c)
  <1>1. Turn' = Turn /\ Inner' = Inner
    BY DEF Turn, Inner
  <1> QED
    BY <1>1, TurnTrue, SamePlan DEF Ops

LEMMA StepMissingTrue ==
  ASSUME Smooth, Undisturbed', [Next]_vars, place' = "forward", edits \in Nat
  PROVE  \A x \in left' : ~Exists(disk'[x])
  <1>1. faults \in Nat /\ ListTrue /\ Control /\ (InTurn \/ ahead = {})
    BY DEF Smooth, CheckpointInv, GuardInv, Fit, BaseInv, Control
  <1>2. faults \in Nat /\ ListTrue /\ Control /\ place' \notin Ended /\ left \subseteq Paths
    BY ControlTypes DEF Smooth, CheckpointInv, GuardInv, Fit, BaseInv, Ended
  <1>3. CASE Passing
    <2>1. Running /\ ahead # {} /\ Over /\ place = "forward"
      BY <1>3, PassingFrame DEF Settled
    <2>2. CASE left = {}
      BY <2>1, <2>2 DEF Over
    <2>3. CASE left # {}
      <3>1. Inner = <<"prepare", "mkdir">> /\ Op = Inner[sub] /\ sub \in 1..Len(Inner) /\ P \in left
        BY <1>1, <1>2, <2>1, <2>3, TurnTrue DEF Inner, Op, InTurn
      <3>2. CASE sub = 1
        <4>1. Op = "prepare" /\ left' = left
          BY <2>1, <2>3, <3>1, <3>2 DEF Over
        <4>2. PrepareParent
          BY <1>3, <4>1 DEF Passing, Doing, CheckTarget, OpenParent, CloseParent, Unlink, PublishNew, PublishOver,
             Symlink, LinkTimes, MakeDir, RemoveDir, UpdateMeta, UpdateDirMeta, Quarantine, Sweep
        <4> QED
          BY <1>2, <2>1, <4>1, <4>2 DEF PrepareParent, ListTrue
      <3>3. CASE sub = 2
        <4>1. Op = "mkdir" /\ left' = left \ {P}
          BY <2>1, <2>3, <3>1, <3>3 DEF Over
        <4>2. MakeDir
          BY <1>3, <4>1 DEF Passing, Doing, CheckTarget, OpenParent, CloseParent, Unlink, PublishNew, PublishOver,
             Symlink, LinkTimes, PrepareParent, RemoveDir, UpdateMeta, UpdateDirMeta, Quarantine, Sweep
        <4>3. \A x \in left' : x \in Paths /\ disk'[x] = disk[x]
          BY <1>2, <1>3, <4>1, <4>2, PassingDisk DEF Writing
        <4> QED
          BY <1>2, <2>1, <4>1, <4>3 DEF ListTrue
      <3> QED
        BY <3>1, <3>2, <3>3
    <2> QED
      BY <2>2, <2>3
  <1>4. CASE ListMissing
    BY <1>4 DEF ListMissing, List, Missing
  <1>5. CASE ListBlockers \/ CheckBlocker \/ NotListed
    <2>1. place = "reverse"
      BY <1>2, <1>5, OpPlace DEF ListBlockers, CheckBlocker, NotListed
    <2> QED
      BY <1>5, <2>1 DEF ListBlockers, CheckBlocker, NotListed, List, Skip, Frame, Settled
  <1>6. CASE UNCHANGED vars
    BY <1>2, <1>6 DEF vars, work, ListTrue
  <1>7. CASE Validate \/ StartCommit \/ TurnBack \/ Merge \/ FinishStaging \/ \E r \in dirty : SyncOne(r)
    BY <1>2, <1>7 DEF Validate, StartCommit, TurnBack, Begin, Merge, FinishStaging, SyncOne, Control
  <1> QED
    BY <1>2, <1>3, <1>4, <1>5, <1>6, <1>7, SmoothStep

LEMMA StepBlockerTrue ==
  ASSUME Smooth, Undisturbed', [Next]_vars, place' = "reverse", left' # {}, edits \in Nat
  PROVE  /\ sub' = 2 => IsDir(disk'[P'])
         /\ sub' = 3 => Exists(disk'[P']) /\ ~IsDir(disk'[P'])
  <1>1. ahead = {} \/ InTurn
    BY DEF Smooth, BaseInv, Control
  <1>2. faults \in Nat /\ ListTrue /\ Control /\ place' \notin Ended /\ left \subseteq Paths
    BY ControlTypes DEF Smooth, CheckpointInv, GuardInv, Fit, BaseInv, Ended
  <1>3. CASE Passing
    <2>1. Running /\ ahead # {} /\ Over /\ place = "reverse" /\ Op # "blocker"
      BY <1>3, PassingFrame DEF Settled
    <2>2. left # {}
      BY <2>1 DEF Over
    <2>3. Inner = <<"blocker", "quarantine", "sweep">> /\ Op = Inner[sub] /\ sub \in 1..Len(Inner) /\ P \in Paths
      BY <1>1, <1>2, <2>1, <2>2, TurnTrue DEF Inner, Op, InTurn
    <2>4. CASE sub = 2
      <3>1. Op = "quarantine" /\ left' = left /\ sub' = 3 /\ P' = P
        BY <2>1, <2>2, <2>3, <2>4 DEF Over, P
      <3>2. Quarantine
        BY <1>3, <3>1 DEF Passing, Doing, CheckTarget, OpenParent, CloseParent, Unlink, PublishNew, PublishOver,
           Symlink, LinkTimes, PrepareParent, MakeDir, RemoveDir, UpdateMeta, UpdateDirMeta, Sweep
      <3>3. disk'[P].kind = "aside"
        <4>1. disk[P] \in Nodes /\ disk'[P] = [disk[P] EXCEPT !.kind = "aside"]
          BY <1>3, <2>3, <3>2, PassingDisk DEF Smooth, BaseInv, Types, TypeOK
        <4> QED
          BY <4>1, AsideNode
      <3> QED
        BY <3>1, <3>3 DEF Exists, IsDir
    <2>5. CASE sub = 3
      BY <2>1, <2>2, <2>3, <2>5 DEF Over
    <2>6. sub # 1
      BY <2>1, <2>3
    <2> QED
      BY <2>3, <2>4, <2>5, <2>6
  <1>4. CASE ListMissing \/ ListBlockers
    BY <1>4 DEF ListMissing, ListBlockers, List
  <1>5. CASE CheckBlocker
    <2>1. P' = P
      <3>1. left # {} /\ left' = left
        BY <1>2, <1>5, OpPlace DEF CheckBlocker
      <3> QED
        BY <3>1 DEF P
    <2> QED
      BY <1>5, <2>1 DEF CheckBlocker, Skip
  <1>6. CASE NotListed
    BY <1>6 DEF NotListed
  <1>7. CASE UNCHANGED vars
    <2>1. P' = P /\ UNCHANGED <<place, left, sub, disk>>
      BY <1>7 DEF vars, work, P, Turn
    <2> QED
      BY <1>2, <2>1 DEF ListTrue
  <1>8. CASE Validate \/ StartCommit \/ TurnBack \/ Merge \/ FinishStaging \/ \E r \in dirty : SyncOne(r)
    BY <1>2, <1>8 DEF Validate, StartCommit, TurnBack, Begin, Merge, FinishStaging, SyncOne, Control
  <1> QED
    BY <1>2, <1>3, <1>4, <1>5, <1>6, <1>7, <1>8, SmoothStep

LEMMA StepListedTrue ==
  ASSUME Smooth, Undisturbed', [Next]_vars, place' = "reverse", ahead' # {}, step' > 2, edits \in Nat,
         NEW c \in Children(Turn'), ~Removed(c)', Exists(disk'[c])
  PROVE  c \in left'
  <1>1. ahead = {} \/ InTurn
    BY DEF Smooth, BaseInv, Control
  <1>2. faults \in Nat /\ ListTrue /\ Control /\ place' \notin Ended /\ plan' = plan /\ c \in Paths
    BY PlanKept DEF Smooth, CheckpointInv, GuardInv, Fit, BaseInv, Ended, Children
  <1>3. CASE Passing
    <2>1. Running /\ ahead # {} /\ Over /\ place = "reverse" /\ place' = place /\ InTurn /\ P \in Paths
          /\ Turn \in Second /\ Ops = SecondOps(Turn) /\ plan \in Scenarios
          /\ Op \notin {"prune", "blocker"}
      BY <1>1, <1>2, <1>3, PassingFrame, TurnTrue DEF Settled, Control, Ops
    <2>2. ahead' = ahead
      <3> SUFFICES ASSUME ahead' # ahead PROVE FALSE
        OBVIOUS
      <3> QED
        BY <2>1 DEF Over
    <2>3. c \in Children(Turn) /\ ~Removed(c)
      BY <1>2, <2>1, <2>2, SameTurn
    <2>4. CASE left = {}
      <3>1. step' = step + 1 /\ step # Len(Ops) /\ step \in 1..Len(Ops) /\ Op = Ops[step]
        BY <2>1, <2>2, <2>4 DEF Over, InTurn, Op
      <3>2. Len(Ops) = 4 /\ Ops[2] = "prune"
        <4>1. Len(Ops) \in 1..4 /\ step > 1
          BY <2>1, <3>1, OpsShape
        <4>2. Len(Ops) > 2
          BY <3>1, <4>1
        <4> QED
          BY <2>1, <4>2, PruneFirst
      <3>3. step = 3
        BY <2>1, <3>1, <3>2
      <3>4. Op = "prepare"
        <4>1. Op \in {"prepare", "rmdir"}
          BY <2>1, <3>1, <3>3, SecondOrder
        <4>2. Op = "rmdir" => step = Len(Ops)
          BY <2>1, <3>1, SecondTurn
        <4> QED
          BY <3>1, <4>1, <4>2
      <3>5. PrepareParent
        BY <1>3, <3>4 DEF Passing, Doing, CheckTarget, OpenParent, CloseParent, Unlink, PublishNew,
           PublishOver, Symlink, LinkTimes, MakeDir, RemoveDir, UpdateMeta, UpdateDirMeta, Quarantine, Sweep
      <3>6. Exists(disk[c])
        BY <3>5 DEF PrepareParent
      <3> QED
        BY <1>2, <2>1, <2>3, <2>4, <3>3, <3>6 DEF ListTrue
    <2>5. CASE left # {}
      <3>1. step' = step /\ step > 2 => (Exists(disk[c]) => c \in left)
        BY <1>2, <2>1, <2>3 DEF ListTrue
      <3>2. Inner = <<"blocker", "quarantine", "sweep">> /\ Op = Inner[sub] /\ sub \in 1..Len(Inner) /\ step' = step
        BY <2>1, <2>5 DEF Inner, Op, InTurn, Over
      <3>3. CASE sub = 2
        <4>1. Op = "quarantine" /\ left' = left /\ P \in left
          BY <1>2, <2>1, <2>5, <3>2, <3>3, TurnTrue DEF Over
        <4>2. Quarantine
          BY <1>3, <4>1 DEF Passing, Doing, CheckTarget, OpenParent, CloseParent, Unlink, PublishNew, PublishOver,
             Symlink, LinkTimes, PrepareParent, MakeDir, RemoveDir, UpdateMeta, UpdateDirMeta, Sweep
        <4>3. c # P => disk'[c] = disk[c]
          BY <1>2, <1>3, <4>2, PassingDisk
        <4> QED
          BY <3>1, <3>2, <4>1, <4>3
      <3>4. CASE sub = 3
        <4>1. Op = "sweep" /\ left' = left \ {P}
          BY <2>1, <2>5, <3>2, <3>4 DEF Over
        <4>2. Sweep
          BY <1>3, <4>1 DEF Passing, Doing, CheckTarget, OpenParent, CloseParent, Unlink, PublishNew, PublishOver,
             Symlink, LinkTimes, PrepareParent, MakeDir, RemoveDir, UpdateMeta, UpdateDirMeta, Quarantine
        <4>3. disk'[c] = IF c \in {P} \cup Descendants(P) THEN Absent ELSE disk[c]
          BY <1>2, <1>3, <4>2, PassingDisk
        <4>4. c # P /\ Exists(disk[c])
          BY <4>3, NoneThere
        <4> QED
          BY <3>1, <3>2, <4>1, <4>4
      <3>5. sub # 1
        BY <2>1, <3>2
      <3> QED
        BY <3>2, <3>3, <3>4, <3>5
    <2> QED
      BY <2>4, <2>5
  <1>4. CASE ListMissing
    <2>1. place = "forward"
      BY <1>2, <1>4, OpPlace DEF ListMissing
    <2> QED
      BY <1>4, <2>1 DEF ListMissing, List, Frame, Settled
  <1>5. CASE ListBlockers
    <2>1. Doing("prune") /\ left' = {e \in Children(P) : ~Removed(e)} /\ UNCHANGED <<place, ahead>>
      BY <1>5 DEF ListBlockers, List, Frame, Settled
    <2>2. P = Turn /\ Running /\ ahead # {}
      BY <1>2, <2>1, OpPlace
    <2>3. c \in Children(Turn) /\ ~Removed(c)
      BY <1>2, <2>1, <2>2, SameTurn
    <2> QED
      BY <2>1, <2>2, <2>3
  <1>6. CASE CheckBlocker \/ NotListed
    <2>1. /\ Running /\ ahead # {} /\ UNCHANGED <<place, ahead, step, disk>>
          /\ left' = left \/ (left' = left \ {P} /\ ~Exists(disk[P]))
      BY <1>6 DEF CheckBlocker, NotListed, Doing, Skip, Frame, Settled
    <2>2. c \in Children(Turn) /\ ~Removed(c)
      BY <1>2, <2>1, SameTurn
    <2>3. c \in left
      BY <1>2, <2>1, <2>2 DEF ListTrue
    <2> QED
      BY <2>1, <2>3
  <1>7. CASE UNCHANGED vars
    <2>1. UNCHANGED <<place, ahead, step, left, disk>> /\ Running /\ ahead # {}
      BY <1>7 DEF vars, work, Running
    <2>2. c \in Children(Turn) /\ ~Removed(c)
      BY <1>2, <2>1, SameTurn
    <2> QED
      BY <1>2, <2>1, <2>2 DEF ListTrue
  <1>8. CASE Validate \/ StartCommit \/ TurnBack \/ Merge \/ FinishStaging \/ \E r \in dirty : SyncOne(r)
    BY <1>2, <1>8 DEF Validate, StartCommit, TurnBack, Begin, Merge, FinishStaging, SyncOne, Control
  <1> QED
    BY <1>2, <1>3, <1>4, <1>5, <1>6, <1>7, <1>8, SmoothStep

(* While nobody else acts and no call fails, the commit has what it needs.  *)
FitInv == edits \in Nat /\ (Undisturbed /\ place \notin Ended => Fit)

LEMMA InitFit == Init => FitInv
  <1> SUFFICES ASSUME Init PROVE Fit /\ edits \in Nat
    BY DEF FitInv
  <1>1. disk = plan.from /\ dirty = {} /\ guard = NoToken /\ touched = {} /\ place = "prepare" /\ left = {}
    BY DEF Init
  <1>2. \A x \in Paths : disk[x] = From(x)
    BY <1>1 DEF From
  <1> QED
    BY <1>1, <1>2 DEF Init, Fit, BeforeInv, StrayInv, LedgerTrue, GuardTrue, Armed, Running, UpFirst, ListTrue

LEMMA StepFit ==
  ASSUME BaseInv, CheckpointInv, FitInv, [Next]_vars
  PROVE  FitInv'
  <1>1. edits' \in Nat
    <2>1. edits' = edits \/ edits' = edits + 1
      <3>1. CASE UserStep
        BY <3>1 DEF UserStep, UserWrite, UserRemove, UserSwap, UserChmod, Edit
      <3>2. CASE Passing
        BY <3>2, PassingFrame DEF Settled
      <3>3. CASE Failing \/ \E killed \in BOOLEAN : Fault(killed)
        BY <3>3, FailingFrame DEF Fail, Fault
      <3>4. CASE ~(UserStep \/ Passing \/ Failing \/ \E killed \in BOOLEAN : Fault(killed))
        BY <3>4, NextCases DEF Staging, Validate, StartCommit, TurnBack, Merge, FinishStaging, EndCommit, SyncOne,
           ListMissing, ListBlockers, List, CheckBlocker, NotListed, Skip, Frame, Settled, vars
      <3> QED
        BY <3>1, <3>2, <3>3, <3>4
    <2> QED
      BY <2>1 DEF FitInv
  <1>2. ASSUME Undisturbed', place' \notin Ended
        PROVE  Fit'
    <2>1. edits \in Nat /\ faults \in Nat
      BY DEF FitInv, CheckpointInv, GuardInv
    <2>2. Smooth
      BY <1>2, <2>1, SmoothStep DEF Smooth, FitInv
    <2>3. /\ place' = "forward" => \A x \in left' : ~Exists(disk'[x])
          /\ place' = "reverse" /\ left' # {} =>
               /\ sub' = 2 => IsDir(disk'[P'])
               /\ sub' = 3 => Exists(disk'[P']) /\ ~IsDir(disk'[P'])
          /\ place' = "reverse" /\ ahead' # {} /\ step' > 2 =>
               \A c \in Children(Turn') : ~Removed(c)' /\ Exists(disk'[c]) => c \in left'
      BY <1>2, <2>1, <2>2, StepMissingTrue, StepBlockerTrue, StepListedTrue
    <2>4. ListTrue'
      BY <2>3 DEF ListTrue, Children
    <2> QED
      BY <1>2, <2>1, <2>2, <2>4, StepBefore, StepStray, StepLedgerTrue, StepGuardTrue, StepArmed, StepUpFirst
      DEF Fit
  <1> QED
    BY <1>1, <1>2 DEF FitInv

(* A failure of an undisturbed commit is excused, and leaves the tree.      *)
LEMMA StepSuffices ==
  ASSUME BaseInv, CheckpointInv, ResultsInv, FitInv, PreflightSuffices, [Next]_vars
  PROVE  PreflightSuffices'
  <1> SUFFICES ASSUME Undisturbed', place' = "failed"
               PROVE  \E p \in Paths : To(p)'.ver = "same" /\ ~At(Parent[p])'.rw
    BY DEF PreflightSuffices
  <1>1. plan' = plan /\ edits \in Nat /\ faults \in Nat
    BY PlanKept DEF FitInv, CheckpointInv, GuardInv
  <1>2. \A p \in Paths : To(p)' = To(p)
    BY <1>1, SamePlan
  <1>3. CASE Failing
    <2>1. Fail /\ place \in {"prepare", "valid", "forward", "reverse", "sync"} /\ Undisturbed /\ MarkerInv
      BY <1>3, FailingFrame DEF Fail, Undisturbed, CheckpointInv
    <2>2. place \notin Ended /\ ~Refuse
      BY <2>1, <1>3, FailingFrame DEF Ended, Fail, MarkerInv
    <2>3. Smooth
      BY <2>1, <2>2 DEF Smooth, FitInv
    <2>4. PICK p \in Paths : To(p).ver = "same" /\ ~At(Parent[p]).rw /\ guard = NoToken
      BY <1>3, <2>2, <2>3, FailureExcused
    <2>5. disk' = disk
      BY <2>1, <2>4 DEF Fail, Restored
    <2>6. At(Parent[p])' = At(Parent[p])
      BY <2>5 DEF At
    <2> QED
      BY <1>2, <2>4, <2>6
  <1>4. CASE ~Failing
    <2>1. UNCHANGED vars
      <3>1. ~UserStep
        BY <1>1, UserFrame DEF UserStep, UserWrite, UserRemove, UserSwap, UserChmod, Edit, Undisturbed
      <3>2. ~\E killed \in BOOLEAN : Fault(killed)
        BY <1>1 DEF Fault, Undisturbed
      <3>3. ~Passing
        BY PassingFrame DEF Settled, Running
      <3> QED
        BY <1>4, <3>1, <3>2, <3>3, NextCases
        DEF Staging, Validate, StartCommit, TurnBack, Begin, Merge, FinishStaging, EndCommit, SyncOne, ListMissing,
            ListBlockers, List, CheckBlocker, NotListed, Skip, Frame, Settled, Doing, Running
    <2>2. UNCHANGED <<place, edits, faults, disk>>
      BY <2>1 DEF vars
    <2>3. PICK p \in Paths : To(p).ver = "same" /\ ~At(Parent[p]).rw
      BY <2>2 DEF PreflightSuffices, Undisturbed
    <2>4. At(Parent[p])' = At(Parent[p])
      BY <2>2 DEF At
    <2> QED
      BY <1>2, <2>3, <2>4
  <1> QED
    BY <1>3, <1>4

(* A commit that nobody disturbs and no call of which fails for a reason of *)
(* its own goes through once preflight has passed: every check on the way,  *)
(* of a target, a parent, an identity, a blocker, a mode or a result, holds *)
(* when its turn comes, whatever the plan.  A symlink made again with the   *)
(* target it had, in a directory that cannot be written, is the exception.  *)
THEOREM PreflightEnough == Spec => []PreflightSuffices
  <1>1. Init => ResultsInv /\ PreflightSuffices
    BY DEF Init, ResultsInv, Running, PreflightSuffices
  <1> QED
    BY <1>1, InitBase, InitCheckpoint, InitFit, StepBase, StepCheckpoint, StepResults, StepFit, StepSuffices, PTL
    DEF Spec
=============================================================================
