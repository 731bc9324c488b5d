------------------------------ MODULE ScanTree ------------------------------
(***************************************************************************)
(* The directory tree of one side as a scan sees it, and the users that    *)
(* change it while it is scanned and hashed.  A path is a sequence of      *)
(* names; a file is a name of an inode, and a process that has the inode   *)
(* open reads it whatever its name is by then.                             *)
(***************************************************************************)
EXTENDS Integers, Sequences, FiniteSets, SequencesExt, FiniteSetsExt

CONSTANTS
  Paths,      \* nonempty sequences of numbers, with the parents of each
  DirPaths,   \* those that are directories when they exist
  Inputs,     \* the situations to scan, see IsInput
  MaxEdits    \* bound: changes users make

Root == <<>>
Parent(p) == Front(p)
Below(p, d) == IsPrefix(d, p)       \* p.starts_with(d)

ASSUME PathsAssumption ==
  /\ IsFiniteSet(Paths)
  /\ \A p \in Paths : p \in Seq(Nat) /\ p # Root /\ Parent(p) \in DirPaths \cup {Root}
  /\ DirPaths \subseteq Paths

\* The paths that exist at first, those the snapshot knows, how often users
\* interfere, the rules of the profile, and the scope asked for
\* with the ignored names
IsInput(i) ==
  /\ i.tree \subseteq Paths /\ \A p \in i.tree : Parent(p) \in i.tree \cup {Root}
  /\ i.known \subseteq i.tree \ DirPaths /\ i.edits \in 0..MaxEdits
  /\ i.rules \in [Paths \cup {Root} -> {"include", "exclude", "none"}] /\ i.rules[Root] # "none"
  /\ i.scope.restrict \in Paths \cup {Root} /\ i.scope.excludes \subseteq Paths
  /\ i.scope.ignored \subseteq Nat
ASSUME InputsAssumption == \A i \in Inputs : IsInput(i)

FilePaths == Paths \ DirPaths
Inodes == 1..(Cardinality(FilePaths) + MaxEdits)
Dir == -1          \* no inode numbers
Absent == 0

VARIABLES
  input,    \* one of Inputs
  disk,     \* [Paths -> an inode, Dir or Absent]
  inode,    \* what each inode holds, its metadata and its change time
  edits,    \* how many changes users have made
  touched,  \* paths they changed
  was       \* the files each path has been since the scan began

treeVars == <<input, disk, inode, edits, touched, was>>

\* Size, mtime in seconds and mode are one stamp: what two scans compare.  A
\* write may leave it as it was; it never leaves the change time, which is taken
\* to be finer than the time between two writes.
Contents == [content : 0..MaxEdits, stamp : 0..MaxEdits, changed : 0..MaxEdits]

IsDir(p) == IF p = Root THEN TRUE ELSE disk[p] = Dir
IsFile(p) == disk[p] \in Inodes
File(p, d, n) == [ino |-> d[p], stamp |-> n[d[p]].stamp, content |-> n[d[p]].content]

TreeTypeOK ==
  /\ IsInput(input)
  /\ disk \in [Paths -> Inodes \cup {Dir, Absent}]
  /\ inode \in [Inodes -> Contents]
  /\ edits \in 0..input.edits /\ touched \in SUBSET Paths
  /\ \A p \in Paths : was[p] \subseteq
       [ino : Inodes, stamp : 0..MaxEdits, content : 0..MaxEdits]

InitialInode(p) == CHOOSE i \in DOMAIN SetToSeq(FilePaths) : SetToSeq(FilePaths)[i] = p

TreeInit ==
  /\ input \in Inputs
  /\ disk = [p \in Paths |->
       IF p \notin input.tree THEN Absent ELSE IF p \in DirPaths THEN Dir
         ELSE InitialInode(p)]
  /\ inode = [i \in Inodes |-> [content |-> 0, stamp |-> 0, changed |-> 0]]
  /\ edits = 0 /\ touched = {}
  /\ was = [p \in Paths |-> IF IsFile(p) THEN {File(p, disk, inode)} ELSE {}]

-----------------------------------------------------------------------------
Edit(ps) ==
  /\ edits < input.edits /\ edits' = edits + 1 /\ UNCHANGED input
  /\ touched' = touched \cup ps
  /\ was' = [p \in Paths |-> was[p] \cup
               IF disk'[p] \in Inodes THEN {File(p, disk', inode')} ELSE {}]

Write(p) ==
  /\ IsFile(p)
  /\ \E s \in {inode[disk[p]].stamp, edits + 1} :
       inode' = [inode EXCEPT ![disk[p]] =
                   [content |-> edits + 1, stamp |-> s, changed |-> edits + 1]]
  /\ UNCHANGED disk
  /\ Edit({p})

Create(p) ==
  /\ disk[p] = Absent /\ IsDir(Parent(p))
  /\ disk' = [disk EXCEPT ![p] = IF p \in DirPaths THEN Dir
                                   ELSE Cardinality(FilePaths) + edits + 1]
  /\ UNCHANGED inode
  /\ Edit({p})

Unlink(p) ==
  /\ disk[p] # Absent /\ \A q \in Paths : Parent(q) = p => disk[q] = Absent
  /\ disk' = [disk EXCEPT ![p] = Absent]
  /\ UNCHANGED inode
  /\ Edit({p})

\* rename keeps the stamp of a file, replaces its target and sets the change time.
Move(p, q) ==
  /\ p # q /\ IsFile(p) /\ q \in FilePaths /\ IsDir(Parent(q))
  /\ disk' = [disk EXCEPT ![p] = Absent, ![q] = disk[p]]
  /\ inode' = [inode EXCEPT ![disk[p]].changed = edits + 1]
  /\ Edit({p, q})

UserEdits ==
  \/ \E p \in Paths : Write(p) \/ Create(p) \/ Unlink(p)
  \/ \E p, q \in Paths : Move(p, q)

=============================================================================
