------------------------------ MODULE Scanner ------------------------------
(***************************************************************************)
(* The scan of one side (scan/mod.rs, collect_scan in state.rs): one task  *)
(* runs a scheduler with up to ScanLimit directories being read at a time, *)
(* sends what it finds through a bounded channel and, in turns, collects   *)
(* it.  Every directory is read by a coroutine that waits at each call of  *)
(* the file system, so other directories and users get in between.         *)
(*                                                                         *)
(* Which paths are in the scan is a matter of the profile's locations,     *)
(* sorted by path, the nearest of which includes or excludes a path; the   *)
(* code hands every directory the span of the locations that can matter    *)
(* below it, and Expected says what should come of that.                   *)
(***************************************************************************)
EXTENDS ScanTree

CONSTANTS
  ScanLimit,   \* directories read at a time
  ChannelSize  \* capacity of the channel of entries

ASSUME ScanAssumption == ScanLimit \in Nat \ {0} /\ ChannelSize \in Nat \ {0}

VARIABLES
  locations, \* the canonical locations: sequence of paths with their rule
  pending,   \* directories to read, in order
  active,    \* directories being read
  chan,      \* entries sent and not yet collected
  entries,   \* entries collected
  scan       \* running, closing (the scheduler is done), ok or error

scanVars == <<locations, pending, active, chan, entries, scan>>

-----------------------------------------------------------------------------
(* Locations *)

\* PathBuf::cmp: name by name, a directory before what is in it
PathLess(p, q) ==
  \/ Below(q, p) /\ p # q
  \/ \E k \in 1..Min({Len(p), Len(q)}) :
       p[k] < q[k] /\ SubSeq(p, 1, k - 1) = SubSeq(q, 1, k - 1)

\* A set of paths in this order
Sorted(S) ==
  [i \in 1..Cardinality(S) |-> CHOOSE p \in S : Cardinality({q \in S : PathLess(q, p)}) = i - 1]

Canonicalize(r) ==
  LET sorted == Sorted({p \in DOMAIN r : r[p] # "none"})
  IN  [i \in DOMAIN sorted |-> [path |-> sorted[i], include |-> r[sorted[i]] = "include"]]

WholeSpan == [parent |-> 1, from |-> 1, to |-> Len(locations)]

\* mutant of Narrow: the span ends before the last location of the directory
NarrowShort(span, path) ==
  LET hits == {i \in span.from..span.to : Below(locations[i].path, path)}
      from == IF hits # {} THEN Min(hits)
              ELSE IF span.from <= span.to THEN span.to + 1 ELSE span.from
      to == IF Cardinality(hits) < 2 THEN span.to ELSE Max(hits) - 1
  IN  [parent |-> IF hits # {} /\ locations[from].path = path THEN from ELSE span.parent,
       from |-> from, to |-> to]

\* The locations at and below path, which are next to each other; from > to
\* says there are none.
Narrow(span, path) ==
  LET hits == {i \in span.from..span.to : Below(locations[i].path, path)}
      from == IF hits # {} THEN Min(hits)
              ELSE IF span.from <= span.to THEN span.to + 1 ELSE span.from
      to == IF hits = {} THEN span.to
            ELSE Max({t \in from..span.to : \A i \in from..t : i \in hits})
  IN  [parent |-> IF hits # {} /\ locations[from].path = path THEN from ELSE span.parent,
       from |-> from, to |-> to]

\* The location of path itself, or that of the directory
FindParent(path, span) ==
  LET exact == {i \in span.from..span.to : locations[i].path = path}
  IN  locations[IF exact = {} THEN span.parent ELSE Min(exact)]

HasIncludeBelow(path, span) ==
  LET below == Narrow(span, path)
  IN  \E i \in below.from..below.to : locations[i].include /\ locations[i].path # path

IsExcluded(p) == \E e \in input.scope.excludes : Below(p, e)
Selected(p) == Below(p, input.scope.restrict) /\ ~IsExcluded(p)
Relevant(p) == (Below(p, input.scope.restrict) \/ Below(input.scope.restrict, p)) /\ ~IsExcluded(p)
IsIgnored(p) == Last(p) \in input.scope.ignored

-----------------------------------------------------------------------------
(* The coroutines *)

NoEntry == [path |-> Root, ino |-> 0, stamp |-> 0]
Job(path, span) == [path |-> path, span |-> span, opened |-> FALSE, left |-> {},
                    sending |-> NoEntry, kids |-> {}]
EntryOf(p) == IF disk[p] = Dir THEN [NoEntry EXCEPT !.path = p]
              ELSE [path |-> p, ino |-> disk[p], stamp |-> inode[disk[p]].stamp]

ScanInit ==
  /\ locations = Canonicalize(input.rules)
  /\ scan = IF IsExcluded(input.scope.restrict) THEN "closing" ELSE "running"
  /\ active = IF IsExcluded(input.scope.restrict) THEN {} ELSE {Job(Root, WholeSpan)}
  /\ pending = <<>> /\ chan = <<>> /\ entries = {}

\* An error of any directory ends the scan: the scheduler, the other
\* directories and what was collected are dropped.
ScanFails ==
  /\ scan' = "error"
  /\ pending' = <<>> /\ active' = {} /\ chan' = <<>> /\ entries' = {}
  /\ UNCHANGED locations

Becomes(j, k) == active' = (active \ {j}) \cup {k} /\ UNCHANGED <<locations, pending, chan, entries, scan>>
Waiting(j) == j \in active /\ j.sending = NoEntry

\* The directory is narrowed and listed, unless nothing in it can be in the scan.
OpenDir(j) ==
  /\ Waiting(j) /\ ~j.opened
  /\ LET span == Narrow(j.span, j.path)
         skip == ~Relevant(j.path) \/ (~locations[span.parent].include /\ span.from > span.to)
     IN \/ skip /\ Becomes(j, [j EXCEPT !.opened = TRUE])
        \/ /\ ~skip /\ IsDir(j.path)
           /\ Becomes(j, [j EXCEPT !.opened = TRUE, !.span = span,
                !.left = {p \in Paths : disk[p] # Absent /\ Parent(p) = j.path}])
        \/ ~skip /\ ~IsDir(j.path) /\ ScanFails

\* One child of the listing: passed over for its name ...
ChildSkipped(j, p) ==
  /\ Waiting(j) /\ p \in j.left
  /\ IsExcluded(p) \/ IsIgnored(p)
  /\ Becomes(j, [j EXCEPT !.left = @ \ {p}])

\* mutant of ChildGone: the rest of the directory is given up instead
ChildGoneQuietly(j, p) ==
  /\ Waiting(j) /\ p \in j.left
  /\ ~IsExcluded(p) /\ ~IsIgnored(p) /\ disk[p] = Absent
  /\ Becomes(j, [j EXCEPT !.left = {}])

\* ... or gone since the listing ...
ChildGone(j, p) ==
  /\ Waiting(j) /\ p \in j.left
  /\ ~IsExcluded(p) /\ ~IsIgnored(p) /\ disk[p] = Absent
  /\ ScanFails

\* ... or there: kept for later if it is a directory, and reported.
ChildFound(j, p) ==
  /\ Waiting(j) /\ p \in j.left
  /\ ~IsExcluded(p) /\ ~IsIgnored(p) /\ disk[p] # Absent
  /\ LET included == FindParent(p, j.span).include
         k == [j EXCEPT !.left = @ \ {p}]
     IN Becomes(j,
          IF ~included /\ ~HasIncludeBelow(p, j.span) THEN k
          ELSE [k EXCEPT
                 !.kids = IF disk[p] = Dir THEN @ \cup {p} ELSE @,
                 !.sending = IF included /\ Selected(p) THEN EntryOf(p) ELSE NoEntry])

\* tx.send waits while the channel is full.
Send(j) ==
  /\ j \in active /\ j.sending # NoEntry /\ Len(chan) < ChannelSize
  /\ chan' = Append(chan, j.sending)
  /\ active' = (active \ {j}) \cup {[j EXCEPT !.sending = NoEntry]}
  /\ UNCHANGED <<locations, pending, entries, scan>>

\* A directory is done: what it found waits its turn, and others are started.
DirDone(j) ==
  /\ Waiting(j) /\ j.opened /\ j.left = {}
  /\ LET kids == Sorted(j.kids)
         queue == pending \o [i \in DOMAIN kids |-> [path |-> kids[i], span |-> j.span]]
         n == Min({ScanLimit - Cardinality(active \ {j}), Len(queue)})
     IN /\ active' = (active \ {j}) \cup {Job(queue[i].path, queue[i].span) : i \in 1..n}
        /\ pending' = SubSeq(queue, n + 1, Len(queue))
        /\ scan' = IF active' = {} THEN "closing" ELSE scan
  /\ UNCHANGED <<locations, chan, entries>>

\* mutant of Collect: entries are taken out when the scanner is done
CollectLate ==
  /\ scan = "closing" /\ chan # <<>>
  /\ entries' = entries \cup {Head(chan)} /\ chan' = Tail(chan)
  /\ UNCHANGED <<locations, pending, active, scan>>

\* The same task takes entries out of the channel, in turns with the scanner.
Collect ==
  /\ chan # <<>>
  /\ entries' = entries \cup {Head(chan)} /\ chan' = Tail(chan)
  /\ UNCHANGED <<locations, pending, active, scan>>

\* The scheduler is done and has dropped its end of the channel.
Drained ==
  /\ scan = "closing" /\ chan = <<>> /\ scan' = "ok"
  /\ UNCHANGED <<locations, pending, active, chan, entries>>

ScanStep ==
  \/ \E j \in active : OpenDir(j) \/ Send(j) \/ DirDone(j) \/ (\E p \in j.left : ChildSkipped(j, p) \/ ChildGone(j, p) \/ ChildFound(j, p))
  \/ Collect \/ Drained

-----------------------------------------------------------------------------
ScanTypeOK ==
  /\ \A e \in entries \cup ToSet(chan) :
       e.path \in Paths /\ e.ino \in Inodes \cup {0} /\ e.stamp \in 0..MaxEdits
  /\ Cardinality(active) <= ScanLimit /\ Len(chan) <= ChannelSize
  /\ scan \in {"running", "closing", "ok", "error"}

\* What the locations mean: the nearest one at or above a path decides.
Nearest(p) ==
  LET above == {i \in DOMAIN locations : Below(p, locations[i].path)}
  IN  locations[CHOOSE i \in above : \A k \in above : Len(locations[k].path) <= Len(locations[i].path)]

Ancestry(p) == {SubSeq(p, 1, k) : k \in 1..Len(p)}
Expected(p) ==
  /\ disk[p] # Absent /\ Selected(p) /\ Nearest(p).include
  /\ \A a \in Ancestry(p) : ~IsIgnored(a)

\* ARCHITECTURE.md: scan errors cannot silently turn into partial snapshots.
\* A scan that succeeds has every path the locations and the scope ask for and
\* no other, but for those that users changed while it ran.
ScanComplete ==
  scan = "ok" => \A p \in Paths : Ancestry(p) \cap touched = {} =>
                    ((\E e \in entries : e.path = p) <=> Expected(p))

=============================================================================
