------------------------------ MODULE LegacySync ------------------------------
(***************************************************************************)
(* A sync with a peer that cannot stage (orchestrator.rs, the two legacy   *)
(* strategies): client and server each write an apply marker of version 1, *)
(* change their trees, append to the marker what they have done, save      *)
(* their snapshots and remove the markers.  Nothing is taken back once     *)
(* the client has passed its fence.  In the "bulk" strategy both sides     *)
(* apply at the same time and publish files in batches; in the "stream"    *)
(* strategy outputs are staged as they arrive, and one side commits after  *)
(* the other.                                                              *)
(*                                                                         *)
(* What a side has still to do is a sequence of operations, todo[s]; each  *)
(* may fail, and processes and the connection may die between any two.     *)
(* The client goes from round to round: a round gives operations to its    *)
(* own threads, to the server as a call, or to both.                       *)
(*                                                                         *)
(* An entry is [kind, body, meta].  The body of a directory says whether   *)
(* its owner may write in it; meta is 0 until the metadata is set.         *)
(***************************************************************************)
EXTENDS Naturals, Sequences, FiniteSets, SequencesExt

CONSTANTS
  Order,      \* every path, sorted: the order of the actions
  Parent,     \* the directory of each path; Root for those of the base
  Root,
  Plans,      \* [who, old, new], each a function of paths: see Mine
  Peers,      \* what servers can do: [batches, prepare, coordinated]
  Size,       \* bytes of the file at a path
  BatchFiles, \* max_files and max_bytes of a publication batch
  BatchBytes,
  MaxFaults   \* bound: failures, kills, lost connections and edits

Paths == ToSet(Order)
Sides == {"client", "server"}
Other(s) == CHOOSE t \in Sides : t # s

ASSUME LegacyAssumption ==
  /\ \A i, j \in 1..Len(Order) : Parent[Order[j]] = Order[i] => i < j
  /\ BatchFiles \in Nat \ {0} /\ BatchBytes \in Nat \ {0} /\ MaxFaults \in Nat

Entry(k, b, m) == [kind |-> k, body |-> b, meta |-> m]
Absent == Entry("none", 0, 0)
Exists(e) == e.kind # "none"
IsDir(e) == e.kind = "dir"
IsFile(e) == e.kind = "file"
IsLink(e) == e.kind = "link"
Writable == 0  \* any other body is that of a directory that cannot be written
Nowhere == 1   \* the body of a link to nothing; other links lead to a file
Missing(e) == ~Exists(e) \/ (IsLink(e) /\ e.body = Nowhere)  \* ~path.try_exists()
UserFile == Entry("file", 9, 1)

VARIABLES
  plan, peer, \* chosen at the start, never changed
  tree,       \* the tree of each side
  marker,     \* its recovery marker, or NoMarker
  snapshot,   \* its saved state: the entries listed of each path
  manifest,   \* new_entries: what it will save
  details,    \* bulk: the paths whose contents it was sent, and has not used
  pending,    \* outputs staged, not published
  area,       \* has it a staging directory?
  todo,       \* operations left of the round
  failed,     \* did one fail?
  round,      \* the client's round
  outcome,    \* none, ok, error, interrupted or killed
  linked,     \* is there a server and a connection to it?
  faults,
  done        \* history: what each side did to its tree, in order

sideVars == <<tree, marker, snapshot, manifest, details, pending, area, done>>
vars == <<plan, peer, sideVars, todo, failed, round, outcome, linked, faults>>

Old(p) == plan.old[p]
New(p) == plan.new[p]
Mine(s, p) == plan.who[p] = s
Has(s, p) == tree[s][p]

\* Local and remote actions, identical ones, conflicts nobody resolved, and
\* entries without an action; what they find in the tree and leave there.
Before(s, p) ==
  CASE Mine(s, p) \/ plan.who[p] = "kept" -> Old(p)
    [] plan.who[p] = "conflict" -> Entry("file", IF s = "client" THEN 3 ELSE 4, 1)
    [] OTHER -> New(p)
Listed(p) == IF plan.who[p] \in {"kept", "conflict"} THEN Old(p) ELSE New(p)
List(e) == IF Exists(e) THEN <<e>> ELSE <<>>

NoMarker == [phase |-> "none", lines |-> <<>>]
NewMarker == [phase |-> "apply", lines |-> <<>>]

-----------------------------------------------------------------------------
(* The preflight (preflight_apply_with_policy), of side s with the tree t.  *)
(* Missing parents that no action makes are left out: a plan has them all.  *)

NoDirReplaced ==
  \A p \in Paths : plan.who[p] \in Sides /\ IsDir(Old(p)) => IsDir(New(p)) \/ ~Exists(New(p))

TargetsExist(s, t) == \A p \in Paths : Mine(s, p) /\ Exists(Old(p)) => Exists(t[p])

\* Everything in a directory that goes must go with it.
Goner(s, p) == Mine(s, p) /\ Exists(Old(p)) /\ ~Exists(New(p))
RemovalsFit(s, t) ==
  \A p \in Paths :
    LET d == Parent[p] IN
      d # Root /\ Goner(s, d) /\ IsDir(t[d]) /\ Exists(t[p]) => Goner(s, p)

\* The directory of a path; one can write in the base.
Folder(t, p) == IF Parent[p] = Root THEN Entry("dir", Writable, 1) ELSE t[Parent[p]]

\* parent_mutations: changes of the directory the path is in
Mutates(s, p) ==
  Mine(s, p) /\ (Old(p).kind = New(p).kind => ~IsDir(New(p)) /\ Old(p).body # New(p).body)

Planned(s, d) == Mine(s, d) /\ IsDir(New(d)) /\ ~IsDir(Old(d))
MadeReadonly(s, d) ==
  Mine(Other(s), d) /\ IsDir(Old(d)) /\ IsDir(New(d))
    /\ Old(d).body = Writable /\ New(d).body # Writable

\* mutant of ParentFits: the parent of any change may be opened for a moment
ParentFitsAnyKind(s, t, p) ==
  LET e == Folder(t, p) IN IF Missing(e) THEN Planned(s, Parent[p]) ELSE IsDir(e)

\* The parent is made by the plan if it is missing.  Otherwise it is a directory by
\* now, and one that can be written, unless files are published there through a guard.
ParentFits(s, t, p) ==
  LET e == Folder(t, p) IN
  IF Missing(e) THEN Planned(s, Parent[p])
  ELSE IsDir(e) /\ (e.body # Writable => IsFile(New(p)) /\ ~MadeReadonly(s, Parent[p]))

Accepts(s, t) ==
  /\ NoDirReplaced /\ TargetsExist(s, t) /\ RemovalsFit(s, t)
  /\ \A p \in Paths : Mutates(s, p) => ParentFits(s, t, p)

-----------------------------------------------------------------------------
(* The operations of one action: <<name, path>>, and <<"note", lines>> for  *)
(* what is appended to the marker.                                          *)

Op(n, p) == <<n, p>>
Note(n, p) == <<"note", <<<<n, p>>>>>>
Step(n, p) == <<Op(n, p), Note(n, p)>>
Did(p) == Note("action", p)

\* apply_detail_kind: contents must be sent.
HasDetail(p) == IsFile(New(p)) /\ ~(IsFile(Old(p)) /\ Old(p).body = New(p).body)
DirChange(p) == IsDir(Old(p)) \/ IsDir(New(p))
DetailsFor(s) == SelectSeq(Order, LAMBDA p : Mine(s, p) /\ HasDetail(p))

\* select_apply_strategy.  (Bulk is also for plans that make a directory something
\* else, but the preflight has refused those by then: see NoDirReplaced.)
Bulk == ~peer.batches

\* Streamed outputs wait for their action; in bulk they are published in batches.
Flush == IF Bulk THEN <<Op("flush", Root)>> ELSE <<>>

\* A regular file: staged here and published with its batch, or published now
Output(p) ==
  IF Bulk THEN <<Op("room", p), Op("detail", p), Op("full", p)>>
  ELSE <<Op("publish", p), <<"note", <<<<"publish", p>>, <<"action", p>>>>>>, Op("list", p)>>

Symlink(p) == Step("symlink", p) \o Step("meta", p) \o <<Did(p)>>

\* mutant of MakeDir: a new directory gets its metadata at once
MakeDirReady(p) == Step("mkdir", p) \o Step("meta", p)
MakeDir(p) == Step("mkdir", p)

\* The first pass: everything but directories that go, or get their metadata
Forward(p) ==
  LET clear == IF Exists(Old(p)) THEN Step("remove", p) ELSE <<>> IN
  CASE IsDir(Old(p)) -> <<>>
    [] HasDetail(p) -> (IF IsLink(Old(p)) /\ Bulk THEN clear ELSE <<>>) \o Output(p)
    [] IsFile(New(p)) -> Step("meta", p) \o <<Did(p)>>
    [] IsLink(New(p)) -> clear \o Symlink(p)
    [] IsDir(New(p)) -> clear \o MakeDir(p)
    [] OTHER -> clear \o <<Did(p)>>

\* The second, in reverse order
Second(p) ==
  CASE ~DirChange(p) -> <<>>
    [] IsDir(New(p)) -> Flush \o Step("meta", p) \o <<Did(p)>>
    [] OTHER -> Flush \o Step("rmdir", p) \o <<Did(p)>>

\* fallback_action_can_follow_pending
CanFollow(s, p) ==
  Mine(s, p) /\ IsFile(New(p)) /\ HasDetail(p) /\ Old(p).kind \in {"none", "file"}

ForwardOf(s, p) ==
  (IF CanFollow(s, p) \/ plan.who[p] = "kept" THEN <<>> ELSE Flush)
    \o (IF Mine(s, p) THEN Forward(p) ELSE <<Op("list", p)>>)
SecondOf(s, p) == IF Mine(s, p) THEN Second(p) ELSE <<>>

OverAll(f(_, _), s, order) == FlattenSeq([i \in DOMAIN order |-> f(s, order[i])])

\* apply_detailed_changes_with_output_batch; PreparedApply::commit
Apply(s) ==
  (IF Bulk THEN <<>> ELSE <<Op("validate", Root)>>) \o OverAll(ForwardOf, s, Order) \o (IF Bulk THEN <<Op("extra", Root)>> ELSE <<>>) \o Flush
    \o OverAll(SecondOf, s, Reverse(Order)) \o <<Op("complete", Root)>>

Arrive(s) == [i \in DOMAIN DetailsFor(s) |-> Op("detail", DetailsFor(s)[i])]

-----------------------------------------------------------------------------
(* The rounds of the client                                                 *)

Do(n) == Op(n, Root)
Round(c, r) == [client |-> c, server |-> r]

BeforeFence ==
  <<Round(<<Do("accept")>>, <<>>), Round(<<>>, <<Do("accept")>>)>>
    \o (IF Bulk THEN <<Round(<<Do("read")>>, <<Do("read")>>)>> ELSE <<>>)

Attempt ==
  (IF peer.prepare THEN <<Round(<<>>, <<Do("start")>>)>> ELSE <<>>)
    \o <<Round(<<Do("start")>>, <<>>)>>

\* apply_detailed_changes of the server, in one call
BulkRounds ==
  <<Round(Apply("client"), <<Do("accept"), Do("start")>> \o Apply("server") \o <<Do("mark")>>)>>

\* begin_apply_stream, the frames, and finish_apply_stream after the client's
StreamRounds ==
  <<Round(<<>>, <<Do("accept"), Do("start")>>), Round(Arrive("client"), Arrive("server")),
    Round(Apply("client"), <<>>), Round(<<>>, Apply("server") \o <<Do("mark")>>)>>

Changes == IF Bulk THEN BulkRounds ELSE StreamRounds

\* mutant of Saving: the server removes its marker as soon as it has saved
SavingAtOnce ==
  <<Round(<<Do("mark")>>, <<>>), Round(<<Do("save")>>, <<Do("save"), Do("clear")>>),
    Round(<<Do("clear")>>, <<>>)>>

Saving ==
  <<Round(<<Do("mark")>>, <<>>)>>
    \o (IF peer.coordinated
        THEN <<Round(<<Do("save")>>, <<Do("save")>>), Round(<<>>, <<Do("clear")>>)>>
        ELSE <<Round(<<Do("save")>>, <<Do("save"), Do("clear")>>)>>)
    \o <<Round(<<Do("clear")>>, <<>>)>>

Rounds == BeforeFence \o Attempt \o Changes \o Saving

-----------------------------------------------------------------------------
Init ==
  /\ plan \in Plans /\ peer \in Peers
  /\ tree = [s \in Sides |-> [p \in Paths |-> Before(s, p)]]
  /\ marker = [s \in Sides |-> NoMarker]
  /\ snapshot = [s \in Sides |-> [p \in Paths |-> List(Old(p))]]
  /\ manifest = [s \in Sides |-> [p \in Paths |-> <<>>]]
  /\ details = [s \in Sides |-> <<>>]
  /\ pending = [s \in Sides |-> <<>>]
  /\ area = [s \in Sides |-> FALSE]
  /\ todo = [s \in Sides |-> <<>>] /\ failed = [s \in Sides |-> FALSE]
  /\ round = 0 /\ outcome = "none" /\ linked = TRUE /\ faults = 0
  /\ done = [s \in Sides |-> <<>>]

-----------------------------------------------------------------------------
(* Operations of a side                                                     *)

Put(s, p, e) == tree' = [tree EXCEPT ![s][p] = e]
Account(s, n, p) == done' = [done EXCEPT ![s] = Append(@, <<n, p>>)]
Enter(s, p, e) == manifest' = [manifest EXCEPT ![s][p] = @ \o List(e)]

IsOld(s, p) == Has(s, p) = Old(p)
Opened(s, p) == IsDir(Folder(tree[s], p))
Enterable(s, p) == Opened(s, p) /\ Folder(tree[s], p).body = Writable
Empty(s, d) == \A p \in Paths : Parent[p] = d => ~Exists(Has(s, p))

\* The files left for a batch, and what of them is published when
Bytes(batch) == FoldSeq(LAMBDA p, n : Size[p] + n, 0, batch)
FlushOps(batch) ==
  FlattenSeq([i \in DOMAIN batch |->
                <<Op("publish", batch[i]), Note("publish", batch[i]), Op("list", batch[i]), Did(batch[i])>>])
NoRoom(s, p) ==
  pending[s] # <<>> /\ (Len(pending[s]) >= BatchFiles \/ Bytes(pending[s]) + Size[p] > BatchBytes)
IsFull(s) == Len(pending[s]) >= BatchFiles \/ Bytes(pending[s]) >= BatchBytes
MustFlush(s, n, p) == CASE n = "room" -> NoRoom(s, p) [] n = "full" -> IsFull(s) [] OTHER -> TRUE

Rest(s) == todo' = [todo EXCEPT ![s] = Tail(@)]
Goes(s, names) == todo[s] # <<>> /\ Head(todo[s])[1] \in names
Arg(s) == Head(todo[s])[2]
control == <<plan, peer, failed, round, outcome, linked, faults>>

\* An error: its outputs and its staging directory are dropped.
Fail(s) ==
  /\ todo' = [todo EXCEPT ![s] = <<>>] /\ failed' = [failed EXCEPT ![s] = TRUE]
  /\ pending' = [pending EXCEPT ![s] = <<>>]
  /\ area' = [area EXCEPT ![s] = FALSE]
  /\ UNCHANGED <<plan, peer, tree, marker, snapshot, manifest, details, done, round, outcome, linked>>

\* What an operation needs: it fails where this does not hold.
Fits(s, n, p) ==
  CASE n = "start" -> marker[s] \in {NoMarker, NewMarker}
    [] n \in {"note", "mark", "complete"} -> marker[s] # NoMarker
    [] n = "remove" -> IsOld(s, p) /\ Enterable(s, p)
    [] n = "rmdir" -> IsOld(s, p) /\ Empty(s, p) /\ Enterable(s, p)
    [] n \in {"symlink", "mkdir"} -> ~Exists(Has(s, p)) /\ Enterable(s, p)
    [] n = "meta" -> IF Old(p).kind = New(p).kind /\ ~IsLink(New(p))
                       THEN IsOld(s, p) ELSE Has(s, p).kind = New(p).kind
    [] n = "publish" -> /\ Opened(s, p)
                        /\ IF IsFile(Old(p)) \/ (~Bulk /\ Exists(Old(p))) THEN IsOld(s, p)
                           ELSE ~Exists(Has(s, p))
    [] n = "accept" -> Accepts(s, tree[s])
    [] n = "validate" -> Accepts(s, tree[s]) /\ \A q \in Paths : Mine(s, q) => IsOld(s, q)
    [] n = "detail" -> Bulk => details[s] # <<>> /\ Head(details[s]) = p
    [] n = "extra" -> details[s] = <<>>
    [] OTHER -> TRUE

Refused(s) ==
  /\ todo[s] # <<>> /\ ~Fits(s, Head(todo[s])[1], Arg(s))
  /\ Fail(s) /\ UNCHANGED faults

Can(s, names) == Goes(s, names) /\ Fits(s, Head(todo[s])[1], Arg(s))

\* create_new, or a marker with the contents this attempt would write
Start(s) ==
  /\ Can(s, {"start"}) /\ Rest(s)
  /\ marker' = [marker EXCEPT ![s] = NewMarker]
  /\ UNCHANGED <<control, tree, snapshot, manifest, details, pending, area, done>>

\* mutant of Mark: the lines are not copied
MarkAnew(s) ==
  /\ Can(s, {"mark"}) /\ Rest(s)
  /\ marker' = [marker EXCEPT ![s] = [phase |-> "state-save", lines |-> <<>>]]
  /\ UNCHANGED <<control, tree, snapshot, manifest, details, pending, area, done>>

Mark(s) ==
  /\ Can(s, {"mark"}) /\ Rest(s)
  /\ marker' = [marker EXCEPT ![s].phase = "state-save"]
  /\ UNCHANGED <<control, tree, snapshot, manifest, details, pending, area, done>>

WriteLine(s) ==
  /\ Can(s, {"note"}) /\ Rest(s)
  /\ marker' = [marker EXCEPT ![s].lines = @ \o Arg(s)]
  /\ UNCHANGED <<control, tree, snapshot, manifest, details, pending, area, done>>

Clear(s) ==
  /\ Can(s, {"clear"}) /\ Rest(s)
  /\ marker' = [marker EXCEPT ![s] = NoMarker]
  /\ UNCHANGED <<control, tree, snapshot, manifest, details, pending, area, done>>

Save(s) ==
  /\ Can(s, {"save"}) /\ Rest(s)
  /\ snapshot' = [snapshot EXCEPT ![s] = manifest[s]]
  /\ UNCHANGED <<control, tree, marker, manifest, details, pending, area, done>>

\* Checks: the preflight, and with it that of the targets before a commit; no
\* detail may be left over.
Pass(s) ==
  /\ Can(s, {"accept", "validate", "extra"}) /\ Rest(s)
  /\ UNCHANGED <<control, sideVars>>

\* get_detailed_changes: the contents the other side needs
ReadDetails(s) ==
  /\ Can(s, {"read"}) /\ Rest(s)
  /\ details' = [details EXCEPT ![Other(s)] = DetailsFor(Other(s))]
  /\ UNCHANGED <<control, tree, marker, snapshot, manifest, pending, area, done>>

\* An output needs the staging directory: it is made with the first, and listed.
MakeArea(s) ==
  /\ Can(s, {"detail"}) /\ ~area[s]
  /\ area' = [area EXCEPT ![s] = TRUE] /\ Account(s, "area", Root)
  /\ todo' = [todo EXCEPT ![s] = <<Note("area", Root)>> \o @]
  /\ UNCHANGED <<control, tree, marker, snapshot, manifest, details, pending>>

\* create_file, update_file_with_diff: an output is written, verified and queued.
Stage(s) ==
  /\ Can(s, {"detail"}) /\ area[s] /\ Rest(s)
  /\ pending' = [pending EXCEPT ![s] = Append(@, Arg(s))]
  /\ details' = [details EXCEPT ![s] = IF Bulk THEN Tail(@) ELSE @]
  /\ UNCHANGED <<control, tree, marker, snapshot, manifest, area, done>>

FlushBatch(s) ==
  /\ Can(s, {"room", "full", "flush"})
  /\ IF pending[s] # <<>> /\ MustFlush(s, Head(todo[s])[1], Arg(s))
       THEN /\ pending' = [pending EXCEPT ![s] = <<>>]
            /\ todo' = [todo EXCEPT ![s] = FlushOps(pending[s]) \o Tail(@)]
       ELSE Rest(s) /\ UNCHANGED pending
  /\ UNCHANGED <<control, tree, marker, snapshot, manifest, details, area, done>>

Publish(s) ==
  /\ Can(s, {"publish"}) /\ Rest(s)
  /\ Put(s, Arg(s), New(Arg(s))) /\ Account(s, "publish", Arg(s))
  /\ pending' = [pending EXCEPT ![s] = SelectSeq(@, LAMBDA p : p # Arg(s))]
  /\ UNCHANGED <<control, marker, snapshot, manifest, details, area>>

Raw(p) == Entry(New(p).kind, IF IsLink(New(p)) THEN New(p).body ELSE Writable, 0)

Namespace(s) ==
  /\ Can(s, {"remove", "rmdir", "symlink", "mkdir"}) /\ Rest(s)
  /\ Put(s, Arg(s), IF Head(todo[s])[1] \in {"remove", "rmdir"} THEN Absent ELSE Raw(Arg(s)))
  /\ Account(s, Head(todo[s])[1], Arg(s))
  /\ UNCHANGED <<control, marker, snapshot, manifest, details, pending, area>>

UpdateMeta(s) ==
  /\ Can(s, {"meta"}) /\ Rest(s)
  /\ Put(s, Arg(s), New(Arg(s))) /\ Enter(s, Arg(s), New(Arg(s)))
  /\ Account(s, "meta", Arg(s))
  /\ UNCHANGED <<control, marker, snapshot, details, pending, area>>

\* The walk over all_old; Remote and Identical actions; a published file
EnterOld(s) ==
  /\ Can(s, {"list"}) /\ Rest(s)
  /\ Enter(s, Arg(s), Listed(Arg(s)))
  /\ UNCHANGED <<control, tree, marker, snapshot, details, pending, area, done>>

\* The staging directory is removed, directories and the marker are synced.
Complete(s) ==
  /\ Can(s, {"complete"}) /\ Rest(s)
  /\ area' = [area EXCEPT ![s] = FALSE]
  /\ UNCHANGED <<control, tree, marker, snapshot, manifest, details, pending, done>>

-----------------------------------------------------------------------------
(* The client                                                               *)

Calls(r) == r.server # <<>>
RoundOver == outcome = "none" /\ todo["client"] = <<>> /\ (todo["server"] = <<>> \/ failed["server"])
Failed == failed["client"] \/ failed["server"]
MayCall == round < Len(Rounds) => (Calls(Rounds[round + 1]) => linked)

NextRound ==
  /\ RoundOver /\ ~Failed /\ MayCall /\ round < Len(Rounds)
  /\ round' = round + 1 /\ todo' = Rounds[round + 1]
  /\ UNCHANGED <<plan, peer, sideVars, failed, outcome, linked, faults>>

Succeed ==
  /\ RoundOver /\ ~Failed /\ round = Len(Rounds)
  /\ outcome' = "ok"
  /\ UNCHANGED <<plan, peer, sideVars, todo, failed, round, linked, faults>>

\* An error on either side: nothing is undone, the markers stay.
GiveUp ==
  /\ RoundOver /\ (Failed \/ ~MayCall)
  /\ outcome' = "error"
  /\ UNCHANGED <<plan, peer, sideVars, todo, failed, round, linked, faults>>

\* Only up to try_begin_commit
Interrupt ==
  /\ RoundOver /\ round <= Len(BeforeFence)
  /\ outcome' = "interrupted"
  /\ UNCHANGED <<plan, peer, sideVars, todo, failed, round, linked, faults>>

-----------------------------------------------------------------------------
Fault == faults < MaxFaults /\ faults' = faults + 1

\* Somebody writes a file that the plan has not reached yet.
Edit(s, p) ==
  /\ outcome = "none" /\ Fault
  /\ Mine(s, p) /\ IsOld(s, p) /\ ~IsDir(Old(p)) /\ Opened(s, p)
  /\ Put(s, p, UserFile)
  /\ UNCHANGED <<plan, peer, marker, snapshot, manifest, details, pending, area, done,
                 todo, failed, round, outcome, linked>>

Break(s) == todo[s] # <<>> /\ Fault /\ Fail(s)

\* The server goes on with the call it has, and then sees the end of its input.
KillClient ==
  /\ outcome = "none" /\ Fault
  /\ outcome' = "killed" /\ linked' = FALSE
  /\ todo' = [todo EXCEPT !["client"] = <<>>]
  /\ UNCHANGED <<plan, peer, sideVars, failed, round>>

Unlink ==
  /\ linked /\ linked' = FALSE
  /\ failed' = [failed EXCEPT !["server"] = @ \/ todo["server"] # <<>>]

LoseConnection ==
  /\ Fault /\ Unlink
  /\ UNCHANGED <<plan, peer, sideVars, todo, round, outcome>>

KillServer ==
  /\ Fault /\ Unlink
  /\ todo' = [todo EXCEPT !["server"] = <<>>]
  /\ UNCHANGED <<plan, peer, sideVars, round, outcome>>

-----------------------------------------------------------------------------
Operate(s) ==
  \/ Refused(s) \/ Start(s) \/ Mark(s) \/ WriteLine(s) \/ Clear(s) \/ Save(s) \/ Pass(s)
  \/ ReadDetails(s) \/ MakeArea(s) \/ Stage(s) \/ FlushBatch(s) \/ Publish(s)
  \/ Namespace(s) \/ UpdateMeta(s) \/ EnterOld(s) \/ Complete(s)

Next ==
  \/ \E s \in Sides : Operate(s) \/ Break(s)
  \/ NextRound \/ Succeed \/ GiveUp \/ Interrupt
  \/ \E s \in Sides, p \in Paths : Edit(s, p)
  \/ KillClient \/ LoseConnection \/ KillServer

Spec == Init /\ [][Next]_vars

-----------------------------------------------------------------------------
(* Properties                                                               *)

Untouched(s) ==
  /\ \A p \in Paths : Has(s, p) \in {Before(s, p), UserFile}
  /\ \A p \in Paths : snapshot[s][p] = List(Old(p))
Applied(s) == \A p \in Paths : Has(s, p) = IF Mine(s, p) THEN New(p) ELSE Before(s, p)
Saved(s) == \A p \in Paths : snapshot[s][p] = List(Listed(p))

\* Nothing but a marker tells the next sync that this one did not end: with no
\* marker on either side both are as they were found, or both have the plan in
\* tree and snapshot, every entry exactly once.  A server that leaves the
\* removal of its marker to the client (CAPABILITY_COORDINATED_MARKER_CLEANUP)
\* has it until both snapshots are saved, and so has the client.
MarkersCoverTheRun ==
  /\ (\A s \in Sides : marker[s] = NoMarker) =>
       \/ \A s \in Sides : Untouched(s)
       \/ \A s \in Sides : Applied(s) /\ Saved(s)
  /\ \A s \in Sides : peer.coordinated /\ marker[s] = NoMarker /\ Saved(s) => Saved(Other(s))

\* The lines of a marker (record_committed_step, record_committed_action) tell
\* what was done to the tree, in order and without a gap; at most the latest
\* change is not recorded yet.  An action they list as committed is complete.
JournalFollowsWork ==
  \A s \in Sides : marker[s] # NoMarker =>
    LET steps == SelectSeq(marker[s].lines, LAMBDA l : l[1] # "action") IN
    /\ steps = done[s] \/ (done[s] # <<>> /\ steps = Front(done[s]))
    /\ \A p \in Paths : Contains(marker[s].lines, <<"action", p>>) => Has(s, p) = New(p)

\* bulk: fs::remove_file takes a link out of a directory that cannot be written,
\* and has no guard as the publication of the file has that replaces it.
LinkHeld(s, p) ==
  /\ Bulk /\ Mine(s, p) /\ IsLink(Old(p)) /\ IsFile(New(p))
  /\ Parent[p] # Root /\ Before(s, Parent[p]).body # Writable

\* The preflight is enough for the two passes and the batches: with no failure
\* a plan that both sides accept is carried out, its marker removed, unless a link
\* is held as above; any other is refused with both sides as they were found.
UndisturbedSucceeds ==
  faults = 0 /\ outcome \notin {"none", "interrupted"} =>
    IF \A s \in Sides : Accepts(s, [p \in Paths |-> Before(s, p)])
      THEN \/ /\ outcome = "ok"
              /\ \A s \in Sides : Applied(s) /\ Saved(s) /\ marker[s] = NoMarker /\ ~area[s]
           \/ outcome = "error" /\ \E s \in Sides, p \in Paths : LinkHeld(s, p)
      ELSE /\ outcome = "error"
           /\ \A s \in Sides : Untouched(s) /\ marker[s] = NoMarker /\ ~area[s]

=============================================================================
