----------------------------- MODULE StagedSync -----------------------------
(***************************************************************************)
(* `duet sync` between two peers that both support staged apply: the       *)
(* client (orchestrator.rs) on the local side, the server process it       *)
(* launches (rpc.rs) on the remote side, and on each side the tree, the    *)
(* snapshot of the last synchronized state and the recovery marker         *)
(* (sync.rs, state.rs).  A run reads both sides, plans actions against the *)
(* two snapshots, and takes them over in waves: begin and stage on both    *)
(* sides, finish both, validate both, pass the commit fence, commit both   *)
(* in parallel, save both snapshots in parallel, remove both markers.      *)
(*                                                                         *)
(* Around the run: users edit either tree at any time; the client dies;    *)
(* the server dies; the connection breaks while the server finishes the    *)
(* call it is in; every operation may fail; Ctrl-C arrives; the user runs  *)
(* `duet recover --clear`; a later run starts, before the server of the    *)
(* earlier one has ended.                                                  *)
(*                                                                         *)
(* A path holds a version: 0 when absent, and a fresh number for every     *)
(* write of a user.  Two entries are the same when their versions are.     *)
(* A definition introduced as a mutant is no part of the model: it is a    *)
(* plausible slip, put in the place of the definition it names to see that *)
(* a property notices.                                                     *)
(***************************************************************************)
EXTENDS Integers, FiniteSets

CONSTANTS
  Paths,            \* the paths of the profile
  Runs,             \* invocations of `duet sync`, each used once
  None,             \* no path, no run, no marker
  MaxEdits,         \* bound: writes and deletions by users
  MaxFaults,        \* bound: Ctrl-C, client and server deaths, broken connections
  AllowConcurrent,  \* may a run start while another client is alive?
  AllowForcedClear  \* does the user clear commit-or-later markers?

ASSUME BoundAssumption == MaxEdits \in Nat /\ MaxFaults \in Nat
ASSUME FlagAssumption == AllowConcurrent \in BOOLEAN /\ AllowForcedClear \in BOOLEAN

Local == "local"
Remote == "remote"
Side == {Local, Remote}
Other(s) == IF s = Local THEN Remote ELSE Local

Absent == 0
Unread == -1
Version == Nat

VARIABLES
  (* on disk *)
  tree,      \* [Side -> [Paths -> version]]
  snap,      \* [Side -> [Paths -> version]]: the saved snapshot
  marker,    \* [Side -> the recovery marker: None or [run, phase]]
  (* history *)
  fresh,     \* [Paths -> last version a user wrote]
  replaced,  \* [Side -> [Paths -> versions a user overwrote or deleted there]]
  dropped,   \* [Paths -> versions given up by resolving a conflict]
  raced,     \* [Paths -> versions written between a final check and its rename]
  forced,    \* was a commit-or-later marker cleared by hand?
  edits, faults,
  (* of each run: the client *)
  pc,        \* where the client is
  out,       \* what the client returned
  intr,      \* was a first Ctrl-C answered?
  link,      \* is the connection up?
  ready,     \* sides that passed the marker check, later the validation
  old,       \* [Side -> [Paths -> version]]: snapshot loaded at the scan
  seen,      \* [Side -> [Paths -> version]]: tree as scanned
  act,       \* [Paths -> action]
  todo,      \* paths of the waves still to do, the current one included
  group,     \* paths of the current wave
  saved,     \* has the local snapshot of this wave been saved?
  dirty,     \* paths edited since the run read one of its inputs
  (* of each run: the server *)
  srv,       \* state of the server, StagedApplyState included
  req,       \* the call the server is executing
  rep,       \* its answer, not yet taken by the client
  (* of each run and side: PreparedApply::commit *)
  com,       \* idle, publishing, done or failed
  left,      \* paths not yet published
  win        \* path between its final check and its rename

diskVars == <<tree, snap, marker>>
userVars == <<fresh, replaced, dropped, raced, forced, edits>>
histVars == <<userVars, faults>>
planVars == <<ready, old, seen, act, todo, group>>
callVars == <<srv, req, rep>>
comVars == <<com, left, win>>
vars == <<diskVars, histVars, pc, out, intr, link, planVars, saved, dirty, callVars, comVars>>

Phase == {"preparing", "prepared", "committing", "committed", "state-save", "malformed"}
Marker == [run : Runs, phase : Phase]
ASSUME NoneAssumption == None \notin Paths \cup Runs \cup Marker
Precommit == {"preparing", "prepared"}
Action == {"none", "toLocal", "toRemote", "identical", "conflict",
           "resolvedToLocal", "resolvedToRemote"}
Pc == {"idle", "scan", "wave", "begin", "beginLocal", "stream", "finishLocal",
       "finish", "validate", "fence", "commit", "mark", "save", "complete",
       "finishMarker", "abortLocal", "abort", "over", "panic"}
Server == {"off", "up", "preparing", "prepared", "committing", "committed",
           "saving", "saved", "aborted"}
Call == {"none", "begin", "finish", "commit", "save", "complete", "abort"}
Outcome == {"none", "success", "interrupted", "error"}
Commitment == {"idle", "publishing", "done", "failed"}

TypeOK ==
  /\ tree \in [Side -> [Paths -> Version]]
  /\ snap \in [Side -> [Paths -> Version]]
  /\ marker \in [Side -> {None} \cup Marker]
  /\ fresh \in [Paths -> Version]
  /\ replaced \in [Side -> [Paths -> SUBSET Version]]
  /\ dropped \in [Paths -> SUBSET Version]
  /\ raced \in [Paths -> SUBSET Version]
  /\ forced \in BOOLEAN /\ edits \in Nat /\ faults \in Nat
  /\ pc \in [Runs -> Pc]
  /\ out \in [Runs -> Outcome]
  /\ intr \in [Runs -> BOOLEAN]
  /\ link \in [Runs -> BOOLEAN]
  /\ ready \in [Runs -> SUBSET Side]
  /\ old \in [Runs -> [Side -> [Paths -> Version \cup {Unread}]]]
  /\ seen \in [Runs -> [Side -> [Paths -> Version \cup {Unread}]]]
  /\ act \in [Runs -> [Paths -> Action]]
  /\ todo \in [Runs -> SUBSET Paths]
  /\ group \in [Runs -> SUBSET Paths]
  /\ saved \in [Runs -> {"no", "ok", "err"}]
  /\ dirty \in [Runs -> SUBSET Paths]
  /\ srv \in [Runs -> Server]
  /\ req \in [Runs -> Call]
  /\ rep \in [Runs -> {"none", "ok", "err"}]
  /\ com \in [Runs -> [Side -> Commitment]]
  /\ left \in [Runs -> [Side -> SUBSET Paths]]
  /\ win \in [Runs -> [Side -> Paths \cup {None}]]

Nowhere == [s \in Side |-> [p \in Paths |-> Unread]]
NoAction == [p \in Paths |-> "none"]

\* The two trees as the users left them: nothing, or an entry synchronized
\* before, path by path.
Init ==
  /\ \E S \in SUBSET Paths :
       LET v == [p \in Paths |-> IF p \in S THEN 1 ELSE Absent] IN
       /\ tree = [s \in Side |-> v]
       /\ snap = [s \in Side |-> v]
       /\ fresh = v
  /\ marker = [s \in Side |-> None]
  /\ replaced = [s \in Side |-> [p \in Paths |-> {}]]
  /\ dropped = [p \in Paths |-> {}]
  /\ raced = [p \in Paths |-> {}]
  /\ forced = FALSE /\ edits = 0 /\ faults = 0
  /\ pc = [r \in Runs |-> "idle"]
  /\ out = [r \in Runs |-> "none"]
  /\ intr = [r \in Runs |-> FALSE]
  /\ link = [r \in Runs |-> TRUE]
  /\ ready = [r \in Runs |-> {}]
  /\ old = [r \in Runs |-> Nowhere]
  /\ seen = [r \in Runs |-> Nowhere]
  /\ act = [r \in Runs |-> NoAction]
  /\ todo = [r \in Runs |-> {}]
  /\ group = [r \in Runs |-> {}]
  /\ saved = [r \in Runs |-> "no"]
  /\ dirty = [r \in Runs |-> {}]
  /\ srv = [r \in Runs |-> "off"]
  /\ req = [r \in Runs |-> "none"]
  /\ rep = [r \in Runs |-> "none"]
  /\ com = [r \in Runs |-> [s \in Side |-> "idle"]]
  /\ left = [r \in Runs |-> [s \in Side |-> {}]]
  /\ win = [r \in Runs |-> [s \in Side |-> None]]

Alive(r) == pc[r] \notin {"idle", "over", "panic"}

\* Deaths, broken connections, Ctrl-C, and operations that fail without a
\* reason the model knows, a full disk for one, are bounded by MaxFaults.
Fault == faults < MaxFaults /\ faults' = faults + 1
Failure(reason) == IF reason THEN UNCHANGED faults ELSE Fault

Clear(s) == marker[s] = None                        \* check_apply_attempt_clear
Owns(r, s, phases) == \E ph \in phases : marker[s] = [run |-> r, phase |-> ph]

-----------------------------------------------------------------------------
(* Changes and actions: scan/change.rs, actions.rs, resolution.rs *)

Change(o, n) == CASE o = n -> "same"
                  [] o # n /\ o = Absent -> "added"
                  [] o # n /\ n = Absent -> "removed"
                  [] OTHER -> "modified"
ChangeAt(r, s, p) == Change(old[r][s][p], seen[r][s][p])

\* Action::create: one change is taken to the other side; two that are the
\* same are identical, two that differ a conflict.
ActionFor(r, p) ==
  LET lc == ChangeAt(r, Local, p)
      rc == ChangeAt(r, Remote, p) IN
  CASE lc = "same" /\ rc = "same" -> "none"
    [] lc # "same" /\ rc = "same" -> "toRemote"
    [] lc = "same" /\ rc # "same" -> "toLocal"
    [] OTHER -> IF lc = rc /\ seen[r][Local][p] = seen[r][Remote][p]
                  THEN "identical" ELSE "conflict"

\* What the user, or --force, may make of an action
Resolutions(a) == IF a = "conflict"
                    THEN {"conflict", "resolvedToLocal", "resolvedToRemote"} ELSE {a}

\* The pairs of changes resolve_action has an arm for
ResolvablePairs == {<<"added", "added">>, <<"removed", "modified">>,
                    <<"modified", "removed">>, <<"modified", "modified">>}
Unresolvable(r, p) == <<ChangeAt(r, Local, p), ChangeAt(r, Remote, p)>> \notin ResolvablePairs

Towards(r, p, s) == act[r][p] \in (IF s = Local THEN {"toLocal", "resolvedToLocal"}
                                                ELSE {"toRemote", "resolvedToRemote"})

\* The entry the plan expects at its target: the old entry of the change that
\* is taken over, or what was scanned there when a conflict was resolved.
Expected(r, p, s) == IF act[r][p] \in {"toLocal", "toRemote"}
                       THEN old[r][Other(s)][p] ELSE seen[r][s][p]
NewEntry(r, p, s) == seen[r][Other(s)][p]

Targets(r, s) == {p \in group[r] : Towards(r, p, s)}

\* validate_commit_targets_and_capacity: an added target is absent, a removed
\* or modified one still holds the expected entry.
TargetsMatch(r, s) == \A p \in Targets(r, s) : tree[s][p] = Expected(r, p, s)

\* merge_staged_manifest: the snapshot of side s after the given paths
Merged(r, s, done) ==
  [p \in Paths |->
     IF p \notin done \/ act[r][p] \in {"none", "conflict"} THEN old[r][s][p]
     ELSE IF Towards(r, p, s) THEN NewEntry(r, p, s) ELSE seen[r][s][p]]
Planned(r) == {p \in Paths : act[r][p] # "none"}

\* mutant of DoneBySave: the waves before this one are left out
GroupOnly(r) == group[r]

DoneBySave(r) == (Planned(r) \ todo[r]) \cup group[r]

-----------------------------------------------------------------------------
(* The users of the two trees *)

Edited(s, p, v) ==
  /\ edits < MaxEdits /\ edits' = edits + 1
  /\ tree' = [tree EXCEPT ![s][p] = v]
  /\ replaced' = IF tree[s][p] = Absent THEN replaced
                 ELSE [replaced EXCEPT ![s][p] = @ \cup {tree[s][p]}]
  /\ dirty' = [r \in Runs |-> IF Alive(r) THEN dirty[r] \cup {p} ELSE dirty[r]]
  /\ UNCHANGED <<snap, marker, dropped, forced, faults, pc, out, intr, link, planVars,
                 saved, callVars, comVars>>

\* A write in the window of a commit is one the rename will not see.
Write(s, p) ==
  /\ fresh' = [fresh EXCEPT ![p] = @ + 1]
  /\ raced' = IF \E r \in Runs : win[r][s] = p
                THEN [raced EXCEPT ![p] = @ \cup {fresh[p] + 1}] ELSE raced
  /\ Edited(s, p, fresh[p] + 1)

Delete(s, p) ==
  /\ tree[s][p] # Absent
  /\ Edited(s, p, Absent)
  /\ UNCHANGED <<fresh, raced>>

-----------------------------------------------------------------------------
(* The client, up to the first wave *)

\* Data of a run whose client and server are both gone
Forget(r) ==
  /\ ready' = [ready EXCEPT ![r] = {}]
  /\ old' = [old EXCEPT ![r] = Nowhere]
  /\ seen' = [seen EXCEPT ![r] = Nowhere]
  /\ act' = [act EXCEPT ![r] = NoAction]
  /\ todo' = [todo EXCEPT ![r] = {}]
  /\ group' = [group EXCEPT ![r] = {}]
  /\ com' = [com EXCEPT ![r] = [s \in Side |-> "idle"]]
  /\ left' = [left EXCEPT ![r] = [s \in Side |-> {}]]
  /\ win' = [win EXCEPT ![r] = [s \in Side |-> None]]

\* mutant of Leave: the data of a run go with its client, though the server
\* is still in a call
LeaveForgetting(r, outcome) ==
  /\ pc' = [pc EXCEPT ![r] = "over"]
  /\ out' = [out EXCEPT ![r] = outcome]
  /\ intr' = [intr EXCEPT ![r] = FALSE]
  /\ link' = [link EXCEPT ![r] = FALSE]
  /\ saved' = [saved EXCEPT ![r] = "no"]
  /\ dirty' = [dirty EXCEPT ![r] = {}]
  /\ rep' = [rep EXCEPT ![r] = "none"]
  /\ UNCHANGED req
  /\ srv' = IF req[r] = "none" THEN [srv EXCEPT ![r] = "off"] ELSE srv
  /\ Forget(r)

\* The client process ends.  A server that is in no call sees the end of its
\* input and exits; one that is in a call finishes it first.
Leave(r, outcome) ==
  /\ pc' = [pc EXCEPT ![r] = "over"]
  /\ out' = [out EXCEPT ![r] = outcome]
  /\ intr' = [intr EXCEPT ![r] = FALSE]
  /\ link' = [link EXCEPT ![r] = FALSE]
  /\ saved' = [saved EXCEPT ![r] = "no"]
  /\ dirty' = [dirty EXCEPT ![r] = {}]
  /\ rep' = [rep EXCEPT ![r] = "none"]
  /\ UNCHANGED req
  /\ IF req[r] = "none"
       THEN srv' = [srv EXCEPT ![r] = "off"] /\ Forget(r)
       ELSE /\ com' = [com EXCEPT ![r][Local] = "idle"]
            /\ left' = [left EXCEPT ![r][Local] = {}]
            /\ win' = [win EXCEPT ![r][Local] = None]
            /\ UNCHANGED <<srv, planVars>>

Goto(r, l) == pc' = [pc EXCEPT ![r] = l]

\* The run starts: it refuses while the local marker is there.
Start(r) ==
  /\ pc[r] = "idle"
  /\ AllowConcurrent \/ \A q \in Runs : ~Alive(q)
  /\ IF Clear(Local)
       THEN /\ Goto(r, "scan")
            /\ ready' = [ready EXCEPT ![r] = {Local}]
            /\ srv' = [srv EXCEPT ![r] = "up"]
            /\ UNCHANGED out
       ELSE /\ Goto(r, "over")
            /\ out' = [out EXCEPT ![r] = "error"]
            /\ UNCHANGED <<ready, srv>>
  /\ UNCHANGED <<diskVars, histVars, intr, link, old, seen, act, todo, group,
                 saved, dirty, req, rep, comVars>>

\* The server takes the scan call: it refuses while the remote marker is there.
ServerScan(r) ==
  /\ pc[r] = "scan" /\ link[r] /\ Remote \notin ready[r]
  /\ IF Clear(Remote)
       THEN /\ ready' = [ready EXCEPT ![r] = @ \cup {Remote}]
            /\ UNCHANGED <<pc, out, intr, link, old, seen, act, todo, group,
                           saved, dirty, callVars, comVars>>
       ELSE Leave(r, "error")
  /\ UNCHANGED <<diskVars, histVars>>

\* old_and_changes: the snapshot is loaded by the first poll of the join, the
\* tree is scanned by the next ones.
LoadOld(r, s) ==
  /\ pc[r] = "scan" /\ s \in ready[r]
  /\ \A p \in Paths : old[r][s][p] = Unread
  /\ old' = [old EXCEPT ![r][s] = snap[s]]
  /\ UNCHANGED <<diskVars, histVars, pc, out, intr, link, ready, seen, act, todo, group,
                 saved, dirty, callVars, comVars>>

ScanPath(r, s, p) ==
  /\ pc[r] = "scan" /\ old[r][s][p] # Unread /\ seen[r][s][p] = Unread
  /\ seen' = [seen EXCEPT ![r][s][p] = tree[s][p]]
  /\ UNCHANGED <<diskVars, histVars, pc, out, intr, link, ready, old, act, todo, group,
                 saved, dirty, callVars, comVars>>

AllRead(r) == \A s \in Side, p \in Paths : seen[r][s][p] # Unread

\* Both scans joined: the actions, resolved by the user or left as conflicts.
\* Resolving a pair of changes that has no arm is the unreachable! of
\* resolve_action.
Plan(r) ==
  /\ pc[r] = "scan" /\ AllRead(r)
  /\ \E d \in [Paths -> Action] :
       /\ \A p \in Paths : d[p] \in Resolutions(ActionFor(r, p))
       /\ IF \E p \in Paths : d[p] \in {"resolvedToLocal", "resolvedToRemote"} /\ Unresolvable(r, p)
            THEN /\ Goto(r, "panic")
                 /\ UNCHANGED <<out, intr, link, planVars, saved, dirty, callVars, comVars>>
          ELSE IF \A p \in Paths : d[p] = "none"
            THEN Leave(r, "success")
          ELSE /\ act' = [act EXCEPT ![r] = d]
               /\ todo' = [todo EXCEPT ![r] = {p \in Paths : d[p] # "none"}]
               /\ Goto(r, "wave")
               /\ UNCHANGED <<out, intr, link, ready, old, seen, group, saved, dirty,
                              callVars, comVars>>
  /\ UNCHANGED <<diskVars, histVars>>

\* The user looks at the actions and aborts.
UserAborts(r) ==
  /\ pc[r] = "scan" /\ AllRead(r)
  /\ Leave(r, "error")
  /\ UNCHANGED <<diskVars, histVars>>

\* Every step before begin can fail, and a poll of the latch can end the run:
\* scans, preflights, capacity checks, signatures.
GiveUp(r) ==
  /\ pc[r] \in {"scan", "wave"}
  /\ \/ intr[r] /\ Leave(r, "interrupted") /\ UNCHANGED faults
     \/ Leave(r, "error") /\ Failure(pc[r] = "scan" /\ ~link[r] /\ ~AllRead(r))
  /\ UNCHANGED <<diskVars, userVars>>

-----------------------------------------------------------------------------
(* The client, wave by wave *)

\* An RPC is sent; over a broken connection it is not, and the server may
\* still be in the call before.
Send(r, op) ==
  /\ req' = IF link[r] THEN [req EXCEPT ![r] = op] ELSE req
  /\ rep' = [rep EXCEPT ![r] = "none"]

\* mutant of FailedCall: a call whose connection broke is waited for
FailedReply(r) == rep[r] = "err"

Answered(r) == rep[r] = "ok"
FailedCall(r) == rep[r] = "err" \/ (rep[r] = "none" /\ ~link[r])

\* The client goes on, or turns to the cleanup at l: for an interrupt, or with
\* an error to return.
Goes(r, l) == Goto(r, l) /\ UNCHANGED out
Fails(r, l) == Goto(r, l) /\ out' = [out EXCEPT ![r] = "error"]

clientRest == <<diskVars, userVars, intr, link, old, seen, act, saved, dirty, srv, comVars>>

\* Waves partition the actions; which paths a wave takes is the planner's.
BeginWave(r) ==
  /\ pc[r] = "wave" /\ ~intr[r] /\ todo[r] # {}
  /\ \E g \in SUBSET todo[r] : g # {} /\ group' = [group EXCEPT ![r] = g]
  /\ Goes(r, "begin") /\ Send(r, "begin")
  /\ UNCHANGED <<clientRest, faults, ready, todo>>

RemoteBegun(r) ==
  /\ pc[r] = "begin"
  /\ \/ /\ Answered(r)
        /\ IF intr[r]
             THEN Goes(r, "abort") /\ Send(r, "abort")
             ELSE Goes(r, "beginLocal") /\ rep' = [rep EXCEPT ![r] = "none"] /\ UNCHANGED req
        /\ UNCHANGED <<clientRest, faults, ready, todo, group>>
     \/ /\ FailedCall(r)
        /\ Leave(r, "error") /\ UNCHANGED <<diskVars, histVars>>

\* mutant of Created: the marker file is opened for writing, not exclusively
CreatedOver(r, s, ph) == marker' = [marker EXCEPT ![s] = [run |-> r, phase |-> ph]]

\* start_staged_apply_attempt: the marker file is created exclusively; when
\* writing it fails half way, a file that no longer parses stays.
Created(r, s, ph) == Clear(s) /\ marker' = [marker EXCEPT ![s] = [run |-> r, phase |-> ph]]

BeginLocal(r) ==
  /\ pc[r] = "beginLocal"
  /\ \/ Created(r, Local, "preparing") /\ Goes(r, "stream") /\ UNCHANGED <<faults, req, rep>>
     \/ /\ Created(r, Local, "malformed") \/ UNCHANGED marker
        /\ Failure(~Clear(Local)) /\ Fails(r, "abort") /\ Send(r, "abort")
  /\ UNCHANGED <<tree, snap, userVars, intr, link, planVars, saved, dirty, srv, comVars>>

\* The interleaved detail streams stage every new entry; an entry is read from
\* its source tree and must be the one that was scanned.
SourcesMatch(r) == \A s \in Side : \A p \in Targets(r, s) :
  NewEntry(r, p, s) # Absent => tree[Other(s)][p] = NewEntry(r, p, s)

Stream(r) ==
  /\ pc[r] = "stream"
  /\ \/ SourcesMatch(r) /\ ~intr[r] /\ Goes(r, "finishLocal") /\ UNCHANGED faults
     \/ intr[r] /\ Goes(r, "abortLocal") /\ UNCHANGED faults
     \/ Fails(r, "abortLocal") /\ Failure(~SourcesMatch(r) \/ ~link[r])
  /\ UNCHANGED <<clientRest, ready, todo, group, req, rep>>

\* transition_staged_apply_attempt refuses any marker but the run's own in
\* the expected phase.
Moved(r, s, from, to) ==
  /\ Owns(r, s, {from})
  /\ marker' = [marker EXCEPT ![s] = [run |-> r, phase |-> to]]

FinishLocal(r) ==
  /\ pc[r] = "finishLocal"
  /\ \/ /\ Moved(r, Local, "preparing", "prepared")
        /\ IF intr[r] THEN Goes(r, "abortLocal") /\ UNCHANGED <<req, rep>>
                      ELSE Goes(r, "finish") /\ Send(r, "finish")
        /\ UNCHANGED faults
     \/ /\ Fails(r, "abortLocal") /\ Failure(~Owns(r, Local, {"preparing"}))
        /\ UNCHANGED <<marker, req, rep>>
  /\ UNCHANGED <<tree, snap, userVars, intr, link, planVars, saved, dirty, srv, comVars>>

RemoteFinished(r) ==
  /\ pc[r] = "finish"
  /\ \/ Answered(r) /\ Goes(r, "validate") /\ ready' = [ready EXCEPT ![r] = {}]
     \/ FailedCall(r) /\ Fails(r, "abortLocal") /\ UNCHANGED ready
  /\ rep' = [rep EXCEPT ![r] = "none"]
  /\ UNCHANGED <<clientRest, faults, todo, group, req>>

\* Both sides validate their targets, in any order; a failure on either aborts
\* both.  ready collects the sides that passed.
ValidateSide(r, s) ==
  LET valid == TargetsMatch(r, s) /\ (s = Remote => link[r]) IN
  /\ pc[r] = "validate" /\ s \notin ready[r]
  /\ \/ /\ valid
        /\ ready' = [ready EXCEPT ![r] = @ \cup {s}]
        /\ Goes(r, IF ready'[r] = Side THEN "fence" ELSE "validate")
        /\ UNCHANGED faults
     \/ Fails(r, "abortLocal") /\ Failure(~valid) /\ UNCHANGED ready
  /\ UNCHANGED <<clientRest, todo, group, req, rep>>

\* try_begin_commit, then the bilateral commit: both sides start.
Fence(r) ==
  /\ pc[r] = "fence"
  /\ IF intr[r] THEN Goes(r, "abortLocal") /\ UNCHANGED <<req, rep>>
                ELSE Goes(r, "commit") /\ Send(r, "commit")
  /\ UNCHANGED <<clientRest, faults, ready, todo, group>>

\* The join of the two commits
CommitsJoined(r) ==
  /\ pc[r] = "commit" /\ com[r][Local] \in {"done", "failed"}
  /\ \/ /\ com[r][Local] = "done" /\ Answered(r)
        /\ Goes(r, "mark") /\ rep' = [rep EXCEPT ![r] = "none"]
        /\ UNCHANGED <<clientRest, faults, ready, todo, group, req>>
     \/ /\ (com[r][Local] = "failed" /\ Answered(r)) \/ FailedCall(r)
        /\ Leave(r, "error") /\ UNCHANGED <<diskVars, histVars>>

MarkSave(r) ==
  /\ pc[r] = "mark"
  /\ \/ /\ Moved(r, Local, "committed", "state-save")
        /\ Goes(r, "save") /\ Send(r, "save")
        /\ UNCHANGED <<tree, snap, histVars, intr, link, planVars, saved, dirty, srv, comVars>>
     \/ /\ Leave(r, "error") /\ Failure(~Owns(r, Local, {"committed"}))
        /\ UNCHANGED <<diskVars, userVars>>

\* save_entries_as replaces the snapshot file atomically.
SaveLocal(r) ==
  /\ pc[r] = "save" /\ saved[r] = "no"
  /\ \/ /\ snap' = [snap EXCEPT ![Local] = Merged(r, Local, DoneBySave(r))]
        /\ saved' = [saved EXCEPT ![r] = "ok"]
        /\ UNCHANGED faults
     \/ saved' = [saved EXCEPT ![r] = "err"] /\ Fault /\ UNCHANGED snap
  /\ UNCHANGED <<tree, marker, userVars, pc, out, intr, link, planVars, dirty, callVars, comVars>>

SavesJoined(r) ==
  /\ pc[r] = "save" /\ saved[r] # "no"
  /\ \/ /\ saved[r] = "ok" /\ Answered(r)
        /\ Goes(r, "complete") /\ Send(r, "complete")
        /\ UNCHANGED <<clientRest, faults, ready, todo, group>>
     \/ /\ (saved[r] = "err" /\ Answered(r)) \/ FailedCall(r)
        /\ Leave(r, "error") /\ UNCHANGED <<diskVars, histVars>>

\* mutant of RemoteCompleted: the answer of the other side is not looked at
RemoteCompletedUnread(r) ==
  /\ pc[r] = "complete"
  /\ Answered(r) \/ FailedCall(r)
  /\ Goes(r, "finishMarker") /\ rep' = [rep EXCEPT ![r] = "none"]
  /\ UNCHANGED <<clientRest, faults, ready, todo, group, req>>

RemoteCompleted(r) ==
  /\ pc[r] = "complete"
  /\ \/ /\ Answered(r)
        /\ Goes(r, "finishMarker") /\ rep' = [rep EXCEPT ![r] = "none"]
        /\ UNCHANGED <<clientRest, faults, ready, todo, group, req>>
     \/ FailedCall(r) /\ Leave(r, "error") /\ UNCHANGED <<diskVars, histVars>>

\* mutant of FinishMarker: the first wave is taken for the last
FinishMarkerEarly(r) ==
  /\ pc[r] = "finishMarker" /\ Owns(r, Local, {"state-save"})
  /\ marker' = [marker EXCEPT ![Local] = None]
  /\ Leave(r, "success")
  /\ UNCHANGED <<tree, snap, histVars>>

\* finish_staged_apply_attempt removes the local marker; then the next wave,
\* unless this was the last or a Ctrl-C was deferred.
FinishMarker(r) ==
  /\ pc[r] = "finishMarker"
  /\ \/ /\ Owns(r, Local, {"state-save"})
        /\ marker' = [marker EXCEPT ![Local] = None]
        /\ LET rest == todo[r] \ group[r] IN
           IF rest = {} THEN Leave(r, "success")
           ELSE IF intr[r] THEN Leave(r, "interrupted")
           ELSE /\ Goto(r, "wave")
                /\ todo' = [todo EXCEPT ![r] = rest]
                /\ group' = [group EXCEPT ![r] = {}]
                /\ saved' = [saved EXCEPT ![r] = "no"]
                /\ com' = [com EXCEPT ![r] = [s \in Side |-> "idle"]]
                /\ UNCHANGED <<out, intr, link, ready, old, seen, act, dirty, callVars,
                               left, win>>
        /\ UNCHANGED faults
     \/ Leave(r, "error") /\ Failure(~Owns(r, Local, {"state-save"})) /\ UNCHANGED marker
  /\ UNCHANGED <<tree, snap, userVars>>

\* abort_staged_apply_attempt removes a marker of this run that is still
\* before commit, and leaves any other alone; the remote side is then told.
AbortLocal(r) ==
  /\ pc[r] = "abortLocal"
  /\ \/ /\ Owns(r, Local, Precommit)
        /\ marker' = [marker EXCEPT ![Local] = None]
        /\ Goes(r, "abort") /\ UNCHANGED faults
     \/ Fails(r, "abort") /\ Failure(~Owns(r, Local, Precommit)) /\ UNCHANGED marker
  /\ Send(r, "abort")
  /\ UNCHANGED <<tree, snap, userVars, intr, link, planVars, saved, dirty, srv, comVars>>

\* The run ends interrupted only if nothing else went wrong and both sides
\* were cleaned up.
Aborted(r) ==
  /\ pc[r] = "abort"
  /\ \/ Answered(r) /\ Leave(r, IF out[r] = "none" THEN "interrupted" ELSE "error")
     \/ FailedCall(r) /\ Leave(r, "error")
  /\ UNCHANGED <<diskVars, histVars>>

-----------------------------------------------------------------------------
(* PreparedApply::commit, on either side *)

\* The commit of a side runs in the client or in the server.
Committing(r, s) == IF s = Local THEN pc[r] = "commit" ELSE req[r] = "commit"

\* How the end of a commit is reported: the server answers its call.
Reported(r, s, ok) ==
  IF s = Local
    THEN UNCHANGED callVars
    ELSE /\ srv' = [srv EXCEPT ![r] = IF ok THEN "committed" ELSE "committing"]
         /\ req' = [req EXCEPT ![r] = "none"]
         /\ rep' = [rep EXCEPT ![r] = IF link[r] THEN (IF ok THEN "ok" ELSE "err") ELSE "none"]

commitRest == <<snap, fresh, replaced, raced, forced, edits, pc, out, intr, link,
                planVars, saved, dirty>>

\* Revalidation, then prepared -> committing
CommitStart(r, s) ==
  LET valid == TargetsMatch(r, s) /\ (s = Remote => srv[r] = "prepared") IN
  /\ Committing(r, s) /\ com[r][s] = "idle"
  /\ \/ /\ valid /\ Moved(r, s, "prepared", "committing")
        /\ com' = [com EXCEPT ![r][s] = "publishing"]
        /\ left' = [left EXCEPT ![r][s] = Targets(r, s)]
        /\ srv' = IF s = Remote THEN [srv EXCEPT ![r] = "committing"] ELSE srv
        /\ UNCHANGED <<faults, req, rep, win>>
     \/ /\ com' = [com EXCEPT ![r][s] = "failed"]
        /\ Failure(~valid \/ ~Owns(r, s, {"prepared"}))
        /\ Reported(r, s, FALSE)
        /\ UNCHANGED <<marker, left, win>>
  /\ UNCHANGED <<commitRest, tree, dropped>>

\* mutant of PublishAdded: a rename that replaces what is there
PublishAddedOver(r, s, p) ==
  /\ Committing(r, s) /\ com[r][s] = "publishing" /\ win[r][s] = None
  /\ p \in left[r][s] /\ Expected(r, p, s) = Absent
  /\ tree' = [tree EXCEPT ![s][p] = NewEntry(r, p, s)]
  /\ left' = [left EXCEPT ![r][s] = @ \ {p}]
  /\ UNCHANGED <<commitRest, faults, marker, dropped, callVars, com, win>>

\* An added entry is linked or created exclusively: check and mutation are one.
PublishAdded(r, s, p) ==
  /\ Committing(r, s) /\ com[r][s] = "publishing" /\ win[r][s] = None
  /\ p \in left[r][s] /\ Expected(r, p, s) = Absent
  /\ tree[s][p] = Absent
  /\ tree' = [tree EXCEPT ![s][p] = NewEntry(r, p, s)]
  /\ left' = [left EXCEPT ![r][s] = @ \ {p}]
  /\ UNCHANGED <<commitRest, faults, marker, dropped, callVars, com, win>>

\* mutant of PublishCheck: the last look at the target is left out
PublishUnchecked(r, s, p) ==
  /\ Committing(r, s) /\ com[r][s] = "publishing" /\ win[r][s] = None
  /\ p \in left[r][s] /\ Expected(r, p, s) # Absent
  /\ win' = [win EXCEPT ![r][s] = p]
  /\ UNCHANGED <<commitRest, faults, tree, marker, dropped, callVars, com, left>>

\* A replaced or removed entry is checked ...
PublishCheck(r, s, p) ==
  /\ Committing(r, s) /\ com[r][s] = "publishing" /\ win[r][s] = None
  /\ p \in left[r][s] /\ Expected(r, p, s) # Absent
  /\ tree[s][p] = Expected(r, p, s)
  /\ win' = [win EXCEPT ![r][s] = p]
  /\ UNCHANGED <<commitRest, faults, tree, marker, dropped, callVars, com, left>>

\* ... and then renamed over or unlinked, whatever is there by then.
PublishRename(r, s) ==
  /\ Committing(r, s) /\ com[r][s] = "publishing" /\ win[r][s] # None
  /\ LET p == win[r][s] IN
     /\ tree' = [tree EXCEPT ![s][p] = NewEntry(r, p, s)]
     /\ left' = [left EXCEPT ![r][s] = @ \ {p}]
     /\ dropped' = IF act[r][p] \in {"resolvedToLocal", "resolvedToRemote"}
                     THEN [dropped EXCEPT ![p] = @ \cup {seen[r][s][p]}] ELSE dropped
  /\ win' = [win EXCEPT ![r][s] = None]
  /\ UNCHANGED <<commitRest, faults, marker, callVars, com>>

\* mutant of PublishFails: what was at the target when it was checked is put back
PublishFailsRestored(r, s) ==
  /\ Committing(r, s) /\ com[r][s] = "publishing"
  /\ com' = [com EXCEPT ![r][s] = "failed"]
  /\ left' = [left EXCEPT ![r][s] = {}]
  /\ win' = [win EXCEPT ![r][s] = None]
  /\ tree' = IF win[r][s] = None THEN tree
             ELSE [tree EXCEPT ![s][win[r][s]] = Expected(r, win[r][s], s)]
  /\ Failure(win[r][s] = None /\ \E p \in left[r][s] : tree[s][p] # Expected(r, p, s))
  /\ Reported(r, s, FALSE)
  /\ UNCHANGED <<commitRest, marker, dropped>>

\* A check or a system call fails: the commit stops, the marker stays.
PublishFails(r, s) ==
  /\ Committing(r, s) /\ com[r][s] = "publishing"
  /\ com' = [com EXCEPT ![r][s] = "failed"]
  /\ left' = [left EXCEPT ![r][s] = {}]
  /\ win' = [win EXCEPT ![r][s] = None]
  /\ Failure(win[r][s] = None /\ \E p \in left[r][s] : tree[s][p] # Expected(r, p, s))
  /\ Reported(r, s, FALSE)
  /\ UNCHANGED <<commitRest, tree, marker, dropped>>

\* All published, durable and recorded: committing -> committed
CommitEnd(r, s) ==
  /\ Committing(r, s) /\ com[r][s] = "publishing" /\ left[r][s] = {} /\ win[r][s] = None
  /\ Moved(r, s, "committing", "committed")
  /\ com' = [com EXCEPT ![r][s] = "done"]
  /\ Reported(r, s, TRUE)
  /\ UNCHANGED <<commitRest, faults, tree, dropped, left, win>>

-----------------------------------------------------------------------------
(* The server: one call at a time *)

serverRest == <<tree, userVars, pc, out, intr, link, planVars, saved, dirty, comVars>>

\* The call returns; the answer reaches a client that is still connected.
Reply(r, ok) ==
  /\ req' = [req EXCEPT ![r] = "none"]
  /\ rep' = [rep EXCEPT ![r] = IF link[r] THEN (IF ok THEN "ok" ELSE "err") ELSE "none"]
Succeeds(r) == Reply(r, TRUE) /\ UNCHANGED faults
Refuses(r, reason) == Reply(r, FALSE) /\ Failure(reason)

ServerBegin(r) ==
  /\ req[r] = "begin"
  /\ \/ /\ srv[r] \in {"up", "aborted"} /\ Created(r, Remote, "preparing")
        /\ srv' = [srv EXCEPT ![r] = "preparing"] /\ Succeeds(r)
     \/ /\ Created(r, Remote, "malformed") \/ UNCHANGED marker
        /\ Refuses(r, ~Clear(Remote)) /\ UNCHANGED srv
  /\ UNCHANGED <<serverRest, snap>>

ServerFinish(r) ==
  /\ req[r] = "finish"
  /\ \/ /\ srv[r] = "preparing" /\ Moved(r, Remote, "preparing", "prepared")
        /\ srv' = [srv EXCEPT ![r] = "prepared"] /\ Succeeds(r)
     \/ Refuses(r, ~Owns(r, Remote, {"preparing"})) /\ UNCHANGED <<marker, srv>>
  /\ UNCHANGED <<serverRest, snap>>

\* save_staged_state_pending: mark first, save second; both are idempotent.
ServerMarkSave(r) ==
  /\ req[r] = "save" /\ srv[r] = "committed" /\ Moved(r, Remote, "committed", "state-save")
  /\ srv' = [srv EXCEPT ![r] = "saving"]
  /\ UNCHANGED <<serverRest, snap, faults, req, rep>>

ServerSave(r) ==
  /\ req[r] = "save" /\ srv[r] = "saving"
  /\ snap' = [snap EXCEPT ![Remote] = Merged(r, Remote, DoneBySave(r))]
  /\ srv' = [srv EXCEPT ![r] = "saved"] /\ Succeeds(r)
  /\ UNCHANGED <<serverRest, marker>>

ServerSaveFails(r) ==
  /\ req[r] = "save" /\ Refuses(r, ~Owns(r, Remote, {"committed", "state-save"}))
  /\ UNCHANGED <<serverRest, snap, marker, srv>>

ServerComplete(r) ==
  /\ req[r] = "complete"
  /\ \/ /\ srv[r] = "saved" /\ Owns(r, Remote, {"state-save"})
        /\ marker' = [marker EXCEPT ![Remote] = None]
        /\ srv' = [srv EXCEPT ![r] = "up"] /\ Succeeds(r)
     \/ Refuses(r, ~Owns(r, Remote, {"state-save"})) /\ UNCHANGED <<marker, srv>>
  /\ UNCHANGED <<serverRest, snap>>

\* abort_staged_apply: a failed removal leaves the attempt abortable.
ServerAbort(r) ==
  /\ req[r] = "abort" /\ srv[r] \in {"preparing", "prepared"}
  /\ \/ /\ Owns(r, Remote, Precommit)
        /\ marker' = [marker EXCEPT ![Remote] = None]
        /\ srv' = [srv EXCEPT ![r] = "aborted"] /\ Succeeds(r)
     \/ /\ srv' = [srv EXCEPT ![r] = "preparing"]
        /\ Refuses(r, ~Owns(r, Remote, Precommit)) /\ UNCHANGED marker
  /\ UNCHANGED <<serverRest, snap>>

\* The server of a gone client has answered its last call: it exits.
ServerExit(r) ==
  /\ pc[r] = "over" /\ srv[r] # "off" /\ req[r] = "none"
  /\ srv' = [srv EXCEPT ![r] = "off"]
  /\ Forget(r)
  /\ UNCHANGED <<diskVars, histVars, pc, out, intr, link, saved, dirty, req, rep>>

-----------------------------------------------------------------------------
(* Faults, interrupts and recovery *)

\* The first Ctrl-C; InterruptState says what the latch does with it.  A
\* second one ends the process like ClientDies.
Interrupt(r) ==
  /\ Alive(r) /\ ~intr[r] /\ Fault
  /\ intr' = [intr EXCEPT ![r] = TRUE]
  /\ UNCHANGED <<diskVars, userVars, pc, out, link, planVars, saved, dirty, callVars, comVars>>

ClientDies(r) ==
  /\ Alive(r) /\ Fault
  /\ Leave(r, "error")
  /\ UNCHANGED <<diskVars, userVars>>

ServerDies(r) ==
  /\ srv[r] # "off" /\ Fault
  /\ srv' = [srv EXCEPT ![r] = "off"]
  /\ req' = [req EXCEPT ![r] = "none"]
  /\ rep' = [rep EXCEPT ![r] = "none"]
  /\ link' = [link EXCEPT ![r] = FALSE]
  /\ IF pc[r] = "over"
       THEN Forget(r)
       ELSE /\ com' = [com EXCEPT ![r][Remote] = IF @ = "publishing" THEN "failed" ELSE @]
            /\ left' = [left EXCEPT ![r][Remote] = {}]
            /\ win' = [win EXCEPT ![r][Remote] = None]
            /\ UNCHANGED planVars
  /\ UNCHANGED <<diskVars, userVars, pc, out, intr, saved, dirty>>

\* The connection breaks; the answer of a call in progress is lost.
Disconnect(r) ==
  /\ Alive(r) /\ link[r] /\ Fault
  /\ link' = [link EXCEPT ![r] = FALSE]
  /\ rep' = [rep EXCEPT ![r] = "none"]
  /\ UNCHANGED <<diskVars, userVars, pc, out, intr, planVars, saved, dirty, srv, req, comVars>>

\* duet recover --clear: private staging and marker of an attempt before
\* commit go, at any time, whether its run is alive or not.  A commit-or-later
\* marker goes too: the user has looked, so no run is alive.
Recover(s) ==
  /\ marker[s] # None
  /\ \/ marker[s].phase \in Precommit /\ UNCHANGED forced
     \/ /\ AllowForcedClear /\ marker[s].phase \notin Precommit \cup {"malformed"}
        /\ \A r \in Runs : ~Alive(r) /\ srv[r] = "off"
        /\ forced' = TRUE
  /\ marker' = [marker EXCEPT ![s] = None]
  /\ UNCHANGED <<tree, snap, fresh, replaced, dropped, raced, edits, faults, pc, out, intr,
                 link, planVars, saved, dirty, callVars, comVars>>

-----------------------------------------------------------------------------
Client(r) ==
  \/ ServerScan(r) \/ Plan(r) \/ UserAborts(r) \/ GiveUp(r)
  \/ \E s \in Side : LoadOld(r, s)
  \/ \E s \in Side, p \in Paths : ScanPath(r, s, p)
  \/ BeginWave(r) \/ RemoteBegun(r) \/ BeginLocal(r) \/ Stream(r) \/ FinishLocal(r)
  \/ RemoteFinished(r) \/ (\E s \in Side : ValidateSide(r, s)) \/ Fence(r) \/ CommitsJoined(r) \/ MarkSave(r)
  \/ SaveLocal(r) \/ SavesJoined(r) \/ RemoteCompleted(r) \/ FinishMarker(r)
  \/ AbortLocal(r) \/ Aborted(r)

Commit(r, s) ==
  \/ CommitStart(r, s) \/ PublishRename(r, s) \/ PublishFails(r, s) \/ CommitEnd(r, s)
  \/ \E p \in Paths : PublishAdded(r, s, p) \/ PublishCheck(r, s, p)

ServerStep(r) ==
  \/ ServerBegin(r) \/ ServerFinish(r) \/ ServerMarkSave(r) \/ ServerSave(r)
  \/ ServerSaveFails(r) \/ ServerComplete(r) \/ ServerAbort(r) \/ ServerExit(r)

Environment ==
  \/ \E s \in Side : Recover(s)
  \/ \E s \in Side, p \in Paths : Write(s, p) \/ Delete(s, p)
  \/ \E r \in Runs : Start(r) \/ Interrupt(r) \/ ClientDies(r) \/ ServerDies(r) \/ Disconnect(r)

Next == Environment \/ \E r \in Runs :
          Client(r) \/ ServerStep(r) \/ \E s \in Side : Commit(r, s)

Spec == Init /\ [][Next]_vars

\* The calls of the client and of the server return; nothing makes a user edit
\* or a process die.
Fairness ==
  \A r \in Runs : WF_vars(Client(r) \/ ServerStep(r) \/ \E s \in Side : Commit(r, s))

-----------------------------------------------------------------------------
(* Properties *)

Written(p) == 1..fresh[p]
GivenUp(p) == replaced[Local][p] \cup replaced[Remote][p] \cup dropped[p] \cup raced[p]

\* No version a user wrote is lost: it is on one of the two trees unless a user
\* overwrote or deleted it, a resolved conflict gave it up, or it was written
\* in the documented window between the final check of a path and its rename.
NoLostUpdate ==
  \A p \in Paths : Written(p) \subseteq {tree[Local][p], tree[Remote][p]} \cup GivenUp(p)

\* No step but a user's brings back to a tree a version its user has replaced
\* or deleted there, failed and interrupted runs included.
NoResurrection ==
  [][edits' = edits /\ ~forced =>
       \A s \in Side, p \in Paths : tree'[s][p] # tree[s][p] => tree'[s][p] \notin replaced[s][p]
    ]_vars

NoMarker == \A s \in Side : marker[s] = None

\* When no recovery marker blocks the next run, the two snapshots agree and
\* whatever the trees share is recorded: a wave half applied or half saved is
\* always behind a marker, wherever the run was stopped.
AgreedBaseline ==
  NoMarker /\ ~forced =>
    /\ snap[Local] = snap[Remote]
    /\ \A p \in Paths : tree[Local][p] = tree[Remote][p] /\ tree[Local][p] # Absent
                         => snap[Local][p] = tree[Local][p]

\* The unreachable! arms of resolve_action are not reached.
ResolutionTotal == ~forced => \A r \in Runs : pc[r] # "panic"

\* A side is published to only by the run whose marker on it says committing:
\* never two runs at once, never without the marker a crash would leave.
PublishUnderMarker ==
  \A r \in Runs, s \in Side : com[r][s] = "publishing" => Owns(r, s, {"committing"})

\* A run that reports success, or a clean interrupt, has left no marker.
OkLeavesNoMarker ==
  \A r \in Runs, s \in Side :
    out[r] \in {"success", "interrupted"} /\ marker[s] # None => marker[s].run # r

\* When a run returns success, the trees hold the same at every path nobody
\* touched during the run, unless the user left its conflict unresolved.
SuccessConverges ==
  [][\A r \in Runs : out[r] = "none" /\ out'[r] = "success" /\ ~forced =>
       \A p \in Paths \ dirty[r] :
         act[r][p] = "conflict" \/ tree[Local][p] = tree[Remote][p]]_vars

\* A run that was started comes to its end.
RunEnds == \A r \in Runs : Alive(r) ~> ~Alive(r)

=============================================================================
