# A TLA+ model of duet

`duet sync` synchronizes two directory trees: the local one, and one behind a
server process that the client starts itself, usually over SSH.  Each side keeps
a *snapshot* (what both trees held after the last sync) and, while a sync is
being applied, a *recovery marker* that blocks the next run until somebody has
looked.  This directory holds TLA+ modules of that program, TLC instances that
check them, and theorems that the TLA+ proof system checks.  Line numbers are of
the sources in `src/`.

## The system

| component | state | operations | what makes it correct |
|---|---|---|---|
| interrupt latch (`orchestrator.rs` 51-194, 2001-2039) | an atomic phase, the process group of the server | `request_interrupt` by the Ctrl-C handler; `is_cancel_requested`, `try_begin_commit`, `try_reset_after_checkpoint`, `complete` by the sync task | what the user is told stays true; nothing is committed after "stopping safely"; the second Ctrl-C always ends the process |
| client (`orchestrator.rs` 269-1426, 2331-2741) | actions, the wave, staged outputs | check marker, scan both sides, plan, resolve, then per wave: begin, stream, finish, validate, fence, commit, save, complete | no update of a user is lost or undone; a half-done wave is behind a marker; success means the trees agree |
| server (`rpc.rs`) | `StagedApplyState`, actions, streams, base and state paths | one RPC at a time: scan, set actions, signatures, streams, staged apply, state saves, recovery | every call is refused outside its state; a call in progress is finished even when the client is gone |
| recovery markers (`sync.rs` 1540-2836, 3331-3642) | a marker file with two phase slots, a private staging directory | create exclusively, move to the next phase, quarantine, remove, clear | never two attempts at once; a marker survives until both snapshots are saved |
| staged apply and commit (`sync.rs` 9264-10424) | outputs, manifest, action index, receipts | apply frames, finish, validate, commit, abort | what is published is what was planned; the saved manifest is what is on disk |
| durability (`sync.rs` 3723-4172) | directories changed and not yet synced | prepare, arm, finish | a committed marker means the commit survives a power loss |
| wave planner and staging monitor (`sync.rs` 143-607) | budgets, waves; free space and credit | plan, observe, refuse | waves fit the budgets and keep dependent actions together |
| detail streams (`sync.rs` 5755-6040, 9264-9910, `rustsync.rs`) | producer position, open file, ids | next frames, apply frame, finish | frames rebuild each file of the plan exactly once, or nothing |
| snapshots and scan (`state.rs`, `scan/`) | snapshot file, hash workers | load, scan, hash, save | a snapshot is replaced atomically; the pool reports the first error and leaves no worker behind |
| legacy strategies (`orchestrator.rs` 1206-1402, `sync.rs` 10605-11062) | a marker of version 1, batches of outputs | preflight, set actions, apply in two passes or stream and commit, mark, save, clear | without a marker nothing is half done; the marker tells what was done |
| changes, actions, resolution (`scan/change.rs`, `actions.rs`, `resolution.rs`) | lists of changes, the prompt | diff, merge, reverse, resolve | both sides get the same plan, mirrored; nothing is proceeded with unresolved |

The client and the server talk by synchronous RPCs over the pipes of the server
process; both sides of one wave are prepared, validated and committed in pairs
that the client joins.  Two runs of the same profile share only the disk: no
lock covers the time between the check for a marker and its creation.  The hard
behaviours are the interleavings of users, runs and the Ctrl-C handler, deaths
and broken connections between any two steps, one half of a pair failing, and
snapshots that are older than the trees they are compared with.  `PROJECT.json`
lists each hazard at its line, with the properties that watch it.

## Reading the modules

| module | models | builds on |
|---|---|---|
| `InterruptState` | the interrupt latch: the Ctrl-C thread against the sync task | |
| `InterruptStateProofs` | five theorems about it | `InterruptState` |
| `StagedSync` | whole runs of `duet sync` with the staged strategy: users, clients, servers, snapshots, markers | |
| `StagedSyncProofs` | nine theorems: who may do what when (markers, servers, types), then trees and snapshots (nothing lost, nothing brought back, one baseline, success means equal) | `StagedSync` |
| `RecoveryMarker` | one side's recovery marker, system call by system call, with kills and power losses | |
| `RecoveryMarkerProofs` | four theorems about it | `RecoveryMarker` |
| `ScanTree` | the directory tree of one side and the users that change it | |
| `Scanner` | the scan: scheduler, directory coroutines, bounded channel, collector, rules | `ScanTree` |
| `HashPool` | the pool of hash workers and its error protocol | `ScanTree` |
| `SideScan` | `old_and_changes`: scan, compare with the snapshot, hash | `Scanner`, `HashPool` |
| `SideScanProofs` | four theorems about the scan and the pool | `SideScan`, `DataInduction` |
| `AtomicCheckpoint` | what a commit promises, without how | |
| `CommitEngine` | preflight and the commit of one side, system call by system call; implements `AtomicCheckpoint` | `AtomicCheckpoint` |
| `CommitEngineProofs` | the refinement, and six theorems about the passes, the manifest, strangers' files, the ledger, modes and preflight | `CommitEngine` |
| `WavePlan` | strategy, budgets and waves, as operators | |
| `Delta` | signatures, deltas and staged outputs, as operators | |
| `DetailStream` | the staged preparation of a run: space, producers, batches, appliers | `WavePlan`, `Delta` |
| `DataInduction` | lemmas: induction over numbers, recursive functions, sums over finite sets | |
| `StagingProofs` | a theorem about deltas, and the lemmas about waves, frames and outputs | `WavePlan`, `Delta`, `DataInduction` |
| `DetailStreamProofs` | five theorems about the strategy, the plan, the outputs, the reserve and aborts | `DetailStream`, `StagingProofs` |
| `LegacySync` | whole runs with peers that cannot stage | |
| `MC*` | the sets and symmetries of the TLC instances | |

A definition introduced as a *mutant of* another is a plausible slip in the code.
It is no part of the model; `PROJECT.json` pairs it with the property that
notices it when it takes the place of the original.

### InterruptState

Every atomic load and every `compare_exchange` of `InterruptState`
(`orchestrator.rs` 51-181) is a step of its own, of the handler thread
(`HandlerLoad`, `HandlerCas`, `HandlerRetry`, `HandlerKillServer`, `HandlerExit`) or of the
sync task (`TryBeginCommit`, `Checkpoint`, `TryReset`, `ResetLoad`, `CompleteLoad`,
`CompleteCas`).  The work between is a step that may succeed, fail or be refused
by the poll.  `PollStops`, `PromptInterrupt` and `AsInterrupted` are the three
places where an answered interrupt turns into the outcome of the run.  What a
wave does to the disk is left to `StagedSync`; the two meet at the fence
(`StagedSync!Fence` and `TryBeginCommit`) and at `intr`, the answered interrupt.

### StagedSync

State: per side the tree, the snapshot and the marker; per run the place of the
client, what it has read, its plan and wave, the server with `StagedApplyState`,
the call in flight and its answer, and per run and side the progress of
`PreparedApply::commit`.  A path holds a version number, fresh for every write of
a user, so that "this update was lost" can be said.  History variables hold what
users overwrote (`replaced`), what a conflict gave up (`dropped`) and what was
written in the window between the last check of a path and its rename (`raced`).

The client's actions follow `sync()` from the marker check to the removal of the
markers; where the code joins two futures (scans, validations, commits, saves)
the two are separate steps in any order.  The server takes one call at a time; an
error, a lost connection or a dead client leaves it in the state the code leaves
it in.  `Expected`, `ActionFor`, `Resolutions` and `Merged` are `Action::create`,
`resolve_action` and `merge_staged_manifest` path by path.  `Fault` bounds
everything that happens for no reason inside the model.

### RecoveryMarker

State: which inode is under the marker path and which are in quarantine, the
contents of each inode and its contents at the last `fsync`, the directory
entries a power loss may bring back (`mayBe`), the staging directory, and where
each attempt and each clear is.  `Check` to `SyncNew` create the marker, `MakeStage` to
`Seal` record the staging, `VerifyPhase`, `WriteSlot`, `SyncSlot` and `ConfirmPhase` are
one phase transition, `Publish` and `Save` the work between transitions, and the
`Q` actions the quarantine that abort, finish and `recover --clear` share.
`StagedSync` takes each of these sequences as one step and leaves out the two
ways in which they are not atomic that the findings below describe.

### ScanTree, Scanner, HashPool, SideScan

A tree of paths that name inodes; users write, create, unlink and rename between
any two steps.  The scanner's coroutines wait at `read_dir` (`OpenDir`), at each
`symlink_metadata` (`ChildGone`, `ChildFound`) and at the channel (`Send`); `DirDone` is
`run_scan_scheduler` taking in a directory and starting others; `Collect` and
`Drained` are `collect_scan`, which polls the scanner and the channel in one task.
`Narrow` and `FindParent` are the two span functions over the sorted locations,
and `Expected` states independently which paths the rules and the scope ask for.
The pool hands positions to threads in order (`Admit`), takes results in in any
order (`TakeIn`), and decides with `Outcome` and `Kept` when an error may be
returned.  A thread opens the path (`Open`, `openat`), compares what it has opened with the
entry (`CheckSource`, `fstat`), reads in two pieces and compares the identity of the
file at the end; it looks for a cancellation before every read.  Size, seconds
of mtime and mode are one *stamp*, which a write may leave as it was; the change
time is taken to be finer than the time between two writes.

### CommitEngine and AtomicCheckpoint

State: a tree whose entries are old, new, raw (made, without metadata yet) or a
user's; the marker; the changes the pass has yet to make (`ahead`), the place in
the calls of the present one (`step`, `sub`), the directories or entries a call has
yet to go through (`left`); the token and the guard in use; the ledger (`dirty`);
the results.  `PreflightFits`, `TargetsFit` and the other operators ending in `Fit`
are the checks before the fence.  `ForwardOps` and `SecondOps` are the calls that
the two passes make for one change, in their order; the passes take the changes
in the order of `Order`, of which only is asked that a directory comes before what
is in it (`OrderAssumption`).  Each call is an action: `CheckTarget`
looks at the entry, `PrepareParent` opens the parent and arms the ledger,
`OpenParent` and `CloseParent` make a read-only parent writable and back, then
`Unlink`, `PublishNew`, `PublishOver`, `Symlink`, `MakeDir`, `RemoveDir` and the metadata
actions follow, each refusing what the system call or the identity check refuses.
`CheckBlocker` to `Sweep` prune what is in the way of a removal.  `Merge`,
`FinishStaging`, `SyncOne` and `EndCommit` are the end.  Users may act between any
two calls: between the check of a target and the rename that replaces it, too.

`AtomicCheckpoint` says the same in four actions: `Fence`, `Advance` of an entry,
`Settle`, and `Outside` for entries somebody else touches.  `CommitIsCheckpoint`
maps the marker to its phase and each entry to how far it is (`StageOf`); a
guard that is open is looked through (`Restored`).

### WavePlan, Delta and DetailStream

`WavePlan` has `plan_staging_waves`, its groups and budgets, `select_apply_strategy`
and `can_use_staging_plan`.  `Delta` has `signature`, `compare_stream` and the
application of a delta: files are short sequences of letters, windows two letters
long, a checksum is the window itself.  In `DetailStream` the client asks the server's
producer and its own in turn (`Fetch*`, `Deliver`), a diff is made by a thread behind
a channel (`ThreadStarts`, `ThreadSends`), frames open, write and end outputs
(`BeginOutput`, `WriteOutput`, `EndOutput`), outputs are sealed in batches, and each
write is charged to the monitor (`Check`, `Look`, `Recheck`), which counts blocks of a
filesystem that others use as well.  What is staged meets what `CommitEngine`
publishes at `FenceFits`.

### LegacySync

Every strategy begins with the preflight of both sides, `Accepts`: the client's own
(`orchestrator.rs` 556), the server's in `set_actions`; the server repeats it in the call
that starts its marker, and where outputs are streamed each side does once more
before it commits, together with the comparison of every target (`validate`).  It refuses
every plan that makes a directory something else (`NoDirReplaced`, `sync.rs` 1090).  What
the legacy strategies have for these plans (the contents that `Modified` puts aside
for the second pass, `sync.rs` 10876-10882, 10964-11000) is therefore never reached and not
modelled, although PLAN.md 131-135 says they are the plans these strategies are kept
for; nor is the other reason for the bulk strategy, `can_stream_details`.

A side's work is a sequence of operations (`todo`), made by `ForwardOf` and `SecondOf`
from its actions: the first pass over all of them in order, the second over
directories in reverse.  Each operation is an action that may fail, refused by
`Fits` or broken by `Break`.  `Note` operations append to the marker, before or after
the change they are about as the code has it.  Outputs wait in `pending` until
`NoRoom`, `IsFull` or an action that cannot be overtaken flushes them.  `Rounds` is what
the client goes through: in the bulk strategy (`BulkRounds`) it applies its own
changes while the server is in `apply_detailed_changes`; in the stream strategy
(`StreamRounds`) both stage as frames arrive, and the server commits after the client.
`Saving` has the two ways to end: a peer with coordinated cleanup keeps its marker
until told, an older one removes it with its save.

## What the runs check

All runs explore every state within their bounds; nothing is sampled.

**`interrupt_latch`** (`MCInterruptState.cfg`): up to three waves and three Ctrl-C.
Two signals are needed for a forced exit, a third to find the handler after it;
three waves give a first, a middle and a last checkpoint.  The answers stay true
(`CancelIsReported`, `NoFenceAfterAnswer`, `AnswerTellsTheTruth`), the second signal
ends the process although the sync task may stand still for ever
(`SecondInterruptEndsRun`), the unreachable arm stays so (`CheckpointPhaseValid`), and
a run whose task is scheduled ends (`RunEnds`).

**`staged_runs`** (`MCStagedSync.cfg`): two runs one after the other, one path, two
edits, a fault, markers cleared by hand.  One path is enough for what is said
path by path; the second run is what meets the leavings of the first: its marker,
its half-saved snapshots, its server that still commits.  No update is lost
(`NoLostUpdate`) or undone (`NoResurrection`).  After a marker in its commit was
cleared by hand (`forced`) the baselines may differ for good, which the
documentation says; `NoResurrection` then promises nothing, `NoLostUpdate` still does.

**`staged_waves`** (`MCStagedWaves.cfg`): one run, two paths in one wave or two, two
edits, a fault, under fairness.  Two paths are needed for a wave that follows a
checkpoint, and for a commit that fails half way.  Whatever is half done is
behind a marker (`AgreedBaseline`), every run ends (`RunEnds`), success converges
(`SuccessConverges`), and success or a clean interrupt leaves no marker
(`OkLeavesNoMarker`).  No symmetry is used here, for liveness is checked; instead,
`WavesSpec` takes of the initial states those where one named path exists.

**`staged_concurrent`** (`MCStagedConcurrent.cfg`): two clients alive at once.  No lock
covers check and creation, so both may pass the check; still nothing is lost and
only the owner of the marker publishes.  There are no failures in this run; that kills
and lost connections change nothing about it is what `PublishesUnderMarker` proves.

**`staged_stale`** (`MCStagedStale.cfg`) finds `ResolutionTotal` violated: see below.

**`marker_files`** (`MCMarker.cfg`): two modes, chosen at the start.  By hand: one
attempt, two clears at any moment of it, two actions one of which has contents,
two kills.  By power: two attempts and two kills or power losses, and no clear.
A tree changed and not recorded is behind a marker that cannot be read as one
before its commit (`GuardedCommit`), and until the first clear begins also on the
disk a power loss leaves (`CommitDurable`); so two attempts never both leave the
tree half changed, for only one inode is at the path; a marker removed before its
commit takes its private outputs with it (`RemovedMeansClean`).  Excepted are
attempts whose marker a user's clear took away in its commit (`cleared`) or another
process moved (`strayed`): the documentation warns of the first, the findings are
about the second.  Power losses are not combined with clears: a restore that has
renamed the marker back and not yet synced the directory is a known window in
which the guard is not on the disk.  Two attempts are enough because a third
would have to meet the same path.
**`marker_staged`** finds a property violated: see below.

**`scan_and_hash`** (`MCSideScan.cfg`): 1945 situations.  In 1944 nobody touches the
tree and all 486 sets of rules on a root and five paths, three levels deep, meet
four scopes (everything, an ignored name, a restriction, an exclusion); in one,
users make up to two changes while three files are scanned, and two, or three if
the users touch the one that is known, hashed.  Two
directories are read and two files hashed at a time, the channel holds one
entry, so queue, channel and pool are all full at times; one read may fail.  The
scan is complete or fails (`ScanComplete`), the error is the first
(`FirstErrorReported`), no result is missing (`AllOrError`), a digest is of one file
at one moment (`DigestOfOneFile`), and the task ends with no worker left
(`SideScanEnds`).  The moment is one at which the file was at its path, or, if users took
it from there, at the path they took it to: a file that is moved away after `openat`
and written before `fstat`, with size, second of mtime and mode kept, passes the
comparison, and the change time it has by then is what the end is compared with.
So its old path gets the digest of content that was never there.  The property
excepts no more than that (`HeldAt`); the next scan finds the path gone.

**`commit_tree`** (`MCCommitEngine.cfg`): a directory with a file, a directory in it and
an ignored entry that may hold an excluded one.  Every change of each that the
program plans is combined with those of the others, where both trees are trees;
pruning is allowed where it matters.  One edit of a user and one failing call at
any moment: a second edit could only meet a commit that the first has left as it
was, or ended.  What a user puts where the plan expects nothing survives
(`NothingNewLost`), a committed marker means no power loss undoes a change
(`CommittedIsDurable`), a preflight that passes is enough (`PreflightSuffices`), the
merge never fails (`ManifestComplete`), a mode changed for the moment is put back
or the marker tells (`ReadonlyKept`), and the whole is an atomic checkpoint
(`CommitIsCheckpoint`).  **`commit_preflight`** (`MCCommitPreflight.cfg`), the same plans
with nobody about, finds a property violated: see below.

**`wave_stream`** (`MCDetailStream.cfg`): jobs of five families.  Every pair of files of
up to four letters, copied and cloned: two windows, a short last one, and
neighbouring copies.  Three actions in both directions with one or two changes by
others, batches of three frames and three bytes, a channel of one.  Every free
space from none to enough.  A clone of eight blocks.  And plans only: for the waves
of every kind of action under one directory and beside it, and for the strategy
under every set of capabilities and controls.  Waves are sound and no cut has fewer
(`PlanSound`); controls are enforced (`ControlsEnforced`); outputs are byte for byte
what the plan says (`OutputsExact`); the reserve is kept, but for what others take
and one block for each write at the edge of a shared block (`ReserveKept`); and an
undisturbed run fails only for want of space (`NoSpuriousAbort`).

**`legacy_sync`** (`MCLegacySync.cfg`): 27 plans over five paths and four kinds of
server, with two failures, edits, kills or lost connections.  In 20 of the plans
a file, a link, a directory and what is in it are made, changed, replaced and
removed, with unresolved conflicts, identical changes and untouched entries,
and batches of two files or two bytes, so that each reason to flush occurs.  The
other seven are refused, one for each reason: a directory becomes a file, the parent
of a new entry is still a file (finding 3 hits these strategies too) or is a link to
one, cannot be written or has been made unwritable by the other side, goes although
something new is in it.  With no marker on either side both
are as they were or both are done and saved (`MarkersCoverTheRun`): two failures are
what it takes to kill the client between two removals and lose the connection
before.  The lines of a marker lag behind the tree by at most one change
(`JournalFollowsWork`).  With no failure a plan that both preflights accept is carried out,
and any other leaves both sides as they were (`UndisturbedSucceeds`), with one
exception, `LinkHeld`: in the bulk strategy a link in a directory that cannot be
written, to be replaced by a file, passes the preflight and then fails half way, behind
its marker, because `fs::remove_file` (`sync.rs` 10849) has no guard.

`TypeOK` is an invariant of the runs of `InterruptState`, `StagedSync` and `CommitEngine`;
the other modules state theirs for the reader.

### Fairness

`HandlerFairSpec` makes only the handler thread run: the property that matters
there is the one that must hold when the sync task hangs.  `RunEnds` of the latch
adds `WF_vars(Main)` as its premise.  `StagedSync!Fairness` is one weak fairness for each run, over the client, its
server and the commits together: something of a run goes on as long as something
of it can.  That the calls the client awaits return follows, since the client
can do nothing else meanwhile; all are loops over finite work with no wait for
anything else, and a broken connection ends the wait of the client.  Users,
faults and new runs have no fairness.  `SideScan!FairSpec` says that the runtime polls a task that can go on
and runs its blocking threads; users need not act.  All are weak: no step needs
to be taken because it was possible again and again.

## What is proved

TLAPS checks these for every value of the constants, by an inductive invariant
each.  The assumptions are the named ones on the constants, and hypotheses of a
theorem where it states them.

**`InterruptStateProofs`**: `TypeCorrect`, `SecondForces`, `CheckpointPhase`, `CancelReported`
and `NoFence`, for any number of waves and signals.  The properties are not
inductive: they speak of answers and outcomes, and what excludes a bad step is
where the task may be in which phase.  The invariant adds that table
(`PhaseAtMain`), the count of waves (`WaveCount`), that an answer has been given
exactly in the interrupted phases (`AnswersAndPhase`), and what the handler may
hold from its load (`SeenAtCas`).

**`StagedSyncProofs`**: for any paths, runs, edits and faults, concurrent or not,
and markers cleared by hand.
- `PublishesUnderMarker` and `OnePublisher`.  A marker is only taken away by its owner
  or by a clear that finds a phase before the commit or no run alive; so the
  invariant needs who is in a call (`CallInFlight`) and that only the client in its
  commit or the server in the commit call publishes (`PublisherRuns`).
- `TypeCorrect`.  That what is published is a version, and not an entry nobody
  read, is no matter of types alone: it needs that both snapshots and both trees
  are read before a plan is made or the server called (`ReadFirst`).
- `CleanEnding`.  That a run reports success or a clean interrupt says nothing of
  markers by itself; the invariant says at every place of the client, and in every
  state of its server, whether a marker of the run can be on a side (`OwnMarkers`),
  and that needs where the server's state machine and the client's commits can be
  at each place (`WaveOrder`).

In the same module, `NothingLost`, for the same.  `NoLostUpdate` speaks of two trees;
what can destroy a version is a run that believes something about them.  The
invariant is about belief: whatever a snapshot or a run takes to be on a side is
there or given up (`held`), and where a run saw a change, what was there before is
given up (`Knowledge`); an action takes an entry over because it changed at its
source and only there (`PlanOf`); every path a commit is done with holds its new
entry (`ProgressOf`), so a snapshot may be saved from it; and between the check of
a path and its rename only a user writes there (`WindowOf`).  One step lemma,
`Grows`, carries them all: a tree changes only to what leaves the old entry given
up for good.

`BaselineAgrees`, `NothingResurrected`, `EveryConflictResolves` and `SuccessMeansEqual` hold
for any paths, runs, edits and faults where no two clients are
alive at once (`~AllowConcurrent`); the run `staged_stale` shows that the third fails
without that.  A
client that died may leave its server in its last call, to the end of it, so runs
one at a time still overlap: `Serial` says who is then alive, with a marker of whose
in which phase.  The rest of the invariant (`Alone`) says where the data is:
- `Phases`: from the first save of a snapshot to the last, the local marker of the
  run says so, with its client alive or not;
- `Base`: which of the two merged snapshots, of this wave or the last, each side
  holds at each place of client and server;
- `NotBack`: an entry a live run has seen replaced on a side is not there again, and
  `News`: what it will publish is new to the side it goes to;
- `Shares`: what the two trees share is what the run took over, or what it loaded.

All but the first hold only until a marker is cleared by hand after a commit has
begun (`~forced`), as the properties do.  `NextTurns` says once of every step what it may
change, whose and when; the lemmas after it look at that and not at the actions.
`SuccessMeansEqual` adds that a side holds what a live run saw there, or what it took
over, wherever nobody edited since (`Untouched`), and that a plan leaves out no
change (`AllPlanned`).

**`RecoveryMarkerProofs`**: `TypeCorrect`; `AlwaysGuarded`, for any number of attempts,
clears, kills and actions, where there are power losses or clears but not both;
`GuardSurvivesPower` for any number of attempts, kills and power losses until a
clear begins; `RemovedClean`, for everything together.  The first is not inductive
since a marker is away from its path while somebody holds it: the invariant says
in whose hand a quarantined marker is, in one at most (`Custody`), that only
attempts that have not begun their commit or have ended it quarantine
(`QuarantineLate`), and that the slots an attempt relies on are in the file and on
the disk (`SlotsApplied`).  For `RemovedClean` it adds that the recorded stage is the one
made (`StagingRecorded`), that what a process read of a marker in its hand is still
true of it, although its owner may be writing (`GripTrue`), and who may have
removed what (`RemovedForGood`).

**`SideScanProofs`**: `FirstError`, `AllHashedOrError`, `OneFile` and `CompleteScan`, for any
tree, rules, limits, failures and edits.  That an error may be returned as soon as no earlier position is
running rests on the order in which positions are handed out: none that waits
is below one that was handed out (`InOrder`), and below the cutoff a position
waits, runs or is hashed, and no worker gives up (`Cutoff`).  A consequence:
once there is an error nothing waits any more, so `pending.retain` always
empties the queue.  `OneFile` follows each reading from the lookup of its path to its
digest (`Readings`): what it has taken in is what the opened file still holds as long
as that file has the change time the reading began with, for every edit moves the
change time of what it changes past all those a reader has seen.  Between `openat` and
`fstat` there is no change time to hold on to; there the file is still at the path, or
users have moved it, and what it is by now it has been where it went (`Followed`).

`CompleteScan` rests on what the scan still owes (`Owed`): a path that is asked for, and
to which no edit got in the way, has been reported, is in the channel, or lies in a
directory that waits, or below a child that is in a listing or among the directories
found (`Covered`).  So nothing may be dropped that leads there, which is where the spans
come in: the locations are in path order, the paths below a directory lie next to each
other in it (`Between`), so the span a directory hands down holds every location that can
matter below it (`Wide`) and narrowing leaves exactly those (`Narrowed`); then a child has
the rule of its nearest location (`ChildRule`), and a directory on the way to something
included is never skipped (`WantedLeads`).  And as many directories are started as the
limit allows, so when none is being read none waits (`DoneKeeps`, `Phase`).

**`CommitEngineProofs`**, for any tree, plan, edits and faults:
- `TypeCorrect`, with the shape of the passes (`Control`): which changes are still
  ahead, that the next is the first of them in the order of the pass, and that
  directories come before what is in them (`InTurn`).
- `NewFilesStay`: an operation destroys only what the check of its turn has seen,
  or what policy lets it prune.
- `Manifest`: an entry has its result if and only if its turn is over (`ResultsInv`),
  for either pass, since each kind of change has one operation that makes it.
- `CommittedDurable`: the parent of every entry not yet synced is in the ledger,
  under whatever identity (`LedgerCovers`), for a record leaves the ledger only by
  the sync that settles it; and nothing happens after the marker says committed
  (`CommittedAtEnd`).

In the same module, `Implements`, that the commit is an `AtomicCheckpoint`, and
`ModesReturn`.  Behind both is what each entry that nobody else touched looks like
at every point of the two passes (`TreeInv`): as before, as the calls made so far
of its own turn leave it (`Midway`), as the first pass leaves it (`Forwarded`), or as
planned.  That is seen through an open guard, which belongs to the present turn or
to a process that died (`GuardInv`); and parents made on the way are on the list of
the call that makes them or made (`ParentsInv`).  The refinement then takes the
steps one by one: each turns one entry to a later stage, or shows nothing of it,
or is somebody else's.

`PreflightEnough`: a commit whose preflight passed and with which
nobody interferes does not fail, but for a symlink made again with its old target in a
directory that is not writable, as the property says.  The property has no memory of the preflight, so
the invariant (`FitInv`) keeps what each call will ask for: the plan stays as
preflight has read it (`BeforeInv`); an entry left out of the plan is as it was, put
aside or swept (`StrayInv`); ledger, guard and token name directories that are there,
under their identity (`LedgerTrue`, `GuardTrue`, `Armed`); the second pass takes
directories before those above them (`UpFirst`); and what an operation still has to
make or remove is on its list (`ListTrue`).  `TreeInv` gives the rest: the parent of
each turn is as planned, writable, or opened by the guard (`ParentReady`).  It needs
that no plan changes what is ignored or pruned (`IgnoredAssumption`).  That holds of
every plan the program makes: `Profile::scan_ignore` (`profile.rs` 25) joins both lists
of patterns, both scans get them (`orchestrator.rs` 324), and a scan passes over what
matches without entering it (`scan/mod.rs` 613).

**`DetailStreamProofs`**: `ControlsAlwaysEnforced`, for any actions, budgets and peers.  The
property is inductive: only `Planning` chooses a strategy, by what
`select_apply_strategy` and `can_use_staging_plan` guarantee
(`StrategyKeepsControls`), and no later failure falls back to another one.

In the same module, for any jobs, sizes of window, literal, block, batch and channel,
and any edits and space taken by others:
- `PlanAlwaysSound`.  Only `Planning` makes a plan, so this is about
  `plan_staging_waves`, and most of it is in `StagingProofs`: groups and waves are
  intervals of the actions, given by their bounds (`Edges`, `Bounded`); the loop keeps
  that a wave fits or is one group, and does not fit with the group that follows it
  (`Laid`); so any other cut that is allowed has a bound inside every wave, or one of its
  pieces would hold the wave and the next group (`LaidCrossed`).  That sums over sets of
  actions grow with the set `DataInduction` proves of the community modules' `SumFunction`.
- `OutputsAlwaysExact` and `ReserveAlwaysKept`, from one invariant, `DetailInv`.  An open
  output holds what its verifier has seen, as far as it is made, and a clone may hold
  more beyond; no frame needs to be right for that, only to have the form of one
  (`Stream`), for it is the comparison of what was seen with the plan that ends an
  output (`OpenSound`, `MadeSound`).  A side has an output for every action it has passed
  (`MadeSound`), and passes no action without one, so at the fence none is missing.  For the reserve,
  a credit is never more than what lies above it (`Covered`): each write uses up of the
  credit at least the blocks it takes, but for one where it begins inside a shared
  block, which `eaten` counts.
- `NoAbortWithoutCause`: a run that nobody disturbs fails only for want of space.  Its
  invariant, `Undisturbed`, says in three parts why each check passes.  The files are
  what the comparison saw, and those of a wave that is still to come are not changed
  by a commit, because waves are disjoint (`Intact`, `PlanFits`).  Producer and applier
  keep step (`InStep`): the frames in the batch, in the producer's hand, in the channel and in
  the thread's queue take the applier from where it stands through the output
  the producer is at (`Leads`, `Carries`, `Follows`), so the next frame is the right one; for a
  diff that is `DeltaIsExact`, with the positions of its frames (`DiffCarries`).  And what
  is staged is all that was taken since the wave was checked, with no block beyond the
  bytes of an output (`Counted`, `Light`), so where the wave fits as `Needs` counts, every look
  at the disk finds room: for an output of any length and for a copy that is
  announced with up to a window more than it has (`CanLook`, `CanWrite`, `CanHold`).
  Then each action that fails is impossible (`SignSucceeds` to `FenceSucceeds`), and the
  check of a wave fails only for space (`CheckNeedsSpace`).
- `DeltaIsExact`, in `StagingProofs`, of the pure algorithm: what `compare_stream` and
  `stream_diff_frames` make of one file and the signature of another, applied to the
  other, gives the one.  Where a block is found the signature says where it lies
  (`SignatureLocated`); the rest is induction over the places of the window.

The recursions of `WavePlan` and `Delta` are recursive functions on numbers.  A least
counterexample replaces the induction rule, which takes an operator as its
parameter, and the library's theorem on recursion gives the functions their
equations (`DataInduction`).

Only model-checked is everything else listed above:
- liveness under fairness (`RunEnds`, `SecondInterruptEndsRun`, `SideScanEnds`) is out of
  the prover's reach;
- the three properties of `LegacySync` are about rounds that are made of the
  operations of all actions.  They are not out of reach of the way the others are
  proved; they need the lemmas.

## Findings

1. `staged_stale`: two concurrent runs of a profile.  The second loads the local
   snapshot before, and the remote one after, the first has saved both; with an
   edit in between the changes of a path are (added, modified), for which
   `resolve_action` has `unreachable!()` (`resolution.rs` 33 and 50).
2. `marker_staged`: `recover --clear` on a live attempt removes its staged outputs
   before it re-reads the marker (`sync.rs` 2809); if the attempt moves to its next
   phase meanwhile and verifies after the restore, it commits without outputs.
   README.md 246-249 and ARCHITECTURE.md 531 say that cannot happen.  The commit then
   fails at the first missing output, behind its marker.
3. `commit_preflight`: a file on one side that became a directory with something in
   it on the other is planned as one wave (test `sync.rs` 11921), and preflight
   refuses the plan, because the parent of the new entries is still a file
   (`sync.rs` 1462).

Two more are seen in `legacy_sync`, whose properties except or include them: plans that
make a directory something else never reach the strategy PLAN.md 131-135 says they
have, and a link in an unwritable directory is not replaced in bulk (`LinkHeld`).

Not counted as a finding, since the marker of another attempt has to be there
already: the abort of one attempt takes whatever marker is at the path off it and
compares the attempt id afterwards (`sync.rs` 1944); killed in between it leaves that
marker in quarantine, and nothing blocks the next sync, which README.md 229
promises.  `GuardedCommit` excepts the attempts this has happened to (`strayed`).

## Not modelled, and the plan

The order below is by what a failure would cost.

1. **Composition** of `CommitEngine` with `StagedSync`: that the commit of the latter
   implements `AtomicCheckpoint` too, path by path, would close the chain.
2. **Resolution prompt** and structural dependencies between paths (`resolution.rs`,
   `orchestrator.rs` 3160-3216): a directory replaced by a file, removals below
   additions, and conflicts that keep their descendants.
3. **Receipts** (`sync.rs` 10288-10308): that what was validated before the fence is
   what is committed after it without hashing it again.
4. **Power losses** in the legacy strategies, and markers of version 2, which only
   older programs write.

Left out for good: argument parsing, profiles and path arithmetic, progress and
performance reports, the encoding of RPCs and snapshots, SSH and process groups.
They keep no state that these properties depend on, or are other programs.
Within `CommitEngine`, special files and ACLs are left out, and the metadata of a
published file is taken to be durable with it; within `DetailStream`, checksum
collisions, the probe for clones and cancelling (which is in `StagedSync`); within
`LegacySync`, pruning and parents made on the way, which are in `CommitEngine`, and
links to directories.
Within the scan, renamed directories, hard links, reused inodes, symbolic links, special files, file system boundaries and the
hashing of a whole manifest on a migration (the same pool over all files) are
left out; within `StagedSync`, structural dependencies between paths, scopes and
migrations.
