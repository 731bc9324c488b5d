----------------------------- MODULE DetailStream -----------------------------
(***************************************************************************)
(* The staged preparation of a run, wave by wave: the client takes a batch  *)
(* of frames from the server and applies it, then sends one of its own,     *)
(* until both producers are empty; each side turns the frames into staged   *)
(* outputs while it watches the free space of its filesystem; both finish   *)
(* their preparation, look at the space once more, and commit.              *)
(*                                                                         *)
(* Job is the whole question: the actions with the contents they go from    *)
(* and to, the space and the controls, and how much others disturb it.      *)
(* Cancelling, markers and the commit are in StagedSync, RecoveryMarker and *)
(* CommitEngine.                                                            *)
(***************************************************************************)
EXTENDS Delta, WavePlan

CONSTANTS
  Jobs,         \* [acts, free, reserve, limit, cow, inodes, caps, configured,
                \*  migration, dry, noise]
  Bytes,        \* what a byte can be
  Strange,      \* what a user may write into a file
  BatchFrames,  \* SyncTuning: most frames of a batch
  BatchBytes,   \* and most payload bytes, but for a single frame
  Credit,       \* STAGING_CAPACITY_WINDOW_BYTES
  Channel,      \* capacity of the channel of a diff thread
  SealFiles,    \* OutputBatchConfig: outputs synced together
  SealBytes

Gone == <<"gone">>

(* What comes from a comparison of the two sides (a name is a number): an    *)
(* output is made of a file, of the size that the change says, and a diff   *)
(* starts from a file.                                                      *)
IsFile(f) == f = Gone \/ f \in Seq(Bytes)
IsAction(a) ==
  /\ a.path \in Seq(Nat) /\ IsFile(a.old) /\ IsFile(a.new) /\ a.side \in Sides \cup {"both"}
  /\ a.out \in {"none", "file", "diff"} /\ a.dir \in BOOLEAN
  /\ a.flip \in {"none", "seen", "applied"}
  /\ a.out # "none" => a.new # Gone /\ a.size = Len(a.new)
  /\ a.out = "diff" => a.old # Gone
  /\ a.out = "none" => a.size = 0
IsJob(j) ==
  /\ Len(j.acts) \in Nat /\ DOMAIN j.acts = 1..Len(j.acts)
  /\ \A i \in 1..Len(j.acts) : IsAction(j.acts[i])
  /\ j.free \in [Sides -> Nat] /\ j.reserve \in Nat /\ j.limit \in Int /\ j.noise \in Nat
ASSUME JobsAssumption ==
  /\ <<"gone">> \notin Seq(Bytes) /\ \A f \in Strange : IsFile(f)
  /\ \A j \in Jobs : IsJob(j)
  /\ Credit \in Nat

VARIABLES
  job,      \* never changed
  at,       \* where the client is, then how the run ended
  wave,     \* number of the wave, from 1
  plan,     \* the waves
  files,    \* files[s][i]: the file of action i on side s
  free,     \* free blocks of each filesystem
  sigs,     \* signatures of the files that diffs start from
  turn,     \* the side whose producer is asked
  prod,     \* DetailProducer and its diff thread, one for each side
  empty,    \* sides whose producer has said it is empty
  batch,    \* frames fetched and not applied
  upto,     \* DetailApplier.action_index of each side
  open,     \* ApplyState: the output in progress, and its action
  made,     \* prepared outputs of the wave: action to output
  pending,  \* actions of the output batch that is not sealed
  mon,      \* StagingSpaceMonitorState
  used,     \* disturbances so far
  room,     \* history: free blocks when the wave was checked
  eaten     \* history: blocks taken since the last look at the disk, by
            \* others and by the edges of writes into a clone

vars == <<job, at, wave, plan, files, free, sigs, turn, prod, empty, batch, upto, open,
          made, pending, mon, used, room, eaten>>

Other(s) == IF s = "local" THEN "remote" ELSE "local"
acts == job.acts
Blocks(n) == (n + Block - 1) \div Block
Round(n) == Block * Blocks(n)
Budgets == [s \in Sides |-> Budget(Block * free[s], job.reserve, job.limit, job.cow[s])]
Above(s) == Budgets[s].usable
Wave == plan[wave]
Todo(s) == Outputs(acts, Wave.acts, s)
Idle == [next |-> 1, act |-> 0, kind |-> "none", pos |-> 0, left |-> 0,
         thread |-> "none", queue |-> <<>>, chan |-> <<>>, held |-> <<>>]
NoOutput == [act |-> 0, out |-> Fresh]
None == [i \in {} |-> Fresh]
NoCredit == [known |-> FALSE, credit |-> 0]
EachSide(x) == [s \in Sides |-> x]

Init ==
  /\ job \in Jobs
  /\ at = "plan" /\ wave = 0 /\ plan = <<>>
  /\ files = [s \in Sides |-> [i \in 1..Len(job.acts) |->
       IF s = job.acts[i].side THEN job.acts[i].old ELSE job.acts[i].new]]
  /\ free = job.free
  /\ sigs = <<>> /\ turn = "remote" /\ prod = EachSide(Idle) /\ empty = {} /\ batch = <<>>
  /\ upto = EachSide(1) /\ open = EachSide(NoOutput) /\ made = EachSide(None)
  /\ pending = EachSide({}) /\ mon = EachSide(NoCredit)
  /\ used = 0 /\ room = job.free /\ eaten = EachSide(0)

runVars == <<job, wave, plan, files, used, room>>
streamVars == <<sigs, turn, prod, empty, batch>>
applyVars == <<upto, open, made, pending>>
spaceVars == <<free, mon, eaten>>

(* An error, or the end: what is staged is removed.                         *)
OwnedBlocks(s) ==
  Cardinality(open[s].out.owned)
    + SumFunction([i \in DOMAIN made[s] |-> Cardinality(made[s][i].owned)])
Stop(end) ==
  /\ at' = end
  /\ free' = [s \in Sides |-> free[s] + OwnedBlocks(s)]
  /\ open' = EachSide(NoOutput) /\ made' = EachSide(None) /\ pending' = EachSide({})
  /\ batch' = <<>>
  /\ UNCHANGED <<runVars, sigs, turn, prod, empty, upto, mon, eaten>>

-----------------------------------------------------------------------------
(* StagingSpaceMonitor: credit for what may be written before the next look *)
(* at the disk.                                                             *)

Cost(n) == IF Round(n) > Block THEN Round(n) ELSE Block
Larger(a, b) == IF a > b THEN a ELSE b

(* Mutant: a look grants a window that the disk may not have.               *)
LookWhole(s, n) ==
  [ok |-> Round(n) + Block <= Above(s), looked |-> TRUE,
   credit |-> Larger(Credit, Cost(n)) - Cost(n)]
Look(s, n) ==
  [ok |-> Round(n) + Block <= Above(s), looked |-> TRUE,
   credit |-> Minus(Smaller(Minus(Above(s), Block), Larger(Credit, Cost(n))), Cost(n))]

(* check; recheck is a Look for nothing *)
Check(s, m, n) ==
  IF m.known /\ Cost(n) <= m.credit
  THEN [ok |-> TRUE, looked |-> FALSE, credit |-> m.credit - Cost(n)]
  ELSE Look(s, n)
Recheck(s) == Look(s, 0)

Paid(s, c) == mon' = [mon EXCEPT ![s] = [known |-> TRUE, credit |-> c.credit]]
Eaten(s, c, extra) == eaten' = [eaten EXCEPT ![s] = (IF c.looked THEN 0 ELSE @) + extra]

-----------------------------------------------------------------------------
(* Planning, and the start of a wave. *)

Planning ==
  /\ at = "plan"
  /\ LET how == Strategy(acts, Budgets, job.caps, job.configured, job.migration, job.inodes) IN
     /\ at' = IF how # "staged" THEN how ELSE IF job.dry THEN "dry" ELSE "wave"
     /\ plan' = IF how = "staged" THEN Waves(acts, Budgets) ELSE <<>>
  /\ wave' = 1
  /\ UNCHANGED <<job, files, used, room, streamVars, applyVars, spaceVars>>

(* validate_wave_capacity of the wave, with the disks as they are now       *)
CheckWave ==
  /\ at = "wave" /\ wave <= Len(plan)
  /\ WaveFits(acts, Wave, Budgets, job.inodes, job.caps)
  /\ at' = "sign" /\ room' = free
  /\ UNCHANGED <<job, wave, plan, files, used, streamVars, applyVars, spaceVars>>
CheckWaveFails ==
  /\ at = "wave" /\ wave <= Len(plan)
  /\ ~WaveFits(acts, Wave, Budgets, job.inodes, job.caps)
  /\ at' = "failed" /\ room' = free
  /\ UNCHANGED <<job, wave, plan, files, used, streamVars, applyVars, spaceVars>>
WavesDone ==
  /\ at = "wave" /\ wave > Len(plan)
  /\ at' = "done"
  /\ UNCHANGED <<runVars, streamVars, applyVars, spaceVars>>

(* get_signatures on both sides, begin_detail_stream, begin_staged_apply    *)
Diffs == {i \in Wave.acts : acts[i].side \in Sides /\ acts[i].out = "diff"}
Sign ==
  /\ at = "sign"
  /\ \A i \in Diffs : files[acts[i].side][i] # Gone
  /\ sigs' = [i \in Diffs |-> Signature(files[acts[i].side][i])]
  /\ at' = "fetch" /\ turn' = "remote" /\ prod' = EachSide(Idle) /\ empty' = {}
  /\ upto' = EachSide(1) /\ mon' = EachSide(NoCredit)
  /\ UNCHANGED <<runVars, batch, open, made, pending, free, eaten>>
SignFails ==
  /\ at = "sign"
  /\ \E i \in Diffs : files[acts[i].side][i] = Gone
  /\ Stop("failed")

-----------------------------------------------------------------------------
(* DetailProducer::next_frames on the side whose turn it is, frame by frame. *)

Frame(i, op) == [act |-> i, op |-> op, offset |-> 0, len |-> 0, bytes |-> <<>>]
Framed(i, f) == [act |-> i, op |-> f.op, offset |-> f.offset, len |-> f.len, bytes |-> f.bytes]
Payload(fs) == FoldLeft(LAMBDA n, f : n + Len(f.bytes), 0, fs)

(* A frame that does not fit the batch waits for the next one.              *)
Deliver(f, p) ==
  LET fits == batch = <<>> \/ Payload(batch) + Len(f.bytes) <= BatchBytes IN
  /\ prod' = [prod EXCEPT ![turn] = IF fits THEN p ELSE [p EXCEPT !.held = <<f>>]]
  /\ batch' = IF fits THEN Append(batch, f) ELSE batch
  /\ at' = IF fits /\ Len(batch') < BatchFrames THEN "fetch" ELSE "apply"
  /\ UNCHANGED <<runVars, sigs, turn, empty, applyVars, spaceVars>>

Fetching == at = "fetch" /\ turn \notin empty
P == prod[turn]

FetchHeld ==
  /\ Fetching /\ P.held # <<>>
  /\ Deliver(Head(P.held), [P EXCEPT !.held = <<>>])

(* ProducerState::File: at most as many bytes as the file had when opened   *)
FetchBytes ==
  /\ Fetching /\ P.held = <<>> /\ P.kind = "file"
  /\ LET b == Slice(files[turn][P.act], P.pos, Smaller(Chunk, P.left)) IN
     IF b = <<>>
     THEN Deliver(Frame(P.act, "FileEnd"), [P EXCEPT !.kind = "none"])
     ELSE Deliver([Frame(P.act, "FileBytes") EXCEPT !.bytes = b],
                  [P EXCEPT !.pos = @ + Len(b), !.left = @ - Len(b)])

(* ProducerState::Diff: wait for the thread                                 *)
FetchDiff ==
  /\ Fetching /\ P.held = <<>> /\ P.kind = "diff" /\ P.chan # <<>>
  /\ LET f == Head(P.chan) IN
     Deliver(f, [P EXCEPT !.chan = Tail(@),
                          !.kind = IF f.op = "DiffEnd" THEN "none" ELSE @,
                          !.thread = IF f.op = "DiffEnd" THEN "none" ELSE @])

Ahead == {i \in Todo(Other(turn)) : i >= P.next}
Following == CHOOSE i \in Ahead : \A j \in Ahead : i <= j
FetchNext ==
  /\ Fetching /\ P.held = <<>> /\ P.kind = "none" /\ Ahead # {}
  /\ LET i == Following
         started == [P EXCEPT !.next = i + 1, !.act = i, !.kind = acts[i].out] IN
     IF acts[i].out = "diff"
     THEN Deliver(Frame(i, "DiffBegin"), [started EXCEPT !.thread = "start"])
     ELSE /\ files[turn][i] # Gone
          /\ Deliver(Frame(i, "FileBegin"),
                     [started EXCEPT !.pos = 0, !.left = Len(files[turn][i])])

(* Nothing is left; an empty batch says so.                                 *)
FetchEnd ==
  /\ Fetching /\ P.held = <<>> /\ P.kind = "none" /\ Ahead = {}
  /\ IF batch # <<>>
     THEN at' = "apply" /\ UNCHANGED <<turn, empty>>
     ELSE /\ empty' = empty \cup {turn}
          /\ turn' = IF Other(turn) \in empty THEN turn ELSE Other(turn)
          /\ at' = IF Other(turn) \in empty THEN "finish" ELSE "fetch"
  /\ UNCHANGED <<runVars, sigs, prod, batch, applyVars, spaceVars>>

FetchFails ==
  /\ Fetching /\ P.held = <<>>
  /\ \/ P.kind = "diff" /\ P.chan = <<>> /\ P.thread = "dead"
     \/ P.kind = "none" /\ Ahead # {} /\ acts[Following].out = "file"
        /\ files[turn][Following] = Gone
  /\ Stop("failed")

(* The thread of stream_diff_frames: it opens the file when it gets to run, *)
(* and sends its frames through a channel that holds a few.                 *)
ThreadStarts(s) ==
  /\ at \in {"fetch", "apply"} /\ prod[s].thread = "start"
  /\ LET i == prod[s].act
         fs == Frames(sigs[i], files[s][i]) IN
     prod' = [prod EXCEPT
       ![s].thread = IF files[s][i] = Gone THEN "dead" ELSE "run",
       ![s].queue = IF files[s][i] = Gone THEN <<>>
                    ELSE [n \in DOMAIN fs |-> Framed(i, fs[n])] \o <<Frame(i, "DiffEnd")>>]
  /\ UNCHANGED <<runVars, at, sigs, turn, empty, batch, applyVars, spaceVars>>
ThreadSends(s) ==
  /\ at \in {"fetch", "apply"} /\ prod[s].thread = "run"
  /\ prod[s].queue # <<>> /\ Len(prod[s].chan) < Channel
  /\ prod' = [prod EXCEPT ![s].chan = Append(@, Head(prod[s].queue)), ![s].queue = Tail(@)]
  /\ UNCHANGED <<runVars, at, sigs, turn, empty, batch, applyVars, spaceVars>>

-----------------------------------------------------------------------------
(* DetailApplier::apply_frame on the other side, for the next frame.        *)

T == Other(turn)
F == Head(batch)
Applying == at = "apply" /\ batch # <<>>

(* After the last frame of the batch it is the other producer's turn.       *)
Applied ==
  /\ batch' = Tail(batch)
  /\ at' = IF batch' = <<>> THEN "fetch" ELSE "apply"
  /\ turn' = IF batch' = <<>> /\ T \notin empty THEN T ELSE turn
  /\ UNCHANGED <<runVars, sigs, prod, empty>>

PendingBytes(s) == SumFunction([i \in pending[s] |-> Len(made[s][i].data)])
Looked(s, c) == [known |-> TRUE, credit |-> c.credit]

(* flush_before_output, then the allowance for a new output                 *)
FlushFirst(s, n) ==
  pending[s] # {} /\ (Cardinality(pending[s]) >= SealFiles \/ PendingBytes(s) + n > SealBytes)
BeginCheck(s, n) ==
  LET c == Check(s, IF FlushFirst(s, n) THEN Looked(s, Recheck(s)) ELSE mon[s], 0) IN
  [c EXCEPT !.ok = @ /\ (FlushFirst(s, n) => Recheck(s).ok),
            !.looked = @ \/ FlushFirst(s, n)]

Skipped(s, i) == {j \in Todo(s) : upto[s] <= j /\ j < i}
Begins == F.op \in {"FileBegin", "DiffBegin"}
BeginFits ==
  /\ open[T].act = 0 /\ F.act \in Todo(T) /\ F.act >= upto[T] /\ Skipped(T, F.act) = {}
  /\ F.op = (IF acts[F.act].out = "diff" THEN "DiffBegin" ELSE "FileBegin")
  /\ F.op = "DiffBegin" => files[T][F.act] = acts[F.act].old
  /\ BeginCheck(T, acts[F.act].size).ok

(* begin_file_detail, begin_diff_detail: a clone where the disk can make one *)
BeginOutput ==
  /\ Applying /\ Begins /\ BeginFits
  /\ LET c == BeginCheck(T, acts[F.act].size) IN Paid(T, c) /\ Eaten(T, c, 0)
  /\ pending' = [pending EXCEPT ![T] = IF FlushFirst(T, acts[F.act].size) THEN {} ELSE @]
  /\ upto' = [upto EXCEPT ![T] = F.act]
  /\ open' = [open EXCEPT ![T] =
       [act |-> F.act,
        out |-> IF F.op = "DiffBegin" /\ job.cow[T] THEN CloneOf(files[T][F.act]) ELSE Fresh]]
  /\ Applied
  /\ UNCHANGED <<free, made>>

(* FileBytes, DiffBytes, DiffCopy: checked unless a clone has it in place   *)
Moves == F.op \in {"FileBytes", "bytes", "copy"}
Size(f) == IF f.op = "copy" THEN f.len ELSE Len(f.bytes)
Expects == IF acts[F.act].out = "diff" THEN {"bytes", "copy"} ELSE {"FileBytes"}
WriteCheck ==
  IF InPlace(open[T].out, F)
  THEN [ok |-> TRUE, looked |-> FALSE, credit |-> mon[T].credit]
  ELSE Check(T, mon[T], Size(F))
Written == Apply(open[T].out, F, files[T][F.act])
NewBlocks == Cardinality(Written.owned) - Cardinality(open[T].out.owned)
WriteFits ==
  /\ open[T].act = F.act /\ F.op \in Expects
  /\ F.op = "copy" => files[T][F.act] # Gone
  /\ WriteCheck.ok /\ NewBlocks <= free[T]
WriteOutput ==
  /\ Applying /\ Moves /\ WriteFits
  /\ Paid(T, WriteCheck)
  /\ Eaten(T, WriteCheck, IF open[T].out.clone /\ NewBlocks > Blocks(Size(F)) THEN 1 ELSE 0)
  /\ free' = [free EXCEPT ![T] = @ - NewBlocks]
  /\ open' = [open EXCEPT ![T].out = Written]
  /\ Applied
  /\ UNCHANGED <<upto, made, pending>>

(* Mutant: the end of a diff leaves the file as long as the clone was.      *)
FinishedUncut(o, op) == o
(* DiffEnd sets the length of the file                                      *)
Finished(o, op) == IF op = "DiffEnd" THEN Truncate(o) ELSE o

(* finish_file_detail: the verifier, then the output batch, sealed if full  *)
Ends == F.op \in {"FileEnd", "DiffEnd"}
Full == LET n == Cardinality(pending[T]) + 1
            bytes == PendingBytes(T) + Len(open[T].out.seen)
        IN n >= SealFiles \/ bytes >= SealBytes
EndFits ==
  /\ open[T].act = F.act
  /\ F.op = (IF acts[F.act].out = "diff" THEN "DiffEnd" ELSE "FileEnd")
  /\ open[T].out.seen = acts[F.act].new
  /\ Full => Recheck(T).ok
EndOutput ==
  /\ Applying /\ Ends /\ EndFits
  /\ made' = [made EXCEPT ![T] = [i \in DOMAIN made[T] \cup {F.act} |->
       IF i = F.act THEN Finished(open[T].out, F.op) ELSE made[T][i]]]
  /\ pending' = [pending EXCEPT ![T] = IF Full THEN {} ELSE @ \cup {F.act}]
  /\ open' = [open EXCEPT ![T] = NoOutput]
  /\ upto' = [upto EXCEPT ![T] = F.act + 1]
  /\ IF Full THEN Paid(T, Recheck(T)) /\ Eaten(T, Recheck(T), 0) ELSE UNCHANGED <<mon, eaten>>
  /\ Applied
  /\ UNCHANGED free

ApplyFails ==
  /\ Applying
  /\ \/ Begins /\ ~BeginFits
     \/ Moves /\ ~WriteFits
     \/ Ends /\ ~EndFits
  /\ Stop("failed")

-----------------------------------------------------------------------------
(* finish_preparation, here and then there, and the commit of the wave.     *)

FinishFits(s) ==
  /\ open[s].act = 0 /\ \A i \in Todo(s) : i < upto[s]
  /\ Recheck(s).ok
FinishPreparation(s) ==
  /\ at = IF s = "local" THEN "finish" ELSE "finish remote"
  /\ FinishFits(s)
  /\ Paid(s, Recheck(s)) /\ Eaten(s, Recheck(s), 0)
  /\ pending' = [pending EXCEPT ![s] = {}]
  /\ at' = IF s = "local" THEN "finish remote" ELSE "fence"
  /\ UNCHANGED <<runVars, streamVars, upto, open, made, free>>
FinishFails(s) ==
  /\ at = IF s = "local" THEN "finish" ELSE "finish remote"
  /\ ~FinishFits(s)
  /\ Stop("failed")

(* A block that a clone shares with the file it replaces stays in use.      *)
Freed(s) ==
  SumFunction([i \in {j \in Wave.acts : acts[j].side = s} |->
      IF files[s][i] = Gone THEN 0
      ELSE IF i \in DOMAIN made[s] /\ made[s][i].clone
      THEN Cardinality({b \in Touched(0, Len(files[s][i])) :
                          b \in made[s][i].owned \/ b \notin Touched(0, Len(made[s][i].data))})
      ELSE Blocks(Len(files[s][i]))])
FenceFits(s) ==
  /\ Recheck(s).ok
  /\ \A i \in Wave.acts : acts[i].side = s => files[s][i] = acts[i].old
CommitWave ==
  /\ at = "fence"
  /\ \A s \in Sides : FenceFits(s)
  /\ files' = [s \in Sides |-> [i \in DOMAIN files[s] |->
       IF i \in DOMAIN made[s] THEN made[s][i].data
       ELSE IF i \in Wave.acts /\ acts[i].side = s THEN acts[i].new ELSE files[s][i]]]
  /\ free' = [s \in Sides |-> free[s] + Freed(s)]
  /\ eaten' = EachSide(0)
  /\ made' = EachSide(None)
  /\ at' = "wave" /\ wave' = wave + 1
  /\ UNCHANGED <<job, plan, used, room, streamVars, upto, open, pending, mon>>
FenceFails ==
  /\ at = "fence"
  /\ \E s \in Sides : ~FenceFits(s)
  /\ Stop("failed")

-----------------------------------------------------------------------------
(* Users write files, and others take space.                                *)

Ended == at \in {"done", "failed", "legacy", "refused", "dry"}
Disturb == used < job.noise /\ ~Ended /\ at # "plan" /\ used' = used + 1
Edit(s, i) ==
  /\ Disturb
  /\ \E c \in Strange : files[s][i] # c /\ files' = [files EXCEPT ![s][i] = c]
  /\ UNCHANGED <<job, at, wave, plan, room, streamVars, applyVars, spaceVars>>
Take(s) ==
  /\ Disturb /\ free[s] > 0
  /\ free' = [free EXCEPT ![s] = @ - 1]
  /\ eaten' = [eaten EXCEPT ![s] = @ + 1]
  /\ UNCHANGED <<job, at, wave, plan, files, room, streamVars, applyVars, mon>>

Fetch == FetchHeld \/ FetchBytes \/ FetchDiff \/ FetchNext \/ FetchEnd \/ FetchFails
ApplyFrame == BeginOutput \/ WriteOutput \/ EndOutput \/ ApplyFails
Next ==
  \/ Planning \/ CheckWave \/ CheckWaveFails \/ WavesDone \/ Sign \/ SignFails
  \/ Fetch \/ ApplyFrame \/ CommitWave \/ FenceFails
  \/ \E s \in Sides : ThreadStarts(s) \/ ThreadSends(s) \/ FinishPreparation(s) \/ FinishFails(s)
                      \/ Take(s) \/ \E i \in 1..Len(acts) : Edit(s, i)
  \/ Ended /\ UNCHANGED vars

Spec == Init /\ [][Next]_vars

-----------------------------------------------------------------------------
(* Properties *)

TypeOK ==
  /\ wave \in 0..(Len(plan) + 1) /\ used \in 0..job.noise
  /\ at \in {"done", "failed", "legacy", "refused", "dry", "plan", "wave",
            "sign", "fetch", "apply", "finish", "finish remote", "fence"}
  /\ turn \in Sides /\ empty \subseteq Sides /\ Len(batch) <= BatchFrames
  /\ \A s \in Sides :
       /\ free[s] \in Nat /\ room[s] \in Nat /\ eaten[s] \in Nat /\ mon[s].credit \in Nat
       /\ Len(prod[s].chan) <= Channel /\ Len(prod[s].held) <= 1
       /\ pending[s] \subseteq DOMAIN made[s] /\ Cardinality(pending[s]) <= SealFiles
       /\ DOMAIN made[s] \subseteq 1..Len(acts) /\ upto[s] \in 1..(Len(acts) + 1)
       /\ DOMAIN files[s] = 1..Len(acts)

(* plan_staging_waves: the waves are the actions in order, cut only between *)
(* dependency groups; a wave is within both budgets as they were, or it is   *)
(* one group with one output too large for a budget, and beyond the usable   *)
(* space only where that output is a diff and the disk can clone; and no    *)
(* cut with these properties has fewer waves.                               *)
Cuts == LET g == Groups(acts) IN
  {c \in SUBSET (0..Len(g)) : {0, Len(g)} \subseteq c}
GroupsBetween(a, b) == UNION {Groups(acts)[n] : n \in (a + 1)..b}
Within(G, B) == \A s \in Sides : BytesIn(acts, G, s) <= B[s].budget
Allowed(c, B) ==
  \A a, b \in c : a < b /\ (\A x \in c : ~(a < x /\ x < b)) =>
    \/ Within(GroupsBetween(a, b), B)
    \/ b = a + 1 /\ \A s \in Sides : GroupFits(acts, GroupsBetween(a, b), s, B[s])
PlanSound ==
  at \in {"wave", "dry"} /\ wave = 1 /\ used = 0 =>
    /\ UNION {plan[n].acts : n \in DOMAIN plan} = 1..Len(acts)
    /\ \A m, n \in DOMAIN plan : m < n => \A i \in plan[m].acts, j \in plan[n].acts : i < j
    /\ \A n \in DOMAIN plan :
         /\ \A k \in 1..Len(Groups(acts)) :
              Groups(acts)[k] \cap plan[n].acts \in {{}, Groups(acts)[k]}
         /\ \A s \in Sides : LET outs == Outputs(acts, plan[n].acts, s) IN
              BytesIn(acts, plan[n].acts, s) > Budgets[s].budget =>
                /\ Cardinality(outs) = 1 /\ plan[n].over[s]
                /\ BytesIn(acts, plan[n].acts, s) > Above(s) =>
                     plan[n].cow[s] /\ job.cow[s] /\ \A i \in outs : acts[i].out = "diff"
    /\ \A c \in Cuts : Allowed(c, Budgets) => Len(plan) + 1 <= Cardinality(c)

(* A configured limit or reserve is enforced or the run is refused, never   *)
(* handed to a strategy that ignores it; and a run of several waves has a   *)
(* peer that can save each of them, and no migration, whose state cannot    *)
(* hold the results of some waves only.                                     *)
ControlsEnforced ==
  /\ job.configured => at # "legacy"
  /\ Len(plan) > 1 => "checkpoints" \in job.caps /\ ~job.migration

(* What is staged is what the plan says, byte for byte, whatever users do   *)
(* to the files it is made from and to, whatever a clone had in it before;  *)
(* and at the fence nothing is missing.                                     *)
OutputsExact ==
  \A s \in Sides :
    /\ \A i \in DOMAIN made[s] : made[s][i].data = acts[i].new
    /\ at = "fence" => DOMAIN made[s] = Todo(s)

(* README.md:196: staging never consumes the reserve.  Beyond it goes only  *)
(* what others have taken since the last look at the disk, and one block    *)
(* for each write whose edges fall inside blocks that a clone shares.       *)
ReserveKept ==
  \A s \in Sides :
    OwnedBlocks(s) > 0 => Block * (free[s] + eaten[s]) >= job.reserve

(* A run that nobody disturbs fails only for want of space: some side of    *)
(* its wave has outputs that do not fit with one block of allowance, the    *)
(* rounding up of a last copy and one block for the file at hand.  In       *)
(* particular frames and outputs always agree.                              *)
Needs(w, s) ==
  Block + (IF Outputs(acts, w.acts, s) = {} THEN 0 ELSE Block + Round(Window))
    + SumFunction([i \in Outputs(acts, w.acts, s) |-> Round(acts[i].size)])
NoSpuriousAbort ==
  at = "failed" /\ used = 0 =>
    \E s \in Sides : Needs(Wave, s) > Minus(Block * room[s], job.reserve)
=============================================================================
