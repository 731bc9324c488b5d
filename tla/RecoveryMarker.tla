--------------------------- MODULE RecoveryMarker ---------------------------
(***************************************************************************)
(* The recovery marker of one side as the files it is made of (sync.rs):   *)
(* the marker under its path or in quarantine, its inventory and its five  *)
(* phase slots, what of them survives a power loss, and the private        *)
(* staging directory it lists.                                             *)
(*                                                                         *)
(* An attempt creates the marker, records its staging in it, moves it      *)
(* slot by slot from preparing to finished, and removes it.  It holds no   *)
(* lock: a `recover --clear`, or the abort of another attempt, may take    *)
(* the marker off its path between any two of its system calls, look at    *)
(* it, and put it back.  Processes are killed and the machine loses power  *)
(* at any point.  Nothing but the existence of the path stops the next     *)
(* sync.                                                                   *)
(*                                                                         *)
(* An inode is named by the attempt that created it.  Definitions          *)
(* introduced as mutants are plausible slips, no part of the model.        *)
(***************************************************************************)
EXTENDS Integers, FiniteSets

CONSTANTS
  Attempts,        \* staged applies on this side
  Clears,          \* invocations of recover --clear
  Items,           \* the actions of every attempt
  Detailed,        \* those with file contents to stage
  None,
  MaxFaults,       \* bound: processes killed, power losses
  PowerMayFail     \* may the machine lose power?

Actors == Attempts \cup Clears
ASSUME ItemsAssumption == Detailed \subseteq Items
ASSUME ActorsAssumption == Attempts \cap Clears = {} /\ None \notin Actors
ASSUME FaultAssumption == MaxFaults \in Nat /\ PowerMayFail \in BOOLEAN

VARIABLES
  (* the marker directory *)
  at,         \* the inode under the marker path, or None
  quarantine, \* inodes under a quarantine name
  mayBe,      \* what a power loss may leave under the marker path
  content,    \* [Attempts -> contents of the inode]
  durable,    \* [Attempts -> contents of the inode at its last sync]
  (* the staging directory of each attempt *)
  stage,      \* none, made or gone
  files,      \* outputs in it
  (* the process of each attempt *)
  pc,
  passed,     \* phase slots it knows to be applied
  outs,       \* outputs it has created
  handle,     \* inode its commit records are appended to
  published,  \* actions done to the tree
  saved,      \* has the snapshot been saved?
  (* each process that takes a marker off its path *)
  qpc,
  grip,       \* what it has of the marker: see Grip
  (* history *)
  cleared,    \* attempts whose marker a user's clear took away commit-or-later
  strayed,    \* ... whose marker another attempt renamed, or a restore replaced
  faults

dirVars == <<at, quarantine, mayBe>>
inodeVars == <<content, durable>>
stageVars == <<stage, files>>
attemptVars == <<pc, passed, outs, handle, published, saved>>
actorVars == <<qpc, grip>>
histVars == <<cleared, strayed, faults>>
vars == <<dirVars, inodeVars, stageVars, attemptVars, actorVars, histVars>>

\* Slots applied: the phase of the marker
Preparing == 0
Prepared == 1
Committing == 2
Committed == 3
StateSave == 4
Finished == 5

Contents == [slots : Preparing..Finished, torn : BOOLEAN, cut : BOOLEAN,
             staged : BOOLEAN, entries : SUBSET Detailed, records : SUBSET Items]
Empty == [slots |-> Preparing, torn |-> FALSE, cut |-> TRUE,
          staged |-> FALSE, entries |-> {}, records |-> {}]

\* parse_staged_apply_attempt: a torn slot or an incomplete line fails.
Parses(c) == ~c.cut /\ ~c.torn
\* A slot keeps the length of the file, every appended line changes it.
Size(c) == <<c.cut, c.staged, c.entries, c.records>>

\* The inode opened, the inode renamed, the length when opened, the contents read
NoGrip == [held |-> None, moved |-> None, size |-> Size(Empty), view |-> Empty]
Grip == [held : Attempts \cup {None}, moved : Attempts \cup {None},
         size : {Size(c) : c \in Contents}, view : Contents]

Pc == {"idle", "checked", "created", "written", "begun", "stageMade", "recordStage",
       "syncStage", "staging", "recordOutput", "append", "work", "verified",
       "slotWritten", "slotSynced", "abort", "finish", "over"}
Qpc == {"idle", "open", "moved", "quarantined", "read", "cleaned", "checked", "unlinked",
        "restoreComponent", "restore", "restoring", "restored", "end"}

TypeOK ==
  /\ at \in Attempts \cup {None} /\ quarantine \in SUBSET Attempts
  /\ mayBe \in SUBSET (Attempts \cup {None})
  /\ content \in [Attempts -> Contents] /\ durable \in [Attempts -> Contents]
  /\ stage \in [Attempts -> {"none", "made", "gone"}]
  /\ files \in [Attempts -> SUBSET Detailed]
  /\ pc \in [Attempts -> Pc] /\ passed \in [Attempts -> Preparing..Finished]
  /\ outs \in [Attempts -> SUBSET Detailed]
  /\ handle \in [Attempts -> Attempts \cup {None}]
  /\ published \in [Attempts -> SUBSET Items] /\ saved \in [Attempts -> BOOLEAN]
  /\ qpc \in [Actors -> Qpc]
  /\ grip \in [Actors -> Grip]
  /\ cleared \in SUBSET Attempts /\ strayed \in SUBSET Attempts /\ faults \in 0..MaxFaults

Init ==
  /\ at = None /\ quarantine = {} /\ mayBe = {None}
  /\ content = [a \in Attempts |-> Empty] /\ durable = [a \in Attempts |-> Empty]
  /\ stage = [a \in Attempts |-> "none"] /\ files = [a \in Attempts |-> {}]
  /\ pc = [a \in Attempts |-> "idle"] /\ passed = [a \in Attempts |-> Preparing]
  /\ outs = [a \in Attempts |-> {}] /\ handle = [a \in Attempts |-> None]
  /\ published = [a \in Attempts |-> {}] /\ saved = [a \in Attempts |-> FALSE]
  /\ qpc = [x \in Actors |-> "idle"]
  /\ grip = [x \in Actors |-> NoGrip]
  /\ cleared = {} /\ strayed = {} /\ faults = 0

Goto(a, l) == pc' = [pc EXCEPT ![a] = l]
attemptRest == <<passed, outs, handle, published, saved>>

\* A step of an attempt fails: before its commit it goes on to abort, later it
\* leaves the marker as it is.  Outputs not yet sealed are dropped.
Fail(a) ==
  /\ Goto(a, IF passed[a] <= Prepared THEN "abort" ELSE "over")
  /\ files' = IF pc[a] \in {"staging", "recordOutput", "append"}
                THEN [files EXCEPT ![a] = {}] ELSE files

\* Identity of path and open file, and the phase the attempt expects
AtPath(a) == at = a
InPhase(a, slots) == Parses(content[a]) /\ content[a].slots = slots

-----------------------------------------------------------------------------
(* Creation: check_apply_attempt_clear, then start_staged_apply_attempt *)

Check(a) ==
  /\ pc[a] = "idle"
  /\ Goto(a, IF at = None THEN "checked" ELSE "over")
  /\ UNCHANGED <<dirVars, inodeVars, stageVars, attemptRest, actorVars, histVars>>

Create(a) ==
  /\ pc[a] = "checked"
  /\ IF at = None
       THEN at' = a /\ mayBe' = mayBe \cup {a} /\ Goto(a, "created")
       ELSE UNCHANGED <<at, mayBe>> /\ Goto(a, "over")
  /\ UNCHANGED <<quarantine, inodeVars, stageVars, attemptRest, actorVars, histVars>>

Write(a) ==
  /\ pc[a] = "created" /\ Goto(a, "written")
  /\ content' = [content EXCEPT ![a].cut = FALSE]
  /\ UNCHANGED <<dirVars, durable, stageVars, attemptRest, actorVars, histVars>>

\* mutant of SyncNew: the directory is not synced
SyncNewFile(a) ==
  /\ pc[a] = "written" /\ Goto(a, "begun")
  /\ durable' = [durable EXCEPT ![a] = content[a]]
  /\ UNCHANGED <<dirVars, content, stageVars, attemptRest, actorVars, histVars>>

\* The file, then its directory
SyncNew(a) ==
  /\ pc[a] = "written" /\ Goto(a, "begun")
  /\ durable' = [durable EXCEPT ![a] = content[a]]
  /\ mayBe' = {at}
  /\ UNCHANGED <<at, quarantine, content, stageVars, attemptRest, actorVars, histVars>>

-----------------------------------------------------------------------------
(* Staging: ensure_staging, PreparingMarker *)

MakeStage(a) ==
  /\ pc[a] = "begun" /\ Detailed # {} /\ Goto(a, "stageMade")
  /\ stage' = [stage EXCEPT ![a] = "made"]
  /\ UNCHANGED <<dirVars, inodeVars, files, attemptRest, actorVars, histVars>>

\* A directory whose record fails is removed again.
OpenPreparing(a) ==
  /\ pc[a] = "stageMade"
  /\ IF AtPath(a) /\ InPhase(a, Preparing)
       THEN Goto(a, "recordStage") /\ UNCHANGED stageVars
       ELSE Fail(a) /\ stage' = [stage EXCEPT ![a] = "gone"]
  /\ UNCHANGED <<dirVars, inodeVars, attemptRest, actorVars, histVars>>

RecordStage(a) ==
  /\ pc[a] = "recordStage" /\ Goto(a, "syncStage")
  /\ content' = [content EXCEPT ![a].staged = TRUE]
  /\ UNCHANGED <<dirVars, durable, stageVars, attemptRest, actorVars, histVars>>

SyncStage(a) ==
  /\ pc[a] = "syncStage"
  /\ IF AtPath(a) /\ InPhase(a, Preparing)
       THEN Goto(a, "staging") /\ durable' = [durable EXCEPT ![a] = content[a]] /\ UNCHANGED stageVars
       ELSE Fail(a) /\ stage' = [stage EXCEPT ![a] = "gone"] /\ UNCHANGED durable
  /\ UNCHANGED <<dirVars, content, attemptRest, actorVars, histVars>>

\* An output is created in the staging directory ...
NewOutput(a, o) ==
  /\ pc[a] = "staging" /\ o \in Detailed \ outs[a]
  /\ IF stage[a] = "made"
       THEN /\ files' = [files EXCEPT ![a] = @ \cup {o}]
            /\ outs' = [outs EXCEPT ![a] = @ \cup {o}]
            /\ Goto(a, "recordOutput")
       ELSE Fail(a) /\ UNCHANGED outs
  /\ UNCHANGED <<dirVars, inodeVars, stage, passed, handle, published, saved, actorVars, histVars>>

\* ... and then recorded: the path is verified, and the line appended.
VerifyOutput(a) ==
  /\ pc[a] = "recordOutput"
  /\ IF AtPath(a) THEN Goto(a, "append") /\ UNCHANGED files ELSE Fail(a)
  /\ UNCHANGED <<dirVars, inodeVars, stage, attemptRest, actorVars, histVars>>

RecordOutput(a) ==
  /\ pc[a] = "append" /\ Goto(a, "staging")
  /\ content' = [content EXCEPT ![a].entries = outs[a]]
  /\ UNCHANGED <<dirVars, durable, stageVars, attemptRest, actorVars, histVars>>

\* All outputs are there: the marker is synced before any is sealed.
Seal(a) ==
  /\ pc[a] \in {"begun", "staging"} /\ outs[a] = Detailed
  /\ IF outs[a] = {}
       THEN Goto(a, "work") /\ UNCHANGED <<durable, files>>
       ELSE IF AtPath(a) /\ InPhase(a, Preparing)
              THEN /\ Goto(a, "work") /\ durable' = [durable EXCEPT ![a] = content[a]]
                   /\ UNCHANGED files
              ELSE Fail(a) /\ UNCHANGED durable
  /\ UNCHANGED <<dirVars, content, stage, attemptRest, actorVars, histVars>>

-----------------------------------------------------------------------------
(* Phases: transition_staged_apply_attempt, update_v3_phase_slot, and the   *)
(* work between them                                                        *)

\* What must be done before the next phase: before committing the staged
\* outputs are verified, before committed all is published and the staging
\* directory removed, before finished the snapshot is saved.
Ready(a) == CASE passed[a] = Committing -> published[a] = Items
              [] passed[a] = StateSave -> saved[a]
              [] OTHER -> TRUE
OutputsThere(a) == passed[a] = Prepared => outs[a] \subseteq files[a]

VerifyPhase(a) ==
  /\ pc[a] = "work" /\ Ready(a)
  /\ IF OutputsThere(a) /\ AtPath(a) /\ InPhase(a, passed[a])
       THEN Goto(a, "verified") /\ UNCHANGED files ELSE Fail(a)
  /\ stage' = IF passed[a] = Committing THEN [stage EXCEPT ![a] = "gone"] ELSE stage
  /\ UNCHANGED <<dirVars, inodeVars, attemptRest, actorVars, histVars>>

\* The slot is written through the open file, wherever that is by now.
WriteSlot(a) ==
  /\ pc[a] = "verified" /\ Goto(a, "slotWritten")
  /\ content' = [content EXCEPT ![a].slots = passed[a] + 1]
  /\ UNCHANGED <<dirVars, durable, stageVars, attemptRest, actorVars, histVars>>

SyncSlot(a) ==
  /\ pc[a] = "slotWritten" /\ Goto(a, "slotSynced")
  /\ durable' = [durable EXCEPT ![a] = content[a]]
  /\ UNCHANGED <<dirVars, content, stageVars, attemptRest, actorVars, histVars>>

\* mutant of ConfirmPhase: the path is not verified again
ConfirmSlotOnly(a) ==
  /\ pc[a] = "slotSynced"
  /\ IF InPhase(a, passed[a] + 1)
       THEN /\ passed' = [passed EXCEPT ![a] = @ + 1]
            /\ Goto(a, IF passed[a] + 1 = Finished THEN "finish" ELSE "work")
            /\ UNCHANGED files
       ELSE Fail(a) /\ UNCHANGED passed
  /\ UNCHANGED <<dirVars, inodeVars, stage, outs, handle, published, saved, actorVars, histVars>>

\* After the sync the slot is read back and the path verified again.
ConfirmPhase(a) ==
  /\ pc[a] = "slotSynced"
  /\ IF InPhase(a, passed[a] + 1) /\ AtPath(a)
       THEN /\ passed' = [passed EXCEPT ![a] = @ + 1]
            /\ Goto(a, IF passed[a] + 1 = Finished THEN "finish" ELSE "work")
            /\ UNCHANGED files
       ELSE Fail(a) /\ UNCHANGED passed
  /\ UNCHANGED <<dirVars, inodeVars, stage, outs, handle, published, saved, actorVars, histVars>>

\* The tree is changed, then the change recorded: the first record opens the
\* marker by its path, whatever is there.
Publish(a, o) ==
  /\ pc[a] = "work" /\ passed[a] = Committing /\ o \in Items \ published[a]
  /\ o \in Detailed => o \in files[a]
  /\ published' = [published EXCEPT ![a] = @ \cup {o}]
  /\ files' = [files EXCEPT ![a] = @ \ {o}]
  /\ LET h == IF handle[a] = None THEN at ELSE handle[a] IN
       /\ handle' = [handle EXCEPT ![a] = h]
       /\ IF h = None
            THEN Goto(a, "over") /\ UNCHANGED content
            ELSE content' = [content EXCEPT ![h].records = @ \cup {o}] /\ UNCHANGED pc
  /\ UNCHANGED <<dirVars, durable, stage, passed, outs, saved, actorVars, histVars>>

\* A staged output is not there any more.
PublishFails(a) ==
  /\ pc[a] = "work" /\ passed[a] = Committing
  /\ ~(outs[a] \ published[a] \subseteq files[a])
  /\ Fail(a)
  /\ UNCHANGED <<dirVars, inodeVars, stage, attemptRest, actorVars, histVars>>

Save(a) ==
  /\ pc[a] = "work" /\ passed[a] = StateSave /\ ~saved[a]
  /\ saved' = [saved EXCEPT ![a] = TRUE]
  /\ UNCHANGED <<dirVars, inodeVars, stageVars, pc, passed, outs, handle, published, actorVars, histVars>>

\* The user interrupts, the other side fails.
Abandon(a) ==
  /\ pc[a] \in {"begun", "staging", "work"} /\ passed[a] <= Prepared
  /\ Fail(a)
  /\ UNCHANGED <<dirVars, inodeVars, stage, attemptRest, actorVars, histVars>>

-----------------------------------------------------------------------------
(* Quarantine: the abort and the finish of an attempt, and recover --clear *)

Clearing(x) == x \in Clears
Aborting(x) == x \in Attempts /\ pc[x] = "abort"
Finishing(x) == x \in Attempts /\ pc[x] = "finish"
Qgoto(x, l) == qpc' = [qpc EXCEPT ![x] = l] /\ UNCHANGED grip
Qtake(x, l, g) == qpc' = [qpc EXCEPT ![x] = l] /\ grip' = [grip EXCEPT ![x] = g]
Qend(x) == Qtake(x, "end", NoGrip)
quarRest == <<inodeVars, attemptVars, faults>>

\* The handle, its name and its length are those of the marker opened, and
\* nothing has appeared under the marker path.
Intact(x) == grip[x].moved = grip[x].held /\ at = None /\ Size(content[grip[x].moved]) = grip[x].size

QOpen(x) ==
  /\ qpc[x] = "idle" /\ (Clearing(x) \/ Aborting(x) \/ Finishing(x))
  /\ IF at = None \/ (Finishing(x) /\ at # x)
       THEN Qend(x)
       ELSE Qtake(x, "open", [NoGrip EXCEPT !.held = at, !.size = Size(content[at])])
  /\ UNCHANGED <<dirVars, quarRest, stageVars, cleared, strayed>>

\* The name is moved: whatever it refers to by now.
QRename(x) ==
  /\ qpc[x] = "open"
  /\ IF at = None
       THEN Qend(x) /\ UNCHANGED <<dirVars, cleared, strayed>>
       ELSE /\ Qtake(x, "moved", [grip[x] EXCEPT !.moved = at])
            /\ at' = None /\ quarantine' = quarantine \cup {at}
            /\ mayBe' = mayBe \cup {None}
            /\ LET hit == IF content[at].slots >= Committing THEN {at} ELSE {} IN
                 /\ cleared' = IF Clearing(x) THEN cleared \cup hit ELSE cleared
                 /\ strayed' = IF x \in Attempts THEN strayed \cup ({at} \ {x}) ELSE strayed
  /\ UNCHANGED <<quarRest, stageVars>>

QVerify(x) ==
  /\ qpc[x] = "moved"
  /\ Qgoto(x, IF Intact(x) THEN "quarantined" ELSE "restoreComponent")
  /\ UNCHANGED <<dirVars, quarRest, stageVars, cleared, strayed>>

\* An abort wants its own marker, before the commit; a clear any it can read.
Refused(x, i) ==
  \/ ~Parses(content[i])
  \/ Aborting(x) /\ (i # x \/ content[i].slots > Prepared)

QRead(x) ==
  /\ qpc[x] = "quarantined"
  /\ LET c == content[grip[x].moved] IN
       IF Finishing(x) THEN Qgoto(x, "checked")
       ELSE IF ~Intact(x) \/ Refused(x, grip[x].moved) THEN Qgoto(x, "restore")
       ELSE IF c.slots > Prepared THEN Qgoto(x, "checked")
       ELSE Qtake(x, "read", [grip[x] EXCEPT !.view = c])
  /\ UNCHANGED <<dirVars, quarRest, stageVars, cleared, strayed>>

\* mutant of Cleaned: outputs that are not recorded are left behind
CleanedRecorded(i, c) ==
  /\ files' = [files EXCEPT ![i] = @ \ c.entries]
  /\ stage' = [stage EXCEPT ![i] = "gone"]

Cleaned(i, c) ==
  /\ files[i] \subseteq c.entries
  /\ files' = [files EXCEPT ![i] = {}]
  /\ stage' = [stage EXCEPT ![i] = "gone"]

\* cleanup_staged_precommit_stage: exactly the recorded outputs are removed.
QClean(x) ==
  /\ qpc[x] = "read"
  /\ LET i == grip[x].moved
         c == grip[x].view IN
       \/ (~c.staged \/ stage[i] = "gone") /\ Qgoto(x, "cleaned") /\ UNCHANGED stageVars
       \/ c.staged /\ stage[i] = "made" /\ Cleaned(i, c) /\ Qgoto(x, "cleaned")
       \/ c.staged /\ stage[i] = "made" /\ ~(files[i] \subseteq c.entries)
          /\ Qgoto(x, "restore") /\ UNCHANGED stageVars
  /\ UNCHANGED <<dirVars, quarRest, cleared, strayed>>

QRecheck(x) ==
  /\ qpc[x] = "cleaned"
  /\ Qgoto(x, IF Intact(x) /\ content[grip[x].moved] = grip[x].view THEN "checked" ELSE "restore")
  /\ UNCHANGED <<dirVars, quarRest, stageVars, cleared, strayed>>

QUnlink(x) ==
  /\ qpc[x] = "checked"
  /\ IF Intact(x)
       THEN Qgoto(x, "unlinked") /\ quarantine' = quarantine \ {grip[x].moved}
       ELSE Qgoto(x, "restore") /\ UNCHANGED quarantine
  /\ UNCHANGED <<at, mayBe, quarRest, stageVars, cleared, strayed>>

\* restore: only if the path is free, and, after the first verification, only
\* if the marker still has its length; otherwise it stays in quarantine.
QRestoreCheck(x) ==
  /\ qpc[x] \in {"restore", "restoreComponent"}
  /\ IF at = None /\ (qpc[x] = "restore" => Size(content[grip[x].moved]) = grip[x].size)
       THEN Qgoto(x, "restoring") ELSE Qend(x)
  /\ UNCHANGED <<dirVars, quarRest, stageVars, cleared, strayed>>

\* The rename replaces a marker created since the check.
QRestore(x) ==
  /\ qpc[x] = "restoring" /\ Qgoto(x, "restored")
  /\ at' = grip[x].moved /\ quarantine' = quarantine \ {grip[x].moved}
  /\ mayBe' = mayBe \cup {grip[x].moved}
  /\ strayed' = strayed \cup ({at} \ {None})
  /\ UNCHANGED <<quarRest, stageVars, cleared>>

QSync(x) ==
  /\ qpc[x] \in {"unlinked", "restored"} /\ Qend(x)
  /\ mayBe' = {at}
  /\ UNCHANGED <<at, quarantine, quarRest, stageVars, cleared, strayed>>

-----------------------------------------------------------------------------
(* Kills and power losses *)

\* What a write in progress leaves when it is cut short
Partial(l, c) == CASE l = "verified" -> {c, [c EXCEPT !.torn = TRUE]}
                   [] l \in {"recordStage", "append"} -> {c, [c EXCEPT !.cut = TRUE]}
                   [] OTHER -> {c}

Running(a) == pc[a] \notin {"idle", "over"} /\ qpc[a] # "end"
Active(x) == qpc[x] \notin {"idle", "end"}
Fault == faults < MaxFaults /\ faults' = faults + 1

Kill(a) ==
  /\ Running(a) /\ Fault
  /\ \E c \in Partial(pc[a], content[a]) : content' = [content EXCEPT ![a] = c]
  /\ Goto(a, "over") /\ Qend(a)
  /\ UNCHANGED <<dirVars, durable, stageVars, attemptRest, cleared, strayed>>

KillClear(x) ==
  /\ Clearing(x) /\ Active(x) /\ Fault
  /\ Qend(x)
  /\ UNCHANGED <<dirVars, inodeVars, stageVars, attemptVars, cleared, strayed>>

\* What the disk may hold of an inode that was not synced
Survives(d, c) ==
  {d, c} \cup (IF Size(d) # Size(c) THEN {[c EXCEPT !.cut = TRUE]} ELSE {})
         \cup (IF d.slots # c.slots THEN {[c EXCEPT !.torn = TRUE]} ELSE {})

PowerLoss ==
  /\ PowerMayFail /\ Fault
  /\ at' \in mayBe /\ mayBe' = {at'}
  /\ quarantine' = (quarantine \cup (mayBe \ {None})) \ {at'}
  /\ content' \in {c \in [Attempts -> UNION {Survives(durable[a], content[a]) : a \in Attempts}] :
                     \A a \in Attempts : c[a] \in IF a \in quarantine \cup mayBe
                                                   THEN Survives(durable[a], content[a])
                                                   ELSE {content[a]}}
  /\ durable' = content'
  /\ pc' = [a \in Attempts |-> IF pc[a] = "idle" THEN "idle" ELSE "over"]
  /\ qpc' = [x \in Actors |-> IF qpc[x] = "idle" /\ ~(x \in Attempts /\ pc[x] # "idle") THEN "idle" ELSE "end"]
  /\ grip' = [x \in Actors |-> NoGrip]
  /\ UNCHANGED <<stageVars, attemptRest, cleared, strayed>>

-----------------------------------------------------------------------------
Attempt(a) ==
  \/ Check(a) \/ Create(a) \/ Write(a) \/ SyncNew(a)
  \/ MakeStage(a) \/ OpenPreparing(a) \/ RecordStage(a) \/ SyncStage(a)
  \/ (\E o \in Detailed : NewOutput(a, o)) \/ VerifyOutput(a) \/ RecordOutput(a) \/ Seal(a)
  \/ VerifyPhase(a) \/ WriteSlot(a) \/ SyncSlot(a) \/ ConfirmPhase(a)
  \/ (\E o \in Items : Publish(a, o)) \/ PublishFails(a) \/ Save(a) \/ Abandon(a)

Quarantine(x) ==
  \/ QOpen(x) \/ QRename(x) \/ QVerify(x) \/ QRead(x) \/ QClean(x) \/ QRecheck(x)
  \/ QUnlink(x) \/ QRestoreCheck(x) \/ QRestore(x) \/ QSync(x)

\* Steps of some attempts, and of some that take markers off their path
Work(attempts, actors) ==
  \/ \E a \in attempts : Attempt(a) \/ Kill(a)
  \/ \E x \in actors : Quarantine(x) \/ KillClear(x)

Next == Work(Attempts, Actors) \/ PowerLoss

Spec == Init /\ [][Next]_vars

-----------------------------------------------------------------------------
(* Properties *)

Half(a) == published[a] # {} /\ ~saved[a]

\* An attempt that has changed the tree and not saved the snapshot has its
\* marker under the marker path, and nobody can read a phase before the commit
\* from it, at any instant and whatever is killed: unless a user's clear took
\* away a marker already in its commit, or another attempt's abort or finish
\* or a restore got in the way.
GuardedCommit ==
  \A a \in Attempts : Half(a) /\ a \notin cleared \cup strayed =>
    at = a /\ (Parses(content[a]) => content[a].slots >= Committing)

\* From the instant a marker is removed before its commit there is no staged
\* output of its attempt, running or not: but for one that a restore replaced.
RemovedMeansClean ==
  \A a \in Attempts :
    content[a].slots <= Prepared /\ at # a /\ a \notin quarantine \cup strayed => files[a] = {}

\* No recover --clear has begun.
NoClear == \A k \in Clears : qpc[k] = "idle"

\* ARCHITECTURE.md: the journal makes each phase transition durable.  The marker
\* of an attempt that is changing the tree would be found after a power loss, as
\* long as no clear has touched it: one puts a marker back without a sync of the
\* directory.
CommitDurable ==
  NoClear => \A a \in Attempts : Half(a) /\ a \notin cleared \cup strayed =>
               mayBe = {a} /\ durable[a].slots >= Committing

\* README.md: the quarantine prevents an active phase transition from being
\* mistaken for an abandoned attempt.  An attempt that got through to its
\* commit still has the outputs it verified.
StagedWhenCommitting ==
  \A a \in Attempts : pc[a] = "work" /\ passed[a] = Committing =>
    outs[a] \ published[a] \subseteq files[a]

=============================================================================
