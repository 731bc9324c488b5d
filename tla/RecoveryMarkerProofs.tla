------------------------ MODULE RecoveryMarkerProofs ------------------------
(***************************************************************************)
(* Theorems about RecoveryMarker, for any number of attempts, clears, kills *)
(* and actions: the marker of an attempt that is changing the tree stays at *)
(* its path and cannot be read as one before its commit, and it would be    *)
(* found there after a power loss.                                         *)
(***************************************************************************)
EXTENDS RecoveryMarker, TLAPS

(* What holds of the path is not claimed of power losses together with      *)
(* clears: a clear puts a marker back without having synced the directory.  *)
PowerOrClears == PowerMayFail => Clears = {}

-----------------------------------------------------------------------------
(* The inductive invariant of the guard *)

\* What the steps of an attempt have made sure of.
Progress ==
  \A a \in Attempts :
    /\ published[a] # {} => passed[a] >= Committing
    /\ pc[a] = "abort" => passed[a] <= Prepared
    /\ pc[a] \in {"verified", "slotWritten", "slotSynced"} /\ passed[a] >= StateSave => saved[a]
    /\ passed[a] = Finished => saved[a] /\ pc[a] \in {"finish", "over"}
    /\ pc[a] = "finish" => passed[a] = Finished

\* Only an attempt that aborts or finishes takes markers off their path.
QuarantineLate ==
  \A a \in Attempts : Active(a) => pc[a] \in {"abort", "finish"}

\* A marker taken off its path is in quarantine, in one hand at most, until it
\* is unlinked or put back.
Holding(x) == qpc[x] \in {"moved", "quarantined", "read", "cleaned", "checked",
                          "restoreComponent", "restore", "restoring"}
Custody ==
  /\ at \notin quarantine
  /\ \A a \in Attempts : pc[a] \in {"idle", "checked"} => at # a /\ a \notin quarantine \cup mayBe
  /\ \A x \in Actors : Holding(x) => grip[x].moved \in quarantine
  /\ \A x, y \in Actors : Holding(x) /\ Holding(y) /\ grip[x].moved = grip[y].moved => x = y

\* The slots an attempt knows to be applied are in the file and on the disk.
SlotsApplied ==
  \A a \in Attempts :
    /\ content[a].slots \in {passed[a], passed[a] + 1}
    /\ durable[a].slots \in {passed[a], passed[a] + 1}
    /\ pc[a] \in {"slotWritten", "slotSynced"} => content[a].slots = passed[a] + 1
    /\ pc[a] = "slotSynced" => durable[a].slots = passed[a] + 1

Undisturbed(a) == a \notin cleared \cup strayed
Owing(a) == passed[a] >= Committing /\ ~saved[a]

\* The marker of an attempt in its commit is at its path.
MarkerAtPath == \A a \in Attempts : Owing(a) /\ Undisturbed(a) => at = a

\* Before any clear that holds from the creation on, and once the directory was
\* synced it is what a power loss leaves.
Begun(a) == pc[a] \notin {"idle", "checked", "created", "written", "abort", "finish", "over"}
MarkerOnDisk ==
  NoClear =>
    \A a \in Attempts : Undisturbed(a) =>
      /\ pc[a] \in {"created", "written"} => at = a
      /\ Begun(a) \/ Owing(a) => at = a /\ mayBe = {a}

BaseInv == TypeOK /\ Progress /\ QuarantineLate /\ Custody /\ SlotsApplied
GuardInv == BaseInv /\ MarkerAtPath /\ MarkerOnDisk

-----------------------------------------------------------------------------
(* Types *)

LEMMA NoneIsNoActor == None \notin Attempts
  BY ActorsAssumption DEF Actors

LEMMA EmptyType == Empty \in Contents /\ NoGrip \in Grip
  <1>1. Empty \in Contents
    BY DEF Empty, Contents, Preparing, Finished
  <1> QED
    BY <1>1 DEF NoGrip, Grip

LEMMA InitType == Init => TypeOK
  <1>1. 0 \in 0..MaxFaults /\ Preparing \in Preparing..Finished
    BY FaultAssumption DEF Preparing, Finished
  <1> QED
    BY <1>1, EmptyType DEF Init, TypeOK, Pc, Qpc

\* A step of an attempt that does not touch its marker's contents.
LEMMA PlainAttemptType ==
  ASSUME TypeOK, NEW a \in Attempts,
         \/ Check(a) \/ Create(a) \/ SyncNew(a) \/ MakeStage(a) \/ OpenPreparing(a)
         \/ SyncStage(a) \/ (\E o \in Detailed : NewOutput(a, o)) \/ VerifyOutput(a) \/ Seal(a)
         \/ VerifyPhase(a) \/ SyncSlot(a) \/ PublishFails(a) \/ Save(a) \/ Abandon(a)
  PROVE  TypeOK'
  <1> USE DEF TypeOK, Fail, Goto, Pc, dirVars, inodeVars, stageVars, attemptRest, actorVars, histVars
  <1>1. CASE Check(a) \/ Create(a) \/ SyncNew(a)
    BY <1>1 DEF Check, Create, SyncNew
  <1>2. CASE MakeStage(a) \/ OpenPreparing(a) \/ SyncStage(a)
    BY <1>2 DEF MakeStage, OpenPreparing, SyncStage
  <1>3. CASE VerifyOutput(a) \/ Seal(a) \/ VerifyPhase(a)
    BY <1>3 DEF VerifyOutput, Seal, VerifyPhase
  <1>4. CASE SyncSlot(a) \/ PublishFails(a) \/ Abandon(a)
    BY <1>4 DEF SyncSlot, PublishFails, Abandon
  <1>6. CASE Save(a)
    BY <1>6 DEF Save
  <1>5. ASSUME NEW o \in Detailed, NewOutput(a, o)
        PROVE  TypeOK'
    BY <1>5 DEF NewOutput
  <1> QED
    BY <1>1, <1>2, <1>3, <1>4, <1>5, <1>6

\* A record of contents with one field replaced is one.
LEMMA ContentsType ==
  ASSUME NEW c \in Contents
  PROVE  /\ \A b \in BOOLEAN : /\ [c EXCEPT !.cut = b] \in Contents
                              /\ [c EXCEPT !.torn = b] \in Contents
                              /\ [c EXCEPT !.staged = b] \in Contents
         /\ \A e \in SUBSET Detailed : [c EXCEPT !.entries = e] \in Contents
         /\ \A r \in SUBSET Items : [c EXCEPT !.records = r] \in Contents
         /\ \A n \in Preparing..Finished : [c EXCEPT !.slots = n] \in Contents
  BY DEF Contents

LEMMA WritingAttemptType ==
  ASSUME TypeOK, Progress, NEW a \in Attempts,
         \/ Write(a) \/ RecordStage(a) \/ RecordOutput(a) \/ WriteSlot(a) \/ ConfirmPhase(a)
         \/ \E o \in Items : Publish(a, o)
  PROVE  TypeOK'
  <1>1. content[a] \in Contents
    BY DEF TypeOK
  <1>2. CASE Write(a) \/ RecordStage(a) \/ RecordOutput(a) \/ WriteSlot(a)
    <2>1. WriteSlot(a) => passed[a] + 1 \in Preparing..Finished
      BY DEF TypeOK, Progress, WriteSlot, Preparing, Finished
    <2>2. PICK c \in Contents : content' = [content EXCEPT ![a] = c]
      BY <1>1, <1>2, <2>1, ContentsType DEF Write, RecordStage, RecordOutput, WriteSlot, TypeOK
    <2> QED
      BY <1>2, <2>2 DEF TypeOK, Write, RecordStage, RecordOutput, WriteSlot, Goto, Pc, dirVars, stageVars,
                   attemptRest, actorVars, histVars
  <1>3. CASE ConfirmPhase(a)
    <2>1. passed[a] + 1 \in Preparing..Finished
      BY <1>3 DEF TypeOK, Progress, ConfirmPhase, Preparing, Finished
    <2> QED
      BY <1>3, <2>1 DEF TypeOK, ConfirmPhase, Fail, Goto, Pc, dirVars, inodeVars,
                        actorVars, histVars
  <1>4. ASSUME NEW o \in Items, Publish(a, o)
        PROVE  TypeOK'
    <2> DEFINE h == IF handle[a] = None THEN at ELSE handle[a]
    <2>1. h \in Attempts \cup {None}
      BY DEF TypeOK
    <2>2. content' \in [Attempts -> Contents]
      <3>1. CASE h = None
        BY <1>4, <3>1 DEF TypeOK, Publish
      <3>2. CASE h # None
        <4>1. content[h] \in Contents /\ content[h].records \cup {o} \in SUBSET Items
          BY <2>1, <3>2 DEF TypeOK, Contents
        <4>2. [content[h] EXCEPT !.records = @ \cup {o}] \in Contents
          BY <4>1, ContentsType
        <4>3. content' = [content EXCEPT ![h] = [content[h] EXCEPT !.records = @ \cup {o}]]
          BY <1>4, <3>2 DEF Publish, TypeOK
        <4> QED
          BY <4>2, <4>3 DEF TypeOK
      <3> QED
        BY <3>1, <3>2
    <2>3. /\ handle' = [handle EXCEPT ![a] = h]
          /\ pc' = pc \/ pc' = [pc EXCEPT ![a] = "over"]
          /\ published' = [published EXCEPT ![a] = @ \cup {o}]
          /\ files' = [files EXCEPT ![a] = @ \ {o}]
          /\ UNCHANGED <<dirVars, durable, stage, passed, outs, saved, actorVars, histVars>>
      BY <1>4 DEF Publish, Goto
    <2> HIDE DEF h
    <2> QED
      BY <2>1, <2>2, <2>3 DEF TypeOK, Pc, dirVars, actorVars, histVars
  <1> QED
    BY <1>2, <1>3, <1>4

LEMMA QuarantineType ==
  ASSUME TypeOK, Custody, NEW x \in Actors, Quarantine(x)
  PROVE  TypeOK'
  <1> USE DEF TypeOK, Qpc, Qgoto, Qend, Qtake, quarRest, dirVars, inodeVars, stageVars, attemptVars, actorVars
  <1>1. \A g \in Grip : /\ \A i \in Attempts : [g EXCEPT !.moved = i] \in Grip
                        /\ \A c \in Contents : [g EXCEPT !.view = c] \in Grip
    BY DEF Grip
  <1>2. CASE QOpen(x)
    <2>1. at # None => content[at] \in Contents
      OBVIOUS
    <2>2. at # None => [NoGrip EXCEPT !.held = at, !.size = Size(content[at])] \in Grip
      BY <2>1, EmptyType DEF Grip
    <2> QED
      BY <1>2, <2>2, EmptyType DEF QOpen
  <1>3. CASE QRename(x)
    <2>1. CASE at = None
      BY <1>3, <2>1, EmptyType DEF QRename
    <2>2. CASE at # None
      <3>1. [grip[x] EXCEPT !.moved = at] \in Grip
        BY <1>1, <2>2
      <3>2. cleared' \in SUBSET Attempts /\ strayed' \in SUBSET Attempts
        BY <1>3, <2>2 DEF QRename
      <3> QED
        BY <1>3, <2>2, <3>1, <3>2 DEF QRename
    <2> QED
      BY <2>1, <2>2
  <1>4. CASE QRead(x)
    <2>1. grip[x].moved \in Attempts
      BY <1>4 DEF QRead, Custody, Holding
    <2>2. [grip[x] EXCEPT !.view = content[grip[x].moved]] \in Grip
      BY <1>1, <2>1
    <2> QED
      BY <1>4, <2>2 DEF QRead
  <1>5. CASE QVerify(x) \/ QClean(x) \/ QRecheck(x) \/ QUnlink(x) \/ QRestoreCheck(x)
    BY <1>5, EmptyType DEF QVerify, QClean, QRecheck, QUnlink, QRestoreCheck, Cleaned
  <1>6. CASE QRestore(x)
    <2>1. grip[x].moved \in Attempts
      BY <1>6 DEF QRestore, Custody, Holding
    <2>2. strayed' \in SUBSET Attempts
      BY <1>6 DEF QRestore
    <2> QED
      BY <1>6, <2>1, <2>2 DEF QRestore
  <1>7. CASE QSync(x)
    BY <1>7, EmptyType DEF QSync
  <1> QED
    BY <1>2, <1>3, <1>4, <1>5, <1>6, <1>7 DEF Quarantine

\* What a power loss leaves of a file is a file.
LEMMA SurvivorType ==
  ASSUME NEW d \in Contents, NEW c \in Contents
  PROVE  Survives(d, c) \subseteq Contents
  BY ContentsType DEF Survives

LEMMA FaultType ==
  ASSUME TypeOK,
         \/ \E a \in Attempts : Kill(a)
         \/ \E x \in Actors : KillClear(x)
         \/ PowerLoss
  PROVE  TypeOK'
  <1> USE DEF TypeOK, Qpc, Pc, Qend, Qtake, dirVars, inodeVars, stageVars, attemptVars, attemptRest
  <1>1. Fault => faults' \in 0..MaxFaults
    BY FaultAssumption DEF Fault
  <1>2. ASSUME NEW a \in Attempts, Kill(a)
        PROVE  TypeOK'
    <2>1. PICK c \in Partial(pc[a], content[a]) : content' = [content EXCEPT ![a] = c]
      BY <1>2 DEF Kill
    <2>2. content[a] \in Contents
      OBVIOUS
    <2>3. c \in Contents
      BY <2>1, <2>2, ContentsType DEF Partial
    <2> QED
      BY <1>1, <1>2, <2>1, <2>3, EmptyType DEF Kill, Goto, Actors
  <1>3. ASSUME NEW x \in Actors, KillClear(x)
        PROVE  TypeOK'
    BY <1>1, <1>3, EmptyType DEF KillClear
  <1>4. CASE PowerLoss
    <2>1. content' \in [Attempts -> Contents]
      <3>1. \A a \in Attempts : content'[a] \in Survives(durable[a], content[a]) \/ content'[a] = content[a]
        BY <1>4 DEF PowerLoss
      <3>2. \A a \in Attempts : content'[a] \in Contents
        BY <3>1, SurvivorType
      <3>3. \E S : content' \in [Attempts -> S]
        BY <1>4 DEF PowerLoss
      <3> QED
        BY <3>2, <3>3
    <2> QED
      BY <1>1, <1>4, <2>1, EmptyType DEF PowerLoss
  <1> QED
    BY <1>2, <1>3, <1>4
-----------------------------------------------------------------------------
(* Steps of attempts *)

LEMMA AttemptProgress ==
  ASSUME TypeOK, Progress, NEW a \in Attempts, Attempt(a)
  PROVE  Progress'
  <1> USE DEF Progress, TypeOK, Fail, Goto, dirVars, inodeVars, stageVars, attemptRest, actorVars, histVars, Preparing, Prepared, Committing, StateSave, Finished, Committed
  <1>1. CASE Check(a) \/ Create(a) \/ Write(a) \/ SyncNew(a)
    BY <1>1 DEF Check, Create, Write, SyncNew
  <1>2. CASE MakeStage(a) \/ OpenPreparing(a) \/ RecordStage(a) \/ SyncStage(a)
    BY <1>2 DEF MakeStage, OpenPreparing, RecordStage, SyncStage
  <1>3. CASE VerifyOutput(a) \/ RecordOutput(a) \/ Seal(a) \/ (\E o \in Detailed : NewOutput(a, o))
    BY <1>3 DEF VerifyOutput, RecordOutput, Seal, NewOutput
  <1>4. CASE VerifyPhase(a) \/ WriteSlot(a) \/ SyncSlot(a)
    BY <1>4 DEF VerifyPhase, Ready, WriteSlot, SyncSlot
  <1>5. CASE ConfirmPhase(a)
    BY <1>5 DEF ConfirmPhase
  <1>6. CASE PublishFails(a) \/ Save(a) \/ Abandon(a)
    BY <1>6 DEF PublishFails, Save, Abandon
  <1>7. CASE (\E o \in Items : Publish(a, o))
    BY <1>7 DEF Publish
  <1> QED
    BY <1>1, <1>2, <1>3, <1>4, <1>5, <1>6, <1>7 DEF Attempt

LEMMA AttemptQuarantine ==
  ASSUME TypeOK, Progress, QuarantineLate, NEW a \in Attempts, Attempt(a)
  PROVE  QuarantineLate'
  <1> USE DEF QuarantineLate, Active, Progress, TypeOK, Fail, Goto, dirVars, inodeVars, stageVars, attemptRest, actorVars, histVars, Preparing, Prepared, Committing, StateSave, Finished, Committed
  <1>1. CASE Check(a) \/ Create(a) \/ Write(a) \/ SyncNew(a)
    BY <1>1 DEF Check, Create, Write, SyncNew
  <1>2. CASE MakeStage(a) \/ OpenPreparing(a) \/ RecordStage(a) \/ SyncStage(a)
    BY <1>2 DEF MakeStage, OpenPreparing, RecordStage, SyncStage
  <1>3. CASE VerifyOutput(a) \/ RecordOutput(a) \/ Seal(a) \/ (\E o \in Detailed : NewOutput(a, o))
    BY <1>3 DEF VerifyOutput, RecordOutput, Seal, NewOutput
  <1>4. CASE VerifyPhase(a) \/ WriteSlot(a) \/ SyncSlot(a)
    BY <1>4 DEF VerifyPhase, Ready, WriteSlot, SyncSlot
  <1>5. CASE ConfirmPhase(a)
    BY <1>5 DEF ConfirmPhase
  <1>6. CASE PublishFails(a) \/ Save(a) \/ Abandon(a)
    BY <1>6 DEF PublishFails, Save, Abandon
  <1>7. CASE (\E o \in Items : Publish(a, o))
    BY <1>7 DEF Publish
  <1> QED
    BY <1>1, <1>2, <1>3, <1>4, <1>5, <1>6, <1>7 DEF Attempt

LEMMA AttemptCustody ==
  ASSUME TypeOK, Custody, NEW a \in Attempts, Attempt(a)
  PROVE  Custody'
  <1> USE DEF Custody, Holding, TypeOK, Fail, Goto, dirVars, inodeVars, stageVars, attemptRest, actorVars, histVars
  <1>1. CASE Check(a) \/ Create(a) \/ Write(a) \/ SyncNew(a)
    BY <1>1 DEF Check, Create, Write, SyncNew
  <1>2. CASE MakeStage(a) \/ OpenPreparing(a) \/ RecordStage(a) \/ SyncStage(a)
    BY <1>2 DEF MakeStage, OpenPreparing, RecordStage, SyncStage
  <1>3. CASE VerifyOutput(a) \/ RecordOutput(a) \/ Seal(a) \/ (\E o \in Detailed : NewOutput(a, o))
    BY <1>3 DEF VerifyOutput, RecordOutput, Seal, NewOutput
  <1>4. CASE VerifyPhase(a) \/ WriteSlot(a) \/ SyncSlot(a)
    BY <1>4 DEF VerifyPhase, Ready, WriteSlot, SyncSlot
  <1>5. CASE ConfirmPhase(a)
    BY <1>5 DEF ConfirmPhase
  <1>6. CASE PublishFails(a) \/ Save(a) \/ Abandon(a)
    BY <1>6 DEF PublishFails, Save, Abandon
  <1>7. CASE (\E o \in Items : Publish(a, o))
    BY <1>7 DEF Publish
  <1> QED
    BY <1>1, <1>2, <1>3, <1>4, <1>5, <1>6, <1>7 DEF Attempt

\* Which slots a step of an attempt fills.
LEMMA AttemptFillsSlots ==
  ASSUME TypeOK, NEW a \in Attempts, Attempt(a), NEW b \in Attempts
  PROVE  content'[b].slots = IF b = a /\ pc[a] = "verified" THEN passed[a] + 1 ELSE content[b].slots
  <1> USE DEF TypeOK
  <1>1. CASE Write(a) \/ RecordStage(a) \/ RecordOutput(a) \/ WriteSlot(a)
    <2>1. content[a] \in Contents
      OBVIOUS
    <2>2. CASE b = a
      BY <1>1, <2>1, <2>2 DEF Write, RecordStage, RecordOutput, WriteSlot, Goto, Contents
    <2>3. CASE b # a
      BY <1>1, <2>3 DEF Write, RecordStage, RecordOutput, WriteSlot
    <2> QED
      BY <2>2, <2>3
  <1>2. CASE \/ Check(a) \/ Create(a) \/ SyncNew(a) \/ MakeStage(a) \/ OpenPreparing(a)
             \/ SyncStage(a) \/ (\E o \in Detailed : NewOutput(a, o)) \/ VerifyOutput(a) \/ Seal(a)
             \/ VerifyPhase(a) \/ SyncSlot(a) \/ ConfirmPhase(a) \/ PublishFails(a) \/ Save(a) \/ Abandon(a)
    <2>1. UNCHANGED content /\ pc[a] # "verified"
      BY <1>2 DEF Check, Create, SyncNew, MakeStage, OpenPreparing, SyncStage, NewOutput, VerifyOutput, Seal,
         VerifyPhase, SyncSlot, ConfirmPhase, PublishFails, Save, Abandon, inodeVars
    <2> QED
      BY <2>1
  <1>3. ASSUME NEW o \in Items, Publish(a, o)
        PROVE  content'[b].slots = content[b].slots /\ pc[a] # "verified"
    <2> DEFINE h == IF handle[a] = None THEN at ELSE handle[a]
    <2>1. pc[a] # "verified" /\ (content' = content \/ content' = [content EXCEPT ![h].records = @ \cup {o}])
      BY <1>3 DEF Publish
    <2> HIDE DEF h
    <2>2. content[b] \in Contents
      OBVIOUS
    <2> QED
      BY <2>1, <2>2 DEF Contents
  <1> QED
    BY <1>1, <1>2, <1>3 DEF Attempt

\* When a step of an attempt records its staging directory.
LEMMA AttemptRecordsStage ==
  ASSUME TypeOK, NEW a \in Attempts, Attempt(a), NEW b \in Attempts
  PROVE  /\ content[b].staged => content'[b].staged
         /\ content'[b].staged => content[b].staged \/ (b = a /\ pc[a] = "recordStage")
         /\ pc[a] = "recordStage" => content'[a].staged
  <1>1. content[a] \in Contents /\ content[b] \in Contents
    BY DEF TypeOK
  <1>2. CASE RecordStage(a)
    <2>1. CASE b = a
      BY <1>1, <1>2, <2>1 DEF RecordStage, Contents, TypeOK
    <2>2. CASE b # a
      BY <1>1, <1>2, <2>2 DEF RecordStage, Contents, TypeOK
    <2> QED
      BY <2>1, <2>2
  <1>3. CASE Write(a) \/ RecordOutput(a) \/ WriteSlot(a)
    <2>1. pc[a] # "recordStage"
      BY <1>3 DEF Write, RecordOutput, WriteSlot
    <2>2. CASE b = a
      BY <1>1, <1>3, <2>1, <2>2 DEF Write, RecordOutput, WriteSlot, Contents, TypeOK
    <2>3. CASE b # a
      BY <1>1, <1>3, <2>1, <2>3 DEF Write, RecordOutput, WriteSlot, Contents, TypeOK
    <2> QED
      BY <2>2, <2>3
  <1>4. CASE \/ Check(a) \/ Create(a) \/ SyncNew(a) \/ MakeStage(a) \/ OpenPreparing(a)
             \/ SyncStage(a) \/ (\E o \in Detailed : NewOutput(a, o)) \/ VerifyOutput(a) \/ Seal(a)
             \/ VerifyPhase(a) \/ SyncSlot(a) \/ ConfirmPhase(a) \/ PublishFails(a) \/ Save(a) \/ Abandon(a)
    <2>1. UNCHANGED content /\ pc[a] # "recordStage"
      BY <1>4 DEF Check, Create, SyncNew, MakeStage, OpenPreparing, SyncStage, NewOutput, VerifyOutput, Seal,
         VerifyPhase, SyncSlot, ConfirmPhase, PublishFails, Save, Abandon, inodeVars
    <2> QED
      BY <2>1
  <1>5. ASSUME NEW o \in Items, Publish(a, o)
        PROVE  content'[b].staged = content[b].staged /\ pc[a] # "recordStage"
    <2> DEFINE h == IF handle[a] = None THEN at ELSE handle[a]
    <2>1. pc[a] # "recordStage" /\ (content' = content \/ content' = [content EXCEPT ![h].records = @ \cup {o}])
      BY <1>5 DEF Publish
    <2> HIDE DEF h
    <2>2. CASE b = h
      BY <1>1, <2>1, <2>2 DEF Contents, TypeOK
    <2>3. CASE b # h
      BY <1>1, <2>1, <2>3 DEF TypeOK
    <2> QED
      BY <2>1, <2>2, <2>3
  <1> QED
    BY <1>2, <1>3, <1>4, <1>5 DEF Attempt

\* What a step of an attempt syncs.
LEMMA AttemptSyncs ==
  ASSUME TypeOK, NEW a \in Attempts, Attempt(a)
  PROVE  /\ \A b \in Attempts : durable'[b] = durable[b] \/ durable'[b] = content[b]
         /\ pc'[a] = "slotSynced" => durable'[a] = content[a]
  <1> USE DEF TypeOK, Fail, Goto, dirVars, inodeVars, stageVars, attemptRest
  <1>1. CASE Check(a) \/ Create(a) \/ Write(a) \/ SyncNew(a)
    BY <1>1 DEF Check, Create, Write, SyncNew
  <1>2. CASE MakeStage(a) \/ OpenPreparing(a) \/ RecordStage(a) \/ SyncStage(a)
    BY <1>2 DEF MakeStage, OpenPreparing, RecordStage, SyncStage
  <1>3. CASE VerifyOutput(a) \/ RecordOutput(a) \/ Seal(a) \/ (\E o \in Detailed : NewOutput(a, o))
    BY <1>3 DEF VerifyOutput, RecordOutput, Seal, NewOutput
  <1>4. CASE VerifyPhase(a) \/ WriteSlot(a) \/ SyncSlot(a)
    BY <1>4 DEF VerifyPhase, Ready, WriteSlot, SyncSlot
  <1>5. CASE ConfirmPhase(a)
    BY <1>5 DEF ConfirmPhase
  <1>6. CASE PublishFails(a) \/ Save(a) \/ Abandon(a)
    BY <1>6 DEF PublishFails, Save, Abandon
  <1>7. CASE (\E o \in Items : Publish(a, o))
    BY <1>7 DEF Publish
  <1> QED
    BY <1>1, <1>2, <1>3, <1>4, <1>5, <1>6, <1>7 DEF Attempt

\* How far a step of an attempt gets.
LEMMA AttemptPasses ==
  ASSUME TypeOK, NEW a \in Attempts, Attempt(a)
  PROVE  /\ \A b \in Attempts \ {a} : pc'[b] = pc[b] /\ passed'[b] = passed[b]
         /\ passed'[a] # passed[a] => pc[a] = "slotSynced" /\ passed'[a] = passed[a] + 1
                                        /\ content[a].slots = passed[a] + 1
         /\ pc'[a] = "slotWritten" <=> pc[a] = "verified"
         /\ pc'[a] = "slotSynced" <=> pc[a] = "slotWritten"
         /\ pc'[a] \in {"slotWritten", "slotSynced"} => passed'[a] = passed[a]
  <1> USE DEF TypeOK, InPhase, Fail, Goto, dirVars, inodeVars, stageVars, attemptRest
  <1>1. CASE Check(a) \/ Create(a) \/ Write(a) \/ SyncNew(a)
    BY <1>1 DEF Check, Create, Write, SyncNew
  <1>2. CASE MakeStage(a) \/ OpenPreparing(a) \/ RecordStage(a) \/ SyncStage(a)
    BY <1>2 DEF MakeStage, OpenPreparing, RecordStage, SyncStage
  <1>3. CASE VerifyOutput(a) \/ RecordOutput(a) \/ Seal(a) \/ (\E o \in Detailed : NewOutput(a, o))
    BY <1>3 DEF VerifyOutput, RecordOutput, Seal, NewOutput
  <1>4. CASE VerifyPhase(a) \/ WriteSlot(a) \/ SyncSlot(a)
    BY <1>4 DEF VerifyPhase, Ready, WriteSlot, SyncSlot
  <1>5. CASE ConfirmPhase(a)
    BY <1>5 DEF ConfirmPhase
  <1>6. CASE PublishFails(a) \/ Save(a) \/ Abandon(a)
    BY <1>6 DEF PublishFails, Save, Abandon
  <1>7. CASE (\E o \in Items : Publish(a, o))
    BY <1>7 DEF Publish
  <1> QED
    BY <1>1, <1>2, <1>3, <1>4, <1>5, <1>6, <1>7 DEF Attempt

LEMMA AttemptSlots ==
  ASSUME TypeOK, SlotsApplied, NEW a \in Attempts, Attempt(a)
  PROVE  SlotsApplied'
  <1>1. \A b \in Attempts : content[b].slots \in Nat /\ durable[b].slots \in Nat /\ passed[b] \in Nat

    <2>1. \A b \in Attempts : content[b] \in Contents /\ durable[b] \in Contents /\ passed[b] \in 0..5
      BY DEF TypeOK, Preparing, Finished
    <2> QED
      BY <2>1 DEF Contents, Preparing, Finished
  <1>2. pc[a] = "slotWritten" => pc[a] # "verified"
    OBVIOUS
  <1> QED
    BY <1>1, <1>2, AttemptFillsSlots, AttemptSyncs, AttemptPasses DEF SlotsApplied

LEMMA AttemptAtPath ==
  ASSUME TypeOK, Progress, SlotsApplied, MarkerAtPath, NEW a \in Attempts, Attempt(a)
  PROVE  MarkerAtPath'
  <1> USE DEF MarkerAtPath, Owing, Undisturbed, SlotsApplied, Progress, AtPath, TypeOK, Fail, Goto, dirVars, inodeVars, stageVars, attemptRest, actorVars, histVars, Preparing, Prepared, Committing, StateSave, Finished, Committed
  <1>1. CASE Check(a) \/ Create(a) \/ Write(a) \/ SyncNew(a)
    BY <1>1, NoneIsNoActor DEF Check, Create, Write, SyncNew
  <1>2. CASE MakeStage(a) \/ OpenPreparing(a) \/ RecordStage(a) \/ SyncStage(a)
    BY <1>2 DEF MakeStage, OpenPreparing, RecordStage, SyncStage
  <1>3. CASE VerifyOutput(a) \/ RecordOutput(a) \/ Seal(a) \/ (\E o \in Detailed : NewOutput(a, o))
    BY <1>3 DEF VerifyOutput, RecordOutput, Seal, NewOutput
  <1>4. CASE VerifyPhase(a) \/ WriteSlot(a) \/ SyncSlot(a)
    BY <1>4 DEF VerifyPhase, Ready, WriteSlot, SyncSlot
  <1>5. CASE ConfirmPhase(a)
    BY <1>5 DEF ConfirmPhase
  <1>6. CASE PublishFails(a) \/ Save(a) \/ Abandon(a)
    BY <1>6 DEF PublishFails, Save, Abandon
  <1>7. CASE (\E o \in Items : Publish(a, o))
    BY <1>7 DEF Publish
  <1> QED
    BY <1>1, <1>2, <1>3, <1>4, <1>5, <1>6, <1>7 DEF Attempt

LEMMA AttemptOnDisk ==
  ASSUME TypeOK, Progress, SlotsApplied, MarkerOnDisk, NEW a \in Attempts, Attempt(a)
  PROVE  MarkerOnDisk'
  <1> USE DEF MarkerOnDisk, NoClear, Begun, Owing, Undisturbed, Progress, AtPath, TypeOK, Fail, Goto, dirVars, inodeVars, stageVars, attemptRest, actorVars, histVars, Preparing, Prepared, Committing, StateSave, Finished, Committed
  <1>1. CASE Check(a) \/ Create(a) \/ Write(a) \/ SyncNew(a)
    BY <1>1, NoneIsNoActor DEF Check, Create, Write, SyncNew
  <1>2. CASE MakeStage(a) \/ OpenPreparing(a) \/ RecordStage(a) \/ SyncStage(a)
    BY <1>2 DEF MakeStage, OpenPreparing, RecordStage, SyncStage
  <1>3. CASE VerifyOutput(a) \/ RecordOutput(a) \/ Seal(a) \/ (\E o \in Detailed : NewOutput(a, o))
    BY <1>3 DEF VerifyOutput, RecordOutput, Seal, NewOutput
  <1>4. CASE VerifyPhase(a) \/ WriteSlot(a) \/ SyncSlot(a)
    BY <1>4 DEF VerifyPhase, Ready, WriteSlot, SyncSlot
  <1>5. CASE ConfirmPhase(a)
    BY <1>5 DEF ConfirmPhase
  <1>6. CASE PublishFails(a) \/ Save(a) \/ Abandon(a)
    BY <1>6 DEF PublishFails, Save, Abandon
  <1>7. CASE (\E o \in Items : Publish(a, o))
    BY <1>7 DEF Publish
  <1> QED
    BY <1>1, <1>2, <1>3, <1>4, <1>5, <1>6, <1>7 DEF Attempt
-----------------------------------------------------------------------------
(* Steps of the quarantine *)

LEMMA QuarantineFrame ==
  ASSUME NEW x \in Actors, Quarantine(x)
  PROVE  UNCHANGED <<inodeVars, attemptVars>>
  BY DEF Quarantine, QOpen, QRename, QVerify, QRead, QClean, QRecheck, QUnlink, QRestoreCheck, QRestore, QSync,
         quarRest

LEMMA QuarantineProgress ==
  ASSUME Progress, SlotsApplied, NEW x \in Actors, Quarantine(x)
  PROVE  Progress' /\ SlotsApplied'
  BY QuarantineFrame DEF Progress, SlotsApplied, inodeVars, attemptVars

LEMMA QuarantineQuarantine ==
  ASSUME TypeOK, QuarantineLate, NEW x \in Actors, Quarantine(x)
  PROVE  QuarantineLate'
  <1> USE ActorsAssumption DEF TypeOK, QuarantineLate, Active, Actors, Qgoto, Qend, Qtake, quarRest, dirVars, inodeVars, stageVars, attemptVars
  <1>1. CASE QOpen(x) \/ QVerify(x) \/ QClean(x) \/ QRecheck(x) \/ QRestoreCheck(x)
    BY <1>1 DEF QOpen, QVerify, QClean, QRecheck, QRestoreCheck, Clearing, Aborting, Finishing
  <1>2. CASE QRename(x)
    BY <1>2 DEF QRename, Clearing
  <1>3. CASE QRead(x)
    BY <1>3 DEF QRead
  <1>4. CASE QUnlink(x)
    BY <1>4 DEF QUnlink
  <1>5. CASE QRestore(x) \/ QSync(x)
    BY <1>5 DEF QRestore, QSync
  <1> QED
    BY <1>1, <1>2, <1>3, <1>4, <1>5 DEF Quarantine

LEMMA GripFields ==
  ASSUME NEW g \in Grip
  PROVE  /\ \A i : /\ [g EXCEPT !.moved = i].moved = i
                    /\ [g EXCEPT !.moved = i].held = g.held
         /\ \A c : /\ [g EXCEPT !.view = c].moved = g.moved
                    /\ [g EXCEPT !.view = c].held = g.held
  BY DEF Grip

\* What a step has in hand, and where the marker goes.
LEMMA QuarantineMoves ==
  ASSUME TypeOK, NEW x \in Actors, Quarantine(x)
  PROVE  /\ \A y \in Actors \ {x} : qpc'[y] = qpc[y] /\ grip'[y] = grip[y]
         /\ \/ /\ UNCHANGED <<at, quarantine>> /\ mayBe' \in {mayBe, {at}}
               /\ Holding(x)' => Holding(x) /\ grip'[x].moved = grip[x].moved
            \/ /\ at' = None /\ quarantine' = quarantine \cup {at} /\ mayBe' = mayBe \cup {None}
               /\ at # None /\ grip'[x].moved = at
            \/ /\ Holding(x) /\ ~Holding(x)' /\ quarantine' = quarantine \ {grip[x].moved}
               /\ at' \in {at, grip[x].moved} /\ mayBe' \in {mayBe, mayBe \cup {grip[x].moved}}
  <1> USE DEF TypeOK, Holding, Qgoto, Qend, Qtake, dirVars
  <1>1. CASE QOpen(x) \/ QVerify(x) \/ QClean(x) \/ QRecheck(x) \/ QRestoreCheck(x)
    BY <1>1 DEF QOpen, QVerify, QClean, QRecheck, QRestoreCheck
  <1>2. CASE QRename(x)
    <2>1. CASE at = None
      BY <1>2, <2>1 DEF QRename
    <2>2. CASE at # None
      <3>1. grip'[x].moved = at
        <4>1. grip' = [grip EXCEPT ![x] = [grip[x] EXCEPT !.moved = at]]
          BY <1>2, <2>2 DEF QRename
        <4> QED
          BY <4>1, GripFields
      <3> QED
        BY <1>2, <2>2, <3>1 DEF QRename
    <2> QED
      BY <2>1, <2>2
  <1>3. CASE QRead(x)
    <2>1. grip' = grip \/ grip' = [grip EXCEPT ![x] = [grip[x] EXCEPT !.view = content[grip[x].moved]]]
      BY <1>3 DEF QRead
    <2>2. grip'[x].moved = grip[x].moved
      <3>1. [grip[x] EXCEPT !.view = content[grip[x].moved]].moved = grip[x].moved
        BY GripFields
      <3> QED
        BY <2>1, <3>1
    <2>3. \A y \in Actors \ {x} : qpc'[y] = qpc[y] /\ grip'[y] = grip[y]
      BY <1>3, <2>1 DEF QRead
    <2> HIDE DEF TypeOK
    <2> QED
      BY <1>3, <2>2, <2>3 DEF QRead
  <1>4. CASE QUnlink(x)
    BY <1>4 DEF QUnlink
  <1>5. CASE QRestore(x)
    BY <1>5 DEF QRestore
  <1>6. CASE QSync(x)
    BY <1>6 DEF QSync
  <1> QED
    BY <1>1, <1>2, <1>3, <1>4, <1>5, <1>6 DEF Quarantine

LEMMA QuarantineCustody ==
  ASSUME TypeOK, Custody, NEW x \in Actors, Quarantine(x)
  PROVE  Custody'
  <1>1. UNCHANGED pc
    BY QuarantineFrame DEF attemptVars
  <1>2. \A y \in Actors \ {x} : Holding(y)' => Holding(y) /\ grip'[y] = grip[y]
    BY QuarantineMoves DEF Holding
  <1>3. CASE UNCHANGED <<at, quarantine>> /\ mayBe' \in {mayBe, {at}}
             /\ (Holding(x)' => Holding(x) /\ grip'[x].moved = grip[x].moved)
    BY <1>1, <1>2, <1>3, NoneIsNoActor DEF Custody
  <1>4. CASE at' = None /\ quarantine' = quarantine \cup {at} /\ mayBe' = mayBe \cup {None}
             /\ at # None /\ grip'[x].moved = at
    BY <1>1, <1>2, <1>4, NoneIsNoActor DEF Custody, TypeOK
  <1>5. CASE Holding(x) /\ ~Holding(x)' /\ quarantine' = quarantine \ {grip[x].moved}
             /\ at' \in {at, grip[x].moved} /\ mayBe' \in {mayBe, mayBe \cup {grip[x].moved}}
    BY <1>1, <1>2, <1>5 DEF Custody
  <1> QED
    BY <1>3, <1>4, <1>5, QuarantineMoves

LEMMA QuarantineAtPath ==
  ASSUME TypeOK, Progress, QuarantineLate, Custody, SlotsApplied, MarkerAtPath, NEW x \in Actors, Quarantine(x)
  PROVE  MarkerAtPath'
  <1> USE NoneIsNoActor DEF TypeOK, MarkerAtPath, Progress, QuarantineLate, SlotsApplied, Active, Owing, Undisturbed, Actors, Preparing, Prepared, Committing, StateSave, Committed, Finished, Qgoto, Qend, Qtake, quarRest, dirVars, inodeVars, stageVars, attemptVars
  <1>1. CASE QOpen(x) \/ QVerify(x) \/ QClean(x) \/ QRecheck(x) \/ QRestoreCheck(x)
    BY <1>1 DEF QOpen, QVerify, QClean, QRecheck, QRestoreCheck, Clearing, Aborting, Finishing
  <1>2. CASE QRename(x)
    <2> SUFFICES ASSUME NEW a \in Attempts, Owing(a)', Undisturbed(a)'
                 PROVE  at' = a
      OBVIOUS
    <2>1. Owing(a) /\ cleared \subseteq cleared' /\ strayed \subseteq strayed'
      BY <1>2 DEF QRename
    <2>2. at = a
      BY <2>1
    <2>3. content[a].slots >= Committing
      <3>1. content[a] \in Contents /\ passed[a] \in 0..5
        OBVIOUS
      <3> QED
        BY <2>1, <3>1 DEF Contents
    <2>4. qpc[x] = "open" /\ x # a
      BY <1>2, <2>1 DEF QRename
    <2>5. a \in cleared' \cup strayed'
      BY <1>2, <2>2, <2>3, <2>4, NoneIsNoActor DEF QRename, Clearing
    <2> QED
      BY <2>5
  <1>3. CASE QRead(x)
    BY <1>3 DEF QRead
  <1>4. CASE QUnlink(x)
    BY <1>4 DEF QUnlink
  <1>5. CASE QRestore(x) \/ QSync(x)
    BY <1>5 DEF QRestore, QSync
  <1> QED
    BY <1>1, <1>2, <1>3, <1>4, <1>5 DEF Quarantine

LEMMA ClearShows ==
  ASSUME TypeOK, NEW x \in Actors, Quarantine(x) \/ KillClear(x), NoClear'
  PROVE  NoClear /\ x \notin Clears
  <1>1. qpc' = [qpc EXCEPT ![x] = qpc'[x]] /\ qpc'[x] # "idle"
    BY DEF TypeOK, Quarantine, QOpen, QRename, QVerify, QRead, QClean, QRecheck, QUnlink,
           QRestoreCheck, QRestore, QSync, KillClear, Qgoto, Qend, Qtake
  <1> QED
    BY <1>1 DEF NoClear, TypeOK, Actors

LEMMA QuarantineOnDisk ==
  ASSUME TypeOK, Progress, QuarantineLate, Custody, MarkerOnDisk, NEW x \in Actors, Quarantine(x)
  PROVE  MarkerOnDisk'
  <1> SUFFICES ASSUME NoClear' PROVE MarkerOnDisk'
    BY DEF MarkerOnDisk
  <1>0. NoClear /\ x \notin Clears
    BY ClearShows
  <1> USE <1>0, NoneIsNoActor DEF TypeOK, MarkerOnDisk, Progress, QuarantineLate, Active, Begun, Owing, Undisturbed, Actors, Preparing, Prepared, Committing, StateSave, Committed, Finished, Qgoto, Qend, Qtake, quarRest, dirVars, inodeVars, stageVars, attemptVars
  <1>1. CASE QOpen(x) \/ QVerify(x) \/ QClean(x) \/ QRecheck(x) \/ QRestoreCheck(x)
    BY <1>1 DEF QOpen, QVerify, QClean, QRecheck, QRestoreCheck, Clearing, Aborting, Finishing
  <1>2. CASE QRename(x)
    BY <1>2 DEF QRename, Clearing
  <1>3. CASE QRead(x)
    BY <1>3 DEF QRead
  <1>4. CASE QUnlink(x)
    BY <1>4 DEF QUnlink
  <1>5. CASE QRestore(x) \/ QSync(x)
    BY <1>5 DEF QRestore, QSync
  <1> QED
    BY <1>1, <1>2, <1>3, <1>4, <1>5 DEF Quarantine

-----------------------------------------------------------------------------
(* Kills and power losses *)

\* After a kill the attempt is over, and what it wrote last may be torn.
LEMMA KillEffect ==
  ASSUME TypeOK, NEW a \in Attempts, Kill(a)
  PROVE  /\ \A b \in Attempts : content'[b].slots = content[b].slots /\ content'[b].staged = content[b].staged
         /\ pc' = [pc EXCEPT ![a] = "over"] /\ qpc' = [qpc EXCEPT ![a] = "end"]
         /\ grip' = [grip EXCEPT ![a] = NoGrip]
         /\ UNCHANGED <<dirVars, durable, stageVars, attemptRest, cleared, strayed>>
  <1>1. PICK c \in Partial(pc[a], content[a]) : content' = [content EXCEPT ![a] = c]
    BY DEF Kill
  <1>2. c.slots = content[a].slots /\ c.staged = content[a].staged
    <2>1. content[a] \in Contents
      BY DEF TypeOK
    <2> QED
      BY <2>1 DEF Partial, Contents
  <1> QED
    BY <1>1, <1>2 DEF Kill, Goto, Qend, Qtake, TypeOK

LEMMA KillBase ==
  ASSUME BaseInv, NEW a \in Attempts, Kill(a)
  PROVE  BaseInv'
  <1> USE KillEffect DEF BaseInv, dirVars, stageVars, attemptRest
  <1>1. TypeOK'
    BY FaultType
  <1>2. Progress'
    BY DEF Progress, TypeOK
  <1>3. QuarantineLate'
    BY DEF QuarantineLate, TypeOK, Active, Actors
  <1>4. Custody'
    <2>1. \A y \in Actors : Holding(y)' => Holding(y) /\ grip'[y] = grip[y]
      BY DEF Holding, TypeOK
    <2> QED
      BY <2>1 DEF Custody, TypeOK
  <1>5. SlotsApplied'
    BY DEF SlotsApplied, TypeOK
  <1> QED
    BY <1>1, <1>2, <1>3, <1>4, <1>5

LEMMA KillClearBase ==
  ASSUME BaseInv, NEW x \in Actors, KillClear(x)
  PROVE  /\ BaseInv'
         /\ qpc' = [qpc EXCEPT ![x] = "end"] /\ grip' = [grip EXCEPT ![x] = NoGrip]
         /\ UNCHANGED <<dirVars, inodeVars, stageVars, attemptVars, cleared, strayed>>
  <1> USE DEF BaseInv
  <1>1. TypeOK'
    BY FaultType
  <1>2. /\ qpc' = [qpc EXCEPT ![x] = "end"] /\ grip' = [grip EXCEPT ![x] = NoGrip]
        /\ UNCHANGED <<dirVars, inodeVars, stageVars, attemptVars, cleared, strayed>>
    BY DEF KillClear, Qend, Qtake
  <1>3. Progress' /\ SlotsApplied'
    BY <1>2 DEF Progress, SlotsApplied, inodeVars, attemptVars
  <1>4. QuarantineLate'
    BY <1>2 DEF QuarantineLate, TypeOK, Active, attemptVars
  <1>5. Custody'
    <2>1. \A y \in Actors : Holding(y)' => Holding(y) /\ grip'[y] = grip[y]
      BY <1>2 DEF Holding, TypeOK
    <2> QED
      BY <1>2, <2>1 DEF Custody, dirVars, attemptVars
  <1> QED
    BY <1>1, <1>2, <1>3, <1>4, <1>5

\* After a power loss every attempt that had begun is over, and a file that may
\* be found has what it had when it was last synced, or what it had at the end.
LEMMA PowerLossEffect ==
  ASSUME TypeOK, PowerLoss
  PROVE  /\ PowerMayFail /\ at' \in mayBe /\ mayBe' = {at'}
         /\ quarantine' = (quarantine \cup (mayBe \ {None})) \ {at'}
         /\ durable' = content'
         /\ \A a \in Attempts : pc'[a] = (IF pc[a] = "idle" THEN "idle" ELSE "over")
         /\ \A x \in Actors : qpc'[x] \in {"idle", "end"}
         /\ \A a \in Attempts :
              /\ content'[a].slots \in {durable[a].slots, content[a].slots}
              /\ content'[a].staged \in {durable[a].staged, content[a].staged}
              /\ a \notin quarantine \cup mayBe => content'[a] = content[a]
         /\ UNCHANGED <<stageVars, attemptRest, cleared, strayed>>
  <1>1. ASSUME NEW a \in Attempts
        PROVE  /\ content'[a].slots \in {durable[a].slots, content[a].slots}
               /\ content'[a].staged \in {durable[a].staged, content[a].staged}
    <2>1. content[a] \in Contents /\ durable[a] \in Contents
      BY DEF TypeOK
    <2>2. content'[a] \in Survives(durable[a], content[a]) \/ content'[a] = content[a]
      BY DEF PowerLoss
    <2> QED
      BY <2>1, <2>2 DEF Survives, Contents
  <1>2. \A a \in Attempts : a \notin quarantine \cup mayBe => content'[a] = content[a]
    BY DEF PowerLoss
  <1> QED
    BY <1>1, <1>2 DEF PowerLoss

LEMMA PowerLossBase ==
  ASSUME BaseInv, PowerLoss
  PROVE  BaseInv'
  <1> USE PowerLossEffect DEF BaseInv, attemptRest
  <1>1. TypeOK'
    BY FaultType
  <1>2. Progress'
    BY DEF Progress
  <1>3. QuarantineLate'
    BY DEF QuarantineLate, Active, Actors
  <1>4. Custody'
    BY NoneIsNoActor DEF Custody, Holding
  <1>5. SlotsApplied'
    BY DEF SlotsApplied
  <1> QED
    BY <1>1, <1>2, <1>3, <1>4, <1>5

LEMMA FaultOnDisk ==
  ASSUME BaseInv, MarkerOnDisk,
         (\E a \in Attempts : Kill(a)) \/ (\E x \in Actors : KillClear(x)) \/ PowerLoss
  PROVE  MarkerOnDisk'
  <1> SUFFICES ASSUME NoClear' PROVE MarkerOnDisk'
    BY DEF MarkerOnDisk
  <1> USE DEF MarkerOnDisk, Owing, Undisturbed, Begun
  <1>1. ASSUME NEW a \in Attempts, Kill(a)
        PROVE  MarkerOnDisk'
    <2>1. NoClear
      BY <1>1, KillEffect, ActorsAssumption DEF BaseInv, TypeOK, NoClear, Actors
    <2> QED
      BY <1>1, <2>1, KillEffect DEF BaseInv, TypeOK, dirVars, attemptRest
  <1>2. ASSUME NEW x \in Actors, KillClear(x)
        PROVE  MarkerOnDisk'
    <2>1. NoClear
      BY <1>2, ClearShows DEF BaseInv
    <2> QED
      BY <1>2, <2>1, KillClearBase DEF dirVars, attemptVars
  <1>3. CASE PowerLoss
    <2>1. NoClear
      BY <1>3, ActorsAssumption DEF PowerLoss, NoClear, Actors, BaseInv, TypeOK
    <2> QED
      BY <1>3, <2>1, PowerLossEffect DEF BaseInv, attemptRest
  <1> QED
    BY <1>1, <1>2, <1>3

LEMMA FaultAtPath ==
  ASSUME GuardInv, PowerOrClears,
         (\E a \in Attempts : Kill(a)) \/ (\E x \in Actors : KillClear(x)) \/ PowerLoss
  PROVE  MarkerAtPath'
  <1> USE DEF GuardInv, MarkerAtPath, MarkerOnDisk, Owing, Undisturbed, Begun
  <1>1. ASSUME NEW a \in Attempts, Kill(a)
        PROVE  MarkerAtPath'
    BY <1>1, KillEffect DEF BaseInv, TypeOK, dirVars, attemptRest
  <1>2. ASSUME NEW x \in Actors, KillClear(x)
        PROVE  MarkerAtPath'
    BY <1>2, KillClearBase DEF dirVars, attemptVars
  <1>3. CASE PowerLoss
    <2>1. NoClear
      BY <1>3 DEF PowerLoss, PowerOrClears, NoClear
    <2> QED
      BY <1>3, <2>1, PowerLossEffect DEF BaseInv, attemptRest
  <1> QED
    BY <1>1, <1>2, <1>3

-----------------------------------------------------------------------------
(* The inductive invariant of the removal *)

\* Outputs are only staged when the marker says so, also on the disk.
Unstaged == {"idle", "checked", "created", "written", "begun"}
Unrecorded == Unstaged \cup {"stageMade", "recordStage", "syncStage"}
Staging == {"staging", "recordOutput", "append"}
StagingRecorded ==
  \A a \in Attempts :
    /\ pc[a] \in Unstaged => stage[a] = "none"
    /\ pc[a] \in Unrecorded => files[a] = {}
    /\ pc[a] = "syncStage" => content[a].staged
    /\ pc[a] \in Staging \/ files[a] # {} =>
         content[a].staged /\ durable[a].staged
    /\ stage[a] = "gone" /\ passed[a] <= Prepared => files[a] = {}

\* What a process that has taken a marker knows of it.
SizeStaged(g) == g.size[2]
GripTrue ==
  \A x \in Actors :
    /\ qpc[x] \in {"quarantined", "read", "cleaned", "checked"} => grip[x].moved = grip[x].held
    /\ Active(x) /\ x \in Attempts /\ pc[x] = "finish" => grip[x].held = x
    /\ qpc[x] = "cleaned" => ~grip[x].view.staged \/ stage[grip[x].moved] = "gone"
    /\ qpc[x] = "checked" =>
         \/ content[grip[x].moved].slots > Prepared
         \/ ~SizeStaged(grip[x]) \/ stage[grip[x].moved] = "gone"

\* A marker removed before its commit has no outputs, and none can follow.
RemovedForGood ==
  /\ at \in mayBe
  /\ \A a \in Attempts :
       content[a].slots <= Prepared /\ at # a /\ a \notin quarantine \cup strayed =>
         /\ files[a] = {}
         /\ pc[a] \in Staging => stage[a] = "gone"

CleanInv == BaseInv /\ StagingRecorded /\ GripTrue /\ RemovedForGood


\* What a step of an attempt does to its staging directory, ...
LEMMA AttemptStages ==
  ASSUME TypeOK, NEW a \in Attempts, Attempt(a)
  PROVE  /\ \A b \in Attempts \ {a} : stage'[b] = stage[b]
         /\ stage'[a] = stage[a] \/ stage'[a] = "gone" \/ (pc[a] = "begun" /\ pc'[a] = "stageMade")
         /\ stage'[a] = "gone" => \/ stage[a] = "gone" \/ passed[a] > Prepared
                                  \/ pc[a] \in {"stageMade", "syncStage"}
  <1> USE DEF TypeOK, Prepared, Committing, Fail, Goto, dirVars, inodeVars, stageVars, attemptRest
  <1>1. CASE Check(a) \/ Create(a) \/ Write(a) \/ SyncNew(a)
    BY <1>1 DEF Check, Create, Write, SyncNew
  <1>2. CASE MakeStage(a) \/ OpenPreparing(a) \/ RecordStage(a) \/ SyncStage(a)
    BY <1>2 DEF MakeStage, OpenPreparing, RecordStage, SyncStage
  <1>3. CASE VerifyOutput(a) \/ RecordOutput(a) \/ Seal(a) \/ (\E o \in Detailed : NewOutput(a, o))
    BY <1>3 DEF VerifyOutput, RecordOutput, Seal, NewOutput
  <1>4. CASE VerifyPhase(a) \/ WriteSlot(a) \/ SyncSlot(a)
    BY <1>4 DEF VerifyPhase, Ready, WriteSlot, SyncSlot
  <1>5. CASE ConfirmPhase(a)
    BY <1>5 DEF ConfirmPhase
  <1>6. CASE PublishFails(a) \/ Save(a) \/ Abandon(a)
    BY <1>6 DEF PublishFails, Save, Abandon
  <1>7. CASE (\E o \in Items : Publish(a, o))
    BY <1>7 DEF Publish
  <1> QED
    BY <1>1, <1>2, <1>3, <1>4, <1>5, <1>6, <1>7 DEF Attempt

\* ... to what is in it, ...
LEMMA AttemptFiles ==
  ASSUME TypeOK, NEW a \in Attempts, Attempt(a)
  PROVE  /\ \A b \in Attempts \ {a} : files'[b] = files[b]
         /\ files'[a] \subseteq files[a] \/ (pc[a] = "staging" /\ stage[a] = "made")
  <1> USE DEF TypeOK, Fail, Goto, dirVars, inodeVars, stageVars, attemptRest
  <1>1. CASE Check(a) \/ Create(a) \/ Write(a) \/ SyncNew(a)
    BY <1>1 DEF Check, Create, Write, SyncNew
  <1>2. CASE MakeStage(a) \/ OpenPreparing(a) \/ RecordStage(a) \/ SyncStage(a)
    BY <1>2 DEF MakeStage, OpenPreparing, RecordStage, SyncStage
  <1>3. CASE VerifyOutput(a) \/ RecordOutput(a) \/ Seal(a) \/ (\E o \in Detailed : NewOutput(a, o))
    BY <1>3 DEF VerifyOutput, RecordOutput, Seal, NewOutput
  <1>4. CASE VerifyPhase(a) \/ WriteSlot(a) \/ SyncSlot(a)
    BY <1>4 DEF VerifyPhase, Ready, WriteSlot, SyncSlot
  <1>5. CASE ConfirmPhase(a)
    BY <1>5 DEF ConfirmPhase
  <1>6. CASE PublishFails(a) \/ Save(a) \/ Abandon(a)
    BY <1>6 DEF PublishFails, Save, Abandon
  <1>7. CASE (\E o \in Items : Publish(a, o))
    BY <1>7 DEF Publish
  <1> QED
    BY <1>1, <1>2, <1>3, <1>4, <1>5, <1>6, <1>7 DEF Attempt

\* ... and how it comes to staging.
LEMMA AttemptComesToStaging ==
  ASSUME TypeOK, NEW a \in Attempts, Attempt(a)
  PROVE  /\ pc'[a] \in Unstaged =>
              pc[a] \in {"idle", "checked", "created", "written"} /\ stage'[a] = stage[a]
         /\ pc'[a] \in Unrecorded => pc[a] \in Unrecorded
         /\ pc'[a] = "syncStage" => pc[a] = "recordStage"
         /\ pc'[a] \in Staging =>
              \/ pc[a] \in Staging
              \/ pc[a] = "syncStage" /\ at = a /\ durable'[a] = content[a]
  <1> USE DEF TypeOK, AtPath, Pc, Unstaged, Unrecorded, Staging, Fail, Goto, dirVars, inodeVars, stageVars, attemptRest
  <1>1. CASE Check(a) \/ Create(a) \/ Write(a) \/ SyncNew(a)
    BY <1>1 DEF Check, Create, Write, SyncNew
  <1>2. CASE MakeStage(a) \/ OpenPreparing(a) \/ RecordStage(a) \/ SyncStage(a)
    BY <1>2 DEF MakeStage, OpenPreparing, RecordStage, SyncStage
  <1>3. CASE VerifyOutput(a) \/ RecordOutput(a) \/ Seal(a) \/ (\E o \in Detailed : NewOutput(a, o))
    BY <1>3 DEF VerifyOutput, RecordOutput, Seal, NewOutput
  <1>4. CASE VerifyPhase(a) \/ WriteSlot(a) \/ SyncSlot(a)
    BY <1>4 DEF VerifyPhase, Ready, WriteSlot, SyncSlot
  <1>5. CASE ConfirmPhase(a)
    BY <1>5 DEF ConfirmPhase
  <1>6. CASE PublishFails(a) \/ Save(a) \/ Abandon(a)
    BY <1>6 DEF PublishFails, Save, Abandon
  <1>7. CASE (\E o \in Items : Publish(a, o))
    BY <1>7 DEF Publish
  <1> QED
    BY <1>1, <1>2, <1>3, <1>4, <1>5, <1>6, <1>7 DEF Attempt

\* A file without staging in it has no outputs, for its owner has not come to
\* staging, or has had its directory removed.
LEMMA AttemptStaging ==
  ASSUME TypeOK, SlotsApplied, StagingRecorded, NEW a \in Attempts, Attempt(a)
  PROVE  StagingRecorded'
  <1>1. ASSUME NEW b \in Attempts, b # a
        PROVE  /\ pc'[b] = pc[b] /\ passed'[b] = passed[b] /\ stage'[b] = stage[b] /\ files'[b] = files[b]
               /\ content[b].staged => content'[b].staged
               /\ content[b].staged /\ durable[b].staged => durable'[b].staged
    BY <1>1, AttemptPasses, AttemptStages, AttemptFiles, AttemptRecordsStage, AttemptSyncs
  <1>2. /\ content[a].staged => content'[a].staged
        /\ content[a].staged /\ durable[a].staged => durable'[a].staged
        /\ pc[a] = "recordStage" => content'[a].staged
    BY AttemptRecordsStage, AttemptSyncs
  <1>3. /\ pc'[a] \in Unstaged => stage'[a] = "none"
        /\ pc'[a] = "syncStage" => content'[a].staged
        /\ pc'[a] \in Staging => content'[a].staged /\ durable'[a].staged
    BY <1>2, AttemptComesToStaging DEF StagingRecorded, Unstaged
  <1>4. /\ files'[a] # {} => content'[a].staged /\ durable'[a].staged
        /\ pc'[a] \in Unrecorded => files'[a] = {}
    BY <1>2, AttemptFiles, AttemptComesToStaging DEF StagingRecorded, Staging, Unrecorded, Unstaged
  <1>5. stage'[a] = "gone" /\ passed'[a] <= Prepared => files'[a] = {}
    <2>1. passed'[a] <= Prepared => passed[a] <= Prepared /\ ~(passed[a] > Prepared)
      <3>1. passed[a] \in Nat
        BY DEF TypeOK, Preparing, Finished
      <3>2. passed'[a] \in {passed[a], passed[a] + 1}
        BY AttemptPasses
      <3> QED
        BY <3>1, <3>2 DEF Prepared
    <2>2. pc[a] \in {"stageMade", "syncStage"} => files[a] = {}
      BY DEF StagingRecorded, Unrecorded
    <2> QED
      BY <2>1, <2>2, AttemptStages, AttemptFiles DEF StagingRecorded
  <1> QED
    BY <1>1, <1>3, <1>4, <1>5 DEF StagingRecorded

\* What is said of a marker taken off its path stays true while its owner works.
LEMMA AttemptGrip ==
  ASSUME TypeOK, Progress, QuarantineLate, Custody, SlotsApplied, StagingRecorded, GripTrue,
         NEW a \in Attempts, Attempt(a)
  PROVE  GripTrue'
  <1>1. UNCHANGED <<qpc, grip>>
    BY DEF Attempt, Check, Create, Write, SyncNew, MakeStage, OpenPreparing, RecordStage, SyncStage, NewOutput,
       VerifyOutput, RecordOutput, Seal, VerifyPhase, WriteSlot, SyncSlot, ConfirmPhase, Publish, PublishFails,
       Save, Abandon, actorVars
  <1>2. \A b \in Attempts : stage[b] = "gone" => stage'[b] = "gone"
    BY AttemptStages DEF StagingRecorded, Unstaged
  <1>3. \A b \in Attempts : content[b].slots > Prepared => content'[b].slots > Prepared
    <2> TAKE b \in Attempts
    <2>1. passed[b] \in 0..5
      BY DEF TypeOK, Preparing, Finished
    <2> QED
      BY <2>1, AttemptFillsSlots DEF SlotsApplied, Prepared
  <1>4. \A b \in Attempts : Active(b) /\ pc'[b] = "finish" => pc[b] = "finish"
    <2>1. Active(a) => pc[a] \in {"abort", "finish"}
      BY DEF QuarantineLate
    <2>2. pc[a] \notin {"abort", "finish"}
      BY DEF Attempt, Check, Create, Write, SyncNew, MakeStage, OpenPreparing, RecordStage, SyncStage, NewOutput,
         VerifyOutput, RecordOutput, Seal, VerifyPhase, WriteSlot, SyncSlot, ConfirmPhase, Publish, PublishFails,
         Save, Abandon
    <2> QED
      BY <2>1, <2>2, AttemptPasses
  <1>5. \A x \in Actors : Holding(x) => grip[x].moved \in Attempts
    BY DEF Custody, TypeOK
  <1> QED
    BY <1>1, <1>2, <1>3, <1>4, <1>5 DEF GripTrue, Holding, Active

\* A marker that is gone does not come back by a step of an attempt.
LEMMA AttemptRemoved ==
  ASSUME TypeOK, Progress, Custody, SlotsApplied, StagingRecorded, RemovedForGood, NEW a \in Attempts, Attempt(a)
  PROVE  RemovedForGood'
  <1>1. UNCHANGED <<quarantine, strayed>>
    BY DEF Attempt, Check, Create, Write, SyncNew, MakeStage, OpenPreparing, RecordStage, SyncStage, NewOutput,
       VerifyOutput, RecordOutput, Seal, VerifyPhase, WriteSlot, SyncSlot, ConfirmPhase, Publish, PublishFails,
       Save, Abandon, dirVars, histVars
  <1>2. at' \in mayBe' /\ (at' = at \/ at = None)
    BY DEF Attempt, Check, Create, Write, SyncNew, MakeStage, OpenPreparing, RecordStage, SyncStage, NewOutput,
       VerifyOutput, RecordOutput, Seal, VerifyPhase, WriteSlot, SyncSlot, ConfirmPhase, Publish, PublishFails,
       Save, Abandon, dirVars, RemovedForGood
  <1> SUFFICES ASSUME NEW b \in Attempts, content'[b].slots <= Prepared, at' # b,
                      b \notin quarantine' \cup strayed'
               PROVE  files'[b] = {} /\ (pc'[b] \in Staging => stage'[b] = "gone")
    BY <1>2 DEF RemovedForGood
  <1>3. content[b].slots <= Prepared
    <2>1. passed[b] \in 0..5
      BY DEF TypeOK, Preparing, Finished
    <2> QED
      BY <2>1, AttemptFillsSlots DEF SlotsApplied, Prepared
  <1>4. files[b] = {} /\ (pc[b] \in Staging => stage[b] = "gone") /\ at # b
    BY <1>1, <1>2, <1>3, NoneIsNoActor DEF RemovedForGood
  <1>5. CASE b # a
    BY <1>4, <1>5, AttemptPasses, AttemptStages, AttemptFiles
  <1>6. CASE b = a
    BY <1>4, <1>6, AttemptComesToStaging, AttemptStages, AttemptFiles DEF Staging
  <1> QED
    BY <1>5, <1>6

\* A process that takes markers removes the staging directory of the one it
\* holds, with the outputs, or leaves all directories alone.
LEMMA QuarantineStages ==
  ASSUME TypeOK, NEW x \in Actors, Quarantine(x)
  PROVE  \A b \in Attempts : \/ stage'[b] = stage[b] /\ files'[b] = files[b]
                             \/ stage[b] = "made" /\ stage'[b] = "gone" /\ files'[b] = {}
  BY DEF TypeOK, Quarantine, QOpen, QRename, QVerify, QRead, QClean, Cleaned, QRecheck, QUnlink, QRestoreCheck,
         QRestore, QSync, stageVars

LEMMA QuarantineStaging ==
  ASSUME TypeOK, StagingRecorded, NEW x \in Actors, Quarantine(x)
  PROVE  StagingRecorded'
  <1>1. UNCHANGED <<content, durable, pc, passed>>
    BY QuarantineFrame DEF inodeVars, attemptVars
  <1> QED
    BY <1>1, QuarantineStages DEF StagingRecorded

LEMMA QuarantineGrip ==
  ASSUME TypeOK, Progress, QuarantineLate, Custody, SlotsApplied, StagingRecorded, GripTrue,
         NEW x \in Actors, Quarantine(x)
  PROVE  GripTrue'
  <1>1. UNCHANGED <<content, durable, pc, passed>>
    BY QuarantineFrame DEF inodeVars, attemptVars
  <1>2. \A b \in Attempts : stage[b] = "gone" => stage'[b] = "gone"
    BY QuarantineStages
  <1>3. \A y \in Actors : Holding(y) => grip[y].moved \in Attempts
    BY DEF Custody, TypeOK
  <1>4. \A y \in Actors \ {x} : qpc'[y] = qpc[y] /\ grip'[y] = grip[y]
    BY QuarantineMoves
  <1> DEFINE True(y) ==
        /\ qpc[y] \in {"quarantined", "read", "cleaned", "checked"} => grip[y].moved = grip[y].held
        /\ Active(y) /\ y \in Attempts /\ pc[y] = "finish" => grip[y].held = y
        /\ qpc[y] = "cleaned" => ~grip[y].view.staged \/ stage[grip[y].moved] = "gone"
        /\ qpc[y] = "checked" =>
             \/ content[grip[y].moved].slots > Prepared
             \/ ~SizeStaged(grip[y]) \/ stage[grip[y].moved] = "gone"
  <1>5. ASSUME NEW y \in Actors, y # x
        PROVE  True(y)'
    BY <1>1, <1>2, <1>3, <1>4, <1>5 DEF GripTrue, Active, Holding
  <1>6. True(x)
    BY DEF GripTrue
  <1>7. True(x)'
    <2>1. CASE QOpen(x)
      <3>1. qpc'[x] = "open" => grip'[x].held = at
        <4>1. [NoGrip EXCEPT !.held = at, !.size = Size(content[at])].held = at
          BY DEF NoGrip
        <4> QED
          BY <2>1, <4>1 DEF QOpen, Qtake, Qend, TypeOK
      <3>2. qpc'[x] \in {"open", "end"}
        BY <2>1 DEF QOpen, Qtake, Qend, TypeOK
      <3>3. qpc'[x] = "open" /\ x \in Attempts /\ pc[x] = "finish" => at = x
        BY <2>1 DEF QOpen, Qtake, Qend, TypeOK, Finishing
      <3> QED
        BY <1>1, <3>1, <3>2, <3>3 DEF Active
    <2>2. CASE QRename(x)
      <3>1. CASE at = None
        BY <2>2, <3>1 DEF QRename, Qtake, Qend, TypeOK, Active
      <3>2. CASE at # None
        <4>1. qpc'[x] = "moved" /\ grip'[x] = [grip[x] EXCEPT !.moved = at]
          BY <2>2, <3>2 DEF QRename, Qtake, TypeOK
        <4>2. grip'[x].held = grip[x].held
          BY <4>1, GripFields DEF TypeOK
        <4>3. qpc[x] = "open"
          BY <2>2 DEF QRename
        <4> QED
          BY <1>1, <1>6, <4>1, <4>2, <4>3 DEF Active
      <3> QED
        BY <3>1, <3>2
    <2>3. CASE QVerify(x)
      <3>1. qpc[x] = "moved" /\ grip' = grip /\ qpc'[x] \in {"quarantined", "restoreComponent"}
            /\ (qpc'[x] = "quarantined" => grip[x].moved = grip[x].held)
        BY <2>3 DEF QVerify, Qgoto, TypeOK, Intact
      <3> QED
        BY <1>1, <1>6, <3>1 DEF Active
    <2>4. CASE QRead(x)
      <3>1. qpc[x] = "quarantined" /\ grip[x].moved = grip[x].held
        BY <2>4, <1>6 DEF QRead
      <3>2. CASE qpc'[x] = "read"
        <4>1. grip'[x] = [grip[x] EXCEPT !.view = content[grip[x].moved]]
          BY <2>4, <3>2 DEF QRead, Qgoto, Qtake, TypeOK
        <4>2. grip'[x].held = grip[x].held /\ grip'[x].moved = grip[x].moved
          BY <4>1, GripFields DEF TypeOK
        <4> QED
          BY <1>1, <1>6, <3>1, <3>2, <4>2 DEF Active
      <3>3. CASE qpc'[x] = "checked" /\ grip' = grip
        <4>1. CASE Finishing(x)
          <5>1. grip[x].moved = x /\ passed[x] = Finished
            BY <1>6, <3>1, <4>1 DEF Finishing, Active, Progress
          <5>2. content[x].slots > Prepared
            BY <4>1, <5>1 DEF SlotsApplied, Finishing, Prepared, Finished
          <5> QED
            BY <1>1, <1>6, <3>1, <3>3, <5>1, <5>2 DEF Active
        <4>2. CASE ~Finishing(x)
          <5>1. content[grip[x].moved].slots > Prepared
            BY <2>4, <3>3, <4>2 DEF QRead, Qgoto, Qtake, TypeOK
          <5> QED
            BY <1>1, <1>6, <3>1, <3>3, <5>1 DEF Active
        <4> QED
          BY <4>1, <4>2
      <3>4. CASE qpc'[x] = "restore" /\ grip' = grip
        BY <1>1, <1>6, <3>1, <3>4 DEF Active
      <3> QED
        BY <2>4, <3>2, <3>3, <3>4 DEF QRead, Qgoto, Qtake, TypeOK
    <2>5. CASE QClean(x)
      <3>1. qpc[x] = "read" /\ grip' = grip /\ qpc'[x] \in {"cleaned", "restore"}
        BY <2>5 DEF QClean, Qgoto, TypeOK
      <3>2. grip[x].moved \in Attempts
        BY <1>3, <3>1 DEF Holding
      <3>3. qpc'[x] = "cleaned" => ~grip[x].view.staged \/ stage'[grip[x].moved] = "gone"
        BY <2>5, <3>2, <1>2 DEF QClean, Qgoto, TypeOK, Cleaned
      <3> QED
        BY <1>1, <1>6, <3>1, <3>3 DEF Active
    <2>6. CASE QRecheck(x)
      <3>1. qpc[x] = "cleaned" /\ grip' = grip /\ stage' = stage /\ qpc'[x] \in {"checked", "restore"}
        BY <2>6 DEF QRecheck, Qgoto, TypeOK, stageVars
      <3>2. qpc'[x] = "checked" =>
              grip[x].view = content[grip[x].moved] /\ grip[x].size = Size(content[grip[x].moved])
        BY <2>6 DEF QRecheck, Qgoto, TypeOK, Intact
      <3>3. qpc'[x] = "checked" /\ ~grip[x].view.staged => ~SizeStaged(grip[x])
        BY <3>2 DEF Size, SizeStaged
      <3> QED
        BY <1>1, <1>6, <3>1, <3>3 DEF Active
    <2>7. CASE QUnlink(x) \/ QRestoreCheck(x) \/ QRestore(x) \/ QSync(x)
      <3>1. qpc'[x] \in {"unlinked", "restore", "restoring", "restored", "end"} /\ Active(x)
            /\ (qpc'[x] # "end" => grip' = grip)
        BY <2>7 DEF QUnlink, QRestoreCheck, QRestore, QSync, Qgoto, Qend, Qtake, TypeOK, Active
      <3> QED
        BY <1>1, <1>6, <3>1 DEF Active
    <2> QED
      BY <2>1, <2>2, <2>3, <2>4, <2>5, <2>6, <2>7 DEF Quarantine
  <1> QED
    BY <1>5, <1>7 DEF GripTrue

\* A marker leaves the path for good when it is unlinked, after its outputs.
LEMMA QuarantineRemoved ==
  ASSUME TypeOK, Progress, QuarantineLate, Custody, SlotsApplied, StagingRecorded, GripTrue, RemovedForGood,
         NEW x \in Actors, Quarantine(x)
  PROVE  RemovedForGood'
  <1>1. UNCHANGED <<content, durable, pc, passed>>
    BY QuarantineFrame DEF inodeVars, attemptVars
  <1>2. at' \in mayBe'
    BY DEF Quarantine, QOpen, QRename, QVerify, QRead, QClean, QRecheck, QUnlink, QRestoreCheck, QRestore, QSync,
           dirVars, RemovedForGood
  <1> SUFFICES ASSUME NEW b \in Attempts, content[b].slots <= Prepared, at' # b,
                      b \notin quarantine' \cup strayed'
               PROVE  files'[b] = {} /\ (pc[b] \in Staging => stage'[b] = "gone")
    BY <1>1, <1>2 DEF RemovedForGood
  <1>3. CASE at # b /\ b \notin quarantine \cup strayed
    <2>1. files[b] = {} /\ (pc[b] \in Staging => stage[b] = "gone")
      BY <1>3 DEF RemovedForGood
    <2> QED
      BY <2>1, QuarantineStages
  <1>4. CASE ~(at # b /\ b \notin quarantine \cup strayed)
    <2>1. strayed \subseteq strayed'
      BY DEF Quarantine, QOpen, QRename, QVerify, QRead, QClean, QRecheck, QUnlink, QRestoreCheck, QRestore, QSync
    <2>2. QUnlink(x) /\ grip[x].moved = b /\ Intact(x)
      BY <1>4, <2>1, NoneIsNoActor
         DEF Quarantine, QOpen, QRename, QVerify, QRead, QClean, QRecheck, QUnlink, QRestoreCheck, QRestore, QSync,
             dirVars, Qgoto
    <2>3. qpc[x] = "checked" /\ UNCHANGED stageVars
      BY <2>2 DEF QUnlink
    <2>4. ~SizeStaged(grip[x]) \/ stage[b] = "gone"
      <3>1. content[b].slots \in Nat
        <4>1. content[b] \in Contents
          BY DEF TypeOK
        <4> QED
          BY <4>1 DEF Contents, Preparing, Finished
      <3> QED
        BY <2>2, <2>3, <3>1 DEF GripTrue, Prepared
    <2>5. ~SizeStaged(grip[x]) => ~content[b].staged
      BY <2>2 DEF Intact, Size, SizeStaged
    <2>6. passed[b] <= Prepared
      <3>1. passed[b] \in 0..5
        BY DEF TypeOK, Preparing, Finished
      <3> QED
        BY <3>1 DEF SlotsApplied, Prepared
    <2> QED
      BY <2>3, <2>4, <2>5, <2>6 DEF StagingRecorded, stageVars
  <1> QED
    BY <1>3, <1>4

\* A kill and a power loss leave the staging directories as they are.
LEMMA FaultClean ==
  ASSUME CleanInv, (\E a \in Attempts : Kill(a)) \/ (\E x \in Actors : KillClear(x)) \/ PowerLoss
  PROVE  StagingRecorded' /\ GripTrue' /\ RemovedForGood'
  <1> USE DEF CleanInv
  <1>1. ASSUME NEW a \in Attempts, Kill(a)
        PROVE  StagingRecorded' /\ GripTrue' /\ RemovedForGood'
    <2> USE <1>1, KillEffect DEF BaseInv
    <2>1. StagingRecorded'
      BY DEF StagingRecorded, TypeOK, stageVars, attemptRest, Unstaged, Unrecorded, Staging
    <2>2. GripTrue'
      <3>1. \A x \in Actors : Active(x)' => Active(x) /\ qpc'[x] = qpc[x] /\ grip'[x] = grip[x]
        BY DEF Active, TypeOK
      <3>2. \A x \in Actors : Holding(x) => grip[x].moved \in Attempts
        BY DEF Custody, TypeOK
      <3> QED
        BY <3>1, <3>2 DEF GripTrue, TypeOK, Active, Holding, stageVars
    <2>3. RemovedForGood'
      BY DEF RemovedForGood, TypeOK, dirVars, stageVars, Staging
    <2> QED
      BY <2>1, <2>2, <2>3
  <1>2. ASSUME NEW x \in Actors, KillClear(x)
        PROVE  StagingRecorded' /\ GripTrue' /\ RemovedForGood'
    <2> USE <1>2, KillClearBase
    <2>1. StagingRecorded' /\ RemovedForGood'
      BY DEF StagingRecorded, RemovedForGood, dirVars, inodeVars, stageVars, attemptVars
    <2>2. GripTrue'
      <3>1. \A y \in Actors : Active(y)' => qpc'[y] = qpc[y] /\ grip'[y] = grip[y]
        BY DEF Active, BaseInv, TypeOK
      <3> QED
        BY <3>1 DEF GripTrue, Active, inodeVars, stageVars, attemptVars
    <2> QED
      BY <2>1, <2>2
  <1>3. CASE PowerLoss
    <2> USE <1>3, PowerLossEffect DEF BaseInv
    <2>1. StagingRecorded'
      BY DEF StagingRecorded, stageVars, attemptRest, Unstaged, Unrecorded, Staging
    <2>2. GripTrue'
      BY DEF GripTrue, Active
    <2>3. RemovedForGood'
      BY NoneIsNoActor DEF RemovedForGood, stageVars, Staging
    <2> QED
      BY <2>1, <2>2, <2>3
  <1> QED
    BY <1>1, <1>2, <1>3

-----------------------------------------------------------------------------
(* The theorems *)

LEMMA InitBase == Init => BaseInv
  <1> SUFFICES ASSUME Init PROVE BaseInv
    OBVIOUS
  <1>1. TypeOK
    BY InitType
  <1>2. Progress /\ QuarantineLate
    BY DEF Init, Progress, QuarantineLate, Active, Actors, Preparing, Prepared, Committing, StateSave, Finished
  <1>3. Custody
    BY NoneIsNoActor DEF Init, Custody, Holding
  <1>4. SlotsApplied
    BY DEF Init, SlotsApplied, Empty, Preparing
  <1> QED
    BY <1>1, <1>2, <1>3, <1>4 DEF BaseInv

LEMMA StepBase ==
  ASSUME BaseInv, [Next]_vars
  PROVE  BaseInv'
  <1>1. ASSUME NEW a \in Attempts, Attempt(a)
        PROVE  BaseInv'
    BY <1>1, PlainAttemptType, WritingAttemptType, AttemptProgress, AttemptQuarantine, AttemptCustody,
       AttemptSlots DEF BaseInv, Attempt
  <1>2. ASSUME NEW x \in Actors, Quarantine(x)
        PROVE  BaseInv'
    BY <1>2, QuarantineType, QuarantineProgress, QuarantineQuarantine, QuarantineCustody, QuarantineFrame DEF BaseInv, SlotsApplied,
       inodeVars, attemptVars
  <1>3. CASE UNCHANGED vars
    BY <1>3 DEF BaseInv, TypeOK, Progress, QuarantineLate, Active, Custody, Holding, SlotsApplied,
                vars, dirVars, inodeVars, stageVars, attemptVars, actorVars, histVars
  <1> QED
    BY <1>1, <1>2, <1>3, KillBase, KillClearBase, PowerLossBase DEF Next, Work

LEMMA InitGuard == Init => GuardInv
  BY InitBase DEF GuardInv, Init, MarkerAtPath, MarkerOnDisk, Owing, Begun, Preparing, Committing

LEMMA StepOnDisk ==
  ASSUME BaseInv, MarkerOnDisk, [Next]_vars
  PROVE  MarkerOnDisk'
  <1>1. ASSUME NEW a \in Attempts, Attempt(a)
        PROVE  MarkerOnDisk'
    BY <1>1, AttemptOnDisk DEF BaseInv
  <1>2. ASSUME NEW x \in Actors, Quarantine(x)
        PROVE  MarkerOnDisk'
    BY <1>2, QuarantineOnDisk DEF BaseInv
  <1>3. CASE UNCHANGED vars
    BY <1>3 DEF MarkerOnDisk, NoClear, Owing, Undisturbed, Begun, vars, dirVars, attemptVars, actorVars, histVars
  <1> QED
    BY <1>1, <1>2, <1>3, FaultOnDisk DEF Next, Work

LEMMA StepGuard ==
  ASSUME PowerOrClears, GuardInv, [Next]_vars
  PROVE  GuardInv'
  <1>1. BaseInv' /\ MarkerOnDisk'
    BY StepBase, StepOnDisk DEF GuardInv
  <1>2. ASSUME NEW a \in Attempts, Attempt(a)
        PROVE  MarkerAtPath'
    BY <1>2, AttemptAtPath DEF GuardInv, BaseInv
  <1>3. ASSUME NEW x \in Actors, Quarantine(x)
        PROVE  MarkerAtPath'
    BY <1>3, QuarantineAtPath DEF GuardInv, BaseInv
  <1>4. CASE UNCHANGED vars
    <2>1. UNCHANGED <<at, passed, saved, cleared, strayed>>
      BY <1>4 DEF vars, dirVars, attemptVars, attemptRest, histVars
    <2> QED
      BY <1>1, <2>1 DEF GuardInv, MarkerAtPath, Owing, Undisturbed
  <1> QED
    BY <1>1, <1>2, <1>3, <1>4, FaultAtPath DEF Next, Work, GuardInv

LEMMA HalfOwes ==
  ASSUME BaseInv, NEW a \in Attempts, Half(a)
  PROVE  Owing(a) /\ content[a].slots >= Committing /\ durable[a].slots >= Committing
  <1>1. Owing(a)
    BY DEF BaseInv, Progress, Half, Owing
  <1>2. content[a] \in Contents /\ durable[a] \in Contents /\ passed[a] \in 0..5
    BY DEF BaseInv, TypeOK, Preparing, Finished
  <1> QED
    BY <1>1, <1>2 DEF BaseInv, SlotsApplied, Owing, Contents, Committing, Preparing, Finished

\* TypeOK of the marker files, for any attempts, clears and faults.
THEOREM TypeCorrect == Spec => []TypeOK
  <1>1. BaseInv => TypeOK
    BY DEF BaseInv
  <1> QED
    BY <1>1, InitBase, StepBase, PTL DEF Spec

\* check_apply_attempt_clear blocks a sync while the marker path exists: so an
\* attempt that has changed the tree and not saved its snapshot has its marker
\* there at every instant, showing a commit, whatever processes are killed.
THEOREM AlwaysGuarded == ASSUME PowerOrClears PROVE Spec => []GuardedCommit
  <1>1. GuardInv => GuardedCommit
    BY HalfOwes DEF GuardInv, MarkerAtPath, Undisturbed, GuardedCommit
  <1> QED
    BY <1>1, InitGuard, StepGuard, PTL DEF Spec

\* The journal makes each phase transition durable: the power may fail at any
\* point of a commit, and the marker is found, with its phase, afterwards.
THEOREM GuardSurvivesPower == Spec => []CommitDurable
  <1>1. BaseInv /\ MarkerOnDisk => CommitDurable
    BY HalfOwes DEF MarkerOnDisk, Undisturbed, CommitDurable
  <1>2. Init => BaseInv /\ MarkerOnDisk
    BY InitGuard DEF GuardInv
  <1>3. BaseInv /\ MarkerOnDisk /\ [Next]_vars => (BaseInv /\ MarkerOnDisk)'
    BY StepBase, StepOnDisk
  <1> QED
    BY <1>1, <1>2, <1>3, PTL DEF Spec

LEMMA InitClean == Init => CleanInv
  BY InitBase DEF CleanInv, Init, StagingRecorded, GripTrue, RemovedForGood, Active, Actors, Staging

LEMMA StepClean ==
  ASSUME CleanInv, [Next]_vars
  PROVE  CleanInv'
  <1>1. BaseInv'
    BY StepBase DEF CleanInv
  <1>2. ASSUME NEW a \in Attempts, Attempt(a)
        PROVE  StagingRecorded' /\ GripTrue' /\ RemovedForGood'
    BY <1>2, AttemptStaging, AttemptGrip, AttemptRemoved DEF CleanInv, BaseInv
  <1>3. ASSUME NEW x \in Actors, Quarantine(x)
        PROVE  StagingRecorded' /\ GripTrue' /\ RemovedForGood'
    BY <1>3, QuarantineStaging, QuarantineGrip, QuarantineRemoved DEF CleanInv, BaseInv
  <1>4. CASE UNCHANGED vars
    BY <1>1, <1>4 DEF CleanInv, StagingRecorded, GripTrue, RemovedForGood, Active, vars, dirVars, inodeVars, stageVars,
                attemptVars, actorVars, histVars
  <1> QED
    BY <1>1, <1>2, <1>3, <1>4, FaultClean DEF Next, Work, CleanInv

\* cleanup_staged_precommit_stage refuses what the marker does not list: so a
\* marker taken away before its commit leaves no staged output, whoever takes
\* it, whatever is killed and wherever the power fails.
THEOREM RemovedClean == Spec => []RemovedMeansClean
  <1>1. CleanInv => RemovedMeansClean
    BY DEF CleanInv, RemovedForGood, RemovedMeansClean
  <1> QED
    BY <1>1, InitClean, StepClean, PTL DEF Spec
=============================================================================
