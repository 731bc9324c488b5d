----------------------- MODULE InterruptStateProofs -----------------------
(***************************************************************************)
(* Theorems about InterruptState, for every number of waves and of         *)
(* interrupts.  The argument is one invariant, Inv: the phase is an        *)
(* interrupted one exactly when request_interrupt has answered, and the    *)
(* sync task is at a given place only with the phases the code allows      *)
(* there.                                                                  *)
(***************************************************************************)
EXTENDS InterruptState, TLAPS

\* The waves fenced and checkpointed so far match the place of the task.
WaveCount ==
  /\ main \in {"setup", "launched", "work", "fence"} => fences = wave /\ wave < waves
  /\ main = "committed" => fences = wave + 1
  /\ main \in {"reset", "resetLoad"} => fences = wave /\ wave < waves

\* Which phases the sync task can be at, place by place.
PhaseAtMain ==
  /\ main \in {"setup", "launched", "work", "fence", "resetLoad"}
        => phase \in {"PreCommit", "CancelRequested"}
  /\ main \in {"committed", "reset"} => phase \in {"Committed", "CommittedInterrupted"}
  /\ main = "completeCas" => loaded \in {"PreCommit", "Committed", "CommittedInterrupted"}

\* The handler exchanges only from a phase that is not interrupted.
SeenAtCas == handler = "cas" => seen \notin Interrupted

\* The phase remembers that an answer was given, and which one was first.
AnswersAndPhase ==
  /\ answers # <<>> <=> phase \in Interrupted
  /\ answers # <<>> /\ answers[1] = "Cancel" => phase = "CancelRequested"

Inv == TypeOK /\ WaveCount /\ PhaseAtMain /\ SeenAtCas /\ AnswersAndPhase
         /\ SecondInterruptForces /\ CheckpointPhaseValid /\ CancelIsReported

-----------------------------------------------------------------------------
\* Appending to a sequence keeps its elements and adds one at the end.
LEMMA AppendFacts ==
  ASSUME NEW S, NEW s \in Seq(S), NEW e \in S
  PROVE  /\ Append(s, e) \in Seq(S)
         /\ Len(Append(s, e)) = Len(s) + 1
         /\ Len(s) \in Nat
         /\ \A i \in 1..Len(s) : Append(s, e)[i] = s[i]
         /\ Append(s, e)[Len(s) + 1] = e
         /\ Append(s, e) # <<>>
         /\ s # <<>> => Len(s) > 0
         /\ s = <<>> => Len(s) = 0
  OBVIOUS

\* The invariant holds before the first step.
LEMMA InitInv == Init => Inv
<1> SUFFICES ASSUME Init PROVE Inv
  OBVIOUS
<1> USE DEF Init
<1>1. answers \in Seq(Request) /\ Len(answers) = 0
  OBVIOUS
<1>2. TypeOK
  <2>1. waves \in 1..MaxWaves /\ wave \in 0..waves /\ fences \in 0..waves
        /\ signals \in Nat /\ sent \in Nat
    BY WavesAssumption
  <2>2. /\ phase \in Phase /\ seen \in Phase /\ loaded \in Phase /\ result \in Outcome
        /\ handler \in HandlerPc /\ main \in MainPc /\ group \in BOOLEAN
        /\ server \in {"none", "running", "ended", "reaped"}
    BY DEF Phase, Outcome, HandlerPc, MainPc
  <2> QED BY <1>1, <2>1, <2>2 DEF TypeOK
<1>3. WaveCount /\ PhaseAtMain /\ SeenAtCas /\ AnswersAndPhase
  BY WavesAssumption DEF WaveCount, PhaseAtMain, SeenAtCas, AnswersAndPhase, Interrupted
<1>4. SecondInterruptForces /\ CheckpointPhaseValid /\ CancelIsReported
  BY <1>1 DEF SecondInterruptForces, CheckpointPhaseValid, CancelIsReported
<1> QED BY <1>2, <1>3, <1>4 DEF Inv

\* An answer Force follows an earlier answer, so it disturbs neither the
\* first answer nor the phase.
LEMMA ForceKeepsInv ==
  ASSUME Inv, phase \in Interrupted, Running,
         answers' = Append(answers, "Force"), handler' = "killServer",
         seen' = phase, signals' \in Nat,
         UNCHANGED <<phase, sent, main, loaded, planVars, result, procVars>>
  PROVE  Inv'
<1>1. /\ answers \in Seq(Request) /\ "Force" \in Request /\ answers # <<>>
  BY DEF Inv, TypeOK, AnswersAndPhase, Request
<1>2. /\ answers' \in Seq(Request) /\ Len(answers') = Len(answers) + 1
      /\ Len(answers) \in Nat \ {0} /\ answers' # <<>>
      /\ \A i \in 1..Len(answers) : answers'[i] = answers[i]
      /\ answers'[Len(answers) + 1] = "Force"
  BY <1>1, AppendFacts
<1>3. TypeOK'
  BY <1>2 DEF Inv, TypeOK, planVars, procVars, HandlerPc
<1>4. WaveCount' /\ PhaseAtMain' /\ SeenAtCas' /\ CheckpointPhaseValid'
  BY DEF Inv, WaveCount, PhaseAtMain, SeenAtCas, CheckpointPhaseValid, planVars
<1>5. AnswersAndPhase'
  BY <1>1, <1>2 DEF Inv, AnswersAndPhase
<1>6. SecondInterruptForces'
  BY <1>2 DEF Inv, SecondInterruptForces
<1>7. CancelIsReported'
  BY DEF Running, CancelIsReported
<1> QED BY <1>3, <1>4, <1>5, <1>6, <1>7 DEF Inv

\* The first answer: the exchange made the phase an interrupted one.
LEMMA FirstAnswerKeepsInv == Inv /\ HandlerCas => Inv'
<1> SUFFICES ASSUME Inv, HandlerCas PROVE Inv'
  OBVIOUS
<1>1. /\ phase \in Phase \ Interrupted /\ phase = seen /\ Running
      /\ answers = <<>> /\ answers \in Seq(Request)
  BY DEF Inv, TypeOK, SeenAtCas, AnswersAndPhase, HandlerCas
<1>2. PICK a \in {"Cancel", "Deferred"} :
        /\ answers' = Append(answers, a)
        /\ a = "Cancel" <=> phase = "PreCommit"
  BY <1>1 DEF HandlerCas
<1>3. /\ answers' \in Seq(Request) /\ Len(answers') = 1 /\ answers'[1] = a
      /\ answers' # <<>>
  BY <1>1, <1>2, AppendFacts DEF Request
<1>4. /\ phase' \in Interrupted /\ phase' \in Phase
      /\ phase = "PreCommit" => phase' = "CancelRequested"
      /\ phase = "Committed" => phase' = "CommittedInterrupted"
      /\ phase = "Complete" => phase' = "CompleteInterrupted"
      /\ phase \in {"PreCommit", "Committed", "Complete"}
  BY <1>1 DEF HandlerCas, NextPhase, Phase, Interrupted
<1>5. TypeOK'
  BY <1>3, <1>4 DEF Inv, TypeOK, HandlerCas, planVars, procVars, HandlerPc
<1>6. WaveCount' /\ PhaseAtMain' /\ SeenAtCas' /\ CheckpointPhaseValid'
  BY <1>4 DEF Inv, WaveCount, PhaseAtMain, SeenAtCas, CheckpointPhaseValid, planVars,
              HandlerCas
<1>7. AnswersAndPhase'
  BY <1>2, <1>3, <1>4 DEF AnswersAndPhase
<1>8. SecondInterruptForces'
  BY <1>3 DEF SecondInterruptForces
<1>9. CancelIsReported'
  BY <1>1 DEF Running, CancelIsReported, HandlerCas
<1> QED BY <1>5, <1>6, <1>7, <1>8, <1>9 DEF Inv

\* The other steps of the handler thread and of the user.
LEMMA HandlerKeepsInv == Inv /\ (SendInterrupt \/ Handler) => Inv'
<1> SUFFICES ASSUME Inv, SendInterrupt \/ Handler PROVE Inv'
  OBVIOUS
<1>1. ASSUME UNCHANGED <<phase, answers, loaded, planVars, result>>, Running,
             UNCHANGED main \/ main' = "forced",
             signals' \in Nat, sent' \in Nat, handler' \in HandlerPc, seen' \in Phase,
             handler' = "cas" => seen' \notin Interrupted,
             server' \in {"none", "running", "ended", "reaped"}, UNCHANGED group
      PROVE  Inv'
  <2>1. TypeOK'
    BY <1>1 DEF Inv, TypeOK, planVars, MainPc
  <2>2. WaveCount' /\ PhaseAtMain' /\ SeenAtCas' /\ AnswersAndPhase'
    BY <1>1 DEF Inv, WaveCount, PhaseAtMain, SeenAtCas, AnswersAndPhase, planVars
  <2>3. SecondInterruptForces' /\ CheckpointPhaseValid'
    BY <1>1 DEF Inv, SecondInterruptForces, CheckpointPhaseValid
  <2>4. CancelIsReported'
    BY <1>1 DEF Running, CancelIsReported
  <2> QED BY <2>1, <2>2, <2>3, <2>4 DEF Inv
<1> USE DEF planVars, procVars, HandlerPc, Phase
<1>2. CASE SendInterrupt
  BY <1>1, <1>2 DEF SendInterrupt, Inv, TypeOK, SeenAtCas
<1>3. CASE HandlerLoad
  <2>0. phase \in Phase /\ signals \in Nat /\ sent \in Nat
        /\ server \in {"none", "running", "ended", "reaped"}
    BY DEF Inv, TypeOK
  <2>1. CASE phase \in Interrupted
    BY <1>3, <2>0, <2>1, ForceKeepsInv DEF HandlerLoad
  <2>2. CASE phase \notin Interrupted
    BY <1>1, <1>3, <2>0, <2>2 DEF HandlerLoad
  <2> QED BY <2>1, <2>2
<1>4. CASE HandlerCas
  BY <1>4, FirstAnswerKeepsInv
<1>5. CASE HandlerRetry
  <2>0. phase \in Phase /\ signals \in Nat /\ sent \in Nat
        /\ server \in {"none", "running", "ended", "reaped"}
    BY DEF Inv, TypeOK
  <2>1. CASE phase \in Interrupted
    BY <1>5, <2>0, <2>1, ForceKeepsInv DEF HandlerRetry
  <2>2. CASE phase \notin Interrupted
    BY <1>1, <1>5, <2>0, <2>2 DEF HandlerRetry
  <2> QED BY <2>1, <2>2
<1>6. CASE HandlerKillServer
  BY <1>1, <1>6 DEF HandlerKillServer, Inv, TypeOK
<1>7. CASE HandlerExit
  BY <1>1, <1>7 DEF HandlerExit, sigVars, Inv, TypeOK, SeenAtCas
<1> QED BY <1>2, <1>3, <1>4, <1>5, <1>6, <1>7 DEF Handler

\* A Ctrl-C at the prompt is the first answer, or follows one.
LEMMA PromptKeepsInv == Inv /\ PromptInterrupt => Inv'
<1> SUFFICES ASSUME Inv, PromptInterrupt PROVE Inv'
  OBVIOUS
<1>1. /\ answers \in Seq(Request) /\ "Cancel" \in Request /\ "Force" \in Request
      /\ phase \in {"PreCommit", "CancelRequested"} /\ main = "work"
      /\ answers = <<>> <=> phase = "PreCommit"
  BY DEF Inv, TypeOK, AnswersAndPhase, PhaseAtMain, Interrupted, Request, PromptInterrupt
<1>2. CASE phase = "PreCommit"
  <2>1. /\ answers' = Append(answers, "Cancel") /\ phase' = "CancelRequested"
        /\ result' = "Interrupted" /\ main' = "wait"
    BY <1>2 DEF PromptInterrupt, NextPhase
  <2>2. /\ answers' \in Seq(Request) /\ Len(answers') = 1 /\ answers'[1] = "Cancel"
        /\ answers' # <<>>
    BY <1>1, <1>2, <2>1, AppendFacts
  <2>3. TypeOK'
    BY <1>2, <2>1, <2>2 DEF Inv, TypeOK, PromptInterrupt, planVars, MainPc, Phase, Outcome
  <2>4. WaveCount' /\ PhaseAtMain' /\ SeenAtCas' /\ CheckpointPhaseValid'
    BY <2>1 DEF Inv, WaveCount, PhaseAtMain, SeenAtCas, CheckpointPhaseValid, PromptInterrupt
  <2>5. AnswersAndPhase' /\ SecondInterruptForces' /\ CancelIsReported'
    BY <2>1, <2>2 DEF AnswersAndPhase, SecondInterruptForces, CancelIsReported, Interrupted
  <2> QED BY <2>3, <2>4, <2>5 DEF Inv
<1>3. CASE phase # "PreCommit"
  <2>1. answers' = Append(answers, "Force") /\ answers # <<>> /\ main' = "forced"
    BY <1>1, <1>3 DEF PromptInterrupt
  <2>2. /\ answers' \in Seq(Request) /\ Len(answers') = Len(answers) + 1
        /\ Len(answers) \in Nat \ {0} /\ answers' # <<>>
        /\ \A i \in 1..Len(answers) : answers'[i] = answers[i]
        /\ answers'[Len(answers) + 1] = "Force"
    BY <1>1, <2>1, AppendFacts
  <2>3. TypeOK'
    BY <1>3, <2>1, <2>2 DEF Inv, TypeOK, PromptInterrupt, planVars, MainPc
  <2>4. WaveCount' /\ PhaseAtMain' /\ SeenAtCas' /\ CheckpointPhaseValid'
    BY <2>1 DEF Inv, WaveCount, PhaseAtMain, SeenAtCas, CheckpointPhaseValid, PromptInterrupt
  <2>5. AnswersAndPhase' /\ CancelIsReported'
    BY <1>3, <2>1, <2>2 DEF Inv, AnswersAndPhase, CancelIsReported, PromptInterrupt
  <2>6. SecondInterruptForces'
    BY <2>2 DEF Inv, SecondInterruptForces
  <2> QED BY <2>3, <2>4, <2>5, <2>6 DEF Inv
<1> QED BY <1>2, <1>3

\* Every other step of the sync task leaves the answers alone.
LEMMA MainKeepsInv == Inv /\ Main => Inv'
<1> SUFFICES ASSUME Inv, Main PROVE Inv'
  OBVIOUS
<1>0. UNCHANGED answers /\ UNCHANGED handler /\ UNCHANGED seen
      /\ UNCHANGED <<signals, sent, waves>>
  BY DEF Main, SetupReturns, LaunchServer, RegisterServer, PollStops, WorkEnds, WorkReady,
         TryBeginCommit, Checkpoint, TryReset, ResetLoad, WaitServer, ClearServer,
         CompleteLoad, CompleteCas, sigVars, planVars, vars
<1>1. SecondInterruptForces' /\ SeenAtCas'
  BY <1>0 DEF Inv, SecondInterruptForces, SeenAtCas
<1> USE DEF Inv, TypeOK, WaveCount, PhaseAtMain, AnswersAndPhase, CheckpointPhaseValid,
            Interrupted, MainPc, Phase, Outcome, sigVars, planVars, procVars
<1>2. /\ TypeOK' /\ WaveCount' /\ PhaseAtMain' /\ AnswersAndPhase' /\ CheckpointPhaseValid'
  <2>1. CASE SetupReturns \/ LaunchServer \/ RegisterServer
    <3>1. TypeOK'
      <4>1. result' \in Outcome /\ main' \in MainPc /\ group' \in BOOLEAN
            /\ server' \in {"none", "running", "ended", "reaped"}
        BY <2>1 DEF SetupReturns, LaunchServer, RegisterServer
      <4>2. UNCHANGED <<phase, signals, sent, handler, seen, answers, loaded, waves, wave, fences>>
        BY <2>1 DEF SetupReturns, LaunchServer, RegisterServer
      <4> QED BY <4>1, <4>2
    <3>2. WaveCount' /\ PhaseAtMain' /\ AnswersAndPhase' /\ CheckpointPhaseValid'
      BY <1>0, <2>1 DEF SetupReturns, LaunchServer, RegisterServer
    <3> QED BY <3>1, <3>2
  <2>2. CASE PollStops \/ WorkEnds \/ WorkReady
    <3>1. TypeOK'
      <4>1. result' \in Outcome /\ main' \in MainPc
        BY <2>2 DEF PollStops, WorkEnds, WorkReady
      <4>2. UNCHANGED <<phase, signals, sent, handler, seen, answers, loaded, waves, wave,
                        fences, server, group>>
        BY <2>2 DEF PollStops, WorkEnds, WorkReady
      <4> QED BY <4>1, <4>2
    <3>2. WaveCount' /\ PhaseAtMain' /\ AnswersAndPhase' /\ CheckpointPhaseValid'
      BY <1>0, <2>2 DEF PollStops, WorkEnds, WorkReady
    <3> QED BY <3>1, <3>2
  <2>3. CASE TryBeginCommit
    <3>1. CASE phase = "PreCommit"
      BY <1>0, <2>3, <3>1 DEF TryBeginCommit
    <3>2. CASE phase # "PreCommit"
      BY <1>0, <2>3, <3>2 DEF TryBeginCommit
    <3> QED BY <3>1, <3>2
  <2>4. CASE Checkpoint
    BY <1>0, <2>4 DEF Checkpoint
  <2>5. CASE TryReset \/ ResetLoad
    BY <1>0, <2>5 DEF TryReset, ResetLoad, Cancelled
  <2>6. CASE WaitServer \/ ClearServer
    <3>1. TypeOK'
      <4>1. result' \in Outcome /\ main' \in MainPc
            /\ server' \in {"none", "running", "ended", "reaped"} /\ group' \in BOOLEAN
        BY <2>6 DEF WaitServer, ClearServer
      <4>2. UNCHANGED <<phase, signals, sent, handler, seen, answers, loaded, waves, wave, fences>>
        BY <2>6 DEF WaitServer, ClearServer
      <4> QED BY <4>1, <4>2
    <3>2. WaveCount' /\ PhaseAtMain' /\ AnswersAndPhase' /\ CheckpointPhaseValid'
      BY <1>0, <2>6 DEF WaitServer, ClearServer
    <3> QED BY <3>1, <3>2
  <2>7. CASE CompleteLoad \/ CompleteCas
    BY <1>0, <2>7 DEF CompleteLoad, CompleteCas, AsInterrupted
  <2> QED BY <2>1, <2>2, <2>3, <2>4, <2>5, <2>6, <2>7 DEF Main
<1>3. CancelIsReported'
  <2> SUFFICES ASSUME main' = "exited", NEW i \in 1..Len(answers'), answers'[i] = "Cancel"
               PROVE  result' \in {"Interrupted", "Error"}
    BY DEF CancelIsReported
  <2>1. phase = "CancelRequested" \/ main = "exited"
    <3>1. answers \in Seq(Request) /\ i \in 1..Len(answers) /\ answers[i] = "Cancel"
      BY <1>0
    <3>2. answers # <<>>
      BY <3>1
    <3>3. ~(i > 1)
      BY <3>1 DEF SecondInterruptForces
    <3>4. i = 1
      BY <3>1, <3>3
    <3> QED BY <3>1, <3>2, <3>4
  <2>2. CASE SetupReturns
    BY <2>2 DEF SetupReturns
  <2>3. CASE CompleteLoad
    BY <2>1, <2>3 DEF CompleteLoad, AsInterrupted
  <2>4. CASE CompleteCas
    BY <2>1, <2>4 DEF CompleteCas
  <2> QED
    BY <2>2, <2>3, <2>4
    DEF Main, LaunchServer, RegisterServer, PollStops, WorkEnds, WorkReady, TryBeginCommit,
        Checkpoint, TryReset, ResetLoad, WaitServer, ClearServer
<1> QED BY <1>1, <1>2, <1>3

\* Every step of the user, the handler and the sync task keeps the invariant.
LEMMA NextInv == Inv /\ [Next]_vars => Inv'
<1>1. Inv /\ UNCHANGED vars => Inv'
  BY DEF Inv, TypeOK, WaveCount, PhaseAtMain, SeenAtCas, AnswersAndPhase, vars,
         SecondInterruptForces, CheckpointPhaseValid, CancelIsReported
<1> QED BY <1>1, HandlerKeepsInv, PromptKeepsInv, MainKeepsInv DEF Next

\* The strengthening the theorems below are read off.
THEOREM InvHolds == Spec => []Inv
  BY InitInv, NextInv, PTL DEF Spec

\* Every variable keeps its type, and no wave beyond the plan is fenced.
THEOREM TypeCorrect == Spec => []TypeOK
<1>1. Inv => TypeOK
  BY DEF Inv
<1> QED BY <1>1, InvHolds, PTL

\* A second Ctrl-C is answered Force and a first one is not, however the
\* sync task moves the phase in between.
THEOREM SecondForces == Spec => []SecondInterruptForces
<1>1. Inv => SecondInterruptForces
  BY DEF Inv
<1> QED BY <1>1, InvHolds, PTL

\* The unreachable! arm at a checkpoint is not reached.
THEOREM CheckpointPhase == Spec => []CheckpointPhaseValid
<1>1. Inv => CheckpointPhaseValid
  BY DEF Inv
<1> QED BY <1>1, InvHolds, PTL

\* After "stopping safely" the run never reports success.
THEOREM CancelReported == Spec => []CancelIsReported
<1>1. Inv => CancelIsReported
  BY DEF Inv
<1> QED BY <1>1, InvHolds, PTL

\* After any answer no further commit fence is passed.
THEOREM NoFence == Spec => NoFenceAfterAnswer
<1>1. Inv /\ [Next]_vars => [answers # <<>> => fences' = fences]_vars
  <2> SUFFICES ASSUME Inv, Next, answers # <<>> PROVE fences' = fences
    BY DEF vars
  <2>1. phase # "PreCommit"
    BY DEF Inv, AnswersAndPhase, Interrupted
  <2> QED
    BY <2>1
    DEF Next, SendInterrupt, Handler, HandlerLoad, HandlerCas, HandlerRetry,
        HandlerKillServer, HandlerExit, PromptInterrupt, Main, SetupReturns, LaunchServer, RegisterServer,
        PollStops, WorkEnds, WorkReady, TryBeginCommit, Checkpoint, TryReset, ResetLoad,
        WaitServer, ClearServer, CompleteLoad, CompleteCas, planVars
<1> QED BY <1>1, InvHolds, PTL DEF Spec, NoFenceAfterAnswer

===========================================================================
