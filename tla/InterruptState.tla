--------------------------- MODULE InterruptState ---------------------------
(***************************************************************************)
(* The interrupt latch of one `duet sync` run: an atomic phase shared by   *)
(* the Ctrl-C handler thread, which the ctrlc crate calls once per SIGINT  *)
(* one call after the other, and by the task that runs orchestrator::sync, *)
(* which passes a commit fence before each wave and takes the fence back   *)
(* after an intermediate checkpoint.                                       *)
(*                                                                         *)
(* Every load and every compare_exchange is a step of its own, so all the  *)
(* orders of the two threads are explored.  What a wave does to files is   *)
(* the subject of StagedSync; here it is a work step that may fail.        *)
(* A definition introduced as a mutant is no part of the model: it is a    *)
(* plausible slip in the code, put in the place of the definition it names *)
(* to see that a property notices.                                         *)
(***************************************************************************)
EXTENDS Naturals, Sequences

CONSTANTS
  MaxWaves,     \* a plan has 1..MaxWaves waves
  MaxSignals    \* bound: SIGINTs sent to the process

ASSUME WavesAssumption == MaxWaves \in Nat \ {0}
ASSUME SignalsAssumption == MaxSignals \in Nat

\* InterruptPhase and InterruptRequest of the source
Phase == {"PreCommit", "CancelRequested", "Committed",
          "CommittedInterrupted", "Complete", "CompleteInterrupted"}
Interrupted == {"CancelRequested", "CommittedInterrupted", "CompleteInterrupted"}
Request == {"Cancel", "Deferred", "Force"}
Outcome == {"none", "Success", "UserAbort", "Interrupted", "Error"}

VARIABLES
  phase,      \* InterruptState.phase, the shared AtomicU8
  signals,    \* SIGINTs delivered and not yet taken by the handler thread
  sent,       \* SIGINTs sent so far
  handler,    \* the handler thread: where it is in handle_interrupt_request
  seen,       \* the phase the handler loaded
  answers,    \* what request_interrupt returned, call by call
  main,       \* where the sync task is
  loaded,     \* the phase InterruptState::complete loaded
  waves,      \* number of waves of the plan
  wave,       \* waves checkpointed so far
  fences,     \* commit fences passed so far
  result,     \* the value sync() is going to return
  server,     \* the server child process
  group       \* local_server_process_group: TRUE when it names the child

vars == <<phase, signals, sent, handler, seen, answers, main, loaded, waves,
          wave, fences, result, server, group>>

sigVars == <<signals, sent, handler, seen, answers>>
planVars == <<waves, wave, fences>>
procVars == <<server, group>>

MainPc == {"setup", "launched", "work", "fence", "committed", "reset",
           "resetLoad", "wait", "clear", "complete", "completeCas",
           "exited", "forced", "panic"}
HandlerPc == {"idle", "cas", "killServer", "exit"}

\* The type of every variable; no wave beyond the plan is fenced or counted.
TypeOK ==
  /\ phase \in Phase
  /\ signals \in Nat /\ sent \in Nat
  /\ handler \in HandlerPc
  /\ seen \in Phase
  /\ answers \in Seq(Request)
  /\ main \in MainPc
  /\ loaded \in Phase
  /\ waves \in 1..MaxWaves
  /\ wave \in 0..waves
  /\ fences \in 0..waves
  /\ result \in Outcome
  /\ server \in {"none", "running", "ended", "reaped"}
  /\ group \in BOOLEAN

Init ==
  /\ phase = "PreCommit"
  /\ signals = 0 /\ sent = 0
  /\ handler = "idle" /\ seen = "PreCommit" /\ answers = <<>>
  /\ main = "setup" /\ loaded = "PreCommit"
  /\ waves \in 1..MaxWaves /\ wave = 0 /\ fences = 0
  /\ result = "none"
  /\ server = "none" /\ group = FALSE

Running == main \notin {"exited", "forced"}

-----------------------------------------------------------------------------
(* The handler thread *)

\* The user presses Ctrl-C; MaxSignals bounds how often.
SendInterrupt ==
  /\ Running /\ sent < MaxSignals
  /\ sent' = sent + 1 /\ signals' = signals + 1
  /\ UNCHANGED <<phase, handler, seen, answers, main, loaded, planVars, result, procVars>>

\* request_interrupt loads the phase; an interrupted phase is answered Force
\* at once, without a compare_exchange.
HandlerLoad ==
  /\ Running /\ handler = "idle" /\ signals > 0
  /\ signals' = signals - 1
  /\ seen' = phase
  /\ IF phase \in Interrupted
       THEN handler' = "killServer" /\ answers' = Append(answers, "Force")
       ELSE handler' = "cas" /\ UNCHANGED answers
  /\ UNCHANGED <<phase, sent, main, loaded, planVars, result, procVars>>

\* mutant of NextPhase: the arm of Committed leads to the completed phase
NextPhaseSwapped(p) == CASE p = "PreCommit" -> "CancelRequested"
                         [] p \in {"Committed", "Complete"} -> "CompleteInterrupted"

NextPhase(p) == CASE p = "PreCommit" -> "CancelRequested"
                  [] p = "Committed" -> "CommittedInterrupted"
                  [] p = "Complete"  -> "CompleteInterrupted"

\* mutant of HandlerCas: a plain store in place of the compare_exchange
HandlerStore ==
  /\ Running /\ handler = "cas"
  /\ phase' = NextPhase(seen)
  /\ answers' = Append(answers, IF seen = "PreCommit" THEN "Cancel" ELSE "Deferred")
  /\ handler' = "idle"
  /\ UNCHANGED <<signals, sent, seen, main, loaded, planVars, result, procVars>>

\* compare_exchange(seen, NextPhase(seen)) succeeds and the call answers
HandlerCas ==
  /\ Running /\ handler = "cas" /\ phase = seen
  /\ phase' = NextPhase(seen)
  /\ answers' = Append(answers, IF seen = "PreCommit" THEN "Cancel" ELSE "Deferred")
  /\ handler' = "idle"
  /\ UNCHANGED <<signals, sent, seen, main, loaded, planVars, result, procVars>>

\* mutant of HandlerRetry: the loop exchanges again without loading again
HandlerSpin ==
  /\ Running /\ handler = "cas" /\ phase # seen
  /\ UNCHANGED vars

\* compare_exchange fails: the loop reloads
HandlerRetry ==
  /\ Running /\ handler = "cas" /\ phase # seen
  /\ seen' = phase
  /\ IF phase \in Interrupted
       THEN handler' = "killServer" /\ answers' = Append(answers, "Force")
       ELSE UNCHANGED <<handler, answers>>
  /\ UNCHANGED <<phase, signals, sent, main, loaded, planVars, result, procVars>>

\* force_stop_local_server: SIGKILL to the registered process group, if any
HandlerKillServer ==
  /\ Running /\ handler = "killServer"
  /\ handler' = "exit"
  /\ server' = IF group /\ server = "running" THEN "ended" ELSE server
  /\ UNCHANGED <<phase, signals, sent, seen, answers, main, loaded, planVars, result, group>>

\* std::process::exit(CTRLC_CODE): the sync task stops wherever it is
HandlerExit ==
  /\ Running /\ handler = "exit"
  /\ main' = "forced"
  /\ UNCHANGED <<phase, sigVars, loaded, planVars, result, procVars>>

-----------------------------------------------------------------------------
(* The task of orchestrator::sync *)

Cancelled == phase = "CancelRequested"     \* is_cancel_requested

\* Before the server exists a cancelled run returns without completing the
\* latch; an error of the setup ends the process as well.
SetupReturns ==
  /\ main = "setup"
  /\ \/ Cancelled /\ result' = "Interrupted"
     \/ result' = "Error"
  /\ main' = "exited"
  /\ UNCHANGED <<phase, sigVars, loaded, planVars, procVars>>

LaunchServer ==
  /\ main = "setup"
  /\ main' = "launched" /\ server' = "running"
  /\ UNCHANGED <<phase, sigVars, loaded, planVars, result, group>>

RegisterServer ==
  /\ main = "launched"
  /\ main' = "work" /\ group' = TRUE
  /\ UNCHANGED <<phase, sigVars, loaded, planVars, result, server>>

\* A poll of the latch between two steps before the fence stops the run.
PollStops ==
  /\ main = "work" /\ Cancelled
  /\ result' = "Interrupted" /\ main' = "wait"
  /\ UNCHANGED <<phase, sigVars, loaded, planVars, procVars>>

\* The work before the fence fails (every `?`), or before the first wave
\* ends the run early: nothing to apply, a dry run, or the user aborts.
WorkEnds ==
  /\ main = "work"
  /\ \/ result' = "Error"
     \/ wave = 0 /\ result' \in {"Success", "UserAbort"}
  /\ main' = "wait"
  /\ UNCHANGED <<phase, sigVars, loaded, planVars, procVars>>

\* Ctrl-C typed while the conflicts are resolved reaches the sync task as a
\* key: it asks the latch itself.  Before the first fence only the handler can
\* come between its load and its exchange, so the call is one step: it cancels,
\* or, when the handler was faster, is the second interrupt and ends the process.
PromptInterrupt ==
  /\ main = "work" /\ wave = 0
  /\ IF phase = "PreCommit"
       THEN /\ phase' = NextPhase(phase)
            /\ answers' = Append(answers, "Cancel")
            /\ result' = "Interrupted" /\ main' = "wait"
            /\ UNCHANGED server
       ELSE /\ answers' = Append(answers, "Force")
            /\ server' = "ended" /\ main' = "forced"
            /\ UNCHANGED <<phase, result>>
  /\ UNCHANGED <<signals, sent, handler, seen, loaded, planVars, group>>

\* The work before the fence is done: scan, plan, prepare and validate.
WorkReady ==
  /\ main = "work"
  /\ main' = "fence"
  /\ UNCHANGED <<phase, sigVars, loaded, planVars, result, procVars>>

\* mutant of TryBeginCommit: a store; the last poll is trusted to have seen
\* the cancellation
BeginCommitStore ==
  /\ main = "fence"
  /\ phase' = "Committed" /\ fences' = fences + 1
  /\ main' = "committed"
  /\ UNCHANGED <<sigVars, loaded, waves, wave, result, procVars>>

\* try_begin_commit; a failed compare_exchange aborts the prepared wave,
\* which may itself fail.
TryBeginCommit ==
  /\ main = "fence"
  /\ \/ /\ phase = "PreCommit"
        /\ phase' = "Committed" /\ fences' = fences + 1
        /\ main' = "committed" /\ UNCHANGED result
     \/ /\ phase # "PreCommit"
        /\ result' \in {"Interrupted", "Error"} /\ main' = "wait"
        /\ UNCHANGED <<phase, fences>>
  /\ UNCHANGED <<sigVars, loaded, waves, wave, procVars>>

\* mutant of Checkpoint: one more wave is started after the last
CheckpointEndless ==
  /\ main = "committed"
  /\ wave' = wave + 1
  /\ IF wave + 1 <= waves
       THEN main' = "reset" /\ UNCHANGED result
       ELSE main' = "wait" /\ result' = "Success"
  /\ UNCHANGED <<phase, sigVars, loaded, waves, fences, procVars>>

\* Commit, state saves and marker removal of the wave, or their failure.
Checkpoint ==
  /\ main = "committed"
  /\ \/ /\ result' = "Error" /\ main' = "wait" /\ UNCHANGED wave
     \/ /\ wave' = wave + 1
        /\ IF wave + 1 < waves
             THEN main' = "reset" /\ UNCHANGED result
             ELSE main' = "wait" /\ result' = "Success"
  /\ UNCHANGED <<phase, sigVars, loaded, waves, fences, procVars>>

\* try_reset_after_checkpoint: the compare_exchange.  Any other phase than
\* the listed ones is the unreachable! arm.
TryReset ==
  /\ main = "reset"
  /\ main' = CASE phase = "Committed" -> "resetLoad"
               [] phase \in {"CommittedInterrupted", "CancelRequested"} -> "wait"
               [] OTHER -> "panic"
  /\ phase' = IF phase = "Committed" THEN "PreCommit" ELSE phase
  /\ result' = IF main' = "wait" THEN "Interrupted" ELSE result
  /\ UNCHANGED <<sigVars, loaded, planVars, procVars>>

\* ... and the load that follows a successful one
ResetLoad ==
  /\ main = "resetLoad"
  /\ IF Cancelled THEN main' = "wait" /\ result' = "Interrupted"
                  ELSE main' = "work" /\ UNCHANGED result
  /\ UNCHANGED <<phase, sigVars, loaded, planVars, procVars>>

\* server.wait(): the client has dropped the connection, the server sees the
\* end of its input and exits, wait reaps it.  A server that exits with a
\* failure turns an Ok result into an error (finalize_server).
WaitServer ==
  /\ main = "wait"
  /\ server' = "reaped"
  /\ main' = "clear"
  /\ result' \in {result, "Error"}
  /\ UNCHANGED <<phase, sigVars, loaded, planVars, group>>

ClearServer ==
  /\ main = "clear"
  /\ group' = FALSE /\ main' = "complete"
  /\ UNCHANGED <<phase, sigVars, loaded, planVars, result, server>>

\* mutant of AsInterrupted: the answer of complete() is ignored
AsReturned(r) == r

\* complete() returned true: an Ok result becomes Interrupted
AsInterrupted(r) == IF r = "Error" THEN r ELSE "Interrupted"

\* InterruptState::complete loads the phase
CompleteLoad ==
  /\ main = "complete"
  /\ loaded' = phase
  /\ main' = IF phase \in {"PreCommit", "Committed", "CommittedInterrupted"}
               THEN "completeCas" ELSE "exited"
  /\ result' = IF phase = "CancelRequested" THEN AsInterrupted(result) ELSE result
  /\ UNCHANGED <<phase, sigVars, planVars, procVars>>

\* mutant of CompleteCas: the exchange is retried with the stale phase
CompleteCasStale ==
  /\ main = "completeCas" /\ phase = loaded
  /\ phase' = IF loaded = "CommittedInterrupted" THEN "CompleteInterrupted"
                                                 ELSE "Complete"
  /\ main' = "exited"
  /\ UNCHANGED <<sigVars, loaded, planVars, result, procVars>>

\* ... and exchanges it, or loops when the handler was faster
CompleteCas ==
  /\ main = "completeCas"
  /\ \/ /\ phase = loaded
        /\ phase' = IF loaded = "CommittedInterrupted" THEN "CompleteInterrupted"
                                                       ELSE "Complete"
        /\ main' = "exited"
     \/ /\ phase # loaded
        /\ main' = "complete" /\ UNCHANGED phase
  /\ UNCHANGED <<sigVars, loaded, planVars, result, procVars>>

-----------------------------------------------------------------------------
Handler == HandlerLoad \/ HandlerCas \/ HandlerRetry \/ HandlerKillServer \/ HandlerExit

Main == \/ SetupReturns \/ LaunchServer \/ RegisterServer
        \/ PollStops \/ WorkEnds \/ WorkReady
        \/ TryBeginCommit \/ Checkpoint \/ TryReset \/ ResetLoad
        \/ WaitServer \/ ClearServer \/ CompleteLoad \/ CompleteCas

Next == SendInterrupt \/ Handler \/ PromptInterrupt \/ Main

Spec == Init /\ [][Next]_vars

\* The handler thread keeps being scheduled, whatever the sync task waits for;
\* nothing makes the user press a key.
HandlerFairSpec == Spec /\ WF_vars(Handler)

-----------------------------------------------------------------------------
(* Properties *)

\* Once the user has been told anything about an interrupt ("stopping safely"
\* or "finishing committed sync"), the run passes no further commit fence: at
\* most the wave already committing is finished.  try_begin_commit and
\* try_reset_after_checkpoint race request_interrupt for this.
NoFenceAfterAnswer == [][answers # <<>> => fences' = fences]_vars

\* "Interrupt requested; stopping safely" is said only while no wave is
\* between its fence and its checkpoint, and "finishing committed sync" only
\* once a fence was passed or the run is over.
AnswerTellsTheTruth ==
  [][ /\ answers = <<>> /\ answers' = <<"Cancel">> => main \notin {"committed", "reset"}
      /\ answers = <<>> /\ answers' = <<"Deferred">> => fences > 0 \/ main = "exited"
    ]_vars

\* A second interrupt always forces the exit, whatever the sync task did to
\* the phase between the two, and a first one never does.
SecondInterruptForces ==
  \A i \in 1..Len(answers) : (answers[i] = "Force") <=> (i > 1)

\* The unreachable! arm of try_reset_after_checkpoint is not reached.
CheckpointPhaseValid == main # "panic"

\* A run that answered "stopping safely" does not report success: it ends
\* Interrupted (exit code 6) or with an error.
CancelIsReported ==
  (main = "exited" /\ "Cancel" \in {answers[i] : i \in 1..Len(answers)})
    => result \in {"Interrupted", "Error"}

\* Two Ctrl-C end the process even when the sync task hangs for ever in a
\* call: HandlerFairSpec asks nothing of that task.
SecondInterruptEndsRun == sent >= 2 ~> ~Running

\* When the calls of the sync task return, the run ends, the compare_exchange
\* loops of the two threads included.
RunEnds == WF_vars(Main) => <>~Running

=============================================================================
