-------------------------- MODULE StagedSyncProofs --------------------------
(***************************************************************************)
(* Theorems about StagedSync, for any paths, any runs, and any number of   *)
(* edits and faults.  About its control, for runs concurrent or not: a     *)
(* side is published to by one run, under its marker; the variables keep   *)
(* their types; a clean ending leaves no marker behind.  About its data,   *)
(* for the same: no version a user wrote is lost.  For runs one at a time, *)
(* whose clients may still leave a server behind in its last call: the     *)
(* snapshots agree whenever no marker blocks the next run, nothing         *)
(* replaced or deleted by a user comes back, every conflict has an arm of  *)
(* resolve_action, and success means that both sides are the same.         *)
(***************************************************************************)
EXTENDS StagedSync, TLAPS

\* The types of the variables the argument is about.
ControlOK ==
  /\ marker \in [Side -> {None} \cup Marker]
  /\ pc \in [Runs -> Pc]
  /\ link \in [Runs -> BOOLEAN]
  /\ srv \in [Runs -> Server]
  /\ req \in [Runs -> Call]
  /\ rep \in [Runs -> {"none", "ok", "err"}]
  /\ com \in [Runs -> [Side -> Commitment]]

Waiting == {"begin", "finish", "commit", "save", "complete", "abort"}

\* A connected client has a live server.  A call in flight has one too, and no
\* answer yet, and a client that is still connected waits for it.
CallInFlight ==
  \A r \in Runs :
    /\ link[r] /\ Alive(r) => srv[r] # "off"
    /\ req[r] # "none" =>
         srv[r] # "off" /\ rep[r] = "none" /\ (link[r] => pc[r] \in Waiting)

\* Who publishes: the client inside its commit, the server inside the call.
PublisherRuns ==
  \A r \in Runs :
    /\ com[r][Local] = "publishing" => pc[r] = "commit"
    /\ com[r][Remote] = "publishing" => req[r] = "commit"

Inv == ControlOK /\ CallInFlight /\ PublisherRuns /\ PublishUnderMarker

-----------------------------------------------------------------------------
\* The two sides are two.
LEMMA Sides == Local \in Side /\ Remote \in Side /\ Local # Remote
  BY DEF Side, Local, Remote

\* A marker that says committing is kept.
KeepsCommitting ==
  \A s \in Side, q \in Runs :
    marker[s] = [run |-> q, phase |-> "committing"] => marker'[s] = marker[s]

\* A step that starts no commit and keeps the committing markers leaves every
\* publisher its marker.
LEMMA StillUnderMarker ==
  ASSUME PublishUnderMarker, KeepsCommitting,
         \A r \in Runs, s \in Side : com'[r][s] = "publishing" => com[r][s] = "publishing"
  PROVE  PublishUnderMarker'
  BY DEF PublishUnderMarker, KeepsCommitting, Owns

\* Creating a marker, moving one on to another phase than from committing, and
\* removing one in another phase keep the committing markers.
LEMMA CreatedKeeps ==
  ASSUME ControlOK, NEW r \in Runs, NEW s \in Side, NEW ph \in Phase, Created(r, s, ph)
  PROVE  KeepsCommitting /\ marker' \in [Side -> {None} \cup Marker]
<1>1. \A q \in Runs : [run |-> q, phase |-> "committing"] # None
  BY NoneAssumption DEF Marker, Phase
<1>2. [run |-> r, phase |-> ph] \in Marker
  BY DEF Marker
<1> QED BY <1>1, <1>2 DEF Created, Clear, KeepsCommitting, ControlOK

\* ... moving one on, ...
LEMMA MovedKeeps ==
  ASSUME ControlOK, NEW r \in Runs, NEW s \in Side, NEW from, from # "committing",
         NEW to \in Phase, Moved(r, s, from, to)
  PROVE  KeepsCommitting /\ marker' \in [Side -> {None} \cup Marker]
<1>1. [run |-> r, phase |-> to] \in Marker
  BY DEF Marker
<1> QED BY <1>1 DEF Moved, Owns, KeepsCommitting, ControlOK

\* ... and removing one.
LEMMA RemovedKeeps ==
  ASSUME ControlOK, NEW r \in Runs, NEW s \in Side, NEW phases, "committing" \notin phases,
         Owns(r, s, phases), marker' = [marker EXCEPT ![s] = None]
  PROVE  KeepsCommitting /\ marker' \in [Side -> {None} \cup Marker]
  BY DEF Owns, KeepsCommitting, ControlOK

\* The end of the client keeps the invariant, whatever it does to a marker
\* that does not say committing.
LEMMA LeaveKeeps ==
  ASSUME Inv, NEW r \in Runs, NEW o, Leave(r, o), KeepsCommitting,
         marker' \in [Side -> {None} \cup Marker]
  PROVE  Inv'
<1>1. ControlOK'
  <2>1. com' \in [Runs -> [Side -> Commitment]]
    <3>1. CASE req[r] = "none"
      <4>1. com' = [com EXCEPT ![r] = [s \in Side |-> "idle"]]
        BY <3>1 DEF Leave, Forget
      <4> QED BY <4>1 DEF Inv, ControlOK, Commitment
    <3>2. CASE req[r] # "none"
      <4>1. com' = [com EXCEPT ![r][Local] = "idle"]
        BY <3>2 DEF Leave
      <4> QED BY <4>1, Sides DEF Inv, ControlOK, Commitment
    <3> QED BY <3>1, <3>2
  <2>2. srv' \in [Runs -> Server] /\ pc' \in [Runs -> Pc] /\ link' \in [Runs -> BOOLEAN]
    BY DEF Inv, ControlOK, Leave, Pc, Server
  <2>3. req' \in [Runs -> Call] /\ rep' \in [Runs -> {"none", "ok", "err"}]
    BY DEF Inv, ControlOK, Leave
  <2> QED BY <2>1, <2>2, <2>3 DEF ControlOK
<1>2. CallInFlight'
  BY DEF Inv, ControlOK, CallInFlight, Alive, Leave
<1>3. \A q \in Runs, s \in Side : com'[q][s] = "publishing" =>
         com[q][s] = "publishing" /\ (q = r => s = Remote /\ req[r] # "none")
  <2>1. CASE req[r] = "none"
    <3>1. com' = [com EXCEPT ![r] = [s \in Side |-> "idle"]]
      BY <2>1 DEF Leave, Forget
    <3> QED BY <3>1 DEF Inv, ControlOK
  <2>2. CASE req[r] # "none"
    <3>1. com' = [com EXCEPT ![r][Local] = "idle"]
      BY <2>2 DEF Leave
    <3> QED BY <2>2, <3>1, Sides DEF Inv, ControlOK, Side
  <2> QED BY <2>1, <2>2
<1>4. PublisherRuns'
  BY <1>3, Sides DEF Inv, ControlOK, PublisherRuns, Leave
<1>5. PublishUnderMarker'
  BY <1>3, StillUnderMarker DEF Inv
<1> QED BY <1>1, <1>2, <1>4, <1>5 DEF Inv

\* The client goes on to l, sends no call and starts or ends no commit.
LEMMA GoKeeps ==
  ASSUME Inv, NEW r \in Runs, NEW l \in Pc, Goto(r, l), Alive(r), KeepsCommitting,
         marker' \in [Side -> {None} \cup Marker],
         link[r] => req[r] = "none", com[r][Local] # "publishing",
         rep' \in [Runs -> {"none", "ok", "err"}],
         \A q \in Runs : rep'[q] = rep[q] \/ rep'[q] = "none",
         UNCHANGED <<link, srv, req, com>>
  PROVE  Inv'
<1>1. ControlOK'
  BY DEF Inv, ControlOK, Goto
<1>2. CallInFlight'
  BY DEF Inv, ControlOK, CallInFlight, Alive, Goto
<1>3. PublisherRuns'
  BY DEF Inv, ControlOK, PublisherRuns, Goto
<1>4. PublishUnderMarker'
  BY StillUnderMarker DEF Inv
<1> QED BY <1>1, <1>2, <1>3, <1>4 DEF Inv

\* The client sends a call and waits for its answer.
LEMMA SendKeeps ==
  ASSUME Inv, NEW r \in Runs, NEW l \in Waiting, NEW op \in Call, op # "none",
         Goto(r, l), Send(r, op), KeepsCommitting,
         marker' \in [Side -> {None} \cup Marker],
         Alive(r), link[r] => req[r] = "none",
         com[r][Local] # "publishing",
         UNCHANGED <<link, srv, com>>
  PROVE  Inv'
<1>1. ControlOK'
  BY DEF Inv, ControlOK, Goto, Send, Waiting, Pc
<1>2. CallInFlight'
  BY DEF Inv, ControlOK, CallInFlight, Alive, Waiting, Goto, Send
<1>3. PublisherRuns'
  BY DEF Inv, ControlOK, PublisherRuns, Goto, Send
<1>4. PublishUnderMarker'
  BY StillUnderMarker DEF Inv
<1> QED BY <1>1, <1>2, <1>3, <1>4 DEF Inv

\* The server ends a call other than the commit, and answers it or not.
LEMMA ReplyKeeps ==
  ASSUME Inv, NEW r \in Runs, NEW ok \in BOOLEAN, req[r] # "none", req[r] # "commit",
         Reply(r, ok), KeepsCommitting, marker' \in [Side -> {None} \cup Marker],
         srv' \in [Runs -> Server], \A q \in Runs : srv[q] # "off" => srv'[q] # "off",
         UNCHANGED <<pc, link, com>>
  PROVE  Inv'
<1>1. ControlOK'
  BY DEF Inv, ControlOK, Reply, Call
<1>2. CallInFlight'
  BY DEF Inv, ControlOK, CallInFlight, Alive, Reply
<1>3. PublisherRuns'
  BY DEF Inv, ControlOK, PublisherRuns, Reply
<1>4. PublishUnderMarker'
  BY StillUnderMarker DEF Inv
<1> QED BY <1>1, <1>2, <1>3, <1>4 DEF Inv

\* A side ends its commit; the server answers.
LEMMA ReportedKeeps ==
  ASSUME Inv, NEW r \in Runs, NEW s \in Side, NEW ok \in BOOLEAN, NEW c \in Commitment,
         c # "publishing", Committing(r, s), Reported(r, s, ok), com' = [com EXCEPT ![r][s] = c],
         marker' \in [Side -> {None} \cup Marker], PublishUnderMarker',
         UNCHANGED <<pc, link>>
  PROVE  Inv'
<1>1. CASE s = Local
  <2>1. ControlOK'
    BY <1>1 DEF Inv, ControlOK, Reported, callVars
  <2>2. CallInFlight'
    BY <1>1 DEF Inv, CallInFlight, Alive, Reported, callVars
  <2>3. PublisherRuns'
    BY <1>1, Sides DEF Inv, ControlOK, PublisherRuns, Reported, callVars
  <2> QED BY <2>1, <2>2, <2>3 DEF Inv
<1>2. CASE s = Remote
  <2>1. /\ srv' = [srv EXCEPT ![r] = IF ok THEN "committed" ELSE "committing"]
        /\ req' = [req EXCEPT ![r] = "none"]
        /\ rep' = [rep EXCEPT ![r] = IF link[r] THEN (IF ok THEN "ok" ELSE "err") ELSE "none"]
        /\ req[r] = "commit"
    BY <1>2, Sides DEF Reported, Committing
  <2>2. ControlOK'
    BY <1>2, <2>1 DEF Inv, ControlOK, Server, Call
  <2>3. CallInFlight'
    BY <2>1 DEF Inv, ControlOK, CallInFlight, Alive
  <2>4. PublisherRuns'
    BY <1>2, <2>1, Sides DEF Inv, ControlOK, PublisherRuns
  <2> QED BY <2>2, <2>3, <2>4 DEF Inv
<1> QED BY <1>1, <1>2 DEF Side

\* A step that leaves the control alone keeps the invariant.
LEMMA QuietKeeps ==
  ASSUME Inv, KeepsCommitting, marker' \in [Side -> {None} \cup Marker],
         UNCHANGED <<pc, link, callVars, com>>
  PROVE  Inv'
<1>1. ControlOK' /\ CallInFlight' /\ PublisherRuns'
  BY DEF Inv, ControlOK, CallInFlight, PublisherRuns, Alive, callVars
<1>2. PublishUnderMarker'
  BY StillUnderMarker DEF Inv
<1> QED BY <1>1, <1>2 DEF Inv

\* A step that leaves the markers alone keeps the committing ones.
LEMMA UnchangedMarker ==
  ASSUME ControlOK, UNCHANGED marker
  PROVE  KeepsCommitting /\ marker' \in [Side -> {None} \cup Marker]
  BY DEF ControlOK, KeepsCommitting

\* The invariant holds before the first run.
LEMMA InitInv == Init => Inv
<1> SUFFICES ASSUME Init PROVE Inv
  OBVIOUS
<1>1. ControlOK
  BY DEF Init, ControlOK, Pc, Server, Call, Commitment
<1>2. CallInFlight /\ PublisherRuns /\ PublishUnderMarker
  BY Sides DEF Init, CallInFlight, PublisherRuns, PublishUnderMarker, Alive
<1> QED BY <1>1, <1>2 DEF Inv

-----------------------------------------------------------------------------
\* Where a connected client waits for nothing, or its call was answered or
\* failed, no call is in flight; outside its commit it publishes nothing.
LEMMA Idle ==
  ASSUME Inv, NEW r \in Runs
  PROVE  /\ pc[r] \notin Waiting => (link[r] => req[r] = "none")
         /\ Answered(r) \/ FailedCall(r) => (link[r] => req[r] = "none")
         /\ pc[r] # "commit" => com[r][Local] # "publishing"
  BY DEF Inv, CallInFlight, PublisherRuns, Answered, FailedCall

\* The client up to the first wave: marker checks, scans, plan, giving up.
LEMMA SetupKeepsInv ==
  ASSUME Inv, NEW r \in Runs,
         \/ ServerScan(r) \/ Plan(r) \/ UserAborts(r) \/ GiveUp(r)
         \/ \E s \in Side : LoadOld(r, s)
         \/ \E s \in Side, p \in Paths : ScanPath(r, s, p)
  PROVE  Inv'
<1>0. UNCHANGED marker
  BY DEF ServerScan, Plan, UserAborts, GiveUp, LoadOld, ScanPath, diskVars
<1>1. KeepsCommitting /\ marker' \in [Side -> {None} \cup Marker]
  BY <1>0, UnchangedMarker DEF Inv
<1>2. CASE \E o \in Outcome : Leave(r, o)
  BY <1>1, <1>2, LeaveKeeps
<1>3. CASE UNCHANGED <<pc, link, callVars, com>>
  BY <1>1, <1>3, QuietKeeps
<1>4. CASE /\ pc[r] = "scan" /\ \E l \in {"panic", "wave"} : Goto(r, l)
           /\ UNCHANGED <<link, callVars, com>>
  BY <1>1, <1>4, Idle, GoKeeps DEF Alive, Waiting, Pc, callVars, Inv, ControlOK
<1>5. ASSUME ServerScan(r) PROVE Inv'
  BY <1>2, <1>3, <1>5 DEF ServerScan, Outcome, comVars
<1>6. ASSUME Plan(r) PROVE Inv'
  BY <1>2, <1>4, <1>6 DEF Plan, Outcome, comVars
<1>7. ASSUME UserAborts(r) \/ GiveUp(r) PROVE Inv'
  BY <1>2, <1>7 DEF UserAborts, GiveUp, Outcome
<1>8. ASSUME NEW s \in Side, LoadOld(r, s) \/ \E p \in Paths : ScanPath(r, s, p) PROVE Inv'
  BY <1>3, <1>8 DEF LoadOld, ScanPath, comVars
<1> QED BY <1>5, <1>6, <1>7, <1>8

\* The client while it begins and stages a wave on both sides.
LEMMA PrepareKeepsInv ==
  ASSUME Inv, NEW r \in Runs,
         BeginWave(r) \/ RemoteBegun(r) \/ BeginLocal(r) \/ Stream(r) \/ FinishLocal(r)
  PROVE  Inv'
<1> USE DEF Goes, Fails
<1>1. ASSUME UNCHANGED marker
      PROVE  KeepsCommitting /\ marker' \in [Side -> {None} \cup Marker]
  BY <1>1, UnchangedMarker DEF Inv
<1>2. rep \in [Runs -> {"none", "ok", "err"}]
  BY DEF Inv, ControlOK
<1>3. CASE BeginWave(r)
  <2>1. /\ pc[r] = "wave" /\ Goto(r, "begin") /\ Send(r, "begin")
        /\ UNCHANGED <<marker, link, srv, com>>
    BY <1>3 DEF BeginWave, clientRest, diskVars, comVars
  <2> QED BY <1>1, <2>1, Idle, SendKeeps DEF Waiting, Call, Alive
<1>4. CASE RemoteBegun(r)
  <2>1. CASE FailedCall(r) /\ Leave(r, "error") /\ UNCHANGED diskVars
    BY <1>1, <2>1, LeaveKeeps DEF diskVars
  <2>2. CASE Answered(r) /\ ~FailedCall(r)
    <3>1. /\ pc[r] = "begin" /\ Answered(r) /\ UNCHANGED <<marker, link, srv, com>>
          /\ \/ Goto(r, "abort") /\ Send(r, "abort")
             \/ /\ Goto(r, "beginLocal") /\ rep' = [rep EXCEPT ![r] = "none"]
                /\ UNCHANGED req
      BY <1>4, <2>2 DEF RemoteBegun, clientRest, diskVars, comVars
    <3>2. CASE Goto(r, "abort") /\ Send(r, "abort")
      BY <1>1, <3>1, <3>2, Idle, SendKeeps DEF Waiting, Call, Alive
    <3>3. CASE Goto(r, "beginLocal") /\ rep' = [rep EXCEPT ![r] = "none"] /\ UNCHANGED req
      BY <1>1, <1>2, <3>1, <3>3, Idle, GoKeeps DEF Pc, Alive
    <3> QED BY <3>1, <3>2, <3>3
  <2> QED BY <1>4, <2>1, <2>2 DEF RemoteBegun, Answered, FailedCall
<1>5. CASE BeginLocal(r)
  <2>1. pc[r] = "beginLocal" /\ UNCHANGED <<link, srv, com>>
    BY <1>5 DEF BeginLocal, comVars
  <2>2. KeepsCommitting /\ marker' \in [Side -> {None} \cup Marker]
    BY <1>1, <1>5, Sides, CreatedKeeps DEF BeginLocal, Phase, Inv
  <2>3. CASE Goto(r, "stream") /\ UNCHANGED <<req, rep>>
    BY <1>2, <2>1, <2>2, <2>3, Idle, GoKeeps DEF Pc, Waiting, Alive
  <2>4. CASE Goto(r, "abort") /\ Send(r, "abort")
    BY <2>1, <2>2, <2>4, Idle, SendKeeps DEF Call, Waiting, Alive
  <2> QED BY <1>5, <2>3, <2>4 DEF BeginLocal
<1>6. CASE Stream(r)
  <2>1. /\ pc[r] = "stream" /\ UNCHANGED <<marker, link, srv, req, rep, com>>
        /\ \E l \in {"finishLocal", "abortLocal"} : Goto(r, l)
    BY <1>6 DEF Stream, clientRest, diskVars, comVars
  <2> QED BY <1>1, <1>2, <2>1, Idle, GoKeeps DEF Pc, Waiting, Alive
<1>7. CASE FinishLocal(r)
  <2>1. pc[r] = "finishLocal" /\ UNCHANGED <<link, srv, com>>
    BY <1>7 DEF FinishLocal, comVars
  <2>2. KeepsCommitting /\ marker' \in [Side -> {None} \cup Marker]
    BY <1>1, <1>7, Sides, MovedKeeps DEF FinishLocal, Phase, Inv
  <2>3. CASE Goto(r, "abortLocal") /\ UNCHANGED <<req, rep>>
    BY <1>2, <2>1, <2>2, <2>3, Idle, GoKeeps DEF Pc, Waiting, Alive
  <2>4. CASE Goto(r, "finish") /\ Send(r, "finish")
    BY <2>1, <2>2, <2>4, Idle, SendKeeps DEF Call, Waiting, Alive
  <2> QED BY <1>7, <2>3, <2>4 DEF FinishLocal
<1> QED BY <1>3, <1>4, <1>5, <1>6, <1>7

\* The client between the end of staging and the commit of both sides.
LEMMA BarrierKeepsInv ==
  ASSUME Inv, NEW r \in Runs,
         RemoteFinished(r) \/ (\E s \in Side : ValidateSide(r, s)) \/ Fence(r)
           \/ CommitsJoined(r) \/ MarkSave(r)
  PROVE  Inv'
<1> USE DEF Goes, Fails
<1>1. ASSUME UNCHANGED marker
      PROVE  KeepsCommitting /\ marker' \in [Side -> {None} \cup Marker]
  BY <1>1, UnchangedMarker DEF Inv
<1>2. rep \in [Runs -> {"none", "ok", "err"}]
  BY DEF Inv, ControlOK
<1>3. CASE Leave(r, "error") /\ UNCHANGED diskVars
  BY <1>1, <1>3, LeaveKeeps DEF diskVars
<1>4. CASE RemoteFinished(r)
  <2>1. /\ pc[r] = "finish" /\ (Answered(r) \/ FailedCall(r))
        /\ rep' = [rep EXCEPT ![r] = "none"] /\ UNCHANGED <<marker, link, srv, req, com>>
        /\ \E l \in {"validate", "abortLocal"} : Goto(r, l)
    BY <1>4 DEF RemoteFinished, clientRest, diskVars, comVars
  <2> QED BY <1>1, <1>2, <2>1, Idle, GoKeeps DEF Pc, Alive
<1>5. CASE \E s \in Side : ValidateSide(r, s)
  <2>1. /\ pc[r] = "validate" /\ UNCHANGED <<marker, link, srv, req, rep, com>>
        /\ \E l \in {"validate", "fence", "abortLocal"} : Goto(r, l)
    BY <1>5 DEF ValidateSide, clientRest, diskVars, comVars
  <2> QED BY <1>1, <1>2, <2>1, Idle, GoKeeps DEF Pc, Waiting, Alive
<1>6. CASE Fence(r)
  <2>1. pc[r] = "fence" /\ UNCHANGED <<marker, link, srv, com>>
    BY <1>6 DEF Fence, clientRest, diskVars, comVars
  <2>2. CASE Goto(r, "abortLocal") /\ UNCHANGED <<req, rep>>
    BY <1>1, <1>2, <2>1, <2>2, Idle, GoKeeps DEF Pc, Waiting, Alive
  <2>3. CASE Goto(r, "commit") /\ Send(r, "commit")
    BY <1>1, <2>1, <2>3, Idle, SendKeeps DEF Call, Waiting, Alive
  <2> QED BY <1>6, <2>2, <2>3 DEF Fence
<1>7. CASE CommitsJoined(r)
  <2>1. CASE /\ com[r][Local] = "done" /\ Answered(r) /\ pc[r] = "commit" /\ Goto(r, "mark")
             /\ rep' = [rep EXCEPT ![r] = "none"] /\ UNCHANGED <<marker, link, srv, req, com>>
    BY <1>1, <1>2, <2>1, Idle, GoKeeps DEF Pc, Alive
  <2> QED BY <1>3, <1>7, <2>1 DEF CommitsJoined, clientRest, diskVars, comVars
<1>8. CASE MarkSave(r)
  <2>1. CASE /\ pc[r] = "mark" /\ Moved(r, Local, "committed", "state-save")
             /\ Goto(r, "save") /\ Send(r, "save") /\ UNCHANGED <<link, srv, com>>
    <3>1. KeepsCommitting /\ marker' \in [Side -> {None} \cup Marker]
      BY <2>1, Sides, MovedKeeps DEF Phase, Inv
    <3> QED BY <2>1, <3>1, Idle, SendKeeps DEF Call, Waiting, Alive
  <2> QED BY <1>3, <1>8, <2>1 DEF MarkSave, comVars
<1> QED BY <1>4, <1>5, <1>6, <1>7, <1>8

\* The client after the commits: snapshots, markers and the cleanup of an abort.
LEMMA FinishKeepsInv ==
  ASSUME Inv, NEW r \in Runs,
         SaveLocal(r) \/ SavesJoined(r) \/ RemoteCompleted(r) \/ FinishMarker(r)
           \/ AbortLocal(r) \/ Aborted(r)
  PROVE  Inv'
<1> USE DEF Goes, Fails
<1>1. ASSUME UNCHANGED marker
      PROVE  KeepsCommitting /\ marker' \in [Side -> {None} \cup Marker]
  BY <1>1, UnchangedMarker DEF Inv
<1>2. rep \in [Runs -> {"none", "ok", "err"}]
  BY DEF Inv, ControlOK
<1>3. CASE Leave(r, "error") /\ UNCHANGED diskVars
  BY <1>1, <1>3, LeaveKeeps DEF diskVars
<1>4. CASE SaveLocal(r)
  <2>1. UNCHANGED <<marker, pc, link, callVars, com>>
    BY <1>4 DEF SaveLocal, comVars
  <2> QED BY <1>1, <2>1, QuietKeeps
<1>5. CASE SavesJoined(r)
  <2>1. CASE /\ pc[r] = "save" /\ Answered(r) /\ Goto(r, "complete") /\ Send(r, "complete")
             /\ UNCHANGED <<marker, link, srv, com>>
    BY <1>1, <2>1, Idle, SendKeeps DEF Call, Waiting, Alive
  <2> QED BY <1>3, <1>5, <2>1 DEF SavesJoined, clientRest, diskVars, comVars
<1>6. CASE RemoteCompleted(r)
  <2>1. CASE /\ pc[r] = "complete" /\ Answered(r) /\ Goto(r, "finishMarker")
             /\ rep' = [rep EXCEPT ![r] = "none"] /\ UNCHANGED <<marker, link, srv, req, com>>
    BY <1>1, <1>2, <2>1, Idle, GoKeeps DEF Pc, Alive
  <2> QED BY <1>3, <1>6, <2>1 DEF RemoteCompleted, clientRest, diskVars, comVars
<1>7. CASE FinishMarker(r)
  <2>1. pc[r] = "finishMarker" /\ KeepsCommitting /\ marker' \in [Side -> {None} \cup Marker]
    BY <1>1, <1>7, Sides, RemovedKeeps DEF FinishMarker, Inv
  <2>2. CASE \E o \in Outcome : Leave(r, o)
    BY <2>1, <2>2, LeaveKeeps
  <2>3. CASE /\ Goto(r, "wave") /\ com' = [com EXCEPT ![r] = [s \in Side |-> "idle"]]
             /\ UNCHANGED <<link, srv, req, rep>>
    <3>1. \A q \in Runs, s \in Side : com'[q][s] = "publishing" => com[q][s] = "publishing" /\ q # r
      BY <2>3 DEF Inv, ControlOK
    <3>2. ControlOK'
      BY <2>1, <2>3 DEF Inv, ControlOK, Goto, Pc, Commitment
    <3>3. CallInFlight'
      BY <2>1, <2>3, Idle DEF Inv, ControlOK, CallInFlight, Alive, Goto, Waiting
    <3>4. PublisherRuns'
      BY <2>3, <3>1, Sides DEF Inv, ControlOK, PublisherRuns, Goto
    <3>5. PublishUnderMarker'
      BY <2>1, <3>1, StillUnderMarker DEF Inv
    <3> QED BY <3>2, <3>3, <3>4, <3>5 DEF Inv
  <2> QED BY <1>7, <2>2, <2>3 DEF FinishMarker, Outcome, callVars
<1>8. CASE AbortLocal(r)
  <2>1. /\ pc[r] = "abortLocal" /\ Goto(r, "abort") /\ Send(r, "abort")
        /\ UNCHANGED <<link, srv, com>>
    BY <1>8 DEF AbortLocal, comVars
  <2>2. KeepsCommitting /\ marker' \in [Side -> {None} \cup Marker]
    BY <1>1, <1>8, Sides, RemovedKeeps DEF AbortLocal, Precommit, Inv
  <2> QED BY <2>1, <2>2, Idle, SendKeeps DEF Call, Waiting, Alive
<1>9. CASE Aborted(r)
  <2>1. UNCHANGED marker /\ \E o \in Outcome : Leave(r, o)
    BY <1>9 DEF Aborted, diskVars, Outcome
  <2> QED BY <1>1, <2>1, LeaveKeeps
<1> QED BY <1>4, <1>5, <1>6, <1>7, <1>8, <1>9

\* A commit starts by writing its marker and ends by moving it on; in between
\* it leaves the marker alone.
LEMMA CommitKeepsInv ==
  ASSUME Inv, NEW r \in Runs, NEW s \in Side, Commit(r, s)
  PROVE  Inv'
<1>1. UNCHANGED <<pc, link>>
  BY DEF Commit, CommitStart, PublishAdded, PublishCheck, PublishRename, PublishFails,
         CommitEnd, commitRest
<1>2. ASSUME UNCHANGED marker
      PROVE  KeepsCommitting /\ marker' \in [Side -> {None} \cup Marker]
  BY <1>2, UnchangedMarker DEF Inv
<1>3. ASSUME NEW c \in {"done", "failed"}, Committing(r, s), com' = [com EXCEPT ![r][s] = c],
             \E ok \in BOOLEAN : Reported(r, s, ok), UNCHANGED marker
      PROVE  Inv'
  <2>1. PublishUnderMarker'
    BY <1>2, <1>3, StillUnderMarker DEF Inv, ControlOK
  <2> QED BY <1>1, <1>2, <1>3, <2>1, ReportedKeeps DEF Commitment
<1>4. CASE CommitStart(r, s)
  <2>1. CASE com' = [com EXCEPT ![r][s] = "failed"] /\ Reported(r, s, FALSE) /\ UNCHANGED marker
    BY <1>3, <1>4, <2>1 DEF CommitStart
  <2>2. CASE /\ Moved(r, s, "prepared", "committing")
             /\ com' = [com EXCEPT ![r][s] = "publishing"]
             /\ srv' = (IF s = Remote THEN [srv EXCEPT ![r] = "committing"] ELSE srv)
             /\ UNCHANGED <<req, rep>>
    <3>1. Committing(r, s)
      BY <1>4 DEF CommitStart
    <3>2. KeepsCommitting /\ marker' \in [Side -> {None} \cup Marker]
      BY <2>2, MovedKeeps DEF Inv, Phase
    <3>3. ControlOK'
      BY <1>1, <2>2, <3>2 DEF Inv, ControlOK, Server, Commitment
    <3>4. CallInFlight'
      BY <1>1, <2>2 DEF Inv, ControlOK, CallInFlight, Alive
    <3>5. PublisherRuns'
      BY <1>1, <2>2, <3>1, Sides DEF Inv, ControlOK, PublisherRuns, Committing, Side
    <3>6. marker'[s] = [run |-> r, phase |-> "committing"]
      BY <2>2 DEF Moved, Inv, ControlOK
    <3>7. PublishUnderMarker'
      BY <2>2, <3>2, <3>6 DEF Inv, ControlOK, PublishUnderMarker, KeepsCommitting, Owns
    <3> QED BY <3>3, <3>4, <3>5, <3>7 DEF Inv
  <2> QED BY <1>4, <2>1, <2>2 DEF CommitStart
<1>5. CASE PublishRename(r, s) \/ \E p \in Paths : PublishAdded(r, s, p) \/ PublishCheck(r, s, p)
  <2>1. UNCHANGED <<marker, callVars, com>>
    BY <1>5 DEF PublishRename, PublishAdded, PublishCheck
  <2> QED BY <1>1, <1>2, <2>1, QuietKeeps
<1>6. CASE PublishFails(r, s)
  BY <1>3, <1>6 DEF PublishFails
<1>7. CASE CommitEnd(r, s)
  <2>1. /\ Committing(r, s) /\ Moved(r, s, "committing", "committed")
        /\ com' = [com EXCEPT ![r][s] = "done"] /\ Reported(r, s, TRUE)
    BY <1>7 DEF CommitEnd
  <2>2. marker' \in [Side -> {None} \cup Marker]
    BY <2>1 DEF Moved, Inv, ControlOK, Marker, Phase
  <2>3. marker[s] = [run |-> r, phase |-> "committing"]
    BY <2>1 DEF Moved, Owns
  <2>4. ASSUME NEW q \in Runs, NEW t \in Side, com'[q][t] = "publishing"
        PROVE  marker'[t] = [run |-> q, phase |-> "committing"]
    <3>1. marker[t] = [run |-> q, phase |-> "committing"] /\ ~(q = r /\ t = s)
      BY <2>1, <2>4 DEF Inv, ControlOK, PublishUnderMarker, Owns
    <3>2. t # s
      BY <2>3, <3>1
    <3> QED BY <2>1, <3>1, <3>2 DEF Moved, Inv, ControlOK
  <2>5. PublishUnderMarker'
    BY <2>4 DEF PublishUnderMarker, Owns
  <2> QED BY <1>1, <2>1, <2>2, <2>5, ReportedKeeps DEF Commitment
<1> QED BY <1>4, <1>5, <1>6, <1>7 DEF Commit

\* The server in a call other than the commit, and its exit.
LEMMA ServerKeepsInv ==
  ASSUME Inv, NEW r \in Runs, ServerStep(r)
  PROVE  Inv'
<1> USE DEF Succeeds, Refuses
<1>1. ASSUME UNCHANGED marker
      PROVE  KeepsCommitting /\ marker' \in [Side -> {None} \cup Marker]
  BY <1>1, UnchangedMarker DEF Inv
<1>2. ASSUME req[r] # "none", req[r] # "commit", \E ok \in BOOLEAN : Reply(r, ok),
             KeepsCommitting, marker' \in [Side -> {None} \cup Marker],
             \/ UNCHANGED srv
             \/ \E st \in Server \ {"off"} : srv' = [srv EXCEPT ![r] = st],
             UNCHANGED <<pc, link, com>>
      PROVE  Inv'
  <2>1. srv' \in [Runs -> Server] /\ \A q \in Runs : srv[q] # "off" => srv'[q] # "off"
    BY <1>2 DEF Inv, ControlOK
  <2> QED BY <1>2, <2>1, ReplyKeeps
<1>3. CASE ServerBegin(r)
  <2>1. KeepsCommitting /\ marker' \in [Side -> {None} \cup Marker]
    BY <1>1, <1>3, Sides, CreatedKeeps DEF ServerBegin, Phase, Inv
  <2> QED BY <1>2, <1>3, <2>1 DEF ServerBegin, serverRest, comVars, Server
<1>4. CASE ServerFinish(r)
  <2>1. KeepsCommitting /\ marker' \in [Side -> {None} \cup Marker]
    BY <1>1, <1>4, Sides, MovedKeeps DEF ServerFinish, Phase, Inv
  <2> QED BY <1>2, <1>4, <2>1 DEF ServerFinish, serverRest, comVars, Server
<1>5. CASE ServerMarkSave(r)
  <2>1. /\ req[r] = "save" /\ srv' = [srv EXCEPT ![r] = "saving"]
        /\ UNCHANGED <<pc, link, req, rep, com>>
    BY <1>5 DEF ServerMarkSave, serverRest, comVars
  <2>2. KeepsCommitting /\ marker' \in [Side -> {None} \cup Marker]
    BY <1>5, Sides, MovedKeeps DEF ServerMarkSave, Phase, Inv
  <2>3. ControlOK' /\ CallInFlight' /\ PublisherRuns'
    BY <2>1, <2>2 DEF Inv, ControlOK, CallInFlight, PublisherRuns, Alive, Server
  <2>4. PublishUnderMarker'
    BY <2>1, <2>2, StillUnderMarker DEF Inv
  <2> QED BY <2>3, <2>4 DEF Inv
<1>6. CASE ServerSave(r) \/ ServerSaveFails(r)
  BY <1>1, <1>2, <1>6 DEF ServerSave, ServerSaveFails, serverRest, comVars, Server
<1>7. CASE ServerComplete(r)
  <2>1. KeepsCommitting /\ marker' \in [Side -> {None} \cup Marker]
    BY <1>1, <1>7, Sides, RemovedKeeps DEF ServerComplete, Inv
  <2> QED BY <1>2, <1>7, <2>1 DEF ServerComplete, serverRest, comVars, Server
<1>8. CASE ServerAbort(r)
  <2>1. KeepsCommitting /\ marker' \in [Side -> {None} \cup Marker]
    BY <1>1, <1>8, Sides, RemovedKeeps DEF ServerAbort, Precommit, Inv
  <2> QED BY <1>2, <1>8, <2>1 DEF ServerAbort, serverRest, comVars, Server
<1>9. CASE ServerExit(r)
  <2>1. /\ pc[r] = "over" /\ req[r] = "none" /\ srv' = [srv EXCEPT ![r] = "off"]
        /\ com' = [com EXCEPT ![r] = [s \in Side |-> "idle"]]
        /\ UNCHANGED <<marker, pc, link, req, rep>>
    BY <1>9 DEF ServerExit, Forget, diskVars
  <2>2. \A q \in Runs, s \in Side : com'[q][s] = "publishing" => com[q][s] = "publishing" /\ q # r
    BY <2>1 DEF Inv, ControlOK
  <2>3. ControlOK'
    BY <2>1 DEF Inv, ControlOK, Server, Commitment
  <2>4. CallInFlight'
    BY <2>1 DEF Inv, ControlOK, CallInFlight, Alive
  <2>5. PublisherRuns' /\ PublishUnderMarker'
    BY <1>1, <2>1, <2>2, Sides, StillUnderMarker DEF Inv, PublisherRuns
  <2> QED BY <2>3, <2>4, <2>5 DEF Inv
<1> QED BY <1>3, <1>4, <1>5, <1>6, <1>7, <1>8, <1>9 DEF ServerStep

\* Users, starts, faults and recovery.  A marker cleared by hand after commit
\* has no publisher, because no client and no server is left.
LEMMA EnvironmentKeepsInv == Inv /\ Environment => Inv'
<1> SUFFICES ASSUME Inv, Environment PROVE Inv'
  OBVIOUS
<1>1. ASSUME UNCHANGED marker
      PROVE  KeepsCommitting /\ marker' \in [Side -> {None} \cup Marker]
  BY <1>1, UnchangedMarker DEF Inv
<1>2. ASSUME NEW s \in Side, Recover(s) PROVE Inv'
  <2>1. UNCHANGED <<pc, link, callVars, com>> /\ marker' = [marker EXCEPT ![s] = None]
        /\ marker[s] # None
    BY <1>2 DEF Recover, comVars
  <2>2. marker' \in [Side -> {None} \cup Marker]
    BY <2>1 DEF Inv, ControlOK
  <2>3. CASE marker[s].phase \in Precommit
    <3>1. KeepsCommitting
      BY <2>1, <2>3 DEF KeepsCommitting, Precommit, Inv, ControlOK
    <3> QED BY <2>1, <2>2, <3>1, QuietKeeps
  <2>4. CASE \A r \in Runs : ~Alive(r) /\ srv[r] = "off"
    <3>1. \A r \in Runs : pc[r] # "commit" /\ req[r] # "commit"
      BY <2>4 DEF Inv, CallInFlight, Alive
    <3>2. PublishUnderMarker'
      BY <2>1, <3>1 DEF Inv, PublisherRuns, PublishUnderMarker, Side
    <3>3. ControlOK' /\ CallInFlight' /\ PublisherRuns'
      BY <2>1, <2>2 DEF Inv, ControlOK, CallInFlight, PublisherRuns, Alive, callVars
    <3> QED BY <3>2, <3>3 DEF Inv
  <2> QED BY <1>2, <2>3, <2>4 DEF Recover
<1>3. ASSUME NEW s \in Side, NEW p \in Paths, Write(s, p) \/ Delete(s, p) PROVE Inv'
  <2>1. UNCHANGED <<marker, pc, link, callVars, com>>
    BY <1>3 DEF Write, Delete, Edited, comVars
  <2> QED BY <1>1, <2>1, QuietKeeps
<1>4. ASSUME NEW r \in Runs, Start(r) PROVE Inv'
  <2>1. /\ pc[r] = "idle" /\ UNCHANGED <<marker, link, req, rep, com>>
        /\ \/ Goto(r, "scan") /\ srv' = [srv EXCEPT ![r] = "up"]
           \/ Goto(r, "over") /\ UNCHANGED srv
    BY <1>4 DEF Start, diskVars, comVars
  <2>2. ControlOK'
    BY <2>1 DEF Inv, ControlOK, Goto, Pc, Server
  <2>3. CallInFlight'
    BY <2>1, Idle DEF Inv, ControlOK, CallInFlight, Alive, Goto, Waiting
  <2>4. PublisherRuns' /\ PublishUnderMarker'
    BY <1>1, <2>1, StillUnderMarker DEF Inv, ControlOK, PublisherRuns, Goto
  <2> QED BY <2>2, <2>3, <2>4 DEF Inv
<1>5. ASSUME NEW r \in Runs, Interrupt(r) PROVE Inv'
  <2>1. UNCHANGED <<marker, pc, link, callVars, com>>
    BY <1>5 DEF Interrupt, diskVars, comVars
  <2> QED BY <1>1, <2>1, QuietKeeps
<1>6. ASSUME NEW r \in Runs, ClientDies(r) PROVE Inv'
  BY <1>1, <1>6, LeaveKeeps DEF ClientDies, diskVars
<1>7. ASSUME NEW r \in Runs, ServerDies(r) PROVE Inv'
  <2>1. /\ srv' = [srv EXCEPT ![r] = "off"] /\ req' = [req EXCEPT ![r] = "none"]
        /\ rep' = [rep EXCEPT ![r] = "none"] /\ link' = [link EXCEPT ![r] = FALSE]
        /\ UNCHANGED <<marker, pc>>
    BY <1>7 DEF ServerDies, diskVars
  <2>2. \/ com' = [com EXCEPT ![r] = [s \in Side |-> "idle"]]
        \/ com' = [com EXCEPT ![r][Remote] = IF @ = "publishing" THEN "failed" ELSE @]
    BY <1>7 DEF ServerDies, Forget
  <2>3. /\ com' \in [Runs -> [Side -> Commitment]]
        /\ \A q \in Runs, s \in Side : com'[q][s] = "publishing" =>
             com[q][s] = "publishing" /\ ~(q = r /\ s = Remote)
    <3>1. CASE com' = [com EXCEPT ![r] = [s \in Side |-> "idle"]]
      BY <3>1 DEF Inv, ControlOK, Commitment
    <3>2. CASE com' = [com EXCEPT ![r][Remote] = IF @ = "publishing" THEN "failed" ELSE @]
      BY <3>2, Sides DEF Inv, ControlOK, Commitment
    <3> QED BY <2>2, <3>1, <3>2
  <2>4. ControlOK'
    BY <2>1, <2>3 DEF Inv, ControlOK, Server, Call
  <2>5. CallInFlight'
    BY <2>1 DEF Inv, ControlOK, CallInFlight, Alive
  <2>6. PublisherRuns' /\ PublishUnderMarker'
    BY <1>1, <2>1, <2>3, Sides, StillUnderMarker DEF Inv, ControlOK, PublisherRuns
  <2> QED BY <2>4, <2>5, <2>6 DEF Inv
<1>8. ASSUME NEW r \in Runs, Disconnect(r) PROVE Inv'
  <2>1. /\ link' = [link EXCEPT ![r] = FALSE] /\ rep' = [rep EXCEPT ![r] = "none"]
        /\ UNCHANGED <<marker, pc, srv, req, com>>
    BY <1>8 DEF Disconnect, diskVars, comVars
  <2>2. ControlOK' /\ CallInFlight' /\ PublisherRuns'
    BY <2>1 DEF Inv, ControlOK, CallInFlight, PublisherRuns, Alive
  <2>3. PublishUnderMarker'
    BY <1>1, <2>1, StillUnderMarker DEF Inv
  <2> QED BY <2>2, <2>3 DEF Inv
<1> QED BY <1>2, <1>3, <1>4, <1>5, <1>6, <1>7, <1>8 DEF Environment

\* Every step of every run, of the users and of the faults keeps the invariant.
LEMMA NextInv == Inv /\ [Next]_vars => Inv'
<1> SUFFICES ASSUME Inv, [Next]_vars PROVE Inv'
  OBVIOUS
<1>1. ASSUME NEW r \in Runs, Client(r) PROVE Inv'
  BY <1>1, SetupKeepsInv, PrepareKeepsInv, BarrierKeepsInv, FinishKeepsInv DEF Client
<1>2. CASE UNCHANGED vars
  <2>1. UNCHANGED <<marker, pc, link, callVars, com>>
    BY <1>2 DEF vars, diskVars, comVars
  <2> QED BY <2>1, UnchangedMarker, QuietKeeps DEF Inv
<1> QED BY <1>1, <1>2, ServerKeepsInv, CommitKeepsInv, EnvironmentKeepsInv DEF Next

-----------------------------------------------------------------------------
\* Publishing happens only under the publisher's own marker in phase
\* committing: of the client for the local side, of the server for the remote
\* one, with any number of runs of the profile at the same time, crashes,
\* broken connections and recoveries between their steps.
THEOREM PublishesUnderMarker == Spec => []PublishUnderMarker
<1>1. Inv => PublishUnderMarker
  BY DEF Inv
<1> QED BY <1>1, InitInv, NextInv, PTL DEF Spec

OnePublisherPerSide ==
  \A s \in Side : \A q, r \in Runs :
    com[q][s] = "publishing" /\ com[r][s] = "publishing" => q = r

\* Two runs never publish to the same side at the same time, although nothing
\* locks a profile between the check for a marker and its creation.
THEOREM OnePublisher == Spec => []OnePublisherPerSide
<1>1. ASSUME PublishUnderMarker, NEW s \in Side, NEW q \in Runs, NEW r \in Runs,
             com[q][s] = "publishing", com[r][s] = "publishing"
      PROVE  q = r
  <2>1. marker[s] = [run |-> q, phase |-> "committing"]
    BY <1>1 DEF PublishUnderMarker, Owns
  <2>2. marker[s] = [run |-> r, phase |-> "committing"]
    BY <1>1 DEF PublishUnderMarker, Owns
  <2>3. marker[s].run = q
    BY <2>1
  <2>4. marker[s].run = r
    BY <2>2
  <2> QED BY <2>3, <2>4
<1>2. PublishUnderMarker => OnePublisherPerSide
  BY <1>1 DEF OnePublisherPerSide
<1> QED BY <1>2, PublishesUnderMarker, PTL

-----------------------------------------------------------------------------
(* What the steps read and write *)

\* Both snapshots and both trees were read completely.
Read(r) == \A s \in Side, p \in Paths : old[r][s][p] # Unread /\ seen[r][s][p] # Unread

\* A run plans, and calls its server, only after it has read everything.
\* Before its plan it has no actions.
ReadFirst ==
  \A r \in Runs :
    /\ pc[r] \notin {"idle", "scan", "over", "panic"} \/ req[r] # "none" => Read(r)
    /\ \A s \in Side, p \in Paths : seen[r][s][p] # Unread => old[r][s][p] # Unread
    /\ pc[r] \in {"idle", "scan"} => act[r] = NoAction

-----------------------------------------------------------------------------
(* Types *)

\* The types of the trees, the snapshots and the history, ...
DiskTypes ==
  /\ tree \in [Side -> [Paths -> Version]]
  /\ snap \in [Side -> [Paths -> Version]]
  /\ fresh \in [Paths -> Version]
  /\ replaced \in [Side -> [Paths -> SUBSET Version]]
  /\ dropped \in [Paths -> SUBSET Version]
  /\ raced \in [Paths -> SUBSET Version]
  /\ forced \in BOOLEAN /\ edits \in Nat /\ faults \in Nat

\* ... of the outcome of a run, ...
RunTypes ==
  /\ out \in [Runs -> Outcome]
  /\ intr \in [Runs -> BOOLEAN]
  /\ saved \in [Runs -> {"no", "ok", "err"}]
  /\ dirty \in [Runs -> SUBSET Paths]

\* ... of what it read and planned, ...
PlanTypes ==
  /\ ready \in [Runs -> SUBSET Side]
  /\ old \in [Runs -> [Side -> [Paths -> Version \cup {Unread}]]]
  /\ seen \in [Runs -> [Side -> [Paths -> Version \cup {Unread}]]]
  /\ act \in [Runs -> [Paths -> Action]]
  /\ todo \in [Runs -> SUBSET Paths]
  /\ group \in [Runs -> SUBSET Paths]

\* ... and of its commits.
PublishTypes ==
  /\ left \in [Runs -> [Side -> SUBSET Paths]]
  /\ win \in [Runs -> [Side -> Paths \cup {None}]]

DataTypes == DiskTypes /\ RunTypes /\ PlanTypes /\ PublishTypes

\* The types of StagedSyncProofs and of the four groups above are all of them.
LEMMA TypeParts == TypeOK <=> ControlOK /\ DataTypes
  BY DEF DataTypes, TypeOK, ControlOK, DiskTypes, RunTypes, PlanTypes, PublishTypes

Typed == Inv /\ DataTypes /\ ReadFirst

\* The data of a run are as at its start when they are forgotten.
LEMMA Forgotten ==
  ASSUME Typed, NEW r \in Runs, Forget(r)
  PROVE  PlanTypes' /\ PublishTypes'
<1>1. Nowhere \in [Side -> [Paths -> Version \cup {Unread}]]
  BY DEF Nowhere
<1>2. NoAction \in [Paths -> Action]
  BY DEF NoAction, Action
<1>3. [s \in Side |-> {}] \in [Side -> SUBSET Paths]
  OBVIOUS
<1>4. [s \in Side |-> None] \in [Side -> Paths \cup {None}]
  OBVIOUS
<1> HIDE DEF Nowhere, NoAction
<1>5. PlanTypes'
  BY <1>1, <1>2 DEF Typed, DataTypes, PlanTypes, Forget
<1>6. left' \in [Runs -> [Side -> SUBSET Paths]]
  BY <1>3 DEF Typed, DataTypes, PublishTypes, Forget
<1>7. win' \in [Runs -> [Side -> Paths \cup {None}]]
  BY <1>4 DEF Typed, DataTypes, PublishTypes, Forget
<1> QED BY <1>5, <1>6, <1>7 DEF PublishTypes

\* So it is when the client ends.
LEMMA LeaveTypes ==
  ASSUME Typed, NEW r \in Runs, NEW o \in Outcome, Leave(r, o)
  PROVE  RunTypes' /\ PlanTypes' /\ PublishTypes'
<1>1. RunTypes'
  BY DEF Typed, DataTypes, RunTypes, Leave
<1>2. CASE req[r] = "none"
  BY <1>1, <1>2, Forgotten DEF Leave
<1>3. CASE req[r] # "none"
  <2>1. /\ UNCHANGED planVars
        /\ left' = [left EXCEPT ![r][Local] = {}]
        /\ win' = [win EXCEPT ![r][Local] = None]
    BY <1>3 DEF Leave
  <2>2. PlanTypes'
    BY <2>1 DEF Typed, DataTypes, PlanTypes, planVars
  <2>3. left' \in [Runs -> [Side -> SUBSET Paths]]
    BY <2>1, Sides DEF Typed, DataTypes, PublishTypes
  <2>4. win' \in [Runs -> [Side -> Paths \cup {None}]]
    BY <2>1, Sides DEF Typed, DataTypes, PublishTypes
  <2> QED BY <1>1, <2>2, <2>3, <2>4 DEF PublishTypes
<1> QED BY <1>2, <1>3

\* Where everything was read the merged snapshot holds versions, ...
LEMMA MergedTypes ==
  ASSUME Typed, NEW r \in Runs, NEW s \in Side, NEW done, Read(r)
  PROVE  Merged(r, s, done) \in [Paths -> Version]
<1>1. \A t \in Side, p \in Paths : old[r][t][p] \in Version /\ seen[r][t][p] \in Version
  BY DEF Typed, DataTypes, PlanTypes, Read
<1>2. Other(s) \in Side
  BY Sides DEF Other
<1> QED BY <1>1, <1>2 DEF Merged, NewEntry

\* ... and so does a new entry, and what is expected at its target.
LEMMA EntryTypes ==
  ASSUME Typed, NEW r \in Runs, NEW s \in Side, NEW p \in Paths, Read(r)
  PROVE  NewEntry(r, p, s) \in Version /\ Expected(r, p, s) \in Version
<1>1. Other(s) \in Side
  BY Sides DEF Other
<1> QED BY <1>1 DEF Typed, DataTypes, PlanTypes, Read, NewEntry, Expected

\* The client up to the first wave keeps the types, ...
LEMMA SetupTypes ==
  ASSUME Typed, NEW r \in Runs,
         \/ ServerScan(r) \/ Plan(r) \/ UserAborts(r) \/ GiveUp(r)
         \/ \E s \in Side : LoadOld(r, s)
         \/ \E s \in Side, p \in Paths : ScanPath(r, s, p)
  PROVE  DataTypes'
<1> USE DEF diskVars, histVars, userVars, planVars, comVars, clientRest, serverRest, commitRest,
            Goes, Fails, Succeeds, Refuses, Reply, Goto, Failure, Fault, Outcome
<1>0. DiskTypes /\ RunTypes /\ PlanTypes /\ PublishTypes
  BY DEF Typed, DataTypes
<1>1. CASE ServerScan(r)
  <2>1. DiskTypes'
    BY <1>0, <1>1 DEF DiskTypes, ServerScan
  <2>2. RunTypes'
    BY <1>0, <1>1, LeaveTypes DEF RunTypes, ServerScan
  <2>3. PlanTypes'
    <3>1. CASE Leave(r, "error")
      BY <3>1, LeaveTypes
    <3>2. CASE ready' = [ready EXCEPT ![r] = @ \cup {Remote}] /\ UNCHANGED <<old, seen, act, todo, group>>
      <4>1. ready[r] \cup {Remote} \in SUBSET Side
        BY <1>0, Sides DEF PlanTypes
      <4> QED BY <1>0, <3>2, <4>1 DEF PlanTypes
    <3> QED BY <1>1, <3>1, <3>2 DEF ServerScan
  <2>4. PublishTypes'
    BY <1>0, <1>1, LeaveTypes DEF PublishTypes, ServerScan
  <2> QED BY <2>1, <2>2, <2>3, <2>4 DEF DataTypes
<1>2. CASE Plan(r)
  <2>1. DiskTypes'
    BY <1>0, <1>2 DEF DiskTypes, Plan
  <2>2. RunTypes'
    BY <1>0, <1>2, LeaveTypes DEF RunTypes, Plan
  <2>3. PlanTypes'
    <3>1. CASE \E o \in Outcome : Leave(r, o)
      BY <3>1, LeaveTypes
    <3>2. CASE UNCHANGED planVars
      BY <1>0, <3>2 DEF PlanTypes
    <3>3. CASE \E d \in [Paths -> Action] :
                 /\ act' = [act EXCEPT ![r] = d]
                 /\ todo' = [todo EXCEPT ![r] = {p \in Paths : d[p] # "none"}]
                 /\ UNCHANGED <<ready, old, seen, group>>
      BY <1>0, <3>3 DEF PlanTypes
    <3> QED BY <1>2, <3>1, <3>2, <3>3 DEF Plan
  <2>4. PublishTypes'
    BY <1>0, <1>2, LeaveTypes DEF PublishTypes, Plan
  <2> QED BY <2>1, <2>2, <2>3, <2>4 DEF DataTypes
<1>3. CASE UserAborts(r)
  <2>1. DiskTypes'
    BY <1>0, <1>3 DEF DiskTypes, UserAborts
  <2>2. RunTypes'
    BY <1>0, <1>3, LeaveTypes DEF RunTypes, UserAborts
  <2>3. PlanTypes'
    BY <1>0, <1>3, LeaveTypes DEF PlanTypes, UserAborts
  <2>4. PublishTypes'
    BY <1>0, <1>3, LeaveTypes DEF PublishTypes, UserAborts
  <2> QED BY <2>1, <2>2, <2>3, <2>4 DEF DataTypes
<1>4. CASE GiveUp(r)
  <2>1. DiskTypes'
    BY <1>0, <1>4 DEF DiskTypes, GiveUp
  <2>2. RunTypes'
    BY <1>0, <1>4, LeaveTypes DEF RunTypes, GiveUp
  <2>3. PlanTypes'
    BY <1>0, <1>4, LeaveTypes DEF PlanTypes, GiveUp
  <2>4. PublishTypes'
    BY <1>0, <1>4, LeaveTypes DEF PublishTypes, GiveUp
  <2> QED BY <2>1, <2>2, <2>3, <2>4 DEF DataTypes
<1>5. ASSUME NEW s \in Side, LoadOld(r, s)
      PROVE  DataTypes'
  <2>1. DiskTypes'
    BY <1>0, <1>5 DEF DiskTypes, LoadOld
  <2>2. RunTypes'
    BY <1>0, <1>5, LeaveTypes DEF RunTypes, LoadOld
  <2>3. PlanTypes'
    <3>1. snap[s] \in [Paths -> Version \cup {Unread}]
      BY <1>0 DEF DiskTypes
    <3>2. old' = [old EXCEPT ![r][s] = snap[s]] /\ UNCHANGED <<ready, seen, act, todo, group>>
      BY <1>5 DEF LoadOld
    <3> QED BY <1>0, <3>1, <3>2 DEF PlanTypes
  <2>4. PublishTypes'
    BY <1>0, <1>5, LeaveTypes DEF PublishTypes, LoadOld
  <2> QED BY <2>1, <2>2, <2>3, <2>4 DEF DataTypes
<1>6. ASSUME NEW s \in Side, NEW p \in Paths, ScanPath(r, s, p)
      PROVE  DataTypes'
  <2>1. DiskTypes'
    BY <1>0, <1>6 DEF DiskTypes, ScanPath
  <2>2. RunTypes'
    BY <1>0, <1>6, LeaveTypes DEF RunTypes, ScanPath
  <2>3. PlanTypes'
    <3>1. tree[s][p] \in Version
      BY <1>0, <1>6 DEF DiskTypes
    <3>2. seen' = [seen EXCEPT ![r][s][p] = tree[s][p]] /\ UNCHANGED <<ready, old, act, todo, group>>
      BY <1>6 DEF ScanPath
    <3> QED BY <1>0, <1>6, <3>1, <3>2 DEF PlanTypes
  <2>4. PublishTypes'
    BY <1>0, <1>6, LeaveTypes DEF PublishTypes, ScanPath
  <2> QED BY <2>1, <2>2, <2>3, <2>4 DEF DataTypes
<1> QED BY <1>1, <1>2, <1>3, <1>4, <1>5, <1>6

\* ... while it begins and stages a wave, ...
LEMMA PrepareTypes ==
  ASSUME Typed, NEW r \in Runs,
         BeginWave(r) \/ RemoteBegun(r) \/ BeginLocal(r) \/ Stream(r) \/ FinishLocal(r)
  PROVE  DataTypes'
<1> USE DEF diskVars, histVars, userVars, planVars, comVars, clientRest, serverRest, commitRest,
            Goes, Fails, Succeeds, Refuses, Reply, Goto, Failure, Fault, Outcome
<1>0. DiskTypes /\ RunTypes /\ PlanTypes /\ PublishTypes
  BY DEF Typed, DataTypes
<1>1. CASE BeginWave(r)
  <2>1. DiskTypes'
    BY <1>0, <1>1 DEF DiskTypes, BeginWave
  <2>2. RunTypes'
    BY <1>0, <1>1, LeaveTypes DEF RunTypes, BeginWave
  <2>3. PlanTypes'
    BY <1>0, <1>1, LeaveTypes DEF PlanTypes, BeginWave
  <2>4. PublishTypes'
    BY <1>0, <1>1, LeaveTypes DEF PublishTypes, BeginWave
  <2> QED BY <2>1, <2>2, <2>3, <2>4 DEF DataTypes
<1>2. CASE RemoteBegun(r)
  <2>1. DiskTypes'
    BY <1>0, <1>2 DEF DiskTypes, RemoteBegun
  <2>2. RunTypes'
    BY <1>0, <1>2, LeaveTypes DEF RunTypes, RemoteBegun
  <2>3. PlanTypes'
    BY <1>0, <1>2, LeaveTypes DEF PlanTypes, RemoteBegun
  <2>4. PublishTypes'
    BY <1>0, <1>2, LeaveTypes DEF PublishTypes, RemoteBegun
  <2> QED BY <2>1, <2>2, <2>3, <2>4 DEF DataTypes
<1>3. CASE BeginLocal(r)
  <2>1. DiskTypes'
    BY <1>0, <1>3 DEF DiskTypes, BeginLocal
  <2>2. RunTypes'
    BY <1>0, <1>3, LeaveTypes DEF RunTypes, BeginLocal
  <2>3. PlanTypes'
    BY <1>0, <1>3, LeaveTypes DEF PlanTypes, BeginLocal
  <2>4. PublishTypes'
    BY <1>0, <1>3, LeaveTypes DEF PublishTypes, BeginLocal
  <2> QED BY <2>1, <2>2, <2>3, <2>4 DEF DataTypes
<1>4. CASE Stream(r)
  <2>1. DiskTypes'
    BY <1>0, <1>4 DEF DiskTypes, Stream
  <2>2. RunTypes'
    BY <1>0, <1>4, LeaveTypes DEF RunTypes, Stream
  <2>3. PlanTypes'
    BY <1>0, <1>4, LeaveTypes DEF PlanTypes, Stream
  <2>4. PublishTypes'
    BY <1>0, <1>4, LeaveTypes DEF PublishTypes, Stream
  <2> QED BY <2>1, <2>2, <2>3, <2>4 DEF DataTypes
<1>5. CASE FinishLocal(r)
  <2>1. DiskTypes'
    BY <1>0, <1>5 DEF DiskTypes, FinishLocal
  <2>2. RunTypes'
    BY <1>0, <1>5, LeaveTypes DEF RunTypes, FinishLocal
  <2>3. PlanTypes'
    BY <1>0, <1>5, LeaveTypes DEF PlanTypes, FinishLocal
  <2>4. PublishTypes'
    BY <1>0, <1>5, LeaveTypes DEF PublishTypes, FinishLocal
  <2> QED BY <2>1, <2>2, <2>3, <2>4 DEF DataTypes
<1> QED BY <1>1, <1>2, <1>3, <1>4, <1>5

\* ... up to the end of both commits, ...
LEMMA BarrierTypes ==
  ASSUME Typed, NEW r \in Runs,
         RemoteFinished(r) \/ (\E s \in Side : ValidateSide(r, s)) \/ Fence(r)
           \/ CommitsJoined(r) \/ MarkSave(r)
  PROVE  DataTypes'
<1> USE DEF diskVars, histVars, userVars, planVars, comVars, clientRest, serverRest, commitRest,
            Goes, Fails, Succeeds, Refuses, Reply, Goto, Failure, Fault, Outcome
<1>0. DiskTypes /\ RunTypes /\ PlanTypes /\ PublishTypes
  BY DEF Typed, DataTypes
<1>1. CASE RemoteFinished(r)
  <2>1. DiskTypes'
    BY <1>0, <1>1 DEF DiskTypes, RemoteFinished
  <2>2. RunTypes'
    BY <1>0, <1>1, LeaveTypes DEF RunTypes, RemoteFinished
  <2>3. PlanTypes'
    BY <1>0, <1>1, LeaveTypes DEF PlanTypes, RemoteFinished
  <2>4. PublishTypes'
    BY <1>0, <1>1, LeaveTypes DEF PublishTypes, RemoteFinished
  <2> QED BY <2>1, <2>2, <2>3, <2>4 DEF DataTypes
<1>2. ASSUME NEW s \in Side, ValidateSide(r, s)
      PROVE  DataTypes'
  <2>1. DiskTypes'
    BY <1>0, <1>2 DEF DiskTypes, ValidateSide
  <2>2. RunTypes'
    BY <1>0, <1>2, LeaveTypes DEF RunTypes, ValidateSide
  <2>3. PlanTypes'
    <3>1. /\ ready' = [ready EXCEPT ![r] = @ \cup {s}] \/ UNCHANGED ready
          /\ UNCHANGED <<old, seen, act, todo, group>>
      BY <1>2 DEF ValidateSide
    <3>2. ready[r] \cup {s} \in SUBSET Side
      BY <1>0, <1>2 DEF PlanTypes
    <3> QED BY <1>0, <3>1, <3>2 DEF PlanTypes
  <2>4. PublishTypes'
    BY <1>0, <1>2, LeaveTypes DEF PublishTypes, ValidateSide
  <2> QED BY <2>1, <2>2, <2>3, <2>4 DEF DataTypes
<1>3. CASE Fence(r)
  <2>1. DiskTypes'
    BY <1>0, <1>3 DEF DiskTypes, Fence
  <2>2. RunTypes'
    BY <1>0, <1>3, LeaveTypes DEF RunTypes, Fence
  <2>3. PlanTypes'
    BY <1>0, <1>3, LeaveTypes DEF PlanTypes, Fence
  <2>4. PublishTypes'
    BY <1>0, <1>3, LeaveTypes DEF PublishTypes, Fence
  <2> QED BY <2>1, <2>2, <2>3, <2>4 DEF DataTypes
<1>4. CASE CommitsJoined(r)
  <2>1. DiskTypes'
    BY <1>0, <1>4 DEF DiskTypes, CommitsJoined
  <2>2. RunTypes'
    BY <1>0, <1>4, LeaveTypes DEF RunTypes, CommitsJoined
  <2>3. PlanTypes'
    BY <1>0, <1>4, LeaveTypes DEF PlanTypes, CommitsJoined
  <2>4. PublishTypes'
    BY <1>0, <1>4, LeaveTypes DEF PublishTypes, CommitsJoined
  <2> QED BY <2>1, <2>2, <2>3, <2>4 DEF DataTypes
<1>5. CASE MarkSave(r)
  <2>1. DiskTypes'
    BY <1>0, <1>5 DEF DiskTypes, MarkSave
  <2>2. RunTypes'
    BY <1>0, <1>5, LeaveTypes DEF RunTypes, MarkSave
  <2>3. PlanTypes'
    BY <1>0, <1>5, LeaveTypes DEF PlanTypes, MarkSave
  <2>4. PublishTypes'
    BY <1>0, <1>5, LeaveTypes DEF PublishTypes, MarkSave
  <2> QED BY <2>1, <2>2, <2>3, <2>4 DEF DataTypes
<1> QED BY <1>1, <1>2, <1>3, <1>4, <1>5

\* ... and to the end of the wave or of the run; ...
LEMMA FinishTypes ==
  ASSUME Typed, NEW r \in Runs,
         SaveLocal(r) \/ SavesJoined(r) \/ RemoteCompleted(r) \/ FinishMarker(r)
           \/ AbortLocal(r) \/ Aborted(r)
  PROVE  DataTypes'
<1> USE DEF diskVars, histVars, userVars, planVars, comVars, clientRest, serverRest, commitRest,
            Goes, Fails, Succeeds, Refuses, Reply, Goto, Failure, Fault, Outcome
<1>0. DiskTypes /\ RunTypes /\ PlanTypes /\ PublishTypes
  BY DEF Typed, DataTypes
<1>1. CASE SaveLocal(r)
  <2>1. DiskTypes'
    <3>1. Read(r)
      BY <1>1 DEF Typed, ReadFirst, SaveLocal
    <3>2. Merged(r, Local, DoneBySave(r)) \in [Paths -> Version]
      BY <3>1, Sides, MergedTypes
    <3> QED BY <1>0, <1>1, <3>2 DEF DiskTypes, SaveLocal, Side
  <2>2. RunTypes'
    BY <1>0, <1>1, LeaveTypes DEF RunTypes, SaveLocal
  <2>3. PlanTypes'
    BY <1>0, <1>1, LeaveTypes DEF PlanTypes, SaveLocal
  <2>4. PublishTypes'
    BY <1>0, <1>1, LeaveTypes DEF PublishTypes, SaveLocal
  <2> QED BY <2>1, <2>2, <2>3, <2>4 DEF DataTypes
<1>2. CASE SavesJoined(r)
  <2>1. DiskTypes'
    BY <1>0, <1>2 DEF DiskTypes, SavesJoined
  <2>2. RunTypes'
    BY <1>0, <1>2, LeaveTypes DEF RunTypes, SavesJoined
  <2>3. PlanTypes'
    BY <1>0, <1>2, LeaveTypes DEF PlanTypes, SavesJoined
  <2>4. PublishTypes'
    BY <1>0, <1>2, LeaveTypes DEF PublishTypes, SavesJoined
  <2> QED BY <2>1, <2>2, <2>3, <2>4 DEF DataTypes
<1>3. CASE RemoteCompleted(r)
  <2>1. DiskTypes'
    BY <1>0, <1>3 DEF DiskTypes, RemoteCompleted
  <2>2. RunTypes'
    BY <1>0, <1>3, LeaveTypes DEF RunTypes, RemoteCompleted
  <2>3. PlanTypes'
    BY <1>0, <1>3, LeaveTypes DEF PlanTypes, RemoteCompleted
  <2>4. PublishTypes'
    BY <1>0, <1>3, LeaveTypes DEF PublishTypes, RemoteCompleted
  <2> QED BY <2>1, <2>2, <2>3, <2>4 DEF DataTypes
<1>4. CASE FinishMarker(r)
  <2>1. DiskTypes'
    BY <1>0, <1>4 DEF DiskTypes, FinishMarker
  <2>2. RunTypes'
    BY <1>0, <1>4, LeaveTypes DEF RunTypes, FinishMarker
  <2>3. PlanTypes'
    <3>1. CASE \E o \in Outcome : Leave(r, o)
      BY <3>1, LeaveTypes
    <3>2. CASE /\ todo' = [todo EXCEPT ![r] = todo[r] \ group[r]]
               /\ group' = [group EXCEPT ![r] = {}]
               /\ UNCHANGED <<ready, old, seen, act>>
      BY <1>0, <3>2 DEF PlanTypes
    <3> QED BY <1>4, <3>1, <3>2 DEF FinishMarker
  <2>4. PublishTypes'
    BY <1>0, <1>4, LeaveTypes DEF PublishTypes, FinishMarker
  <2> QED BY <2>1, <2>2, <2>3, <2>4 DEF DataTypes
<1>5. CASE AbortLocal(r)
  <2>1. DiskTypes'
    BY <1>0, <1>5 DEF DiskTypes, AbortLocal
  <2>2. RunTypes'
    BY <1>0, <1>5, LeaveTypes DEF RunTypes, AbortLocal
  <2>3. PlanTypes'
    BY <1>0, <1>5, LeaveTypes DEF PlanTypes, AbortLocal
  <2>4. PublishTypes'
    BY <1>0, <1>5, LeaveTypes DEF PublishTypes, AbortLocal
  <2> QED BY <2>1, <2>2, <2>3, <2>4 DEF DataTypes
<1>6. CASE Aborted(r)
  <2>1. DiskTypes'
    BY <1>0, <1>6 DEF DiskTypes, Aborted
  <2>2. RunTypes'
    BY <1>0, <1>6, LeaveTypes DEF RunTypes, Aborted
  <2>3. PlanTypes'
    BY <1>0, <1>6, LeaveTypes DEF PlanTypes, Aborted
  <2>4. PublishTypes'
    BY <1>0, <1>6, LeaveTypes DEF PublishTypes, Aborted
  <2> QED BY <2>1, <2>2, <2>3, <2>4 DEF DataTypes
<1> QED BY <1>1, <1>2, <1>3, <1>4, <1>5, <1>6

\* ... so does the server, ...
LEMMA ServerTypes ==
  ASSUME Typed, NEW r \in Runs,
         ServerStep(r)
  PROVE  DataTypes'
<1> USE DEF diskVars, histVars, userVars, planVars, comVars, clientRest, serverRest, commitRest,
            Goes, Fails, Succeeds, Refuses, Reply, Goto, Failure, Fault, Outcome
<1>0. DiskTypes /\ RunTypes /\ PlanTypes /\ PublishTypes
  BY DEF Typed, DataTypes
<1>1. CASE ServerBegin(r)
  <2>1. DiskTypes'
    BY <1>0, <1>1 DEF DiskTypes, ServerBegin
  <2>2. RunTypes'
    BY <1>0, <1>1, LeaveTypes DEF RunTypes, ServerBegin
  <2>3. PlanTypes'
    BY <1>0, <1>1, LeaveTypes DEF PlanTypes, ServerBegin
  <2>4. PublishTypes'
    BY <1>0, <1>1, LeaveTypes DEF PublishTypes, ServerBegin
  <2> QED BY <2>1, <2>2, <2>3, <2>4 DEF DataTypes
<1>2. CASE ServerFinish(r)
  <2>1. DiskTypes'
    BY <1>0, <1>2 DEF DiskTypes, ServerFinish
  <2>2. RunTypes'
    BY <1>0, <1>2, LeaveTypes DEF RunTypes, ServerFinish
  <2>3. PlanTypes'
    BY <1>0, <1>2, LeaveTypes DEF PlanTypes, ServerFinish
  <2>4. PublishTypes'
    BY <1>0, <1>2, LeaveTypes DEF PublishTypes, ServerFinish
  <2> QED BY <2>1, <2>2, <2>3, <2>4 DEF DataTypes
<1>3. CASE ServerMarkSave(r)
  <2>1. DiskTypes'
    BY <1>0, <1>3 DEF DiskTypes, ServerMarkSave
  <2>2. RunTypes'
    BY <1>0, <1>3, LeaveTypes DEF RunTypes, ServerMarkSave
  <2>3. PlanTypes'
    BY <1>0, <1>3, LeaveTypes DEF PlanTypes, ServerMarkSave
  <2>4. PublishTypes'
    BY <1>0, <1>3, LeaveTypes DEF PublishTypes, ServerMarkSave
  <2> QED BY <2>1, <2>2, <2>3, <2>4 DEF DataTypes
<1>4. CASE ServerSave(r)
  <2>1. DiskTypes'
    <3>1. Read(r)
      BY <1>4 DEF Typed, ReadFirst, ServerSave
    <3>2. Merged(r, Remote, DoneBySave(r)) \in [Paths -> Version]
      BY <3>1, Sides, MergedTypes
    <3> QED BY <1>0, <1>4, <3>2 DEF DiskTypes, ServerSave, Side
  <2>2. RunTypes'
    BY <1>0, <1>4, LeaveTypes DEF RunTypes, ServerSave
  <2>3. PlanTypes'
    BY <1>0, <1>4, LeaveTypes DEF PlanTypes, ServerSave
  <2>4. PublishTypes'
    BY <1>0, <1>4, LeaveTypes DEF PublishTypes, ServerSave
  <2> QED BY <2>1, <2>2, <2>3, <2>4 DEF DataTypes
<1>5. CASE ServerSaveFails(r)
  <2>1. DiskTypes'
    BY <1>0, <1>5 DEF DiskTypes, ServerSaveFails
  <2>2. RunTypes'
    BY <1>0, <1>5, LeaveTypes DEF RunTypes, ServerSaveFails
  <2>3. PlanTypes'
    BY <1>0, <1>5, LeaveTypes DEF PlanTypes, ServerSaveFails
  <2>4. PublishTypes'
    BY <1>0, <1>5, LeaveTypes DEF PublishTypes, ServerSaveFails
  <2> QED BY <2>1, <2>2, <2>3, <2>4 DEF DataTypes
<1>6. CASE ServerComplete(r)
  <2>1. DiskTypes'
    BY <1>0, <1>6 DEF DiskTypes, ServerComplete
  <2>2. RunTypes'
    BY <1>0, <1>6, LeaveTypes DEF RunTypes, ServerComplete
  <2>3. PlanTypes'
    BY <1>0, <1>6, LeaveTypes DEF PlanTypes, ServerComplete
  <2>4. PublishTypes'
    BY <1>0, <1>6, LeaveTypes DEF PublishTypes, ServerComplete
  <2> QED BY <2>1, <2>2, <2>3, <2>4 DEF DataTypes
<1>7. CASE ServerAbort(r)
  <2>1. DiskTypes'
    BY <1>0, <1>7 DEF DiskTypes, ServerAbort
  <2>2. RunTypes'
    BY <1>0, <1>7, LeaveTypes DEF RunTypes, ServerAbort
  <2>3. PlanTypes'
    BY <1>0, <1>7, LeaveTypes DEF PlanTypes, ServerAbort
  <2>4. PublishTypes'
    BY <1>0, <1>7, LeaveTypes DEF PublishTypes, ServerAbort
  <2> QED BY <2>1, <2>2, <2>3, <2>4 DEF DataTypes
<1>8. CASE ServerExit(r)
  <2>1. DiskTypes'
    BY <1>0, <1>8 DEF DiskTypes, ServerExit
  <2>2. RunTypes'
    BY <1>0, <1>8, LeaveTypes DEF RunTypes, ServerExit
  <2>3. PlanTypes'
    BY <1>8, Forgotten DEF ServerExit
  <2>4. PublishTypes'
    BY <1>8, Forgotten DEF ServerExit
  <2> QED BY <2>1, <2>2, <2>3, <2>4 DEF DataTypes
<1> QED BY <1>1, <1>2, <1>3, <1>4, <1>5, <1>6, <1>7, <1>8 DEF ServerStep

\* ... the commit of a side, ...
LEMMA CommitTypes ==
  ASSUME Typed, NEW r \in Runs, NEW s \in Side,
         Commit(r, s)
  PROVE  DataTypes'
<1> USE DEF diskVars, histVars, userVars, planVars, comVars, clientRest, serverRest, commitRest,
            Goes, Fails, Succeeds, Refuses, Reply, Goto, Failure, Fault, Outcome
<1>0. DiskTypes /\ RunTypes /\ PlanTypes /\ PublishTypes
  BY DEF Typed, DataTypes
<1>9. Committing(r, s) => Read(r)
  BY Sides DEF Committing, Typed, ReadFirst
<1>1. CASE CommitStart(r, s)
  <2>1. DiskTypes'
    BY <1>0, <1>1 DEF DiskTypes, CommitStart, Reported
  <2>2. RunTypes'
    BY <1>0, <1>1 DEF RunTypes, CommitStart
  <2>3. PlanTypes'
    BY <1>0, <1>1 DEF PlanTypes, CommitStart
  <2>4. PublishTypes'
    <3>1. Targets(r, s) \in SUBSET Paths
      BY <1>0 DEF PlanTypes, Targets
    <3>2. /\ left' = [left EXCEPT ![r][s] = Targets(r, s)] \/ UNCHANGED left
          /\ UNCHANGED win
      BY <1>1 DEF CommitStart
    <3> QED BY <1>0, <3>1, <3>2 DEF PublishTypes
  <2> QED BY <2>1, <2>2, <2>3, <2>4 DEF DataTypes
<1>2. ASSUME NEW p \in Paths, PublishAdded(r, s, p)
      PROVE  DataTypes'
  <2>1. DiskTypes'
    <3>1. NewEntry(r, p, s) \in Version
      BY <1>9, <1>2, EntryTypes DEF PublishAdded
    <3> QED BY <1>0, <1>2, <3>1 DEF DiskTypes, PublishAdded
  <2>2. RunTypes'
    BY <1>0, <1>2 DEF RunTypes, PublishAdded
  <2>3. PlanTypes'
    BY <1>0, <1>2 DEF PlanTypes, PublishAdded
  <2>4. PublishTypes'
    BY <1>0, <1>2 DEF PublishTypes, PublishAdded
  <2> QED BY <2>1, <2>2, <2>3, <2>4 DEF DataTypes
<1>3. ASSUME NEW p \in Paths, PublishCheck(r, s, p)
      PROVE  DataTypes'
  <2>1. DiskTypes'
    BY <1>0, <1>3 DEF DiskTypes, PublishCheck
  <2>2. RunTypes'
    BY <1>0, <1>3 DEF RunTypes, PublishCheck
  <2>3. PlanTypes'
    BY <1>0, <1>3 DEF PlanTypes, PublishCheck
  <2>4. PublishTypes'
    BY <1>0, <1>3 DEF PublishTypes, PublishCheck
  <2> QED BY <2>1, <2>2, <2>3, <2>4 DEF DataTypes
<1>4. CASE PublishRename(r, s)
  <2>1. DiskTypes'
    <3> DEFINE p == win[r][s]
    <3>1. p \in Paths
      BY <1>0, <1>4 DEF PublishTypes, PublishRename
    <3>2. NewEntry(r, p, s) \in Version /\ seen[r][s][p] \in Version
      BY <1>0, <1>9, <1>4, <3>1, EntryTypes DEF PublishRename, PlanTypes, Read
    <3>3. /\ tree' = [tree EXCEPT ![s][p] = NewEntry(r, p, s)]
          /\ UNCHANGED <<snap, fresh, replaced, raced, forced, edits, faults>>
      BY <1>4 DEF PublishRename
    <3>4. dropped' = [dropped EXCEPT ![p] = @ \cup {seen[r][s][p]}] \/ UNCHANGED dropped
      BY <1>4 DEF PublishRename
    <3> HIDE DEF p
    <3> QED BY <1>0, <3>1, <3>2, <3>3, <3>4 DEF DiskTypes
  <2>2. RunTypes'
    BY <1>0, <1>4 DEF RunTypes, PublishRename
  <2>3. PlanTypes'
    BY <1>0, <1>4 DEF PlanTypes, PublishRename
  <2>4. PublishTypes'
    BY <1>0, <1>4 DEF PublishTypes, PublishRename
  <2> QED BY <2>1, <2>2, <2>3, <2>4 DEF DataTypes
<1>5. CASE PublishFails(r, s)
  <2>1. DiskTypes'
    BY <1>0, <1>5 DEF DiskTypes, PublishFails
  <2>2. RunTypes'
    BY <1>0, <1>5 DEF RunTypes, PublishFails
  <2>3. PlanTypes'
    BY <1>0, <1>5 DEF PlanTypes, PublishFails
  <2>4. PublishTypes'
    BY <1>0, <1>5 DEF PublishTypes, PublishFails
  <2> QED BY <2>1, <2>2, <2>3, <2>4 DEF DataTypes
<1>6. CASE CommitEnd(r, s)
  <2>1. DiskTypes'
    BY <1>0, <1>6 DEF DiskTypes, CommitEnd
  <2>2. RunTypes'
    BY <1>0, <1>6 DEF RunTypes, CommitEnd
  <2>3. PlanTypes'
    BY <1>0, <1>6 DEF PlanTypes, CommitEnd
  <2>4. PublishTypes'
    BY <1>0, <1>6 DEF PublishTypes, CommitEnd
  <2> QED BY <2>1, <2>2, <2>3, <2>4 DEF DataTypes
<1> QED BY <1>1, <1>2, <1>3, <1>4, <1>5, <1>6 DEF Commit

\* ... a start, an interrupt and every fault, ...
LEMMA FaultTypes ==
  ASSUME Typed, NEW r \in Runs,
         Start(r) \/ Interrupt(r) \/ ClientDies(r) \/ ServerDies(r) \/ Disconnect(r)
  PROVE  DataTypes'
<1> USE DEF diskVars, histVars, userVars, planVars, comVars, clientRest, serverRest, commitRest,
            Goes, Fails, Succeeds, Refuses, Reply, Goto, Failure, Fault, Outcome
<1>0. DiskTypes /\ RunTypes /\ PlanTypes /\ PublishTypes
  BY DEF Typed, DataTypes
<1>1. CASE Start(r)
  <2>1. DiskTypes'
    BY <1>0, <1>1 DEF DiskTypes, Start
  <2>2. RunTypes'
    BY <1>0, <1>1, LeaveTypes DEF RunTypes, Start
  <2>3. PlanTypes'
    <3>1. /\ ready' = [ready EXCEPT ![r] = {Local}] \/ UNCHANGED ready
          /\ UNCHANGED <<old, seen, act, todo, group>>
      BY <1>1 DEF Start
    <3>2. {Local} \in SUBSET Side
      BY Sides
    <3> QED BY <1>0, <3>1, <3>2 DEF PlanTypes
  <2>4. PublishTypes'
    BY <1>0, <1>1, LeaveTypes DEF PublishTypes, Start
  <2> QED BY <2>1, <2>2, <2>3, <2>4 DEF DataTypes
<1>2. CASE Interrupt(r)
  <2>1. DiskTypes'
    BY <1>0, <1>2 DEF DiskTypes, Interrupt
  <2>2. RunTypes'
    BY <1>0, <1>2 DEF RunTypes, Interrupt
  <2>3. PlanTypes'
    BY <1>0, <1>2 DEF PlanTypes, Interrupt
  <2>4. PublishTypes'
    BY <1>0, <1>2 DEF PublishTypes, Interrupt
  <2> QED BY <2>1, <2>2, <2>3, <2>4 DEF DataTypes
<1>3. CASE ClientDies(r)
  <2>1. DiskTypes'
    BY <1>0, <1>3 DEF DiskTypes, ClientDies
  <2>2. RunTypes'
    BY <1>0, <1>3, LeaveTypes DEF RunTypes, ClientDies
  <2>3. PlanTypes'
    BY <1>0, <1>3, LeaveTypes DEF PlanTypes, ClientDies
  <2>4. PublishTypes'
    BY <1>0, <1>3, LeaveTypes DEF PublishTypes, ClientDies
  <2> QED BY <2>1, <2>2, <2>3, <2>4 DEF DataTypes
<1>4. CASE ServerDies(r)
  <2>1. DiskTypes'
    BY <1>0, <1>4 DEF DiskTypes, ServerDies
  <2>2. RunTypes'
    BY <1>0, <1>4, LeaveTypes DEF RunTypes, ServerDies
  <2>3. PlanTypes'
    BY <1>0, <1>4, Forgotten DEF PlanTypes, ServerDies
  <2>4. PublishTypes'
    <3>1. CASE Forget(r)
      BY <3>1, Forgotten
    <3>2. CASE /\ left' = [left EXCEPT ![r][Remote] = {}]
               /\ win' = [win EXCEPT ![r][Remote] = None]
      BY <1>0, <3>2, Sides DEF PublishTypes
    <3> QED BY <1>4, <3>1, <3>2 DEF ServerDies
  <2> QED BY <2>1, <2>2, <2>3, <2>4 DEF DataTypes
<1>5. CASE Disconnect(r)
  <2>1. DiskTypes'
    BY <1>0, <1>5 DEF DiskTypes, Disconnect
  <2>2. RunTypes'
    BY <1>0, <1>5 DEF RunTypes, Disconnect
  <2>3. PlanTypes'
    BY <1>0, <1>5 DEF PlanTypes, Disconnect
  <2>4. PublishTypes'
    BY <1>0, <1>5 DEF PublishTypes, Disconnect
  <2> QED BY <2>1, <2>2, <2>3, <2>4 DEF DataTypes
<1> QED BY <1>1, <1>2, <1>3, <1>4, <1>5

\* ... and a user, who edits a tree or clears a marker.
LEMMA EditTypes ==
  ASSUME Typed, NEW s \in Side,
         Recover(s) \/ \E p \in Paths : Write(s, p) \/ Delete(s, p)
  PROVE  DataTypes'
<1>0. DiskTypes /\ RunTypes /\ PlanTypes /\ PublishTypes
  BY DEF Typed, DataTypes
<1>1. CASE Recover(s)
  <2>1. /\ UNCHANGED <<tree, snap, fresh, replaced, dropped, raced, edits, faults, planVars,
                       out, intr, saved, dirty, left, win>>
        /\ forced' \in BOOLEAN
    BY <1>0, <1>1 DEF Recover, comVars, DiskTypes
  <2> QED BY <1>0, <2>1 DEF DataTypes, DiskTypes, RunTypes, PlanTypes, PublishTypes, planVars
<1>2. ASSUME NEW p \in Paths, NEW v \in Version, Edited(s, p, v),
             fresh' \in [Paths -> Version], raced' \in [Paths -> SUBSET Version]
      PROVE  DataTypes'
  <2>1. tree[s][p] \in Version
    BY <1>0 DEF DiskTypes
  <2>2. /\ edits' = edits + 1
        /\ tree' = [tree EXCEPT ![s][p] = v]
        /\ \/ UNCHANGED replaced
           \/ replaced' = [replaced EXCEPT ![s][p] = @ \cup {tree[s][p]}]
        /\ UNCHANGED <<snap, dropped, forced, faults>>
    BY <1>2 DEF Edited
  <2>3. DiskTypes'
    <3>1. tree' \in [Side -> [Paths -> Version]] /\ edits' \in Nat
      BY <1>0, <2>2 DEF DiskTypes
    <3>2. replaced' \in [Side -> [Paths -> SUBSET Version]]
      <4>1. replaced[s][p] \cup {tree[s][p]} \in SUBSET Version
        BY <1>0, <2>1 DEF DiskTypes
      <4>2. CASE UNCHANGED replaced
        BY <1>0, <4>2 DEF DiskTypes
      <4>3. CASE replaced' = [replaced EXCEPT ![s][p] = @ \cup {tree[s][p]}]
        BY <1>0, <4>1, <4>3 DEF DiskTypes
      <4> QED BY <2>2, <4>2, <4>3
    <3> QED BY <1>0, <1>2, <2>2, <3>1, <3>2 DEF DiskTypes
  <2>4. RunTypes'
    BY <1>0, <1>2 DEF Edited, RunTypes
  <2>5. PlanTypes' /\ PublishTypes'
    BY <1>0, <1>2 DEF Edited, PlanTypes, PublishTypes, planVars, comVars
  <2> QED BY <2>3, <2>4, <2>5 DEF DataTypes
<1>3. ASSUME NEW p \in Paths, Write(s, p) PROVE DataTypes'
  <2>1. fresh[p] + 1 \in Version
    BY <1>0 DEF DiskTypes, Version
  <2>2. fresh' \in [Paths -> Version] /\ raced' \in [Paths -> SUBSET Version]
    BY <1>0, <1>3, <2>1 DEF Write, DiskTypes
  <2> QED BY <1>2, <1>3, <2>1, <2>2 DEF Write
<1>4. ASSUME NEW p \in Paths, Delete(s, p) PROVE DataTypes'
  BY <1>0, <1>2, <1>4 DEF Delete, DiskTypes, Absent, Version
<1> QED BY <1>1, <1>3, <1>4

-----------------------------------------------------------------------------
(* Everything is read first *)

\* The client goes on from where it had read everything.
LEMMA OnwardReadFirst ==
  ASSUME Typed, NEW r \in Runs, Alive(r), pc[r] # "scan", NEW l \in Pc, l \notin {"idle", "scan"},
         Goto(r, l), UNCHANGED <<old, seen, act>>,
         \A q \in Runs : q # r => req'[q] = req[q]
  PROVE  ReadFirst'
  BY DEF Typed, ReadFirst, Read, Alive, Goto, Inv, ControlOK

\* ... or ends.
LEMMA LeaveReadFirst ==
  ASSUME Typed, NEW r \in Runs, NEW o, Leave(r, o)
  PROVE  ReadFirst'
<1>1. /\ pc' = [pc EXCEPT ![r] = "over"] /\ UNCHANGED req
      /\ \/ UNCHANGED <<old, seen, act>>
         \/ /\ req[r] = "none" /\ old' = [old EXCEPT ![r] = Nowhere]
            /\ seen' = [seen EXCEPT ![r] = Nowhere] /\ act' = [act EXCEPT ![r] = NoAction]
  BY DEF Leave, Forget, planVars
<1>2. \A s \in Side, p \in Paths : Nowhere[s][p] = Unread
  BY DEF Nowhere
<1> HIDE DEF Nowhere, NoAction
<1> QED BY <1>1, <1>2 DEF Typed, DataTypes, PlanTypes, ReadFirst, Read, Inv, ControlOK

\* ... or a step changes neither what was read nor where the client is.
LEMMA QuietReadFirst ==
  ASSUME Typed, UNCHANGED <<pc, old, seen, act>>,
         \A q \in Runs : req'[q] \in {req[q], "none"}
  PROVE  ReadFirst'
  BY DEF Typed, ReadFirst, Read

\* The client reads, plans, and goes on.
LEMMA ClientReadFirst ==
  ASSUME Typed, NEW r \in Runs, Client(r)
  PROVE  ReadFirst'
<1> USE DEF diskVars, histVars, planVars, callVars, comVars, clientRest, Goes, Fails
<1>1. CASE \E o \in Outcome : Leave(r, o)
  BY <1>1, LeaveReadFirst
<1>2. CASE /\ pc[r] \notin {"idle", "scan", "over", "panic"}
           /\ \E l \in Pc \ {"idle", "scan"} : Goto(r, l)
           /\ UNCHANGED <<old, seen, act>>
           /\ UNCHANGED req \/ \E op \in Call : Send(r, op)
  <2>1. \A q \in Runs : q # r => req'[q] = req[q]
    BY <1>2 DEF Send, Typed, Inv, ControlOK
  <2> QED BY <1>2, <2>1, OnwardReadFirst DEF Alive
<1>3. CASE UNCHANGED <<pc, old, seen, act, req>>
  BY <1>3, QuietReadFirst
<1>4. ASSUME ServerScan(r) PROVE ReadFirst'
  BY <1>1, <1>3, <1>4 DEF ServerScan, Outcome
<1>5. ASSUME UserAborts(r) \/ GiveUp(r) \/ Aborted(r) PROVE ReadFirst'
  BY <1>1, <1>5 DEF UserAborts, GiveUp, Aborted, Outcome
<1>6. ASSUME NEW s \in Side, LoadOld(r, s) PROVE ReadFirst'
  <2>1. /\ old' = [old EXCEPT ![r][s] = snap[s]]
        /\ UNCHANGED <<pc, req, seen, act>>
        /\ \A p \in Paths : old[r][s][p] = Unread
    BY <1>6 DEF LoadOld
  <2>2. \A p \in Paths : snap[s][p] # Unread
    BY DEF Typed, DataTypes, DiskTypes, Version, Unread
  <2>3. \A q \in Runs, t \in Side, p \in Paths : old'[q][t][p] # old[q][t][p] =>
           old'[q][t][p] # Unread
    BY <2>1, <2>2 DEF Typed, DataTypes, PlanTypes
  <2> QED BY <2>1, <2>3 DEF Typed, ReadFirst, Read
<1>7. ASSUME NEW s \in Side, NEW p \in Paths, ScanPath(r, s, p) PROVE ReadFirst'
  <2>1. /\ seen' = [seen EXCEPT ![r][s][p] = tree[s][p]]
        /\ UNCHANGED <<pc, req, old, act>>
        /\ old[r][s][p] # Unread
    BY <1>7 DEF ScanPath
  <2>2. tree[s][p] # Unread
    BY DEF Typed, DataTypes, DiskTypes, Version, Unread
  <2>3. \A q \in Runs, t \in Side, u \in Paths : seen'[q][t][u] # seen[q][t][u] =>
           seen'[q][t][u] # Unread /\ q = r /\ t = s /\ u = p
    BY <2>1, <2>2 DEF Typed, DataTypes, PlanTypes
  <2> QED BY <2>1, <2>3 DEF Typed, ReadFirst, Read
<1>8. ASSUME Plan(r) PROVE ReadFirst'
  <2>1. Read(r)
    BY <1>8 DEF Plan, AllRead, Typed, ReadFirst, Read
  <2>2. CASE /\ \E l \in {"panic", "wave"} : Goto(r, l)
             /\ \A q \in Runs : q # r => act'[q] = act[q]
             /\ UNCHANGED <<old, seen, req>>
    <3>1. \A q \in Runs : q # r => pc'[q] = pc[q]
      BY <2>2 DEF Goto, Typed, Inv, ControlOK
    <3>2. pc'[r] \notin {"idle", "scan"}
      BY <2>2 DEF Goto, Typed, Inv, ControlOK
    <3> QED BY <2>1, <2>2, <3>1, <3>2 DEF Typed, ReadFirst, Read
  <2> QED BY <1>1, <1>8, <2>2 DEF Plan, Outcome, Typed, DataTypes, PlanTypes
<1>9. ASSUME BeginWave(r) \/ RemoteBegun(r) \/ BeginLocal(r) \/ Stream(r) \/ FinishLocal(r)
      PROVE  ReadFirst'
  BY <1>1, <1>2, <1>9
     DEF BeginWave, RemoteBegun, BeginLocal, Stream, FinishLocal, Outcome, Pc, Call
<1>10. ASSUME RemoteFinished(r) \/ (\E s \in Side : ValidateSide(r, s)) \/ Fence(r)
                \/ CommitsJoined(r) \/ MarkSave(r)
       PROVE  ReadFirst'
  BY <1>1, <1>2, <1>10
     DEF RemoteFinished, ValidateSide, Fence, CommitsJoined, MarkSave, Outcome, Pc, Call
<1>11. ASSUME SaveLocal(r) \/ SavesJoined(r) \/ RemoteCompleted(r) PROVE ReadFirst'
  BY <1>1, <1>2, <1>3, <1>11 DEF SaveLocal, SavesJoined, RemoteCompleted, Outcome, Pc, Call
<1>12. ASSUME FinishMarker(r) \/ AbortLocal(r) PROVE ReadFirst'
  BY <1>1, <1>2, <1>12 DEF FinishMarker, AbortLocal, Outcome, Pc, Call
<1> QED BY <1>4, <1>5, <1>6, <1>7, <1>8, <1>9, <1>10, <1>11, <1>12 DEF Client

\* The data of a run are forgotten when its client and its server are gone.
LEMMA ForgetReadFirst ==
  ASSUME Typed, NEW r \in Runs, pc[r] = "over", Forget(r), UNCHANGED pc,
         \/ req' = [req EXCEPT ![r] = "none"]
         \/ req[r] = "none" /\ UNCHANGED req
  PROVE  ReadFirst'
<1>1. /\ old' = [old EXCEPT ![r] = Nowhere]
      /\ seen' = [seen EXCEPT ![r] = Nowhere] /\ act' = [act EXCEPT ![r] = NoAction]
  BY DEF Forget
<1>2. \A s \in Side, p \in Paths : Nowhere[s][p] = Unread
  BY DEF Nowhere
<1> HIDE DEF Nowhere, NoAction
<1> QED BY <1>1, <1>2 DEF Typed, DataTypes, PlanTypes, ReadFirst, Read, Inv, ControlOK

\* The steps of the server, of a commit and of the environment keep the order of reading.
LEMMA OthersReadFirst ==
  ASSUME Typed,
         Environment \/ \E r \in Runs : ServerStep(r) \/ \E s \in Side : Commit(r, s)
  PROVE  ReadFirst'
<1> USE DEF diskVars, histVars, planVars, callVars, comVars, serverRest, commitRest
<1>1. CASE /\ UNCHANGED <<pc, old, seen, act>>
           /\ UNCHANGED req \/ \E r \in Runs : req' = [req EXCEPT ![r] = "none"]
  BY <1>1, QuietReadFirst DEF Typed, Inv, ControlOK
<1>2. ASSUME NEW r \in Runs, ServerStep(r) PROVE ReadFirst'
  <2>1. CASE ServerExit(r)
    BY <2>1, ForgetReadFirst DEF ServerExit
  <2>2. CASE ServerBegin(r) \/ ServerFinish(r) \/ ServerComplete(r) \/ ServerAbort(r)
    BY <1>1, <2>2 DEF ServerBegin, ServerFinish, ServerComplete, ServerAbort, Succeeds, Refuses, Reply
  <2>3. CASE ServerMarkSave(r) \/ ServerSave(r) \/ ServerSaveFails(r)
    BY <1>1, <2>3 DEF ServerMarkSave, ServerSave, ServerSaveFails, Succeeds, Refuses, Reply
  <2> QED BY <1>2, <2>1, <2>2, <2>3 DEF ServerStep
<1>3. ASSUME NEW r \in Runs, NEW s \in Side, Commit(r, s) PROVE ReadFirst'
  BY <1>1, <1>3 DEF Commit, CommitStart, PublishAdded, PublishCheck, PublishRename, PublishFails,
                    CommitEnd, Reported
<1>4. ASSUME NEW s \in Side, Recover(s) \/ \E p \in Paths : Write(s, p) \/ Delete(s, p)
      PROVE  ReadFirst'
  BY <1>1, <1>4 DEF Recover, Write, Delete, Edited
<1>5. ASSUME NEW r \in Runs, Start(r) PROVE ReadFirst'
  BY <1>5 DEF Start, Goto, Typed, ReadFirst, Read, Inv, ControlOK
<1>6. ASSUME NEW r \in Runs, Interrupt(r) \/ Disconnect(r) PROVE ReadFirst'
  BY <1>1, <1>6 DEF Interrupt, Disconnect
<1>7. ASSUME NEW r \in Runs, ClientDies(r) PROVE ReadFirst'
  BY <1>7, LeaveReadFirst DEF ClientDies
<1>8. ASSUME NEW r \in Runs, ServerDies(r) PROVE ReadFirst'
  <2>1. CASE pc[r] = "over"
    <3>1. Forget(r) /\ UNCHANGED pc /\ req' = [req EXCEPT ![r] = "none"]
      BY <1>8, <2>1 DEF ServerDies
    <3> QED BY <2>1, <3>1, ForgetReadFirst
  <2>2. CASE pc[r] # "over"
    BY <1>1, <1>8, <2>2 DEF ServerDies
  <2> QED BY <2>1, <2>2
<1> QED BY <1>2, <1>3, <1>4, <1>5, <1>6, <1>7, <1>8 DEF Environment

\* The invariant about types and reading is inductive.
LEMMA InitTyped == Init => Typed
<1> SUFFICES ASSUME Init PROVE Typed
  OBVIOUS
<1>1. PICK S \in SUBSET Paths :
        LET v == [p \in Paths |-> IF p \in S THEN 1 ELSE Absent] IN
        /\ tree = [s \in Side |-> v] /\ snap = [s \in Side |-> v] /\ fresh = v
  BY DEF Init
<1>2. DiskTypes
  BY <1>1 DEF Init, DiskTypes, Version, Absent
<1>3. RunTypes /\ PublishTypes
  BY DEF Init, RunTypes, PublishTypes, Outcome
<1>4. PlanTypes
  BY DEF Init, PlanTypes, Nowhere, NoAction, Action
<1>5. ReadFirst
  BY DEF Init, ReadFirst, Nowhere
<1> QED BY <1>2, <1>3, <1>4, <1>5, InitInv DEF Typed, DataTypes

\* Every step keeps the types.
LEMMA NextTyped == Typed /\ [Next]_vars => Typed'
<1> SUFFICES ASSUME Typed, [Next]_vars PROVE DataTypes' /\ ReadFirst'
  BY NextInv DEF Typed
<1>1. CASE UNCHANGED vars
  <2>1. DataTypes'
    BY <1>1 DEF vars, diskVars, histVars, userVars, planVars, comVars, Typed, DataTypes, DiskTypes,
                RunTypes, PlanTypes, PublishTypes
  <2>2. ReadFirst'
    BY <1>1, QuietReadFirst DEF vars, planVars, callVars
  <2> QED BY <2>1, <2>2
<1>2. ASSUME NEW r \in Runs, Client(r) PROVE DataTypes'
  BY <1>2, SetupTypes, PrepareTypes, BarrierTypes, FinishTypes DEF Client
<1>3. ASSUME NEW r \in Runs, ServerStep(r) \/ \E s \in Side : Commit(r, s) PROVE DataTypes'
  BY <1>3, ServerTypes, CommitTypes
<1>4. ASSUME Environment PROVE DataTypes'
  BY <1>4, FaultTypes, EditTypes DEF Environment
<1>5. CASE Next
  BY <1>2, <1>3, <1>4, <1>5, ClientReadFirst, OthersReadFirst DEF Next
<1> QED BY <1>1, <1>5

\* Every variable keeps its type: the snapshots hold versions although a run
\* starts without any, because nothing is published or saved before both
\* sides were read.
THEOREM TypeCorrect == Spec => []TypeOK
<1>1. Typed => TypeOK
  BY TypeParts DEF Typed, Inv
<1> QED BY <1>1, InitTyped, NextTyped, PTL DEF Spec

-----------------------------------------------------------------------------
(* The calls and the commits follow the client *)

\* A call is in the server while its client waits for it, or cleans up after
\* it, or is gone.  A side has a commit between the fence and the end of the
\* wave only, and both commits are done before anything is saved.
InOrder(r) ==
  /\ req[r] = "commit" => pc[r] \in {"commit", "over"}
  /\ req[r] = "save" => pc[r] \in {"save", "over"}
  /\ req[r] = "complete" => pc[r] \in {"complete", "over"}
  /\ req[r] \in {"begin", "finish", "abort"} =>
       pc[r] \in {"begin", "finish", "abortLocal", "abort", "over"}
  /\ \A s \in Side : com[r][s] # "idle" =>
       pc[r] \in {"commit", "mark", "save", "complete", "finishMarker", "over"}
  /\ pc[r] \in {"mark", "save", "complete", "finishMarker"} =>
       \A s \in Side : com[r][s] = "done"
  /\ pc[r] = "commit" /\ rep[r] = "ok" => com[r][Remote] = "done"
  /\ req[r] \in {"save", "complete"} => com[r][Remote] = "done"

WaveOrder == \A r \in Runs : InOrder(r)

\* The end of the client keeps the order: its own commit ends with it, the one
\* of a server still in a call does not.
LEMMA LeaveOrder ==
  ASSUME Typed, WaveOrder, NEW r \in Runs, NEW o, Leave(r, o)
  PROVE  WaveOrder'
<1>1. /\ pc' = [pc EXCEPT ![r] = "over"] /\ UNCHANGED req /\ rep' = [rep EXCEPT ![r] = "none"]
      /\ \/ req[r] = "none" /\ com' = [com EXCEPT ![r] = [s \in Side |-> "idle"]]
         \/ req[r] # "none" /\ com' = [com EXCEPT ![r][Local] = "idle"]
  BY DEF Leave, Forget
<1>2. com'[r][Remote] = com[r][Remote] \/ req[r] = "none"
  BY <1>1, Sides DEF Typed, Inv, ControlOK
<1>3. \A q \in Runs : q # r => com'[q] = com[q]
  BY <1>1 DEF Typed, Inv, ControlOK
<1> QED BY <1>1, <1>2, <1>3, Sides DEF Typed, Inv, ControlOK, WaveOrder, InOrder

\* Every step of the client keeps the order, ...
LEMMA ClientOrder ==
  ASSUME Typed, WaveOrder, NEW r \in Runs,
         Client(r)
  PROVE  WaveOrder'
<1> USE DEF diskVars, histVars, planVars, callVars, comVars, clientRest, serverRest, commitRest,
            Goes, Fails, Goto, Send, Answered, FailedCall, Succeeds, Refuses, Reply, Outcome, Pc
<1>0. Inv
  BY DEF Typed
<1> USE <1>0 DEF Inv, ControlOK, CallInFlight, PublisherRuns, WaveOrder, InOrder
<1>l. CASE \E o : Leave(r, o)
  BY <1>l, LeaveOrder
<1>1. ASSUME ServerScan(r) PROVE WaveOrder'
  BY <1>l, <1>1, Sides DEF ServerScan
<1>2. ASSUME Plan(r) PROVE WaveOrder'
  BY <1>l, <1>2, Sides DEF Plan
<1>3. ASSUME UserAborts(r) PROVE WaveOrder'
  BY <1>l, <1>3, Sides DEF UserAborts
<1>4. ASSUME GiveUp(r) PROVE WaveOrder'
  BY <1>l, <1>4, Sides DEF GiveUp
<1>5. ASSUME BeginWave(r) PROVE WaveOrder'
  BY <1>l, <1>5, Sides DEF BeginWave
<1>6. ASSUME RemoteBegun(r) PROVE WaveOrder'
  BY <1>l, <1>6, Sides DEF RemoteBegun
<1>7. ASSUME BeginLocal(r) PROVE WaveOrder'
  BY <1>l, <1>7, Sides DEF BeginLocal
<1>8. ASSUME Stream(r) PROVE WaveOrder'
  BY <1>l, <1>8, Sides DEF Stream
<1>9. ASSUME FinishLocal(r) PROVE WaveOrder'
  BY <1>l, <1>9, Sides DEF FinishLocal
<1>10. ASSUME RemoteFinished(r) PROVE WaveOrder'
  BY <1>l, <1>10, Sides DEF RemoteFinished
<1>11. ASSUME Fence(r) PROVE WaveOrder'
  BY <1>l, <1>11, Sides DEF Fence
<1>12. ASSUME CommitsJoined(r) PROVE WaveOrder'
  BY <1>l, <1>12, Sides DEF CommitsJoined, Side
<1>13. ASSUME MarkSave(r) PROVE WaveOrder'
  BY <1>l, <1>13, Sides DEF MarkSave
<1>14. ASSUME SaveLocal(r) PROVE WaveOrder'
  BY <1>l, <1>14, Sides DEF SaveLocal
<1>15. ASSUME SavesJoined(r) PROVE WaveOrder'
  BY <1>l, <1>15, Sides DEF SavesJoined
<1>16. ASSUME RemoteCompleted(r) PROVE WaveOrder'
  BY <1>l, <1>16, Sides DEF RemoteCompleted
<1>17. ASSUME FinishMarker(r) PROVE WaveOrder'
  BY <1>l, <1>17, Sides DEF FinishMarker
<1>18. ASSUME AbortLocal(r) PROVE WaveOrder'
  BY <1>l, <1>18, Sides DEF AbortLocal
<1>19. ASSUME Aborted(r) PROVE WaveOrder'
  BY <1>l, <1>19, Sides DEF Aborted
<1>20. ASSUME NEW s \in Side, LoadOld(r, s) PROVE WaveOrder'
  BY <1>l, <1>20, Sides DEF LoadOld
<1>21. ASSUME NEW s \in Side, NEW p \in Paths, ScanPath(r, s, p) PROVE WaveOrder'
  BY <1>l, <1>21, Sides DEF ScanPath
<1>22. ASSUME NEW s \in Side, ValidateSide(r, s) PROVE WaveOrder'
  BY <1>l, <1>22, Sides DEF ValidateSide
<1> QED BY <1>1, <1>2, <1>3, <1>4, <1>5, <1>6, <1>7, <1>8, <1>9, <1>10, <1>11, <1>12, <1>13,
           <1>14, <1>15, <1>16, <1>17, <1>18, <1>19, <1>20, <1>21, <1>22 DEF Client

\* ... every step of the server, ...
LEMMA ServerOrder ==
  ASSUME Typed, WaveOrder, NEW r \in Runs,
         ServerStep(r)
  PROVE  WaveOrder'
<1> USE DEF diskVars, histVars, planVars, callVars, comVars, clientRest, serverRest, commitRest,
            Goes, Fails, Goto, Send, Answered, FailedCall, Succeeds, Refuses, Reply, Outcome, Pc
<1>0. Inv
  BY DEF Typed
<1> USE <1>0 DEF Inv, ControlOK, CallInFlight, PublisherRuns, WaveOrder, InOrder
<1>1. ASSUME ServerBegin(r) PROVE WaveOrder'
  BY <1>1, Sides DEF ServerBegin
<1>2. ASSUME ServerFinish(r) PROVE WaveOrder'
  BY <1>2, Sides DEF ServerFinish
<1>3. ASSUME ServerMarkSave(r) PROVE WaveOrder'
  BY <1>3, Sides DEF ServerMarkSave
<1>4. ASSUME ServerSave(r) PROVE WaveOrder'
  BY <1>4, Sides DEF ServerSave
<1>5. ASSUME ServerSaveFails(r) PROVE WaveOrder'
  BY <1>5, Sides DEF ServerSaveFails
<1>6. ASSUME ServerComplete(r) PROVE WaveOrder'
  BY <1>6, Sides DEF ServerComplete
<1>7. ASSUME ServerAbort(r) PROVE WaveOrder'
  BY <1>7, Sides DEF ServerAbort
<1>8. ASSUME ServerExit(r) PROVE WaveOrder'
  BY <1>8, Sides DEF ServerExit, Forget
<1> QED BY <1>1, <1>2, <1>3, <1>4, <1>5, <1>6, <1>7, <1>8 DEF ServerStep

\* ... of a commit, ...
LEMMA CommitOrder ==
  ASSUME Typed, WaveOrder, NEW r \in Runs, NEW s \in Side,
         Commit(r, s)
  PROVE  WaveOrder'
<1> USE DEF diskVars, histVars, planVars, callVars, comVars, clientRest, serverRest, commitRest,
            Goes, Fails, Goto, Send, Answered, FailedCall, Succeeds, Refuses, Reply, Outcome, Pc
<1>0. Inv
  BY DEF Typed
<1> USE <1>0 DEF Inv, ControlOK, CallInFlight, PublisherRuns, WaveOrder, InOrder
<1>1. ASSUME CommitStart(r, s) PROVE WaveOrder'
  BY <1>1, Sides DEF CommitStart, Committing, Reported
<1>2. ASSUME PublishRename(r, s) PROVE WaveOrder'
  BY <1>2, Sides DEF PublishRename, Committing, Reported
<1>3. ASSUME PublishFails(r, s) PROVE WaveOrder'
  BY <1>3, Sides DEF PublishFails, Committing, Reported
<1>4. ASSUME CommitEnd(r, s) PROVE WaveOrder'
  BY <1>4, Sides DEF CommitEnd, Committing, Reported, Side
<1>5. ASSUME NEW p \in Paths, PublishAdded(r, s, p) PROVE WaveOrder'
  BY <1>5, Sides DEF PublishAdded, Committing, Reported
<1>6. ASSUME NEW p \in Paths, PublishCheck(r, s, p) PROVE WaveOrder'
  BY <1>6, Sides DEF PublishCheck, Committing, Reported
<1> QED BY <1>1, <1>2, <1>3, <1>4, <1>5, <1>6 DEF Commit

\* ... and of the start and the faults of a run.
LEMMA FaultOrder ==
  ASSUME Typed, WaveOrder, NEW r \in Runs,
         Start(r) \/ Interrupt(r) \/ ClientDies(r) \/ ServerDies(r) \/ Disconnect(r)
  PROVE  WaveOrder'
<1> USE DEF diskVars, histVars, planVars, callVars, comVars, clientRest, serverRest, commitRest,
            Goes, Fails, Goto, Send, Answered, FailedCall, Succeeds, Refuses, Reply, Outcome, Pc
<1>0. Inv
  BY DEF Typed
<1> USE <1>0 DEF Inv, ControlOK, CallInFlight, PublisherRuns, WaveOrder, InOrder
<1>l. CASE \E o : Leave(r, o)
  BY <1>l, LeaveOrder
<1>1. ASSUME Start(r) PROVE WaveOrder'
  BY <1>l, <1>1, Sides DEF Start
<1>2. ASSUME Interrupt(r) PROVE WaveOrder'
  BY <1>l, <1>2, Sides DEF Interrupt
<1>3. ASSUME ClientDies(r) PROVE WaveOrder'
  BY <1>l, <1>3, Sides DEF ClientDies
<1>4. ASSUME ServerDies(r) PROVE WaveOrder'
  BY <1>l, <1>4, Sides DEF ServerDies, Forget
<1>5. ASSUME Disconnect(r) PROVE WaveOrder'
  BY <1>l, <1>5, Sides DEF Disconnect
<1> QED BY <1>1, <1>2, <1>3, <1>4, <1>5

\* The order of calls and commits is an invariant.
LEMMA InitOrder == Init => WaveOrder
  BY DEF Init, WaveOrder, InOrder

\* Every step keeps the order of calls and commits.
LEMMA NextOrder == Typed /\ WaveOrder /\ [Next]_vars => WaveOrder'
<1> SUFFICES ASSUME Typed, WaveOrder, [Next]_vars PROVE WaveOrder'
  OBVIOUS
<1>1. CASE UNCHANGED <<pc, callVars, com>>
  BY <1>1 DEF callVars, WaveOrder, InOrder
<1>2. ASSUME UNCHANGED vars PROVE WaveOrder'
  BY <1>1, <1>2 DEF vars, comVars
<1>3. ASSUME NEW s \in Side, Recover(s) \/ \E p \in Paths : Write(s, p) \/ Delete(s, p)
      PROVE  WaveOrder'
  BY <1>1, <1>3 DEF Recover, Write, Delete, Edited, comVars
<1>4. ASSUME Environment PROVE WaveOrder'
  BY <1>3, <1>4, FaultOrder DEF Environment
<1> QED BY <1>2, <1>4, ClientOrder, ServerOrder, CommitOrder DEF Next

-----------------------------------------------------------------------------
(* Whose markers are where *)

\* Side s has a marker of run r.
Marked(r, s) == marker[s] # None /\ marker[s].run = r

\* A run has a local marker while it is in a wave, and keeps one only with an
\* error to return.  On the remote side it has none before its first wave and
\* when the server has reported the end of a wave or of a cleanup.
MarkersOf(r) ==
  /\ Marked(r, Local) =>
       /\ pc[r] \in {"stream", "finishLocal", "finish", "validate", "fence", "commit", "mark",
                     "save", "complete", "finishMarker", "abortLocal", "abort", "over"}
       /\ pc[r] \in {"abort", "over"} => out[r] = "error"
  /\ Marked(r, Remote) =>
       /\ pc[r] \notin {"idle", "scan", "wave", "finishMarker", "panic"}
       /\ pc[r] = "over" => out[r] = "error"
       /\ pc[r] = "complete" => rep[r] # "ok"
       /\ pc[r] = "abort" /\ out[r] = "none" => rep[r] # "ok"
  /\ pc[r] = "over" /\ out[r] # "error" => req[r] = "none"
  /\ pc[r] \in {"abortLocal", "abort"} /\ out[r] = "none" => req[r] \in {"none", "abort"}
  /\ pc[r] # "over" => out[r] \in {"none", "error"}

OwnMarkers == \A r \in Runs : MarkersOf(r)

\* No side gets a marker of another run: a marker stays, moves on or goes.
NoNewMarker ==
  \A t \in Side : marker'[t] # None => marker[t] # None /\ marker'[t].run = marker[t].run

\* Only the marker of side s is new, and it is one of run r.
NewMarker(r, s) ==
  \A t \in Side : marker'[t] # None =>
     \/ marker[t] # None /\ marker'[t].run = marker[t].run
     \/ t = s /\ marker'[t].run = r

\* What a step does to one marker: it is created for run r, ...
LEMMA CreatedMarker ==
  ASSUME ControlOK, NEW r \in Runs, NEW s \in Side, NEW ph, Created(r, s, ph)
  PROVE  NewMarker(r, s)
  BY DEF Created, ControlOK, NewMarker

\* ... moved on by its owner, ...
LEMMA MovedMarker ==
  ASSUME ControlOK, NEW r \in Runs, NEW s \in Side, NEW from \in Phase, NEW to, Moved(r, s, from, to)
  PROVE  NoNewMarker
<1>1. marker[s] = [run |-> r, phase |-> from]
  BY DEF Moved, Owns
<1>2. marker[s] # None /\ marker[s].run = r
  BY <1>1, NoneAssumption DEF Marker
<1>3. marker' = [marker EXCEPT ![s] = [run |-> r, phase |-> to]]
  BY DEF Moved
<1> QED BY <1>2, <1>3 DEF ControlOK, NoNewMarker

\* ... removed, ...
LEMMA RemovedMarker ==
  ASSUME ControlOK, NEW s \in Side, marker' = [marker EXCEPT ![s] = None]
  PROVE  NoNewMarker /\ marker'[s] = None
  BY DEF ControlOK, NoNewMarker

\* ... or left as it is.
LEMMA SameMarker ==
  ASSUME UNCHANGED marker
  PROVE  NoNewMarker
  BY DEF NoNewMarker

\* A client that ends keeps markers only with an error.
LEMMA LeaveMarkers ==
  ASSUME Typed, OwnMarkers, NEW r \in Runs, NEW o \in Outcome, Leave(r, o), NoNewMarker,
         o # "error" => req[r] = "none" /\ \A s \in Side : marker'[s] # None => marker'[s].run # r
  PROVE  OwnMarkers'
<1>1. /\ pc' = [pc EXCEPT ![r] = "over"] /\ out' = [out EXCEPT ![r] = o]
      /\ UNCHANGED req /\ rep' = [rep EXCEPT ![r] = "none"]
  BY DEF Leave
<1>2. \A q \in Runs : q # r => /\ pc'[q] = pc[q] /\ out'[q] = out[q]
                               /\ req'[q] = req[q] /\ rep'[q] = rep[q]
  BY <1>1 DEF Typed, Inv, ControlOK, DataTypes, RunTypes
<1>3. pc'[r] = "over" /\ out'[r] = o
  BY <1>1 DEF Typed, Inv, ControlOK, DataTypes, RunTypes
<1> QED BY <1>1, <1>2, <1>3, Sides DEF OwnMarkers, MarkersOf, Marked, NoNewMarker

\* What the invariants say of a run, by where its client is
LEMMA Here ==
  ASSUME Typed, WaveOrder, OwnMarkers, NEW r \in Runs
  PROVE  /\ pc[r] \in {"idle", "scan", "wave", "begin", "beginLocal", "panic"} => ~Marked(r, Local)
         /\ pc[r] \in {"idle", "scan", "wave", "finishMarker", "panic"} => ~Marked(r, Remote)
         /\ pc[r] # "over" => out[r] \in {"none", "error"}
         /\ pc[r] \in {"scan", "wave", "beginLocal", "stream", "finishLocal", "validate", "fence",
                       "mark", "finishMarker"} => req[r] = "none"
         /\ rep[r] # "none" => req[r] = "none"
<1>1. /\ req[r] \in Call
      /\ rep[r] # "none" => req[r] = "none"
  BY DEF Typed, Inv, ControlOK, CallInFlight
<1> QED BY <1>1 DEF OwnMarkers, MarkersOf, WaveOrder, InOrder, Call

\* A client that goes on, with or without an error to return
LEMMA GoMarkers ==
  ASSUME Typed, WaveOrder, OwnMarkers, NEW r \in Runs, pc[r] # "over", NEW l \in Pc, l # "over",
         Goes(r, l) \/ Fails(r, l),
         \/ UNCHANGED <<req, rep>> /\ l \notin {"complete", "abort"}
         \/ Send(r, l) /\ l # "abortLocal",
         l \in {"abortLocal", "abort"} => Fails(r, l) \/ req[r] = "none",
         NoNewMarker \/ NewMarker(r, Local),
         marker'[Local] # None /\ marker'[Local].run = r =>
           /\ l \notin {"idle", "scan", "wave", "begin", "beginLocal", "panic"}
           /\ l = "abort" => Fails(r, l),
         marker'[Remote] # None /\ marker'[Remote].run = r =>
           l \notin {"idle", "scan", "wave", "finishMarker", "panic"}
  PROVE  OwnMarkers'
<1>1. pc'[r] = l /\ \A q \in Runs : q # r => pc'[q] = pc[q]
  BY DEF Goes, Fails, Goto, Typed, Inv, ControlOK
<1>2. /\ out'[r] \in {"none", "error"}
      /\ Fails(r, l) => out'[r] = "error"
      /\ \A q \in Runs : q # r => out'[q] = out[q]
  BY DEF Goes, Fails, Typed, DataTypes, RunTypes, OwnMarkers, MarkersOf
<1>3. /\ \A q \in Runs : q # r => req'[q] = req[q] /\ rep'[q] = rep[q]
      /\ req'[r] \in {req[r], l}
      /\ l \in {"complete", "abort"} => rep'[r] = "none"
      /\ l = "abortLocal" => req'[r] = req[r]
  BY DEF Send, Typed, Inv, ControlOK
<1>4. MarkersOf(r)'
  BY <1>1, <1>2, <1>3 DEF MarkersOf, Marked, Pc
<1>5. \A q \in Runs : q # r => \A t \in Side : marker'[t] # None /\ marker'[t].run = q =>
         marker[t] # None /\ marker[t].run = q
  BY DEF NoNewMarker, NewMarker
<1>6. ASSUME NEW q \in Runs, q # r PROVE MarkersOf(q)'
  BY <1>1, <1>2, <1>3, <1>5, <1>6, Sides DEF OwnMarkers, MarkersOf, Marked
<1> QED BY <1>4, <1>6 DEF OwnMarkers

\* A server that ends or goes on with a call
LEMMA CallMarkers ==
  ASSUME Typed, OwnMarkers, NEW r \in Runs, UNCHANGED <<pc, out>>,
         NoNewMarker \/ NewMarker(r, Remote),
         \A q \in Runs : q # r => req'[q] = req[q] /\ rep'[q] = rep[q],
         req'[r] \in {req[r], "none"},
         marker'[Remote] # None /\ marker'[Remote].run = r =>
           /\ pc[r] \notin {"idle", "scan", "wave", "finishMarker", "panic"}
           /\ pc[r] = "over" => out[r] = "error"
           /\ pc[r] = "complete" => rep'[r] # "ok"
           /\ pc[r] = "abort" /\ out[r] = "none" => rep'[r] # "ok"
  PROVE  OwnMarkers'
<1>1. MarkersOf(r)'
  BY Sides DEF OwnMarkers, MarkersOf, Marked, NoNewMarker, NewMarker
<1>2. \A q \in Runs : q # r => \A t \in Side : marker'[t] # None /\ marker'[t].run = q =>
         marker[t] # None /\ marker[t].run = q
  BY DEF NoNewMarker, NewMarker
<1>3. ASSUME NEW q \in Runs, q # r PROVE MarkersOf(q)'
  BY <1>2, <1>3, Sides DEF OwnMarkers, MarkersOf, Marked
<1> QED BY <1>1, <1>3 DEF OwnMarkers

\* The steps of the client that begin, stage and end a wave, or end the run,
\* keep markers of the run where they belong, ...
LEMMA WaveMarkers ==
  ASSUME Typed, WaveOrder, OwnMarkers, NEW r \in Runs,
         \/ Plan(r) \/ GiveUp(r) \/ RemoteBegun(r) \/ BeginLocal(r) \/ Stream(r) \/ FinishLocal(r)
         \/ Fence(r) \/ MarkSave(r) \/ FinishMarker(r)
  PROVE  OwnMarkers'
<1>0. ControlOK
  BY DEF Typed, Inv
<1> USE DEF Marked
<1>1. CASE Plan(r)
  <2>1. NoNewMarker /\ UNCHANGED marker
    BY <1>1, SameMarker DEF Plan, diskVars
  <2>2. pc[r] = "scan" /\ req[r] = "none" /\ \A s \in Side : ~Marked(r, s)
    BY <1>1, Here DEF Plan, Side
  <2>3. CASE Leave(r, "success")
    BY <2>1, <2>2, <2>3, LeaveMarkers DEF Outcome
  <2>4. CASE \E l \in {"panic", "wave"} : Goes(r, l) /\ UNCHANGED <<req, rep>>
    BY <2>1, <2>2, <2>4, Sides, GoMarkers DEF Pc
  <2> QED BY <1>1, <2>3, <2>4 DEF Plan, Goes, callVars
<1>2. CASE GiveUp(r)
  <2>1. NoNewMarker /\ UNCHANGED marker
    BY <1>2, SameMarker DEF GiveUp, diskVars
  <2>2. req[r] = "none" /\ \A s \in Side : ~Marked(r, s)
    BY <1>2, Here DEF GiveUp, Side
  <2> QED BY <1>2, <2>1, <2>2, LeaveMarkers DEF GiveUp, Outcome
<1>3. CASE RemoteBegun(r)
  <2>1. NoNewMarker /\ UNCHANGED marker
    BY <1>3, SameMarker DEF RemoteBegun, clientRest, diskVars
  <2>2. CASE Leave(r, "error")
    BY <2>1, <2>2, LeaveMarkers DEF Outcome
  <2>3. pc[r] = "begin" /\ ~Marked(r, Local)
    BY <1>3, Here DEF RemoteBegun
  <2>4. CASE Answered(r) /\ Goes(r, "abort") /\ Send(r, "abort")
    <3>1. req[r] = "none"
      BY <2>4, Here DEF Answered
    <3> QED BY <2>1, <2>3, <2>4, <3>1, GoMarkers DEF Pc
  <2>5. CASE Answered(r) /\ Goes(r, "beginLocal") /\ rep' = [rep EXCEPT ![r] = "none"] /\ UNCHANGED req
    <3>1. pc' = [pc EXCEPT ![r] = "beginLocal"] /\ UNCHANGED out
      BY <2>5 DEF Goes, Goto
    <3> QED BY <1>0, <2>1, <2>3, <2>5, <3>1, Sides DEF ControlOK, OwnMarkers, MarkersOf
  <2> QED BY <1>3, <2>2, <2>4, <2>5 DEF RemoteBegun
<1>4. CASE BeginLocal(r)
  <2>1. pc[r] = "beginLocal" /\ req[r] = "none" /\ ~Marked(r, Local)
    BY <1>4, Here DEF BeginLocal
  <2>2. NoNewMarker \/ NewMarker(r, Local)
    BY <1>0, <1>4, Sides, CreatedMarker, SameMarker DEF BeginLocal
  <2>3. CASE Goes(r, "stream") /\ UNCHANGED <<req, rep>>
    BY <2>1, <2>2, <2>3, GoMarkers DEF Pc
  <2>4. CASE Fails(r, "abort") /\ Send(r, "abort")
    BY <2>1, <2>2, <2>4, GoMarkers DEF Pc
  <2> QED BY <1>4, <2>3, <2>4 DEF BeginLocal
<1>5. CASE Stream(r)
  <2>1. NoNewMarker /\ UNCHANGED marker
    BY <1>5, SameMarker DEF Stream, clientRest, diskVars
  <2>2. pc[r] = "stream" /\ req[r] = "none"
    BY <1>5, Here DEF Stream
  <2>3. \E l \in {"finishLocal", "abortLocal"} :
          (Goes(r, l) \/ Fails(r, l)) /\ UNCHANGED <<req, rep>>
    BY <1>5 DEF Stream
  <2> QED BY <2>1, <2>2, <2>3, GoMarkers DEF Pc
<1>6. CASE FinishLocal(r)
  <2>1. NoNewMarker
    BY <1>0, <1>6, Sides, SameMarker, MovedMarker DEF FinishLocal, Phase
  <2>2. pc[r] = "finishLocal" /\ req[r] = "none"
    BY <1>6, Here DEF FinishLocal
  <2>3. CASE (Goes(r, "abortLocal") \/ Fails(r, "abortLocal")) /\ UNCHANGED <<req, rep>>
    BY <2>1, <2>2, <2>3, GoMarkers DEF Pc
  <2>4. CASE Goes(r, "finish") /\ Send(r, "finish")
    BY <2>1, <2>2, <2>4, GoMarkers DEF Pc
  <2> QED BY <1>6, <2>3, <2>4 DEF FinishLocal
<1>7. CASE Fence(r)
  <2>1. NoNewMarker
    BY <1>7, SameMarker DEF Fence, clientRest, diskVars
  <2>2. pc[r] = "fence" /\ req[r] = "none"
    BY <1>7, Here DEF Fence
  <2>3. CASE Goes(r, "abortLocal") /\ UNCHANGED <<req, rep>>
    BY <2>1, <2>2, <2>3, GoMarkers DEF Pc
  <2>4. CASE Goes(r, "commit") /\ Send(r, "commit")
    BY <2>1, <2>2, <2>4, GoMarkers DEF Pc
  <2> QED BY <1>7, <2>3, <2>4 DEF Fence
<1>8. CASE MarkSave(r)
  <2>1. NoNewMarker
    BY <1>0, <1>8, Sides, SameMarker, MovedMarker DEF MarkSave, Phase, diskVars
  <2>2. CASE Leave(r, "error")
    BY <2>1, <2>2, LeaveMarkers DEF Outcome
  <2>3. CASE pc[r] = "mark" /\ Goes(r, "save") /\ Send(r, "save")
    BY <2>1, <2>3, GoMarkers DEF Pc
  <2> QED BY <1>8, <2>2, <2>3 DEF MarkSave
<1>9. CASE FinishMarker(r)
  <2>1. NoNewMarker
    BY <1>0, <1>9, Sides, SameMarker, RemovedMarker DEF FinishMarker
  <2>2. CASE Leave(r, "error")
    BY <2>1, <2>2, LeaveMarkers DEF Outcome
  <2>3. pc[r] = "finishMarker" /\ req[r] = "none" /\ ~Marked(r, Remote)
    BY <1>9, Here DEF FinishMarker
  <2>4. ASSUME marker' = [marker EXCEPT ![Local] = None]
        PROVE  \A s \in Side : marker'[s] # None => marker'[s].run # r
    <3>1. marker'[Local] = None
      BY <1>0, <2>4, Sides, RemovedMarker
    <3> QED BY <2>1, <2>3, <3>1 DEF NoNewMarker, Side
  <2>5. CASE /\ marker' = [marker EXCEPT ![Local] = None]
             /\ \E o \in {"success", "interrupted"} : Leave(r, o)
    BY <2>1, <2>3, <2>4, <2>5, LeaveMarkers DEF Outcome
  <2>6. CASE marker' = [marker EXCEPT ![Local] = None] /\ Goes(r, "wave") /\ UNCHANGED <<req, rep>>
    BY <2>1, <2>3, <2>4, <2>6, Sides, GoMarkers DEF Pc
  <2> QED BY <1>9, <2>2, <2>5, <2>6 DEF FinishMarker, Goes, callVars
<1> QED BY <1>1, <1>2, <1>3, <1>4, <1>5, <1>6, <1>7, <1>8, <1>9

\* ... so do its other steps, ...
LEMMA ClientMarkers ==
  ASSUME Typed, WaveOrder, OwnMarkers, NEW r \in Runs,
         Client(r)
  PROVE  OwnMarkers'
<1> USE DEF diskVars, histVars, planVars, callVars, comVars, clientRest, serverRest, commitRest,
            Goes, Fails, Goto, Send, Answered, FailedCall, Succeeds, Refuses, Reply, Outcome, Pc
<1>0. Inv /\ DataTypes
  BY DEF Typed
<1> USE <1>0 DEF Inv, ControlOK, CallInFlight, DataTypes, RunTypes, WaveOrder, InOrder, OwnMarkers,
                 MarkersOf, Marked
<1>1. ASSUME ServerScan(r) PROVE OwnMarkers'
  <2>1. NoNewMarker
    BY <1>1, SameMarker DEF ServerScan
  <2> QED BY <1>1, <2>1, Sides DEF ServerScan, Leave, NoNewMarker
<1>2. ASSUME UserAborts(r) PROVE OwnMarkers'
  <2>1. NoNewMarker
    BY <1>2, SameMarker DEF UserAborts
  <2> QED BY <1>2, <2>1, Sides DEF UserAborts, Leave, NoNewMarker
<1>3. ASSUME BeginWave(r) PROVE OwnMarkers'
  <2>1. NoNewMarker
    BY <1>3, SameMarker DEF BeginWave
  <2> QED BY <1>3, <2>1, Sides DEF BeginWave, Leave, NoNewMarker
<1>4. ASSUME RemoteFinished(r) PROVE OwnMarkers'
  <2>1. NoNewMarker
    BY <1>4, SameMarker DEF RemoteFinished
  <2> QED BY <1>4, <2>1, Sides DEF RemoteFinished, Leave, NoNewMarker
<1>5. ASSUME CommitsJoined(r) PROVE OwnMarkers'
  <2>1. NoNewMarker
    BY <1>5, SameMarker DEF CommitsJoined
  <2> QED BY <1>5, <2>1, Sides DEF CommitsJoined, Leave, NoNewMarker
<1>6. ASSUME SaveLocal(r) PROVE OwnMarkers'
  <2>1. NoNewMarker
    BY <1>6, SameMarker DEF SaveLocal
  <2> QED BY <1>6, <2>1, Sides DEF SaveLocal, Leave, NoNewMarker
<1>7. ASSUME SavesJoined(r) PROVE OwnMarkers'
  <2>1. NoNewMarker
    BY <1>7, SameMarker DEF SavesJoined
  <2> QED BY <1>7, <2>1, Sides DEF SavesJoined, Leave, NoNewMarker
<1>8. ASSUME RemoteCompleted(r) PROVE OwnMarkers'
  <2>1. NoNewMarker
    BY <1>8, SameMarker DEF RemoteCompleted
  <2> QED BY <1>8, <2>1, Sides DEF RemoteCompleted, Leave, NoNewMarker
<1>9. ASSUME AbortLocal(r) PROVE OwnMarkers'
  <2>1. NoNewMarker
    BY <1>9, Sides, SameMarker, MovedMarker, RemovedMarker DEF AbortLocal, Phase
  <2> QED BY <1>9, <2>1, Sides DEF AbortLocal, Leave, NoNewMarker
<1>10. ASSUME Aborted(r) PROVE OwnMarkers'
  <2>1. NoNewMarker
    BY <1>10, SameMarker DEF Aborted
  <2> QED BY <1>10, <2>1, Sides DEF Aborted, Leave, NoNewMarker
<1>11. ASSUME NEW s \in Side, LoadOld(r, s) PROVE OwnMarkers'
  <2>1. NoNewMarker
    BY <1>11, SameMarker DEF LoadOld
  <2> QED BY <1>11, <2>1, Sides DEF LoadOld, Leave, NoNewMarker
<1>12. ASSUME NEW s \in Side, NEW p \in Paths, ScanPath(r, s, p) PROVE OwnMarkers'
  <2>1. NoNewMarker
    BY <1>12, SameMarker DEF ScanPath
  <2> QED BY <1>12, <2>1, Sides DEF ScanPath, Leave, NoNewMarker
<1>13. ASSUME NEW s \in Side, ValidateSide(r, s) PROVE OwnMarkers'
  <2>1. NoNewMarker
    BY <1>13, SameMarker DEF ValidateSide
  <2> QED BY <1>13, <2>1, Sides DEF ValidateSide, Leave, NoNewMarker
<1> QED BY <1>1, <1>2, <1>3, <1>4, <1>5, <1>6, <1>7, <1>8, <1>9, <1>10, <1>11, <1>12, <1>13,
           WaveMarkers DEF Client

\* ... the steps of the server, ...
LEMMA ServerMarkers ==
  ASSUME Typed, WaveOrder, OwnMarkers, NEW r \in Runs,
         ServerStep(r)
  PROVE  OwnMarkers'
<1> USE DEF diskVars, histVars, planVars, callVars, comVars, clientRest, serverRest, commitRest,
            Goes, Fails, Goto, Send, Answered, FailedCall, Succeeds, Refuses, Reply, Outcome, Pc
<1>0. Inv /\ DataTypes
  BY DEF Typed
<1> USE <1>0 DEF Inv, ControlOK, CallInFlight, DataTypes, RunTypes, WaveOrder, InOrder, OwnMarkers,
                 MarkersOf, Marked
<1>1. ASSUME ServerBegin(r) PROVE OwnMarkers'
  <2>1. NoNewMarker \/ NewMarker(r, Remote)
    BY <1>1, Sides, CreatedMarker, SameMarker DEF ServerBegin, Phase
  <2>2. /\ UNCHANGED <<pc, out>> /\ req'[r] \in {req[r], "none"}
        /\ \A q \in Runs : q # r => req'[q] = req[q] /\ rep'[q] = rep[q]
    BY <1>1 DEF ServerBegin
  <2> QED BY <1>1, <2>1, <2>2, Sides, CallMarkers DEF ServerBegin, NoNewMarker, NewMarker
<1>2. ASSUME ServerFinish(r) PROVE OwnMarkers'
  <2>1. NoNewMarker
    BY <1>2, Sides, SameMarker, MovedMarker, RemovedMarker DEF ServerFinish, Phase
  <2>2. /\ UNCHANGED <<pc, out>> /\ req'[r] \in {req[r], "none"}
        /\ \A q \in Runs : q # r => req'[q] = req[q] /\ rep'[q] = rep[q]
    BY <1>2 DEF ServerFinish
  <2> QED BY <1>2, <2>1, <2>2, Sides, CallMarkers DEF ServerFinish, NoNewMarker, NewMarker
<1>3. ASSUME ServerMarkSave(r) PROVE OwnMarkers'
  <2>1. NoNewMarker
    BY <1>3, Sides, SameMarker, MovedMarker, RemovedMarker DEF ServerMarkSave, Phase
  <2>2. /\ UNCHANGED <<pc, out>> /\ req'[r] \in {req[r], "none"}
        /\ \A q \in Runs : q # r => req'[q] = req[q] /\ rep'[q] = rep[q]
    BY <1>3 DEF ServerMarkSave
  <2> QED BY <1>3, <2>1, <2>2, Sides, CallMarkers DEF ServerMarkSave, NoNewMarker, NewMarker
<1>4. ASSUME ServerSave(r) PROVE OwnMarkers'
  <2>1. NoNewMarker
    BY <1>4, SameMarker DEF ServerSave
  <2> QED BY <1>4, <2>1, Sides DEF ServerSave, NoNewMarker
<1>5. ASSUME ServerSaveFails(r) PROVE OwnMarkers'
  <2>1. NoNewMarker
    BY <1>5, SameMarker DEF ServerSaveFails
  <2> QED BY <1>5, <2>1, Sides DEF ServerSaveFails, NoNewMarker
<1>6. ASSUME ServerComplete(r) PROVE OwnMarkers'
  <2>1. NoNewMarker
    BY <1>6, Sides, SameMarker, MovedMarker, RemovedMarker DEF ServerComplete, Phase
  <2> QED BY <1>6, <2>1, Sides DEF ServerComplete, NoNewMarker
<1>7. ASSUME ServerAbort(r) PROVE OwnMarkers'
  <2>1. NoNewMarker
    BY <1>7, Sides, SameMarker, MovedMarker, RemovedMarker DEF ServerAbort, Phase
  <2> QED BY <1>7, <2>1, Sides DEF ServerAbort, NoNewMarker
<1>8. ASSUME ServerExit(r) PROVE OwnMarkers'
  <2>1. NoNewMarker
    BY <1>8, SameMarker DEF ServerExit
  <2> QED BY <1>8, <2>1, Sides DEF ServerExit, NoNewMarker
<1> QED BY <1>1, <1>2, <1>3, <1>4, <1>5, <1>6, <1>7, <1>8 DEF ServerStep

\* ... of a commit, ...
LEMMA CommitMarkers ==
  ASSUME Typed, WaveOrder, OwnMarkers, NEW r \in Runs, NEW s \in Side,
         Commit(r, s)
  PROVE  OwnMarkers'
<1> USE DEF diskVars, histVars, planVars, callVars, comVars, clientRest, serverRest, commitRest,
            Goes, Fails, Goto, Send, Answered, FailedCall, Succeeds, Refuses, Reply, Outcome, Pc
<1>0. Inv /\ DataTypes
  BY DEF Typed
<1> USE <1>0 DEF Inv, ControlOK, CallInFlight, DataTypes, RunTypes, WaveOrder, InOrder, OwnMarkers,
                 MarkersOf, Marked
<1>1. ASSUME CommitStart(r, s) PROVE OwnMarkers'
  <2>1. NoNewMarker
    BY <1>1, Sides, SameMarker, MovedMarker, RemovedMarker DEF CommitStart, Phase
  <2> QED BY <1>1, <2>1, Sides DEF CommitStart, Reported, NoNewMarker
<1>2. ASSUME PublishRename(r, s) PROVE OwnMarkers'
  <2>1. NoNewMarker
    BY <1>2, SameMarker DEF PublishRename
  <2> QED BY <1>2, <2>1, Sides DEF PublishRename, Reported, NoNewMarker
<1>3. ASSUME PublishFails(r, s) PROVE OwnMarkers'
  <2>1. NoNewMarker
    BY <1>3, SameMarker DEF PublishFails
  <2> QED BY <1>3, <2>1, Sides DEF PublishFails, Reported, NoNewMarker
<1>4. ASSUME CommitEnd(r, s) PROVE OwnMarkers'
  <2>1. NoNewMarker
    BY <1>4, Sides, SameMarker, MovedMarker, RemovedMarker DEF CommitEnd, Phase
  <2> QED BY <1>4, <2>1, Sides DEF CommitEnd, Reported, NoNewMarker
<1>5. ASSUME NEW p \in Paths, PublishAdded(r, s, p) PROVE OwnMarkers'
  <2>1. NoNewMarker
    BY <1>5, SameMarker DEF PublishAdded
  <2> QED BY <1>5, <2>1, Sides DEF PublishAdded, Reported, NoNewMarker
<1>6. ASSUME NEW p \in Paths, PublishCheck(r, s, p) PROVE OwnMarkers'
  <2>1. NoNewMarker
    BY <1>6, SameMarker DEF PublishCheck
  <2> QED BY <1>6, <2>1, Sides DEF PublishCheck, Reported, NoNewMarker
<1> QED BY <1>1, <1>2, <1>3, <1>4, <1>5, <1>6 DEF Commit

\* ... and of the start and the faults of a run.
LEMMA FaultMarkers ==
  ASSUME Typed, WaveOrder, OwnMarkers, NEW r \in Runs,
         Start(r) \/ Interrupt(r) \/ ClientDies(r) \/ ServerDies(r) \/ Disconnect(r)
  PROVE  OwnMarkers'
<1> USE DEF diskVars, histVars, planVars, callVars, comVars, clientRest, serverRest, commitRest,
            Goes, Fails, Goto, Send, Answered, FailedCall, Succeeds, Refuses, Reply, Outcome, Pc
<1>0. Inv /\ DataTypes
  BY DEF Typed
<1> USE <1>0 DEF Inv, ControlOK, CallInFlight, DataTypes, RunTypes, WaveOrder, InOrder, OwnMarkers,
                 MarkersOf, Marked
<1>1. ASSUME Start(r) PROVE OwnMarkers'
  <2>1. NoNewMarker
    BY <1>1, SameMarker DEF Start
  <2> QED BY <1>1, <2>1, Sides DEF Start, Leave, NoNewMarker
<1>2. ASSUME Interrupt(r) PROVE OwnMarkers'
  <2>1. NoNewMarker
    BY <1>2, SameMarker DEF Interrupt
  <2> QED BY <1>2, <2>1, Sides DEF Interrupt, Leave, NoNewMarker
<1>3. ASSUME ClientDies(r) PROVE OwnMarkers'
  <2>1. NoNewMarker
    BY <1>3, SameMarker DEF ClientDies
  <2> QED BY <1>3, <2>1, Sides DEF ClientDies, Leave, NoNewMarker
<1>4. ASSUME ServerDies(r) PROVE OwnMarkers'
  <2>1. NoNewMarker
    BY <1>4, SameMarker DEF ServerDies
  <2> QED BY <1>4, <2>1, Sides DEF ServerDies, Leave, NoNewMarker
<1>5. ASSUME Disconnect(r) PROVE OwnMarkers'
  <2>1. NoNewMarker
    BY <1>5, SameMarker DEF Disconnect
  <2> QED BY <1>5, <2>1, Sides DEF Disconnect, Leave, NoNewMarker
<1> QED BY <1>1, <1>2, <1>3, <1>4, <1>5

\* The markers of the runs: an invariant
LEMMA InitMarkers == Init => OwnMarkers
  BY DEF Init, OwnMarkers, MarkersOf, Marked, Side, Local, Remote

\* Every step keeps the markers where their runs account for them.
LEMMA NextMarkers == Typed /\ WaveOrder /\ OwnMarkers /\ [Next]_vars => OwnMarkers'
<1> SUFFICES ASSUME Typed, WaveOrder, OwnMarkers, [Next]_vars PROVE OwnMarkers'
  OBVIOUS
<1>1. ASSUME UNCHANGED <<pc, out, callVars>>, NoNewMarker PROVE OwnMarkers'
  BY <1>1, Sides DEF callVars, OwnMarkers, MarkersOf, Marked, NoNewMarker
<1>2. ASSUME UNCHANGED vars PROVE OwnMarkers'
  BY <1>1, <1>2, SameMarker DEF vars, diskVars
<1>3. ASSUME NEW s \in Side, Recover(s) PROVE OwnMarkers'
  BY <1>1, <1>3, RemovedMarker DEF Recover, Typed, Inv
<1>4. ASSUME NEW s \in Side, NEW p \in Paths, Write(s, p) \/ Delete(s, p) PROVE OwnMarkers'
  BY <1>1, <1>4, SameMarker DEF Write, Delete, Edited
<1>5. ASSUME Environment PROVE OwnMarkers'
  BY <1>3, <1>4, <1>5, FaultMarkers DEF Environment
<1> QED BY <1>2, <1>5, ClientMarkers, ServerMarkers, CommitMarkers DEF Next

\* A run that returned success, or a clean interrupt, has left no marker on
\* either side, whatever else ran, broke or was cleared at the same time.
THEOREM CleanEnding == Spec => []OkLeavesNoMarker
<1>1. OwnMarkers => OkLeavesNoMarker
  <2> SUFFICES ASSUME OwnMarkers, NEW r \in Runs, NEW s \in Side,
                      out[r] \in {"success", "interrupted"}
               PROVE  ~Marked(r, s)
    BY DEF OkLeavesNoMarker, Marked
  <2>1. pc[r] = "over" /\ out[r] # "error"
    BY DEF OwnMarkers, MarkersOf
  <2> QED BY <2>1 DEF OwnMarkers, MarkersOf, Side
<1>2. Typed /\ WaveOrder /\ OwnMarkers /\ [Next]_vars => (Typed /\ WaveOrder /\ OwnMarkers)'
  BY NextTyped, NextOrder, NextMarkers
<1> QED BY <1>1, <1>2, InitTyped, InitOrder, InitMarkers, PTL DEF Spec
-----------------------------------------------------------------------------
(* No version is lost *)

\* No entry at p, and what a user or the program gave up there
gone == [p \in Paths |-> {Absent, Unread} \cup GivenUp(p)]

\* What is on side s at p, or is gone
held == [s \in Side |-> [p \in Paths |-> {tree[s][p]} \cup gone[p]]]

\* Whatever a snapshot or a run believes to be on a side is there or gone, and
\* where a run saw a change the old entry is gone.
Knowledge ==
  \A s \in Side, p \in Paths :
    /\ snap[s][p] \in held[s][p]
    /\ \A r \in Runs :
         /\ old[r][s][p] \in held[s][p]
         /\ seen[r][s][p] \in held[s][p]
         /\ seen[r][s][p] \notin {Unread, old[r][s][p]} => old[r][s][p] \in gone[p]

\* A run takes an entry over because it changed at its source, and only there;
\* where an action has to do with both sides, both have changed.
Changed(r, s, p) == seen[r][s][p] # old[r][s][p]
PlanOf(r) ==
  \A p \in Paths :
    /\ act[r][p] = "toLocal" => Changed(r, Remote, p) /\ ~Changed(r, Local, p)
    /\ act[r][p] = "toRemote" => Changed(r, Local, p) /\ ~Changed(r, Remote, p)
    /\ act[r][p] \in {"identical", "conflict", "resolvedToLocal", "resolvedToRemote"} =>
         Changed(r, Local, p) /\ Changed(r, Remote, p)
    /\ act[r][p] = "identical" => seen[r][Local][p] = seen[r][Remote][p]

\* A wave takes some of the planned paths that are left.
WaveOf(r) == group[r] \subseteq todo[r] /\ todo[r] \subseteq Planned(r)

\* What a run has taken over to side s was there: the paths its commit is done
\* with, and those of its earlier waves.
ProgressOf(r, s) ==
  /\ com[r][s] = "publishing" => left[r][s] \subseteq Targets(r, s)
  /\ \A p \in Paths : Towards(r, p, s) =>
       \/ p \in todo[r] /\ ~(p \in group[r] /\ com[r][s] \in {"publishing", "done"})
       \/ com[r][s] = "publishing" /\ p \in left[r][s] /\ p \in todo[r]
       \/ NewEntry(r, p, s) \in held[s][p]

\* Between the final check of a path and its rename only a user can write there.
WindowOf(r, s) ==
  win[r][s] # None =>
    /\ com[r][s] = "publishing" /\ win[r][s] \in left[r][s]
    /\ tree[s][win[r][s]] \in {Expected(r, win[r][s], s), Absent} \cup raced[win[r][s]]

DataOf(r) == PlanOf(r) /\ WaveOf(r) /\ \A s \in Side : ProgressOf(r, s) /\ WindowOf(r, s)

RunData == \A r \in Runs : DataOf(r)

\* The tree changes, but what was there is gone, and gone for good.
Grows ==
  /\ \A p \in Paths : gone[p] \subseteq gone'[p]
  /\ \A s \in Side, p \in Paths : tree[s][p] \in {tree'[s][p]} \cup gone'[p]

\* What a side holds or has given up then grows, too.
LEMMA GrowsHeld ==
  ASSUME Grows
  PROVE  \A s \in Side, p \in Paths : held[s][p] \subseteq held'[s][p]
  BY DEF Grows, held

\* Most steps change neither the trees nor what is gone.
LEMMA QuietGrows ==
  ASSUME UNCHANGED <<tree, replaced, dropped, raced>>
  PROVE  Grows
  BY DEF Grows, gone, GivenUp

\* A user gives up what an edit replaces.
LEMMA EditGrows ==
  ASSUME Typed, NEW s \in Side, NEW p \in Paths, Write(s, p) \/ Delete(s, p)
  PROVE  /\ Grows
         /\ raced' = raced \/ \E v \in Version : raced' = [raced EXCEPT ![p] = @ \cup {v}]
<1>0. DiskTypes
  BY DEF Typed, DataTypes
<1>1. /\ \E v \in Version : tree' = [tree EXCEPT ![s][p] = v]
      /\ replaced' = IF tree[s][p] = Absent THEN replaced
                     ELSE [replaced EXCEPT ![s][p] = @ \cup {tree[s][p]}]
      /\ UNCHANGED dropped
  <2>1. CASE Write(s, p)
    <3>1. fresh[p] + 1 \in Version
      BY <1>0 DEF DiskTypes, Version
    <3> QED BY <2>1, <3>1 DEF Write, Edited
  <2>2. CASE Delete(s, p)
    <3>1. Absent \in Version
      BY DEF Absent, Version
    <3> QED BY <2>2, <3>1 DEF Delete, Edited
  <2> QED BY <2>1, <2>2
<1>2. raced' = raced \/ \E v \in Version : raced' = [raced EXCEPT ![p] = @ \cup {v}]
  BY <1>0 DEF Write, Delete, DiskTypes, Version
<1>3. \A q \in Paths : raced[q] \subseteq raced'[q]
  BY <1>0, <1>2 DEF DiskTypes
<1>4. \A t \in Side, q \in Paths : replaced[t][q] \subseteq replaced'[t][q]
  BY <1>0, <1>1 DEF DiskTypes
<1>5. \A q \in Paths : gone[q] \subseteq gone'[q]
  BY <1>1, <1>3, <1>4, Sides DEF gone, GivenUp
<1>6. \A t \in Side, q \in Paths : (t # s \/ q # p) => tree'[t][q] = tree[t][q]
  BY <1>0, <1>1 DEF DiskTypes
<1>7. tree[s][p] = Absent \/ tree[s][p] \in replaced'[s][p]
  BY <1>0, <1>1 DEF DiskTypes
<1>8. tree[s][p] \in gone'[p]
  BY <1>7, Sides DEF gone, GivenUp, Side
<1> QED BY <1>2, <1>5, <1>6, <1>8 DEF Grows

\* A commit that renames over an entry: it was given up, or raced.
LEMMA RenameGrows ==
  ASSUME Typed, Knowledge, RunData, NEW r \in Runs, NEW s \in Side, PublishRename(r, s)
  PROVE  Grows
<1> DEFINE p == win[r][s]
<1>0. DiskTypes /\ PublishTypes /\ p # None /\ p \in Paths /\ Committing(r, s)
  BY DEF Typed, DataTypes, PublishTypes, PublishRename
<1>1. Read(r)
  BY <1>0, Sides DEF Committing, Typed, ReadFirst
<1>2. /\ tree' = [tree EXCEPT ![s][p] = NewEntry(r, p, s)]
      /\ dropped' = IF act[r][p] \in {"resolvedToLocal", "resolvedToRemote"}
                      THEN [dropped EXCEPT ![p] = @ \cup {seen[r][s][p]}] ELSE dropped
      /\ UNCHANGED <<replaced, raced>>
  BY DEF PublishRename, commitRest
<1>3. \A q \in Paths : gone[q] \subseteq gone'[q]
  <2>1. \A q \in Paths : dropped[q] \subseteq dropped'[q]
    BY <1>0, <1>2 DEF DiskTypes
  <2> QED BY <1>2, <2>1 DEF gone, GivenUp
<1>4. /\ Towards(r, p, s)
      /\ tree[s][p] \in {Expected(r, p, s), Absent} \cup raced[p]
  BY <1>0 DEF RunData, DataOf, WindowOf, ProgressOf, Targets
<1>5. Expected(r, p, s) \in gone'[p]
  <2>1. CASE act[r][p] \in {"toLocal", "toRemote"}
    <3>1. Other(s) \in Side /\ Expected(r, p, s) = old[r][Other(s)][p]
      BY <2>1, Sides DEF Other, Expected
    <3>2. seen[r][Other(s)][p] # old[r][Other(s)][p]
      BY <1>0, <1>4, <2>1, Sides DEF RunData, DataOf, PlanOf, Changed, Towards, Other, Side
    <3>3. seen[r][Other(s)][p] # Unread
      BY <1>0, <1>1, <3>1 DEF Read
    <3>4. old[r][Other(s)][p] \in gone[p]
      BY <1>0, <3>1, <3>2, <3>3 DEF Knowledge
    <3> QED BY <1>0, <1>3, <3>1, <3>4
  <2>2. CASE act[r][p] \notin {"toLocal", "toRemote"}
    <3>1. act[r][p] \in {"resolvedToLocal", "resolvedToRemote"}
      BY <1>4, <2>2 DEF Towards
    <3>2. seen[r][s][p] \in dropped'[p] /\ Expected(r, p, s) = seen[r][s][p]
      BY <1>0, <1>2, <2>2, <3>1 DEF DiskTypes, Expected
    <3> QED BY <1>0, <3>2 DEF gone, GivenUp
  <2> QED BY <2>1, <2>2
<1>6. tree[s][p] \in gone'[p]
  <2>1. Absent \in gone[p] /\ raced[p] \subseteq gone[p]
    BY <1>0 DEF gone, GivenUp
  <2> QED BY <1>0, <1>3, <1>4, <1>5, <2>1
<1>7. \A t \in Side, q \in Paths : (t # s \/ q # p) => tree'[t][q] = tree[t][q]
  BY <1>0, <1>2 DEF DiskTypes
<1> QED BY <1>0, <1>3, <1>6, <1>7 DEF Grows

\* A commit that adds an entry replaces none.
LEMMA AddedGrows ==
  ASSUME Typed, NEW r \in Runs, NEW s \in Side, NEW p \in Paths, PublishAdded(r, s, p)
  PROVE  Grows
<1>0. DiskTypes
  BY DEF Typed, DataTypes
<1>1. /\ tree' = [tree EXCEPT ![s][p] = NewEntry(r, p, s)] /\ tree[s][p] = Absent
      /\ UNCHANGED <<replaced, dropped, raced>>
  BY DEF PublishAdded, commitRest
<1>2. gone' = gone /\ Absent \in gone[p]
  BY <1>1 DEF gone, GivenUp
<1>3. \A t \in Side, q \in Paths : (t # s \/ q # p) => tree'[t][q] = tree[t][q]
  BY <1>0, <1>1 DEF DiskTypes
<1> QED BY <1>1, <1>2, <1>3 DEF Grows

\* No step takes from a tree what is not given up.
LEMMA NextGrows == Typed /\ Knowledge /\ RunData /\ [Next]_vars => Grows
<1> SUFFICES ASSUME Typed, Knowledge, RunData, [Next]_vars PROVE Grows
  OBVIOUS
<1> USE DEF diskVars, histVars, userVars, comVars, clientRest, serverRest, commitRest
<1>1. CASE UNCHANGED <<tree, replaced, dropped, raced>>
  BY <1>1, QuietGrows
<1>2. ASSUME NEW r \in Runs, Client(r) PROVE Grows
  <2>1. CASE \/ ServerScan(r) \/ Plan(r) \/ UserAborts(r) \/ GiveUp(r)
             \/ \E s \in Side : LoadOld(r, s)
             \/ \E s \in Side, p \in Paths : ScanPath(r, s, p)
    BY <1>1, <2>1 DEF ServerScan, Plan, UserAborts, GiveUp, LoadOld, ScanPath
  <2>2. CASE BeginWave(r) \/ RemoteBegun(r) \/ BeginLocal(r) \/ Stream(r) \/ FinishLocal(r)
    BY <1>1, <2>2 DEF BeginWave, RemoteBegun, BeginLocal, Stream, FinishLocal
  <2>3. CASE RemoteFinished(r) \/ (\E s \in Side : ValidateSide(r, s)) \/ Fence(r)
               \/ CommitsJoined(r) \/ MarkSave(r)
    BY <1>1, <2>3 DEF RemoteFinished, ValidateSide, Fence, CommitsJoined, MarkSave
  <2>4. CASE SaveLocal(r) \/ SavesJoined(r) \/ RemoteCompleted(r) \/ FinishMarker(r)
               \/ AbortLocal(r) \/ Aborted(r)
    BY <1>1, <2>4 DEF SaveLocal, SavesJoined, RemoteCompleted, FinishMarker, AbortLocal, Aborted
  <2> QED BY <1>2, <2>1, <2>2, <2>3, <2>4 DEF Client
<1>3. ASSUME NEW r \in Runs, ServerStep(r) PROVE Grows
  BY <1>1, <1>3 DEF ServerStep, ServerBegin, ServerFinish, ServerMarkSave, ServerSave,
                    ServerSaveFails, ServerComplete, ServerAbort, ServerExit
<1>4. ASSUME NEW r \in Runs, NEW s \in Side, Commit(r, s) PROVE Grows
  BY <1>1, <1>4, RenameGrows, AddedGrows
     DEF Commit, CommitStart, PublishCheck, PublishFails, CommitEnd
<1>5. ASSUME Environment PROVE Grows
  BY <1>1, <1>5, EditGrows
     DEF Environment, Recover, Start, Interrupt, ClientDies, ServerDies, Disconnect
<1>6. CASE UNCHANGED vars
  BY <1>1, <1>6 DEF vars
<1> QED BY <1>2, <1>3, <1>4, <1>5, <1>6 DEF Next

\* What a run knows of the trees and the snapshots changes by reading them.
Reading ==
  \A r \in Runs, s \in Side, p \in Paths :
    \/ old'[r][s][p] = old[r][s][p] /\ seen'[r][s][p] = seen[r][s][p]
    \/ old'[r][s][p] = old[r][s][p] /\ seen[r][s][p] = Unread /\ seen'[r][s][p] = tree[s][p]
    \/ old[r][s][p] = Unread /\ old'[r][s][p] = snap[s][p] /\ seen'[r][s][p] = Unread
    \/ old'[r][s][p] = Unread /\ seen'[r][s][p] = Unread

\* A run that is forgotten knows nothing.
LEMMA ForgetReading ==
  ASSUME Typed, NEW r \in Runs, Forget(r)
  PROVE  Reading
<1>1. old' = [old EXCEPT ![r] = Nowhere] /\ seen' = [seen EXCEPT ![r] = Nowhere]
  BY DEF Forget
<1>2. \A s \in Side, p \in Paths : Nowhere[s][p] = Unread
  BY DEF Nowhere
<1> HIDE DEF Nowhere
<1> QED BY <1>1, <1>2 DEF Reading, Typed, DataTypes, PlanTypes

\* Every step reads, forgets, or leaves what a run knows.
LEMMA NextReading == Typed /\ [Next]_vars => Reading
<1> SUFFICES ASSUME Typed, [Next]_vars PROVE Reading
  OBVIOUS
<1> USE DEF planVars, clientRest, serverRest, commitRest
<1>1. CASE UNCHANGED <<old, seen>>
  BY <1>1 DEF Reading
<1>2. CASE \E r \in Runs : \E o : Leave(r, o)
  BY <1>1, <1>2, ForgetReading DEF Leave
<1>3. ASSUME NEW r \in Runs, Client(r) PROVE Reading
  <2>1. CASE ServerScan(r) \/ Plan(r) \/ UserAborts(r) \/ GiveUp(r)
    BY <1>1, <1>2, <2>1 DEF ServerScan, Plan, UserAborts, GiveUp
  <2>2. ASSUME NEW s \in Side, LoadOld(r, s) PROVE Reading
    <3>1. /\ old' = [old EXCEPT ![r][s] = snap[s]] /\ UNCHANGED seen
          /\ \A p \in Paths : old[r][s][p] = Unread
      BY <2>2 DEF LoadOld
    <3>2. \A p \in Paths : seen[r][s][p] = Unread
      BY <3>1 DEF Typed, ReadFirst
    <3>3. \A q \in Runs, t \in Side, p \in Paths :
            old'[q][t][p] = (IF q = r /\ t = s THEN snap[s][p] ELSE old[q][t][p])
      BY <3>1 DEF Typed, DataTypes, PlanTypes
    <3> QED BY <3>1, <3>2, <3>3 DEF Reading
  <2>3. ASSUME NEW s \in Side, NEW p \in Paths, ScanPath(r, s, p) PROVE Reading
    <3>1. seen' = [seen EXCEPT ![r][s][p] = tree[s][p]] /\ seen[r][s][p] = Unread /\ UNCHANGED old
      BY <2>3 DEF ScanPath
    <3> QED BY <3>1 DEF Reading, Typed, DataTypes, PlanTypes
  <2>4. CASE BeginWave(r) \/ RemoteBegun(r) \/ BeginLocal(r) \/ Stream(r) \/ FinishLocal(r)
    BY <1>1, <1>2, <2>4 DEF BeginWave, RemoteBegun, BeginLocal, Stream, FinishLocal
  <2>5. CASE RemoteFinished(r) \/ (\E s \in Side : ValidateSide(r, s)) \/ Fence(r)
               \/ CommitsJoined(r) \/ MarkSave(r)
    BY <1>1, <1>2, <2>5 DEF RemoteFinished, ValidateSide, Fence, CommitsJoined, MarkSave
  <2>6. CASE SaveLocal(r) \/ SavesJoined(r) \/ RemoteCompleted(r) \/ FinishMarker(r)
               \/ AbortLocal(r) \/ Aborted(r)
    BY <1>1, <1>2, <2>6
       DEF SaveLocal, SavesJoined, RemoteCompleted, FinishMarker, AbortLocal, Aborted
  <2> QED BY <1>3, <2>1, <2>2, <2>3, <2>4, <2>5, <2>6 DEF Client
<1>4. ASSUME NEW r \in Runs, ServerStep(r) PROVE Reading
  BY <1>1, <1>4, ForgetReading
     DEF ServerStep, ServerBegin, ServerFinish, ServerMarkSave, ServerSave,
         ServerSaveFails, ServerComplete, ServerAbort, ServerExit
<1>5. ASSUME NEW r \in Runs, NEW s \in Side, Commit(r, s) PROVE Reading
  BY <1>1, <1>5 DEF Commit, CommitStart, PublishAdded, PublishCheck, PublishRename,
                    PublishFails, CommitEnd
<1>6. ASSUME Environment PROVE Reading
  BY <1>1, <1>2, <1>6, ForgetReading
     DEF Environment, Recover, Write, Delete, Edited, Start, Interrupt, ClientDies, ServerDies,
         Disconnect
<1>7. CASE UNCHANGED vars
  BY <1>1, <1>7 DEF vars
<1> QED BY <1>3, <1>4, <1>5, <1>6, <1>7 DEF Next

\* What a run merges into a snapshot is on its side, or gone.
LEMMA MergedHeld ==
  ASSUME Typed, Knowledge, RunData, NEW r \in Runs, NEW s \in Side, com[r][s] = "done",
         NEW p \in Paths
  PROVE  Merged(r, s, DoneBySave(r))[p] \in held[s][p]
<1>1. old[r][s][p] \in held[s][p] /\ seen[r][s][p] \in held[s][p]
  BY DEF Knowledge
<1>2. ASSUME Towards(r, p, s), p \in DoneBySave(r) PROVE NewEntry(r, p, s) \in held[s][p]
  BY <1>2 DEF RunData, DataOf, ProgressOf, DoneBySave, Planned
<1> QED BY <1>1, <1>2 DEF Merged

\* A snapshot is saved with entries that are on its side, or gone.
Saving == \A s \in Side, p \in Paths : snap'[s][p] \in held[s][p]

\* A snapshot is saved after both commits, with what they took over.
LEMMA NextSaving == Typed /\ WaveOrder /\ Knowledge /\ RunData /\ [Next]_vars => Saving
<1> SUFFICES ASSUME Typed, WaveOrder, Knowledge, RunData, [Next]_vars PROVE Saving
  OBVIOUS
<1> USE DEF diskVars, clientRest, serverRest, commitRest
<1>1. CASE UNCHANGED snap
  BY <1>1 DEF Saving, Knowledge
<1>2. ASSUME NEW r \in Runs, NEW s \in Side, com[r][s] = "done",
             snap' = [snap EXCEPT ![s] = Merged(r, s, DoneBySave(r))]
      PROVE  Saving
  <2>1. \A p \in Paths : snap'[s][p] \in held[s][p]
    BY <1>2, MergedHeld DEF Typed, DataTypes, DiskTypes
  <2>2. \A t \in Side, p \in Paths : t # s => snap'[t][p] \in held[t][p]
    BY <1>2 DEF Typed, DataTypes, DiskTypes, Knowledge
  <2> QED BY <2>1, <2>2 DEF Saving
<1>3. ASSUME NEW r \in Runs, Client(r) PROVE Saving
  <2>1. CASE SaveLocal(r)
    <3>1. com[r][Local] = "done"
      BY <2>1, Sides DEF SaveLocal, WaveOrder, InOrder
    <3> QED BY <1>1, <1>2, <2>1, <3>1, Sides DEF SaveLocal
  <2>2. CASE \/ ServerScan(r) \/ Plan(r) \/ UserAborts(r) \/ GiveUp(r)
             \/ \E s \in Side : LoadOld(r, s)
             \/ \E s \in Side, p \in Paths : ScanPath(r, s, p)
    BY <1>1, <2>2 DEF ServerScan, Plan, UserAborts, GiveUp, LoadOld, ScanPath
  <2>3. CASE BeginWave(r) \/ RemoteBegun(r) \/ BeginLocal(r) \/ Stream(r) \/ FinishLocal(r)
    BY <1>1, <2>3 DEF BeginWave, RemoteBegun, BeginLocal, Stream, FinishLocal
  <2>4. CASE RemoteFinished(r) \/ (\E s \in Side : ValidateSide(r, s)) \/ Fence(r)
               \/ CommitsJoined(r) \/ MarkSave(r)
    BY <1>1, <2>4 DEF RemoteFinished, ValidateSide, Fence, CommitsJoined, MarkSave
  <2>5. CASE SavesJoined(r) \/ RemoteCompleted(r) \/ FinishMarker(r) \/ AbortLocal(r) \/ Aborted(r)
    BY <1>1, <2>5 DEF SavesJoined, RemoteCompleted, FinishMarker, AbortLocal, Aborted
  <2> QED BY <1>3, <2>1, <2>2, <2>3, <2>4, <2>5 DEF Client
<1>4. ASSUME NEW r \in Runs, ServerStep(r) PROVE Saving
  <2>1. CASE ServerSave(r)
    <3>1. com[r][Remote] = "done"
      BY <2>1 DEF ServerSave, WaveOrder, InOrder
    <3> QED BY <1>2, <2>1, <3>1, Sides DEF ServerSave
  <2> QED BY <1>1, <1>4, <2>1
          DEF ServerStep, ServerBegin, ServerFinish, ServerMarkSave, ServerSaveFails, ServerComplete,
              ServerAbort, ServerExit
<1>5. ASSUME NEW r \in Runs, NEW s \in Side, Commit(r, s) PROVE Saving
  BY <1>1, <1>5 DEF Commit, CommitStart, PublishAdded, PublishCheck, PublishRename,
                    PublishFails, CommitEnd
<1>6. ASSUME Environment PROVE Saving
  BY <1>1, <1>6 DEF Environment, Recover, Write, Delete, Edited, Start, Interrupt, ClientDies,
                    ServerDies, Disconnect
<1>7. CASE UNCHANGED vars
  BY <1>1, <1>7 DEF vars
<1> QED BY <1>3, <1>4, <1>5, <1>6, <1>7 DEF Next

\* What is known stays true.
LEMMA NextKnowledge == Typed /\ Knowledge /\ Grows /\ Reading /\ Saving => Knowledge'
<1> SUFFICES ASSUME Typed, Knowledge, Grows, Reading, Saving,
                    NEW s \in Side, NEW p \in Paths
             PROVE  /\ snap'[s][p] \in held'[s][p]
                    /\ \A r \in Runs :
                         /\ old'[r][s][p] \in held'[s][p]
                         /\ seen'[r][s][p] \in held'[s][p]
                         /\ seen'[r][s][p] \notin {Unread, old'[r][s][p]} =>
                              old'[r][s][p] \in gone'[p]
  BY DEF Knowledge
<1>1. held[s][p] \subseteq held'[s][p] /\ gone[p] \subseteq gone'[p]
  BY GrowsHeld DEF Grows
<1>2. snap'[s][p] \in held'[s][p]
  BY <1>1 DEF Saving
<1>3. tree[s][p] \in held[s][p] /\ Unread \in held[s][p] /\ snap[s][p] \in held[s][p]
  BY DEF held, gone, Knowledge
<1>4. ASSUME NEW r \in Runs
      PROVE  /\ old'[r][s][p] \in held'[s][p] /\ seen'[r][s][p] \in held'[s][p]
             /\ seen'[r][s][p] \notin {Unread, old'[r][s][p]} => old'[r][s][p] \in gone'[p]
  <2>1. old[r][s][p] \in held[s][p] /\ seen[r][s][p] \in held[s][p]
    BY DEF Knowledge
  <2>2. seen[r][s][p] \notin {Unread, old[r][s][p]} => old[r][s][p] \in gone[p]
    BY DEF Knowledge
  <2>3. old[r][s][p] # tree[s][p] => old[r][s][p] \in gone[p]
    BY <2>1 DEF held
  <2> QED BY <1>1, <1>3, <2>1, <2>2, <2>3 DEF Reading
<1> QED BY <1>2, <1>4

\* Where run r is between check and rename, its target is as it was, or absent,
\* or raced.
TargetsKept(r) ==
  \A s \in Side : win[r][s] # None =>
    /\ tree'[s][win[r][s]] \in {tree[s][win[r][s]], Absent} \cup raced'[win[r][s]]
    /\ raced[win[r][s]] \subseteq raced'[win[r][s]]

\* The plan of run r stays, and on each side its commit does, or ends early.
Calm(r) ==
  /\ act'[r] = act[r] /\ old'[r] = old[r] /\ seen'[r] = seen[r] /\ todo'[r] = todo[r]
  /\ group'[r] = group[r] \/ group'[r] \subseteq todo[r]
  /\ \A s \in Side :
       \/ /\ group'[r] = group[r] /\ com'[r][s] = com[r][s]
          /\ left'[r][s] = left[r][s] /\ win'[r][s] = win[r][s]
       \/ /\ group'[r] = group[r] /\ com'[r][s] = com[r][s]
          /\ com[r][s] # "publishing" /\ win'[r][s] = None
       \/ com'[r][s] \notin {"publishing", "done"} /\ win'[r][s] = None
  /\ TargetsKept(r)

\* A calm run keeps its invariant.
LEMMA CalmKeeps ==
  ASSUME Grows, NEW r \in Runs, DataOf(r), Calm(r)
  PROVE  DataOf(r)'
<1>0. \A s \in Side, p \in Paths : held[s][p] \subseteq held'[s][p]
  BY GrowsHeld
<1>1. PlanOf(r)' /\ WaveOf(r)'
  BY DEF DataOf, PlanOf, Changed, WaveOf, Planned, Calm
<1>2. ASSUME NEW s \in Side PROVE ProgressOf(r, s)'
  <2>1. /\ \A p \in Paths : Towards(r, p, s)' <=> Towards(r, p, s)
        /\ \A p \in Paths : NewEntry(r, p, s)' = NewEntry(r, p, s)
    BY DEF Calm, Towards, NewEntry
  <2>2. ProgressOf(r, s)
    BY DEF DataOf
  <2>3. CASE /\ group'[r] = group[r] /\ com'[r][s] = com[r][s] /\ left'[r][s] = left[r][s]
    <3>1. Targets(r, s)' = Targets(r, s)
      BY <2>3 DEF Calm, Targets, Towards
    <3> QED BY <1>0, <2>1, <2>2, <2>3, <3>1 DEF ProgressOf, Calm
  <2>4. CASE group'[r] = group[r] /\ com'[r][s] = com[r][s] /\ com[r][s] # "publishing"
    BY <1>0, <2>1, <2>2, <2>4 DEF ProgressOf, Calm
  <2>5. CASE com'[r][s] \notin {"publishing", "done"}
    BY <1>0, <2>1, <2>2, <2>5 DEF ProgressOf, Calm
  <2> QED BY <2>3, <2>4, <2>5 DEF Calm
<1>3. ASSUME NEW s \in Side PROVE WindowOf(r, s)'
  <2>1. WindowOf(r, s)
    BY DEF DataOf
  <2>2. CASE win'[r][s] = None
    BY <2>2 DEF WindowOf
  <2>3. CASE com'[r][s] = com[r][s] /\ left'[r][s] = left[r][s] /\ win'[r][s] = win[r][s]
    <3>1. Expected(r, win[r][s], s)' = Expected(r, win'[r][s], s)
      BY <2>3 DEF Calm, Expected
    <3> QED BY <2>1, <2>3 DEF WindowOf, Calm, TargetsKept, Expected
  <2> QED BY <2>2, <2>3 DEF Calm
<1> QED BY <1>1, <1>2, <1>3 DEF DataOf

\* A run without actions and commits
LEMMA BlankKeeps ==
  ASSUME NEW r \in Runs, act'[r] = NoAction, todo'[r] = {}, group'[r] = {},
         \A s \in Side : com'[r][s] = "idle" /\ win'[r][s] = None
  PROVE  DataOf(r)'
  BY DEF DataOf, PlanOf, WaveOf, ProgressOf, WindowOf, NoAction, Towards

\* A step that changes the data of run r only
Only(r) ==
  \A q \in Runs : q # r =>
    /\ act'[q] = act[q] /\ old'[q] = old[q] /\ seen'[q] = seen[q] /\ todo'[q] = todo[q]
    /\ group'[q] = group[q] /\ com'[q] = com[q] /\ left'[q] = left[q] /\ win'[q] = win[q]

\* The other runs are calm.
LEMMA OnlyKeeps ==
  ASSUME RunData, Grows, NEW r \in Runs, Only(r), DataOf(r)',
         \A q \in Runs : q # r => TargetsKept(q)
  PROVE  RunData'
<1>1. ASSUME NEW q \in Runs, q # r PROVE DataOf(q)'
  <2>1. Calm(q)
    BY <1>1 DEF Only, Calm
  <2> QED BY <2>1, CalmKeeps DEF RunData
<1> QED BY <1>1 DEF RunData

\* A step that leaves the trees alone keeps every target.
LEMMA StillTargets ==
  ASSUME UNCHANGED <<tree, raced>>
  PROVE  \A q \in Runs : TargetsKept(q)
  BY DEF TargetsKept

\* A step of run r that is calm, or leaves the run without data
LEMMA CalmStep ==
  ASSUME RunData, Grows, UNCHANGED <<tree, raced>>, NEW r \in Runs, Only(r),
         TargetsKept(r) => Calm(r)
  PROVE  RunData'
<1>1. DataOf(r)'
  BY CalmKeeps, StillTargets DEF RunData
<1> QED BY <1>1, OnlyKeeps, StillTargets

\* A step that changes no data keeps the invariant of every run, ...
LEMMA QuietData ==
  ASSUME RunData, Grows,
         UNCHANGED <<tree, raced, act, old, seen, todo, group, com, left, win>>
  PROVE  RunData'
<1>1. \A q \in Runs : Calm(q)
  BY StillTargets DEF Calm
<1> QED BY <1>1, CalmKeeps DEF RunData

\* ... so does one that forgets a run, ...
LEMMA ForgetData ==
  ASSUME Typed, RunData, Grows, UNCHANGED <<tree, raced>>, NEW r \in Runs, Forget(r)
  PROVE  RunData'
<1> USE DEF Typed, Inv, ControlOK, DataTypes, PlanTypes, PublishTypes
<1>1. Only(r)
  BY DEF Forget, Only
<1>2. /\ act'[r] = NoAction /\ todo'[r] = {} /\ group'[r] = {}
      /\ \A s \in Side : com'[r][s] = "idle" /\ win'[r][s] = None
  BY DEF Forget
<1>3. DataOf(r)'
  BY <1>2, BlankKeeps
<1> QED BY <1>1, <1>3, OnlyKeeps, StillTargets

\* ... or that ends its client.
LEMMA LeaveData ==
  ASSUME Typed, RunData, Grows, UNCHANGED <<tree, raced>>, NEW r \in Runs, NEW o, Leave(r, o)
  PROVE  RunData'
<1>1. CASE req[r] = "none"
  BY <1>1, ForgetData DEF Leave
<1>2. CASE req[r] # "none"
  <2>1. /\ com' = [com EXCEPT ![r][Local] = "idle"]
        /\ left' = [left EXCEPT ![r][Local] = {}]
        /\ win' = [win EXCEPT ![r][Local] = None]
        /\ UNCHANGED <<act, old, seen, todo, group>>
    BY <1>2 DEF Leave, planVars
  <2>2. Only(r)
    BY <2>1 DEF Only, Typed, Inv, ControlOK, DataTypes, PublishTypes
  <2>3. /\ com'[r][Local] = "idle" /\ win'[r][Local] = None
        /\ com'[r][Remote] = com[r][Remote] /\ left'[r][Remote] = left[r][Remote]
        /\ win'[r][Remote] = win[r][Remote]
    BY <2>1, Sides DEF Typed, Inv, ControlOK, DataTypes, PublishTypes
  <2>4. TargetsKept(r) => Calm(r)
    BY <2>1, <2>3 DEF Calm, Side
  <2> QED BY <2>2, <2>4, CalmStep
<1> QED BY <1>1, <1>2

\* Outside its commit a run has no window.
LEMMA NoWindow ==
  ASSUME RunData, NEW r \in Runs, NEW s \in Side, com[r][s] # "publishing"
  PROVE  win[r][s] = None
  BY DEF RunData, DataOf, WindowOf

\* A run that reads has no actions yet.
LEMMA ScanData ==
  ASSUME Typed, WaveOrder, RunData, Grows, NEW r \in Runs, NEW s \in Side,
         LoadOld(r, s) \/ \E p \in Paths : ScanPath(r, s, p)
  PROVE  RunData'
<1>1. /\ pc[r] = "scan" /\ UNCHANGED <<tree, raced, act, todo, group, com, left, win>>
      /\ old' = old \/ \E f : old' = [old EXCEPT ![r] = f]
      /\ seen' = seen \/ \E f : seen' = [seen EXCEPT ![r] = f]
  BY DEF LoadOld, ScanPath, diskVars, histVars, userVars, comVars
<1>2. Only(r)
  BY <1>1 DEF Only, Typed, DataTypes, PlanTypes
<1>3. act[r] = NoAction /\ todo[r] = {} /\ group[r] = {}
  <2>1. act[r] = NoAction
    BY <1>1 DEF Typed, ReadFirst
  <2>2. Planned(r) = {}
    BY <2>1 DEF Planned, NoAction
  <2> QED BY <2>1, <2>2 DEF RunData, DataOf, WaveOf
<1>4. \A t \in Side : com[r][t] = "idle"
  BY <1>1 DEF WaveOrder, InOrder
<1>5. \A t \in Side : win[r][t] = None
  BY <1>4, NoWindow
<1>6. DataOf(r)'
  BY <1>1, <1>3, <1>4, <1>5, BlankKeeps
<1> QED BY <1>1, <1>2, <1>6, OnlyKeeps, StillTargets

\* The plan follows the changes.
LEMMA ChangedSource ==
  ASSUME Typed, NEW r \in Runs, NEW p \in Paths, NEW a, a \in Resolutions(ActionFor(r, p))
  PROVE  /\ a = "toLocal" => Changed(r, Remote, p) /\ ~Changed(r, Local, p)
         /\ a = "toRemote" => Changed(r, Local, p) /\ ~Changed(r, Remote, p)
         /\ a \in {"identical", "conflict", "resolvedToLocal", "resolvedToRemote"} =>
              Changed(r, Local, p) /\ Changed(r, Remote, p)
         /\ a = "identical" => seen[r][Local][p] = seen[r][Remote][p]
<1>1. \A s \in Side : ChangeAt(r, s, p) = "same" <=> ~Changed(r, s, p)
  BY DEF ChangeAt, Change, Changed
<1> QED BY <1>1, Sides DEF Resolutions, ActionFor

\* The plan starts with every path it takes over in a wave to come.
LEMMA PlanData ==
  ASSUME Typed, WaveOrder, RunData, Grows, NEW r \in Runs, Plan(r)
  PROVE  RunData'
<1>0. UNCHANGED <<tree, raced>>
  BY DEF Plan, diskVars, histVars, userVars
<1>1. CASE \E o : Leave(r, o)
  BY <1>0, <1>1, LeaveData
<1>2. CASE UNCHANGED <<act, old, seen, todo, group, com, left, win>>
  BY <1>0, <1>2, QuietData
<1>3. ASSUME NEW d \in [Paths -> Action],
             \A p \in Paths : d[p] \in Resolutions(ActionFor(r, p)),
             act' = [act EXCEPT ![r] = d],
             todo' = [todo EXCEPT ![r] = {p \in Paths : d[p] # "none"}],
             UNCHANGED <<old, seen, group, com, left, win>>
      PROVE  RunData'
  <2>1. Only(r) /\ act'[r] = d /\ todo'[r] = {p \in Paths : d[p] # "none"}
    BY <1>3 DEF Only, Typed, DataTypes, PlanTypes
  <2>2. \A s \in Side : com[r][s] = "idle"
    BY DEF WaveOrder, InOrder, Plan
  <2>3. \A s \in Side : win[r][s] = None
    BY <2>2, NoWindow
  <2>4. PlanOf(r)' /\ WaveOf(r)'
    <3>1. /\ \A p \in Paths : Changed(r, Local, p)' <=> Changed(r, Local, p)
          /\ \A p \in Paths : Changed(r, Remote, p)' <=> Changed(r, Remote, p)
      BY <1>3 DEF Changed
    <3>2. PlanOf(r)'
      BY <1>3, <2>1, <3>1, ChangedSource DEF PlanOf
    <3>3. group[r] \subseteq todo[r] /\ todo[r] = {}
      <4>1. act[r] = NoAction
        BY DEF Typed, ReadFirst, Plan
      <4>2. Planned(r) = {}
        BY <4>1 DEF Planned, NoAction
      <4> QED BY <4>2 DEF RunData, DataOf, WaveOf
    <3> QED BY <1>3, <2>1, <3>2, <3>3 DEF WaveOf, Planned
  <2>5. \A s \in Side : WindowOf(r, s)'
    BY <1>3, <2>3 DEF WindowOf
  <2>6. \A s \in Side, p \in Paths : Towards(r, p, s)' => p \in todo'[r]
    BY <2>1 DEF Towards
  <2>7. \A s \in Side : ProgressOf(r, s)'
    BY <1>3, <2>2, <2>6 DEF ProgressOf
  <2>8. DataOf(r)'
    BY <2>4, <2>5, <2>7 DEF DataOf
  <2> QED BY <1>0, <2>1, <2>8, OnlyKeeps, StillTargets
<1> QED BY <1>1, <1>2, <1>3 DEF Plan, planVars, comVars

\* The next wave: what this one took over is done.
LEMMA NextWaveData ==
  ASSUME Typed, WaveOrder, RunData, Grows, UNCHANGED <<tree, raced, act, old, seen, left, win>>,
         NEW r \in Runs, pc[r] = "finishMarker",
         todo' = [todo EXCEPT ![r] = todo[r] \ group[r]],
         group' = [group EXCEPT ![r] = {}],
         com' = [com EXCEPT ![r] = [s \in Side |-> "idle"]]
  PROVE  RunData'
<1>1. Only(r) /\ todo'[r] = todo[r] \ group[r] /\ \A s \in Side : com'[r][s] = "idle"
  BY DEF Only, Typed, Inv, ControlOK, DataTypes, PlanTypes
<1>2. \A s \in Side : com[r][s] = "done"
  BY DEF WaveOrder, InOrder
<1>3. \A s \in Side : win[r][s] = None
  BY <1>2, NoWindow
<1>4. PlanOf(r)' /\ WaveOf(r)'
  <2>1. todo[r] \subseteq Planned(r) /\ Planned(r)' = Planned(r) /\ group'[r] = {}
    BY DEF RunData, DataOf, WaveOf, Planned, Typed, DataTypes, PlanTypes
  <2> QED BY <1>1, <2>1 DEF RunData, DataOf, PlanOf, Changed, WaveOf
<1>5. \A s \in Side : WindowOf(r, s)'
  BY <1>3 DEF WindowOf
<1>6. ASSUME NEW s \in Side PROVE ProgressOf(r, s)'
  <2>1. ProgressOf(r, s) /\ com[r][s] = "done" /\ com'[r][s] = "idle"
    BY <1>1, <1>2 DEF RunData, DataOf
  <2>2. \A p \in Paths : /\ Towards(r, p, s)' <=> Towards(r, p, s)
                         /\ NewEntry(r, p, s)' = NewEntry(r, p, s)
    BY DEF Towards, NewEntry
  <2>3. \A p \in Paths : held[s][p] \subseteq held'[s][p]
    BY GrowsHeld
  <2> QED BY <1>1, <2>1, <2>2, <2>3 DEF ProgressOf
<1>7. DataOf(r)'
  BY <1>4, <1>5, <1>6 DEF DataOf
<1> QED BY <1>1, <1>7, OnlyKeeps, StillTargets

\* The steps of the client
LEMMA ClientData ==
  ASSUME Typed, WaveOrder, RunData, Grows, NEW r \in Runs, Client(r)
  PROVE  RunData'
<1> USE DEF diskVars, histVars, userVars, planVars, comVars, clientRest, serverRest
<1>1. CASE UNCHANGED <<tree, raced, act, old, seen, todo, group, com, left, win>>
  BY <1>1, QuietData
<1>2. CASE UNCHANGED <<tree, raced>> /\ \E o : Leave(r, o)
  BY <1>2, LeaveData
<1>3. CASE \/ ServerScan(r) \/ UserAborts(r) \/ GiveUp(r)
  BY <1>1, <1>2, <1>3 DEF ServerScan, UserAborts, GiveUp
<1>4. CASE Plan(r)
  BY <1>4, PlanData
<1>5. CASE \/ \E s \in Side : LoadOld(r, s)
           \/ \E s \in Side, p \in Paths : ScanPath(r, s, p)
  BY <1>5, ScanData
<1>6. CASE BeginWave(r)
  <2>1. /\ UNCHANGED <<tree, raced, act, old, seen, todo, com, left, win>>
        /\ \E g : g \subseteq todo[r] /\ group' = [group EXCEPT ![r] = g]
    BY <1>6 DEF BeginWave
  <2>2. Only(r)
    BY <2>1 DEF Only, Typed, DataTypes, PlanTypes
  <2>3. \A s \in Side : com[r][s] = "idle"
    BY <1>6 DEF WaveOrder, InOrder, BeginWave
  <2>4. \A s \in Side : win[r][s] = None
    BY <2>3, NoWindow
  <2>5. TargetsKept(r) => Calm(r)
    BY <2>1, <2>3, <2>4 DEF Calm, Typed, DataTypes, PlanTypes
  <2> QED BY <2>1, <2>2, <2>5, CalmStep
<1>7. CASE RemoteBegun(r) \/ BeginLocal(r) \/ Stream(r) \/ FinishLocal(r)
  BY <1>1, <1>2, <1>7 DEF RemoteBegun, BeginLocal, Stream, FinishLocal
<1>8. CASE RemoteFinished(r) \/ (\E s \in Side : ValidateSide(r, s)) \/ Fence(r)
             \/ CommitsJoined(r) \/ MarkSave(r)
  BY <1>1, <1>2, <1>8 DEF RemoteFinished, ValidateSide, Fence, CommitsJoined, MarkSave
<1>9. CASE SaveLocal(r) \/ SavesJoined(r) \/ RemoteCompleted(r) \/ AbortLocal(r) \/ Aborted(r)
  BY <1>1, <1>2, <1>9 DEF SaveLocal, SavesJoined, RemoteCompleted, AbortLocal, Aborted
<1>10. CASE FinishMarker(r)
  BY <1>2, <1>10, NextWaveData DEF FinishMarker
<1> QED BY <1>3, <1>4, <1>5, <1>6, <1>7, <1>8, <1>9, <1>10 DEF Client

\* A side has one publisher: its window is nobody else's.
LEMMA OnlyWindow ==
  ASSUME Typed, RunData, NEW s \in Side, NEW r \in Runs, com[r][s] = "publishing",
         NEW q \in Runs, q # r
  PROVE  win[q][s] = None
<1>1. ASSUME com[q][s] = "publishing" PROVE FALSE
  <2>1. Owns(q, s, {"committing"}) /\ Owns(r, s, {"committing"})
    BY <1>1 DEF Typed, Inv, PublishUnderMarker
  <2>2. marker[s].run = q /\ marker[s].run = r
    BY <2>1 DEF Owns
  <2> QED BY <2>2
<1> QED BY <1>1, NoWindow

\* The commit of run r on side s takes a path over.
LEMMA PublishedData ==
  ASSUME Typed, RunData, Grows, UNCHANGED <<raced, act, old, seen, todo, group, com>>,
         NEW r \in Runs, NEW s \in Side, NEW p \in Paths, com[r][s] = "publishing",
         p \in left[r][s], win[r][s] \in {None, p},
         tree' = [tree EXCEPT ![s][p] = NewEntry(r, p, s)],
         left' = [left EXCEPT ![r][s] = @ \ {p}],
         win' = [win EXCEPT ![r][s] = None]
  PROVE  RunData'
<1> USE DEF Typed, DataTypes, DiskTypes, PublishTypes
<1>1. Only(r)
  BY DEF Only
<1>2. /\ tree'[s][p] = NewEntry(r, p, s)
      /\ \A t \in Side, q \in Paths : (t # s \/ q # p) => tree'[t][q] = tree[t][q]
  OBVIOUS
<1>3. /\ left'[r][s] = left[r][s] \ {p} /\ win'[r][s] = None
      /\ \A t \in Side : t # s => left'[r][t] = left[r][t] /\ win'[r][t] = win[r][t]
  OBVIOUS
<1>4. ASSUME NEW q \in Runs, q # r PROVE TargetsKept(q)
  <2>1. win[q][s] = None
    BY <1>4, OnlyWindow
  <2> QED BY <1>2, <2>1 DEF TargetsKept
<1>5. /\ \A t \in Side, q \in Paths : Towards(r, q, t)' <=> Towards(r, q, t)
      /\ \A t \in Side, q \in Paths : NewEntry(r, q, t)' = NewEntry(r, q, t)
      /\ \A t \in Side, q \in Paths : Expected(r, q, t)' = Expected(r, q, t)
      /\ \A t \in Side : Targets(r, t)' = Targets(r, t)
  BY DEF Towards, NewEntry, Expected, Targets
<1>6. PlanOf(r)' /\ WaveOf(r)'
  BY DEF RunData, DataOf, PlanOf, Changed, WaveOf, Planned
<1>7. ASSUME NEW t \in Side PROVE ProgressOf(r, t)'
  <2>1. ProgressOf(r, t)
    BY DEF RunData, DataOf
  <2>2. \A q \in Paths : held[t][q] \subseteq held'[t][q]
    BY GrowsHeld
  <2>3. CASE t # s
    BY <1>3, <1>5, <2>1, <2>2, <2>3 DEF ProgressOf
  <2>4. CASE t = s
    <3>1. NewEntry(r, p, s) \in held'[s][p]
      BY <1>2 DEF held
    <3> QED BY <1>3, <1>5, <2>1, <2>2, <2>4, <3>1 DEF ProgressOf
  <2> QED BY <2>3, <2>4
<1>8. ASSUME NEW t \in Side PROVE WindowOf(r, t)'
  <2>1. CASE t = s
    BY <1>3, <2>1 DEF WindowOf
  <2>2. CASE t # s
    <3>1. WindowOf(r, t)
      BY DEF RunData, DataOf
    <3>2. Expected(r, win[r][t], t)' = Expected(r, win'[r][t], t)
      BY DEF Expected
    <3> QED BY <1>2, <1>3, <2>2, <3>1, <3>2 DEF WindowOf, Expected
  <2> QED BY <2>1, <2>2
<1>9. DataOf(r)'
  BY <1>6, <1>7, <1>8 DEF DataOf
<1> QED BY <1>1, <1>4, <1>9, OnlyKeeps

\* The commit of run r on side s goes on without changing a tree.
LEMMA CommitData ==
  ASSUME RunData, Grows, UNCHANGED <<tree, raced, act, old, seen, todo, group>>,
         NEW r \in Runs, NEW s \in Side, Only(r),
         \A t \in Side : t # s =>
           com'[r][t] = com[r][t] /\ left'[r][t] = left[r][t] /\ win'[r][t] = win[r][t],
         ProgressOf(r, s)', WindowOf(r, s)'
  PROVE  RunData'
<1>1. PlanOf(r)' /\ WaveOf(r)'
  BY DEF RunData, DataOf, PlanOf, Changed, WaveOf, Planned
<1>2. /\ \A t \in Side, q \in Paths : Towards(r, q, t)' <=> Towards(r, q, t)
      /\ \A t \in Side, q \in Paths : NewEntry(r, q, t)' = NewEntry(r, q, t)
      /\ \A t \in Side : Targets(r, t)' = Targets(r, t)
  BY DEF Towards, NewEntry, Targets
<1>3. ASSUME NEW t \in Side, t # s PROVE ProgressOf(r, t)' /\ WindowOf(r, t)'
  <2>1. ProgressOf(r, t) /\ WindowOf(r, t)
    BY DEF RunData, DataOf
  <2>2. \A q \in Paths : held[t][q] \subseteq held'[t][q]
    BY GrowsHeld
  <2>3. ProgressOf(r, t)'
    BY <1>2, <1>3, <2>1, <2>2 DEF ProgressOf
  <2>4. WindowOf(r, t)'
    BY <1>3, <2>1 DEF WindowOf, Expected
  <2> QED BY <2>3, <2>4
<1>4. DataOf(r)'
  BY <1>1, <1>3 DEF DataOf
<1> QED BY <1>4, OnlyKeeps, StillTargets

\* The steps of a commit
LEMMA CommitStepData ==
  ASSUME Typed, RunData, Grows, NEW r \in Runs, NEW s \in Side, Commit(r, s)
  PROVE  RunData'
<1> USE DEF planVars, commitRest
<1>0. ProgressOf(r, s) /\ WindowOf(r, s)
  BY DEF RunData, DataOf
<1>1. CASE CommitStart(r, s)
  <2>1. /\ UNCHANGED <<tree, raced, act, old, seen, todo, group, win>> /\ com[r][s] = "idle"
        /\ \/ com' = [com EXCEPT ![r][s] = "publishing"]
              /\ left' = [left EXCEPT ![r][s] = Targets(r, s)]
           \/ com' = [com EXCEPT ![r][s] = "failed"] /\ left' = left
    BY <1>1 DEF CommitStart
  <2>2. /\ \/ com'[r][s] = "publishing" /\ left'[r][s] = Targets(r, s)
           \/ com'[r][s] = "failed" /\ left' = left
        /\ \A t \in Side : t # s =>
             com'[r][t] = com[r][t] /\ left'[r][t] = left[r][t] /\ win'[r][t] = win[r][t]
    BY <2>1 DEF Typed, Inv, ControlOK, DataTypes, PublishTypes
  <2>3. Only(r)
    BY <2>1 DEF Only, Typed, Inv, ControlOK, DataTypes, PublishTypes
  <2>4. win'[r][s] = None
    BY <2>1, NoWindow
  <2>5. /\ \A q \in Paths : Towards(r, q, s)' <=> Towards(r, q, s)
        /\ \A q \in Paths : NewEntry(r, q, s)' = NewEntry(r, q, s)
        /\ Targets(r, s)' = Targets(r, s)
    BY <2>1 DEF Towards, NewEntry, Targets
  <2>6. \A q \in Paths : held[s][q] \subseteq held'[s][q]
    BY GrowsHeld
  <2>7. ProgressOf(r, s)'
    <3>1. CASE com'[r][s] = "failed"
      BY <1>0, <2>1, <2>5, <2>6, <3>1 DEF ProgressOf
    <3>2. CASE com'[r][s] = "publishing" /\ left'[r][s] = Targets(r, s)
      <4>1. \A q \in Paths : q \in group[r] /\ Towards(r, q, s) => q \in left'[r][s]
        BY <3>2 DEF Targets
      <4> QED BY <1>0, <2>1, <2>5, <2>6, <3>2, <4>1 DEF ProgressOf
    <3> QED BY <2>2, <3>1, <3>2
  <2>8. WindowOf(r, s)'
    BY <2>4 DEF WindowOf
  <2> QED BY <2>1, <2>2, <2>3, <2>7, <2>8, CommitData
<1>2. CASE PublishRename(r, s)
  <2>1. /\ com[r][s] = "publishing" /\ win[r][s] # None
        /\ win[r][s] \in left[r][s] /\ win[r][s] \in Paths
    BY <1>0, <1>2 DEF PublishRename, WindowOf, Typed, DataTypes, PublishTypes
  <2> QED BY <1>2, <2>1, PublishedData DEF PublishRename
<1>3. ASSUME NEW p \in Paths, PublishAdded(r, s, p) PROVE RunData'
  <2>1. win' = [win EXCEPT ![r][s] = None]
    BY <1>3 DEF PublishAdded, Typed, DataTypes, PublishTypes
  <2> QED BY <1>3, <2>1, PublishedData DEF PublishAdded
<1>4. CASE PublishFails(r, s)
  <2>1. /\ UNCHANGED <<tree, raced, act, old, seen, todo, group>>
        /\ com' = [com EXCEPT ![r][s] = "failed"]
        /\ left' = [left EXCEPT ![r][s] = {}]
        /\ win' = [win EXCEPT ![r][s] = None]
    BY <1>4 DEF PublishFails
  <2>2. /\ com'[r][s] = "failed" /\ win'[r][s] = None
        /\ \A t \in Side : t # s =>
             com'[r][t] = com[r][t] /\ left'[r][t] = left[r][t] /\ win'[r][t] = win[r][t]
    BY <2>1 DEF Typed, Inv, ControlOK, DataTypes, PublishTypes
  <2>3. Only(r)
    BY <2>1 DEF Only, Typed, Inv, ControlOK, DataTypes, PublishTypes
  <2>4. TargetsKept(r) => Calm(r)
    BY <2>1, <2>2 DEF Calm
  <2> QED BY <2>1, <2>3, <2>4, CalmStep
<1>5. ASSUME NEW p \in Paths, PublishCheck(r, s, p) PROVE RunData'
  <2>1. /\ UNCHANGED <<tree, raced, act, old, seen, todo, group, com, left>>
        /\ win' = [win EXCEPT ![r][s] = p]
        /\ com[r][s] = "publishing" /\ p \in left[r][s] /\ tree[s][p] = Expected(r, p, s)
    BY <1>5 DEF PublishCheck
  <2>2. win'[r][s] = p /\ \A t \in Side : t # s => win'[r][t] = win[r][t]
    BY <2>1 DEF Typed, DataTypes, PublishTypes
  <2>3. Only(r)
    BY <2>1 DEF Only, Typed, DataTypes, PublishTypes
  <2>4. \A q \in Paths : held[s][q] \subseteq held'[s][q]
    BY GrowsHeld
  <2>5. ProgressOf(r, s)'
    <3>1. /\ \A q \in Paths : Towards(r, q, s)' <=> Towards(r, q, s)
          /\ \A q \in Paths : NewEntry(r, q, s)' = NewEntry(r, q, s)
          /\ Targets(r, s)' = Targets(r, s)
      BY <2>1 DEF Towards, NewEntry, Targets
    <3> QED BY <1>0, <2>1, <2>4, <3>1 DEF ProgressOf
  <2>6. WindowOf(r, s)'
    BY <2>1, <2>2 DEF WindowOf, Expected
  <2> QED BY <2>1, <2>2, <2>3, <2>5, <2>6, CommitData
<1>6. CASE CommitEnd(r, s)
  <2>1. /\ UNCHANGED <<tree, raced, act, old, seen, todo, group, left, win>>
        /\ com' = [com EXCEPT ![r][s] = "done"]
        /\ com[r][s] = "publishing" /\ left[r][s] = {} /\ win[r][s] = None
    BY <1>6 DEF CommitEnd
  <2>2. com'[r][s] = "done" /\ \A t \in Side : t # s => com'[r][t] = com[r][t]
    BY <2>1 DEF Typed, Inv, ControlOK
  <2>3. Only(r)
    BY <2>1 DEF Only, Typed, Inv, ControlOK
  <2>4. \A q \in Paths : held[s][q] \subseteq held'[s][q]
    BY GrowsHeld
  <2>5. ProgressOf(r, s)'
    <3>1. /\ \A q \in Paths : Towards(r, q, s)' <=> Towards(r, q, s)
          /\ \A q \in Paths : NewEntry(r, q, s)' = NewEntry(r, q, s)
      BY <2>1 DEF Towards, NewEntry
    <3> QED BY <1>0, <2>1, <2>2, <2>4, <3>1 DEF ProgressOf
  <2>6. WindowOf(r, s)'
    BY <2>1 DEF WindowOf
  <2> QED BY <2>1, <2>2, <2>3, <2>5, <2>6, CommitData
<1> QED BY <1>1, <1>2, <1>3, <1>4, <1>5, <1>6 DEF Commit

\* Only a run's window is lost to a user's edit.
LEMMA EditData ==
  ASSUME Typed, RunData, Grows, NEW s \in Side, NEW p \in Paths, Write(s, p) \/ Delete(s, p)
  PROVE  RunData'
<1>1. UNCHANGED <<act, old, seen, todo, group, com, left, win>>
  BY DEF Write, Delete, Edited, planVars, comVars
<1>2. /\ \A q \in Paths : raced[q] \subseteq raced'[q]
      /\ \A t \in Side, q \in Paths : (t # s \/ q # p) => tree'[t][q] = tree[t][q]
      /\ (\E r \in Runs : win[r][s] = p) => tree'[s][p] \in {Absent} \cup raced'[p]
  <2>1. CASE Write(s, p)
    BY <2>1 DEF Write, Edited, Typed, DataTypes, DiskTypes
  <2>2. CASE Delete(s, p)
    BY <2>2 DEF Delete, Edited, Typed, DataTypes, DiskTypes
  <2> QED BY <2>1, <2>2
<1>3. ASSUME NEW r \in Runs PROVE TargetsKept(r)
  <2>1. \A t \in Side : win[r][t] # None => win[r][t] \in Paths
    BY DEF Typed, DataTypes, PublishTypes
  <2> QED BY <1>2, <2>1 DEF TargetsKept
<1>4. \A r \in Runs : Calm(r)
  BY <1>1, <1>3 DEF Calm
<1> QED BY <1>4, CalmKeeps DEF RunData

\* A server that dies ends the commit of its side.
LEMMA ServerDiesData ==
  ASSUME Typed, RunData, Grows, NEW r \in Runs, ServerDies(r)
  PROVE  RunData'
<1>1. UNCHANGED <<tree, raced>>
  BY DEF ServerDies, diskVars, userVars
<1>2. CASE Forget(r)
  BY <1>1, <1>2, ForgetData
<1>3. CASE ~Forget(r)
  <2>1. /\ com' = [com EXCEPT ![r][Remote] = IF @ = "publishing" THEN "failed" ELSE @]
        /\ left' = [left EXCEPT ![r][Remote] = {}]
        /\ win' = [win EXCEPT ![r][Remote] = None]
        /\ UNCHANGED <<act, old, seen, todo, group>>
    BY <1>3 DEF ServerDies, planVars
  <2>2. Only(r)
    BY <2>1 DEF Only, Typed, Inv, ControlOK, DataTypes, PublishTypes
  <2>3. /\ com'[r][Local] = com[r][Local] /\ left'[r][Local] = left[r][Local]
        /\ win'[r][Local] = win[r][Local] /\ win'[r][Remote] = None
        /\ com'[r][Remote] = IF com[r][Remote] = "publishing" THEN "failed" ELSE com[r][Remote]
    BY <2>1, Sides DEF Typed, Inv, ControlOK, DataTypes, PublishTypes
  <2>4. TargetsKept(r) => Calm(r)
    BY <2>1, <2>3 DEF Calm, Side
  <2> QED BY <1>1, <2>2, <2>4, CalmStep
<1> QED BY <1>2, <1>3

\* Every step keeps what the runs have planned and taken over.
LEMMA NextRunData == Typed /\ WaveOrder /\ RunData /\ Grows /\ [Next]_vars => RunData'
<1> SUFFICES ASSUME Typed, WaveOrder, RunData, Grows, [Next]_vars PROVE RunData'
  OBVIOUS
<1> USE DEF diskVars, histVars, userVars, planVars, comVars, serverRest
<1>1. CASE UNCHANGED <<tree, raced, act, old, seen, todo, group, com, left, win>>
  BY <1>1, QuietData
<1>2. ASSUME NEW r \in Runs, ServerStep(r) PROVE RunData'
  BY <1>1, <1>2, ForgetData
     DEF ServerStep, ServerBegin, ServerFinish, ServerMarkSave, ServerSave,
         ServerSaveFails, ServerComplete, ServerAbort, ServerExit
<1>3. ASSUME Environment PROVE RunData'
  <2>1. ASSUME NEW r \in Runs, Start(r) \/ Interrupt(r) \/ Disconnect(r) PROVE RunData'
    BY <1>1, <2>1 DEF Start, Interrupt, Disconnect
  <2>2. ASSUME NEW r \in Runs, ClientDies(r) PROVE RunData'
    BY <2>2, LeaveData DEF ClientDies
  <2>3. ASSUME NEW s \in Side, Recover(s) PROVE RunData'
    BY <1>1, <2>3 DEF Recover
  <2> QED BY <1>3, <2>1, <2>2, <2>3, EditData, ServerDiesData DEF Environment
<1>4. CASE UNCHANGED vars
  BY <1>1, <1>4 DEF vars
<1> QED BY <1>2, <1>3, <1>4, ClientData, CommitStepData DEF Next

-----------------------------------------------------------------------------
(* The theorem *)

\* New versions come from users only.
LEMMA NextWritten == [Next]_vars => UNCHANGED fresh \/ \E s \in Side, p \in Paths : Write(s, p)
<1> SUFFICES ASSUME [Next]_vars PROVE UNCHANGED fresh \/ \E s \in Side, p \in Paths : Write(s, p)
  OBVIOUS
<1> USE DEF diskVars, histVars, userVars, clientRest, serverRest, commitRest
<1>1. ASSUME NEW r \in Runs, Client(r) PROVE UNCHANGED fresh
  <2>1. CASE \/ ServerScan(r) \/ Plan(r) \/ UserAborts(r) \/ GiveUp(r)
             \/ \E s \in Side : LoadOld(r, s)
             \/ \E s \in Side, p \in Paths : ScanPath(r, s, p)
    BY <2>1 DEF ServerScan, Plan, UserAborts, GiveUp, LoadOld, ScanPath
  <2>2. CASE BeginWave(r) \/ RemoteBegun(r) \/ BeginLocal(r) \/ Stream(r) \/ FinishLocal(r)
    BY <2>2 DEF BeginWave, RemoteBegun, BeginLocal, Stream, FinishLocal
  <2>3. CASE RemoteFinished(r) \/ (\E s \in Side : ValidateSide(r, s)) \/ Fence(r)
               \/ CommitsJoined(r) \/ MarkSave(r)
    BY <2>3 DEF RemoteFinished, ValidateSide, Fence, CommitsJoined, MarkSave
  <2>4. CASE SaveLocal(r) \/ SavesJoined(r) \/ RemoteCompleted(r) \/ FinishMarker(r)
               \/ AbortLocal(r) \/ Aborted(r)
    BY <2>4 DEF SaveLocal, SavesJoined, RemoteCompleted, FinishMarker, AbortLocal, Aborted
  <2> QED BY <1>1, <2>1, <2>2, <2>3, <2>4 DEF Client
<1>2. ASSUME NEW r \in Runs, ServerStep(r) PROVE UNCHANGED fresh
  BY <1>2 DEF ServerStep, ServerBegin, ServerFinish, ServerMarkSave, ServerSave,
              ServerSaveFails, ServerComplete, ServerAbort, ServerExit
<1>3. ASSUME NEW r \in Runs, NEW s \in Side, Commit(r, s) PROVE UNCHANGED fresh
  BY <1>3 DEF Commit, CommitStart, PublishAdded, PublishCheck, PublishRename, PublishFails, CommitEnd
<1>4. ASSUME Environment PROVE UNCHANGED fresh \/ \E s \in Side, p \in Paths : Write(s, p)
  BY <1>4 DEF Environment, Recover, Delete, Start, Interrupt, ClientDies, ServerDies, Disconnect
<1>5. CASE UNCHANGED vars
  BY <1>5 DEF vars
<1> QED BY <1>1, <1>2, <1>3, <1>4, <1>5 DEF Next

\* What was on a tree and is no longer there is given up.
LEMMA NextNoLostUpdate == Typed /\ Grows /\ NoLostUpdate /\ [Next]_vars => NoLostUpdate'
<1> SUFFICES ASSUME Typed, Grows, NoLostUpdate, [Next]_vars, NEW p \in Paths,
                    NEW v \in Written(p)'
             PROVE  v \in {tree'[Local][p], tree'[Remote][p]} \cup GivenUp(p)'
  BY DEF NoLostUpdate
<1>0. fresh[p] \in Nat
  BY DEF Typed, DataTypes, DiskTypes, Version
<1>1. CASE v \in Written(p)
  <2>1. v = tree[Local][p] \/ v = tree[Remote][p] \/ v \in gone[p]
    BY <1>1 DEF NoLostUpdate, gone
  <2>2. v = tree'[Local][p] \/ v = tree'[Remote][p] \/ v \in gone'[p]
    BY <2>1, Sides DEF Grows
  <2>3. v # Absent /\ v # Unread
    BY <1>0, <1>1 DEF Written, Absent, Unread
  <2> QED BY <2>2, <2>3 DEF gone
<1>2. CASE v \notin Written(p)
  <2>1. ~UNCHANGED fresh
    BY <1>2 DEF Written
  <2>2. PICK s \in Side, q \in Paths : Write(s, q)
    BY <2>1, NextWritten
  <2>3. q = p /\ v = fresh[p] + 1
    BY <1>0, <1>2, <2>2 DEF Write, Written, Typed, DataTypes, DiskTypes, Version
  <2>4. tree'[s][p] = v
    BY <2>2, <2>3 DEF Write, Edited, Typed, DataTypes, DiskTypes
  <2> QED BY <2>4 DEF Side
<1> QED BY <1>1, <1>2

\* At first every version is on both trees, and no run knows anything.
LEMMA InitData == Init => Knowledge /\ RunData /\ NoLostUpdate
<1> SUFFICES ASSUME Init PROVE Knowledge /\ RunData /\ NoLostUpdate
  OBVIOUS
<1>1. PICK S \in SUBSET Paths :
        LET v == [p \in Paths |-> IF p \in S THEN 1 ELSE Absent] IN
        /\ tree = [s \in Side |-> v] /\ snap = [s \in Side |-> v] /\ fresh = v
  BY DEF Init
<1>2. /\ \A s \in Side : tree[s] = fresh /\ snap[s] = fresh
      /\ \A p \in Paths : fresh[p] \in {0, 1}
  BY <1>1 DEF Absent
<1>3. \A r \in Runs, s \in Side, p \in Paths : old[r][s][p] = Unread /\ seen[r][s][p] = Unread
  BY DEF Init, Nowhere
<1>4. Knowledge
  BY <1>2, <1>3 DEF Knowledge, held, gone
<1>5. RunData
  BY DEF Init, RunData, DataOf, PlanOf, WaveOf, ProgressOf, WindowOf, NoAction, Towards
<1>6. NoLostUpdate
  <2>1. ASSUME NEW p \in Paths, NEW v \in Written(p) PROVE v = tree[Local][p]
    BY <1>2, <2>1, Sides DEF Written
  <2> QED BY <2>1 DEF NoLostUpdate
<1> QED BY <1>4, <1>5, <1>6

\* No version a user wrote is lost, whatever the runs do and wherever they
\* stop: it is on one of the trees, or was given up.
THEOREM NothingLost == Spec => []NoLostUpdate
<1> DEFINE IInv == Typed /\ WaveOrder /\ Knowledge /\ RunData /\ NoLostUpdate
<1>1. Init => IInv
  BY InitTyped, InitOrder, InitData
<1>2. IInv /\ [Next]_vars => IInv'
  <2> SUFFICES ASSUME IInv, [Next]_vars PROVE IInv'
    OBVIOUS
  <2>1. Typed' /\ WaveOrder'
    BY NextTyped, NextOrder
  <2>2. Grows /\ Reading /\ Saving
    BY NextGrows, NextReading, NextSaving
  <2> QED BY <2>1, <2>2, NextKnowledge, NextRunData, NextNoLostUpdate
<1> HIDE DEF IInv
<1>3. IInv => NoLostUpdate
  BY DEF IInv
<1> QED BY <1>1, <1>2, <1>3, PTL DEF Spec
-----------------------------------------------------------------------------
(* Runs one at a time: what the steps of a run do to clients, calls and markers *)

\* The marker of a side that is or may be half changed, or half saved
Late == {"committing", "committed", "state-save"}
Busy(s) == marker[s] # None /\ marker[s].phase \in Late

\* A step of run r is a step of no other run.
Others(r) ==
  \A q \in Runs : q # r =>
    /\ pc'[q] = pc[q] /\ req'[q] = req[q] /\ rep'[q] = rep[q] /\ saved'[q] = saved[q]
    /\ ready'[q] = ready[q] /\ old'[q] = old[q] /\ seen'[q] = seen[q] /\ act'[q] = act[q]
    /\ todo'[q] = todo[q] /\ group'[q] = group[q] /\ com'[q] = com[q] /\ left'[q] = left[q]

\* A marker goes before its commit, or at the end of its wave; ...
Removes(r, s) ==
  /\ marker[s] # None /\ marker' = [marker EXCEPT ![s] = None]
  /\ \/ marker[s].phase \in Precommit
     \/ /\ Owns(r, s, {"state-save"})
        /\ IF s = Local THEN pc[r] = "finishMarker" /\ pc'[r] \in {"wave", "over"} /\ req'[r] = req[r]
                        ELSE req[r] = "complete"

\* ... it is created at the begin of its wave; ...
Creates(r, s) ==
  /\ marker[s] = None
  /\ \E ph \in {"preparing", "malformed"} : marker' = [marker EXCEPT ![s] = [run |-> r, phase |-> ph]]
  /\ IF s = Local THEN pc[r] = "beginLocal" /\ Alive(r)' ELSE req[r] = "begin" /\ req'[r] = "none"

\* ... or it moves on, from and to phases the commit may save or not.
MovesOn(r, s) ==
  \E from, to \in Phase :
    /\ from # "state-save" /\ to \in {"prepared", "committing", "committed", "state-save"}
    /\ Owns(r, s, {from}) /\ marker' = [marker EXCEPT ![s] = [run |-> r, phase |-> to]]
    /\ IF s = Local THEN Alive(r) ELSE req[r] \in {"finish", "commit", "save"}
    /\ to = "prepared" => from = "preparing"
    /\ to = "committing" => from = "prepared"
    /\ to \in {"committed", "state-save"} => from \in {"committing", "committed"}

MarkerTurn(r) ==
  UNCHANGED marker \/ \E s \in Side : Removes(r, s) \/ Creates(r, s) \/ MovesOn(r, s)

\* A client starts where no marker is and no other client is alive, ...
Starts(r) ==
  /\ pc[r] = "idle" /\ pc'[r] = "scan" /\ UNCHANGED marker /\ Clear(Local)
  /\ AllowConcurrent \/ \A q \in Runs : ~Alive(q)
  /\ ready'[r] = {Local} /\ req'[r] = req[r]

\* ... reads a side that was found without a marker, ...
Scans(r) ==
  /\ \/ ready'[r] = ready[r]
     \/ ready'[r] = ready[r] \cup {Remote} /\ Clear(Remote) /\ UNCHANGED marker
  /\ \A s \in Side, p \in Paths : old'[r][s][p] # old[r][s][p] => s \in ready[r]

\* ... panics when a conflict it resolves has no arm, ...
Panics(r) ==
  /\ pc[r] = "scan" /\ AllRead(r)
  /\ \E p \in Paths : ActionFor(r, p) = "conflict" /\ Unresolvable(r, p)

\* ... and calls its server after that.
ClientTurn(r) ==
  /\ pc[r] = "idle" => pc'[r] \in {"idle", "scan", "over"} /\ old'[r] = old[r] /\ seen'[r] = seen[r] /\ req'[r] = req[r]
  /\ pc[r] \in {"over", "panic"} => pc'[r] = pc[r]
  /\ pc'[r] = "idle" => pc[r] = "idle"
  /\ pc'[r] = "panic" => pc[r] = "panic" \/ Panics(r)
  /\ pc'[r] = "scan" => (pc[r] = "scan" /\ Scans(r)) \/ Starts(r)
  /\ pc[r] = "scan" => pc'[r] \in {"scan", "over", "panic", "wave"} /\ req'[r] = req[r]
  /\ pc[r] = "scan" /\ pc'[r] = "wave" => AllRead(r) /\ Paths # {} /\ UNCHANGED marker
  /\ req'[r] # req[r] => req'[r] = "none" \/ (Alive(r) /\ Alive(r)')

\* Snapshots are saved behind a local marker that says so.
SaveCall == {"save", "complete"}
Saves == {"save", "complete", "finishMarker"}
SaveTurn(r) ==
  /\ pc'[r] \in Saves => pc[r] \in Saves \/ (pc[r] = "mark" /\ Owns(r, Local, {"state-save"})')
  /\ req'[r] \in SaveCall => req'[r] = req[r] \/ pc'[r] \in Saves

\* The marker a run owns is one, and its own.
LEMMA OwnedMarker ==
  ASSUME ControlOK, NEW r \in Runs, NEW s \in Side, NEW phases \in SUBSET Phase, Owns(r, s, phases)
  PROVE  marker[s] # None /\ marker[s].run = r /\ marker[s].phase \in phases
  BY NoneAssumption DEF Owns, Marker

Turn(r) == Others(r) /\ MarkerTurn(r) /\ ClientTurn(r) /\ SaveTurn(r)

\* Every step of a client is such a turn, ...
LEMMA ClientTurns ==
  ASSUME Typed, WaveOrder, NEW r \in Runs, Client(r)
  PROVE  Turn(r)
<1> USE DEF diskVars, histVars, planVars, callVars, comVars, clientRest, serverRest, commitRest, Goes, Fails,
            Goto, Send, Succeeds, Refuses, Reply, Leave, Forget
<1>0. ControlOK /\ RunTypes /\ PlanTypes /\ PublishTypes
  BY DEF Typed, Inv, DataTypes
<1>a. req[r] # "none" => pc[r] \notin {"idle", "scan", "panic"}
  BY <1>0 DEF WaveOrder, InOrder, ControlOK, Call
<1> USE <1>0 DEF ControlOK, RunTypes, PlanTypes, PublishTypes
<1>1. ASSUME ServerScan(r) PROVE Turn(r)
  <2>1. Others(r)
    BY <1>1 DEF Others, ServerScan
  <2>2. MarkerTurn(r)
    BY <1>1 DEF MarkerTurn, ServerScan
  <2>3. ClientTurn(r)
    BY <1>a, <1>1, Sides DEF ClientTurn, Starts, Scans, Alive, Clear, Moved, Owns, Committing, Pc, ServerScan
  <2>4. SaveTurn(r)
    BY <1>1, Sides DEF SaveTurn, Saves, SaveCall, Moved, Owns, Committing, ServerScan
  <2> QED BY <2>1, <2>2, <2>3, <2>4 DEF Turn
<1>2. ASSUME Plan(r) PROVE Turn(r)
  <2>1. Others(r)
    BY <1>2 DEF Others, Plan
  <2>2. MarkerTurn(r)
    BY <1>2 DEF MarkerTurn, Plan
  <2>a. ASSUME pc'[r] = "panic" PROVE Panics(r)
    <3>0. PICK d \in [Paths -> Action] :
            /\ \A p \in Paths : d[p] \in Resolutions(ActionFor(r, p))
            /\ (~\E p \in Paths : d[p] \in {"resolvedToLocal", "resolvedToRemote"} /\ Unresolvable(r, p))
                 => Leave(r, "success") \/ Goto(r, "wave")
      BY <1>2 DEF Plan
    <3>1. \E p \in Paths : d[p] \in {"resolvedToLocal", "resolvedToRemote"} /\ Unresolvable(r, p)
      BY <2>a, <3>0
    <3>2. PICK p \in Paths : d[p] \in {"resolvedToLocal", "resolvedToRemote"} /\ Unresolvable(r, p)
      BY <3>1
    <3>3. ActionFor(r, p) \notin {"resolvedToLocal", "resolvedToRemote"}
      BY DEF ActionFor
    <3>4. ActionFor(r, p) = "conflict"
      BY <3>0, <3>2, <3>3 DEF Resolutions
    <3> QED BY <1>2, <3>2, <3>4 DEF Panics, Plan
  <2>3. ClientTurn(r)
    BY <1>a, <1>2, <2>a, Sides DEF ClientTurn, Starts, Scans, Alive, Pc, Plan
  <2>4. SaveTurn(r)
    BY <1>2, Sides DEF SaveTurn, Saves, SaveCall, Moved, Owns, Committing, Plan
  <2> QED BY <2>1, <2>2, <2>3, <2>4 DEF Turn
<1>3. ASSUME UserAborts(r) PROVE Turn(r)
  <2>1. Others(r)
    BY <1>3 DEF Others, UserAborts
  <2>2. MarkerTurn(r)
    BY <1>3 DEF MarkerTurn, UserAborts
  <2>3. ClientTurn(r)
    BY <1>a, <1>3, Sides DEF ClientTurn, Starts, Scans, Alive, Clear, Moved, Owns, Committing, Pc, UserAborts
  <2>4. SaveTurn(r)
    BY <1>3, Sides DEF SaveTurn, Saves, SaveCall, Moved, Owns, Committing, UserAborts
  <2> QED BY <2>1, <2>2, <2>3, <2>4 DEF Turn
<1>4. ASSUME GiveUp(r) PROVE Turn(r)
  <2>1. Others(r)
    BY <1>4 DEF Others, GiveUp
  <2>2. MarkerTurn(r)
    BY <1>4 DEF MarkerTurn, GiveUp
  <2>3. ClientTurn(r)
    BY <1>a, <1>4, Sides DEF ClientTurn, Starts, Scans, Alive, Clear, Moved, Owns, Committing, Pc, GiveUp
  <2>4. SaveTurn(r)
    BY <1>4, Sides DEF SaveTurn, Saves, SaveCall, Moved, Owns, Committing, GiveUp
  <2> QED BY <2>1, <2>2, <2>3, <2>4 DEF Turn
<1>5. ASSUME BeginWave(r) PROVE Turn(r)
  <2>1. Others(r)
    BY <1>5 DEF Others, BeginWave
  <2>2. MarkerTurn(r)
    BY <1>5 DEF MarkerTurn, BeginWave
  <2>3. ClientTurn(r)
    BY <1>a, <1>5, Sides DEF ClientTurn, Starts, Scans, Alive, Clear, Moved, Owns, Committing, Pc, BeginWave
  <2>4. SaveTurn(r)
    BY <1>5, Sides DEF SaveTurn, Saves, SaveCall, Moved, Owns, Committing, BeginWave
  <2> QED BY <2>1, <2>2, <2>3, <2>4 DEF Turn
<1>6. ASSUME RemoteBegun(r) PROVE Turn(r)
  <2>1. Others(r)
    BY <1>6 DEF Others, RemoteBegun
  <2>2. MarkerTurn(r)
    BY <1>6 DEF MarkerTurn, RemoteBegun
  <2>3. ClientTurn(r)
    BY <1>a, <1>6, Sides DEF ClientTurn, Starts, Scans, Alive, Clear, Moved, Owns, Committing, Pc, RemoteBegun
  <2>4. SaveTurn(r)
    BY <1>6, Sides DEF SaveTurn, Saves, SaveCall, Moved, Owns, Committing, RemoteBegun
  <2> QED BY <2>1, <2>2, <2>3, <2>4 DEF Turn
<1>7. ASSUME BeginLocal(r) PROVE Turn(r)
  <2>1. Others(r)
    BY <1>7 DEF Others, BeginLocal
  <2>2. MarkerTurn(r)
    BY <1>7, Sides DEF MarkerTurn, Removes, Creates, MovesOn, Phase, Precommit, Owns, Created, Moved,
           Clear, Committing, Alive, BeginLocal
  <2>3. ClientTurn(r)
    BY <1>a, <1>7, Sides DEF ClientTurn, Starts, Scans, Alive, Clear, Moved, Owns, Committing, Pc, BeginLocal
  <2>4. SaveTurn(r)
    BY <1>7, Sides DEF SaveTurn, Saves, SaveCall, Moved, Owns, Committing, BeginLocal
  <2> QED BY <2>1, <2>2, <2>3, <2>4 DEF Turn
<1>8. ASSUME Stream(r) PROVE Turn(r)
  <2>1. Others(r)
    BY <1>8 DEF Others, Stream
  <2>2. MarkerTurn(r)
    BY <1>8 DEF MarkerTurn, Stream
  <2>3. ClientTurn(r)
    BY <1>a, <1>8, Sides DEF ClientTurn, Starts, Scans, Alive, Clear, Moved, Owns, Committing, Pc, Stream
  <2>4. SaveTurn(r)
    BY <1>8, Sides DEF SaveTurn, Saves, SaveCall, Moved, Owns, Committing, Stream
  <2> QED BY <2>1, <2>2, <2>3, <2>4 DEF Turn
<1>9. ASSUME FinishLocal(r) PROVE Turn(r)
  <2>1. Others(r)
    BY <1>9 DEF Others, FinishLocal
  <2>2. MarkerTurn(r)
    BY <1>9, Sides DEF MarkerTurn, Removes, Creates, MovesOn, Phase, Precommit, Owns, Created, Moved,
           Clear, Committing, Alive, FinishLocal
  <2>3. ClientTurn(r)
    BY <1>a, <1>9, Sides DEF ClientTurn, Starts, Scans, Alive, Clear, Moved, Owns, Committing, Pc, FinishLocal
  <2>4. SaveTurn(r)
    BY <1>9, Sides DEF SaveTurn, Saves, SaveCall, Moved, Owns, Committing, FinishLocal
  <2> QED BY <2>1, <2>2, <2>3, <2>4 DEF Turn
<1>10. ASSUME RemoteFinished(r) PROVE Turn(r)
  <2>1. Others(r)
    BY <1>10 DEF Others, RemoteFinished
  <2>2. MarkerTurn(r)
    BY <1>10 DEF MarkerTurn, RemoteFinished
  <2>3. ClientTurn(r)
    BY <1>a, <1>10, Sides DEF ClientTurn, Starts, Scans, Alive, Clear, Moved, Owns, Committing, Pc, RemoteFinished
  <2>4. SaveTurn(r)
    BY <1>10, Sides DEF SaveTurn, Saves, SaveCall, Moved, Owns, Committing, RemoteFinished
  <2> QED BY <2>1, <2>2, <2>3, <2>4 DEF Turn
<1>11. ASSUME Fence(r) PROVE Turn(r)
  <2>1. Others(r)
    BY <1>11 DEF Others, Fence
  <2>2. MarkerTurn(r)
    BY <1>11 DEF MarkerTurn, Fence
  <2>3. ClientTurn(r)
    BY <1>a, <1>11, Sides DEF ClientTurn, Starts, Scans, Alive, Clear, Moved, Owns, Committing, Pc, Fence
  <2>4. SaveTurn(r)
    BY <1>11, Sides DEF SaveTurn, Saves, SaveCall, Moved, Owns, Committing, Fence
  <2> QED BY <2>1, <2>2, <2>3, <2>4 DEF Turn
<1>12. ASSUME CommitsJoined(r) PROVE Turn(r)
  <2>1. Others(r)
    BY <1>12 DEF Others, CommitsJoined
  <2>2. MarkerTurn(r)
    BY <1>12 DEF MarkerTurn, CommitsJoined
  <2>3. ClientTurn(r)
    BY <1>a, <1>12, Sides DEF ClientTurn, Starts, Scans, Alive, Clear, Moved, Owns, Committing, Pc, CommitsJoined
  <2>4. SaveTurn(r)
    BY <1>12, Sides DEF SaveTurn, Saves, SaveCall, Moved, Owns, Committing, CommitsJoined
  <2> QED BY <2>1, <2>2, <2>3, <2>4 DEF Turn
<1>13. ASSUME MarkSave(r) PROVE Turn(r)
  <2>1. Others(r)
    BY <1>13 DEF Others, MarkSave
  <2>2. MarkerTurn(r)
    BY <1>13, Sides DEF MarkerTurn, Removes, Creates, MovesOn, Phase, Precommit, Owns, Created, Moved,
           Clear, Committing, Alive, MarkSave
  <2>3. ClientTurn(r)
    BY <1>a, <1>13, Sides DEF ClientTurn, Starts, Scans, Alive, Clear, Moved, Owns, Committing, Pc, MarkSave
  <2>4. SaveTurn(r)
    BY <1>13, Sides DEF SaveTurn, Saves, SaveCall, Moved, Owns, Committing, MarkSave
  <2> QED BY <2>1, <2>2, <2>3, <2>4 DEF Turn
<1>14. ASSUME SaveLocal(r) PROVE Turn(r)
  <2>1. Others(r)
    BY <1>14 DEF Others, SaveLocal
  <2>2. MarkerTurn(r)
    BY <1>14 DEF MarkerTurn, SaveLocal
  <2>3. ClientTurn(r)
    BY <1>a, <1>14, Sides DEF ClientTurn, Starts, Scans, Alive, Clear, Moved, Owns, Committing, Pc, SaveLocal
  <2>4. SaveTurn(r)
    BY <1>14, Sides DEF SaveTurn, Saves, SaveCall, Moved, Owns, Committing, SaveLocal
  <2> QED BY <2>1, <2>2, <2>3, <2>4 DEF Turn
<1>15. ASSUME SavesJoined(r) PROVE Turn(r)
  <2>1. Others(r)
    BY <1>15 DEF Others, SavesJoined
  <2>2. MarkerTurn(r)
    BY <1>15 DEF MarkerTurn, SavesJoined
  <2>3. ClientTurn(r)
    BY <1>a, <1>15, Sides DEF ClientTurn, Starts, Scans, Alive, Clear, Moved, Owns, Committing, Pc, SavesJoined
  <2>4. SaveTurn(r)
    BY <1>15, Sides DEF SaveTurn, Saves, SaveCall, Moved, Owns, Committing, SavesJoined
  <2> QED BY <2>1, <2>2, <2>3, <2>4 DEF Turn
<1>16. ASSUME RemoteCompleted(r) PROVE Turn(r)
  <2>1. Others(r)
    BY <1>16 DEF Others, RemoteCompleted
  <2>2. MarkerTurn(r)
    BY <1>16 DEF MarkerTurn, RemoteCompleted
  <2>3. ClientTurn(r)
    BY <1>a, <1>16, Sides DEF ClientTurn, Starts, Scans, Alive, Clear, Moved, Owns, Committing, Pc, RemoteCompleted
  <2>4. SaveTurn(r)
    BY <1>16, Sides DEF SaveTurn, Saves, SaveCall, Moved, Owns, Committing, RemoteCompleted
  <2> QED BY <2>1, <2>2, <2>3, <2>4 DEF Turn
<1>17. ASSUME FinishMarker(r) PROVE Turn(r)
  <2>1. Others(r)
    BY <1>17 DEF Others, FinishMarker
  <2>2. MarkerTurn(r)
    BY <1>17, Sides DEF MarkerTurn, Removes, Creates, MovesOn, Phase, Precommit, Owns, Created, Moved,
           Clear, Committing, Alive, FinishMarker
  <2>3. ClientTurn(r)
    BY <1>a, <1>17, Sides DEF ClientTurn, Starts, Scans, Alive, Clear, Moved, Owns, Committing, Pc, FinishMarker
  <2>4. SaveTurn(r)
    BY <1>17, Sides DEF SaveTurn, Saves, SaveCall, Moved, Owns, Committing, FinishMarker
  <2> QED BY <2>1, <2>2, <2>3, <2>4 DEF Turn
<1>18. ASSUME AbortLocal(r) PROVE Turn(r)
  <2>1. Others(r)
    BY <1>18 DEF Others, AbortLocal
  <2>2. MarkerTurn(r)
    <3>1. CASE Owns(r, Local, Precommit) /\ marker' = [marker EXCEPT ![Local] = None]
      <4>1. marker[Local] # None /\ marker[Local].phase \in Precommit
        BY <3>1, Sides, OwnedMarker DEF Precommit, Phase
      <4> QED BY <3>1, <4>1, Sides DEF MarkerTurn, Removes
    <3>2. CASE UNCHANGED marker
      BY <3>2 DEF MarkerTurn
    <3> QED BY <1>18, <3>1, <3>2 DEF AbortLocal
  <2>3. ClientTurn(r)
    BY <1>a, <1>18, Sides DEF ClientTurn, Starts, Scans, Alive, Clear, Moved, Owns, Committing, Pc, AbortLocal
  <2>4. SaveTurn(r)
    BY <1>18, Sides DEF SaveTurn, Saves, SaveCall, Moved, Owns, Committing, AbortLocal
  <2> QED BY <2>1, <2>2, <2>3, <2>4 DEF Turn
<1>19. ASSUME Aborted(r) PROVE Turn(r)
  <2>1. Others(r)
    BY <1>19 DEF Others, Aborted
  <2>2. MarkerTurn(r)
    BY <1>19 DEF MarkerTurn, Aborted
  <2>3. ClientTurn(r)
    BY <1>a, <1>19, Sides DEF ClientTurn, Starts, Scans, Alive, Clear, Moved, Owns, Committing, Pc, Aborted
  <2>4. SaveTurn(r)
    BY <1>19, Sides DEF SaveTurn, Saves, SaveCall, Moved, Owns, Committing, Aborted
  <2> QED BY <2>1, <2>2, <2>3, <2>4 DEF Turn
<1>20. ASSUME NEW s \in Side, LoadOld(r, s) PROVE Turn(r)
  <2>1. Others(r)
    BY <1>20 DEF Others, LoadOld
  <2>2. MarkerTurn(r)
    BY <1>20 DEF MarkerTurn, LoadOld
  <2>3. ClientTurn(r)
    BY <1>a, <1>20, Sides DEF ClientTurn, Starts, Scans, Alive, Clear, Moved, Owns, Committing, Pc, LoadOld
  <2>4. SaveTurn(r)
    BY <1>20, Sides DEF SaveTurn, Saves, SaveCall, Moved, Owns, Committing, LoadOld
  <2> QED BY <2>1, <2>2, <2>3, <2>4 DEF Turn
<1>21. ASSUME NEW s \in Side, NEW p \in Paths, ScanPath(r, s, p) PROVE Turn(r)
  <2>1. Others(r)
    BY <1>21 DEF Others, ScanPath
  <2>2. MarkerTurn(r)
    BY <1>21 DEF MarkerTurn, ScanPath
  <2>3. ClientTurn(r)
    BY <1>a, <1>21, Sides DEF ClientTurn, Starts, Scans, Alive, Clear, Moved, Owns, Committing, Pc, ScanPath
  <2>4. SaveTurn(r)
    BY <1>21, Sides DEF SaveTurn, Saves, SaveCall, Moved, Owns, Committing, ScanPath
  <2> QED BY <2>1, <2>2, <2>3, <2>4 DEF Turn
<1>22. ASSUME NEW s \in Side, ValidateSide(r, s) PROVE Turn(r)
  <2>1. Others(r)
    BY <1>22 DEF Others, ValidateSide
  <2>2. MarkerTurn(r)
    BY <1>22 DEF MarkerTurn, ValidateSide
  <2>3. ClientTurn(r)
    BY <1>a, <1>22, Sides DEF ClientTurn, Starts, Scans, Alive, Clear, Moved, Owns, Committing, Pc, ValidateSide
  <2>4. SaveTurn(r)
    BY <1>22, Sides DEF SaveTurn, Saves, SaveCall, Moved, Owns, Committing, ValidateSide
  <2> QED BY <2>1, <2>2, <2>3, <2>4 DEF Turn
<1> QED BY <1>1, <1>2, <1>3, <1>4, <1>5, <1>6, <1>7, <1>8, <1>9, <1>10, <1>11, <1>12, <1>13, <1>14, <1>15, <1>16, <1>17, <1>18, <1>19, <1>20, <1>21, <1>22 DEF Client

\* ... of a server, ...
LEMMA ServerTurns ==
  ASSUME Typed, WaveOrder, NEW r \in Runs, ServerStep(r)
  PROVE  Turn(r)
<1> USE DEF diskVars, histVars, planVars, callVars, comVars, clientRest, serverRest, commitRest, Goes, Fails,
            Goto, Send, Succeeds, Refuses, Reply, Leave, Forget
<1>0. ControlOK /\ RunTypes /\ PlanTypes /\ PublishTypes
  BY DEF Typed, Inv, DataTypes
<1>a. req[r] # "none" => pc[r] \notin {"idle", "scan", "panic"}
  BY <1>0 DEF WaveOrder, InOrder, ControlOK, Call
<1> USE <1>0 DEF ControlOK, RunTypes, PlanTypes, PublishTypes
<1>1. ASSUME ServerBegin(r) PROVE Turn(r)
  <2>1. Others(r)
    BY <1>1 DEF Others, ServerBegin
  <2>2. MarkerTurn(r)
    BY <1>1, Sides DEF MarkerTurn, Removes, Creates, MovesOn, Phase, Precommit, Owns, Created, Moved,
           Clear, Committing, Alive, ServerBegin
  <2>3. ClientTurn(r)
    BY <1>a, <1>1, Sides DEF ClientTurn, Starts, Scans, Alive, Clear, Moved, Owns, Committing, Pc, ServerBegin
  <2>4. SaveTurn(r)
    BY <1>1, Sides DEF SaveTurn, Saves, SaveCall, Moved, Owns, Committing, ServerBegin
  <2> QED BY <2>1, <2>2, <2>3, <2>4 DEF Turn
<1>2. ASSUME ServerFinish(r) PROVE Turn(r)
  <2>1. Others(r)
    BY <1>2 DEF Others, ServerFinish
  <2>2. MarkerTurn(r)
    BY <1>2, Sides DEF MarkerTurn, Removes, Creates, MovesOn, Phase, Precommit, Owns, Created, Moved,
           Clear, Committing, Alive, ServerFinish
  <2>3. ClientTurn(r)
    BY <1>a, <1>2, Sides DEF ClientTurn, Starts, Scans, Alive, Clear, Moved, Owns, Committing, Pc, ServerFinish
  <2>4. SaveTurn(r)
    BY <1>2, Sides DEF SaveTurn, Saves, SaveCall, Moved, Owns, Committing, ServerFinish
  <2> QED BY <2>1, <2>2, <2>3, <2>4 DEF Turn
<1>3. ASSUME ServerMarkSave(r) PROVE Turn(r)
  <2>1. Others(r)
    BY <1>3 DEF Others, ServerMarkSave
  <2>2. MarkerTurn(r)
    BY <1>3, Sides DEF MarkerTurn, Removes, Creates, MovesOn, Phase, Precommit, Owns, Created, Moved,
           Clear, Committing, Alive, ServerMarkSave
  <2>3. ClientTurn(r)
    BY <1>a, <1>3, Sides DEF ClientTurn, Starts, Scans, Alive, Clear, Moved, Owns, Committing, Pc, ServerMarkSave
  <2>4. SaveTurn(r)
    BY <1>3, Sides DEF SaveTurn, Saves, SaveCall, Moved, Owns, Committing, ServerMarkSave
  <2> QED BY <2>1, <2>2, <2>3, <2>4 DEF Turn
<1>4. ASSUME ServerSave(r) PROVE Turn(r)
  <2>1. Others(r)
    BY <1>4 DEF Others, ServerSave
  <2>2. MarkerTurn(r)
    BY <1>4 DEF MarkerTurn, ServerSave
  <2>3. ClientTurn(r)
    BY <1>a, <1>4, Sides DEF ClientTurn, Starts, Scans, Alive, Clear, Moved, Owns, Committing, Pc, ServerSave
  <2>4. SaveTurn(r)
    BY <1>4, Sides DEF SaveTurn, Saves, SaveCall, Moved, Owns, Committing, ServerSave
  <2> QED BY <2>1, <2>2, <2>3, <2>4 DEF Turn
<1>5. ASSUME ServerSaveFails(r) PROVE Turn(r)
  <2>1. Others(r)
    BY <1>5 DEF Others, ServerSaveFails
  <2>2. MarkerTurn(r)
    BY <1>5 DEF MarkerTurn, ServerSaveFails
  <2>3. ClientTurn(r)
    BY <1>a, <1>5, Sides DEF ClientTurn, Starts, Scans, Alive, Clear, Moved, Owns, Committing, Pc, ServerSaveFails
  <2>4. SaveTurn(r)
    BY <1>5, Sides DEF SaveTurn, Saves, SaveCall, Moved, Owns, Committing, ServerSaveFails
  <2> QED BY <2>1, <2>2, <2>3, <2>4 DEF Turn
<1>6. ASSUME ServerComplete(r) PROVE Turn(r)
  <2>1. Others(r)
    BY <1>6 DEF Others, ServerComplete
  <2>2. MarkerTurn(r)
    BY <1>6, Sides DEF MarkerTurn, Removes, Creates, MovesOn, Phase, Precommit, Owns, Created, Moved,
           Clear, Committing, Alive, ServerComplete
  <2>3. ClientTurn(r)
    BY <1>a, <1>6, Sides DEF ClientTurn, Starts, Scans, Alive, Clear, Moved, Owns, Committing, Pc, ServerComplete
  <2>4. SaveTurn(r)
    BY <1>6, Sides DEF SaveTurn, Saves, SaveCall, Moved, Owns, Committing, ServerComplete
  <2> QED BY <2>1, <2>2, <2>3, <2>4 DEF Turn
<1>7. ASSUME ServerAbort(r) PROVE Turn(r)
  <2>1. Others(r)
    BY <1>7 DEF Others, ServerAbort
  <2>2. MarkerTurn(r)
    <3>1. CASE Owns(r, Remote, Precommit) /\ marker' = [marker EXCEPT ![Remote] = None]
      <4>1. marker[Remote] # None /\ marker[Remote].phase \in Precommit
        BY <3>1, Sides, OwnedMarker DEF Precommit, Phase
      <4> QED BY <3>1, <4>1, Sides DEF MarkerTurn, Removes
    <3>2. CASE UNCHANGED marker
      BY <3>2 DEF MarkerTurn
    <3> QED BY <1>7, <3>1, <3>2 DEF ServerAbort
  <2>3. ClientTurn(r)
    BY <1>a, <1>7, Sides DEF ClientTurn, Starts, Scans, Alive, Clear, Moved, Owns, Committing, Pc, ServerAbort
  <2>4. SaveTurn(r)
    BY <1>7, Sides DEF SaveTurn, Saves, SaveCall, Moved, Owns, Committing, ServerAbort
  <2> QED BY <2>1, <2>2, <2>3, <2>4 DEF Turn
<1>8. ASSUME ServerExit(r) PROVE Turn(r)
  <2>1. Others(r)
    BY <1>8 DEF Others, ServerExit
  <2>2. MarkerTurn(r)
    BY <1>8 DEF MarkerTurn, ServerExit
  <2>3. ClientTurn(r)
    BY <1>a, <1>8, Sides DEF ClientTurn, Starts, Scans, Alive, Clear, Moved, Owns, Committing, Pc, ServerExit
  <2>4. SaveTurn(r)
    BY <1>8, Sides DEF SaveTurn, Saves, SaveCall, Moved, Owns, Committing, ServerExit
  <2> QED BY <2>1, <2>2, <2>3, <2>4 DEF Turn
<1> QED BY <1>1, <1>2, <1>3, <1>4, <1>5, <1>6, <1>7, <1>8 DEF ServerStep

\* ... of a commit, ...
LEMMA CommitTurns ==
  ASSUME Typed, WaveOrder, NEW r \in Runs, NEW s \in Side, Commit(r, s)
  PROVE  Turn(r)
<1> USE DEF diskVars, histVars, planVars, callVars, comVars, clientRest, serverRest, commitRest, Goes, Fails,
            Goto, Send, Succeeds, Refuses, Reply, Leave, Forget
<1>0. ControlOK /\ RunTypes /\ PlanTypes /\ PublishTypes
  BY DEF Typed, Inv, DataTypes
<1>a. req[r] # "none" => pc[r] \notin {"idle", "scan", "panic"}
  BY <1>0 DEF WaveOrder, InOrder, ControlOK, Call
<1> USE <1>0 DEF ControlOK, RunTypes, PlanTypes, PublishTypes
<1>1. ASSUME CommitStart(r, s) PROVE Turn(r)
  <2>1. Others(r)
    BY <1>1 DEF Others, CommitStart, Reported
  <2>2. MarkerTurn(r)
    BY <1>1, Sides DEF MarkerTurn, Removes, Creates, MovesOn, Phase, Precommit, Owns, Created, Moved,
           Clear, Committing, Alive, CommitStart, Reported
  <2>3. ClientTurn(r)
    BY <1>a, <1>1, Sides DEF ClientTurn, Starts, Scans, Alive, Clear, Moved, Owns, Committing, Pc, CommitStart, Reported
  <2>4. SaveTurn(r)
    BY <1>1, Sides DEF SaveTurn, Saves, SaveCall, Moved, Owns, Committing, CommitStart, Reported
  <2> QED BY <2>1, <2>2, <2>3, <2>4 DEF Turn
<1>2. ASSUME PublishRename(r, s) PROVE Turn(r)
  <2>1. Others(r)
    BY <1>2 DEF Others, PublishRename
  <2>2. MarkerTurn(r)
    BY <1>2 DEF MarkerTurn, PublishRename
  <2>3. ClientTurn(r)
    BY <1>a, <1>2, Sides DEF ClientTurn, Starts, Scans, Alive, Clear, Moved, Owns, Committing, Pc, PublishRename
  <2>4. SaveTurn(r)
    BY <1>2, Sides DEF SaveTurn, Saves, SaveCall, Moved, Owns, Committing, PublishRename
  <2> QED BY <2>1, <2>2, <2>3, <2>4 DEF Turn
<1>3. ASSUME PublishFails(r, s) PROVE Turn(r)
  <2>1. Others(r)
    BY <1>3 DEF Others, PublishFails, Reported
  <2>2. MarkerTurn(r)
    BY <1>3 DEF MarkerTurn, PublishFails, Reported
  <2>3. ClientTurn(r)
    BY <1>a, <1>3, Sides DEF ClientTurn, Starts, Scans, Alive, Clear, Moved, Owns, Committing, Pc, PublishFails, Reported
  <2>4. SaveTurn(r)
    BY <1>3, Sides DEF SaveTurn, Saves, SaveCall, Moved, Owns, Committing, PublishFails, Reported
  <2> QED BY <2>1, <2>2, <2>3, <2>4 DEF Turn
<1>4. ASSUME CommitEnd(r, s) PROVE Turn(r)
  <2>1. Others(r)
    BY <1>4 DEF Others, CommitEnd, Reported
  <2>2. MarkerTurn(r)
    BY <1>4, Sides DEF MarkerTurn, Removes, Creates, MovesOn, Phase, Precommit, Owns, Created, Moved,
           Clear, Committing, Alive, CommitEnd, Reported
  <2>3. ClientTurn(r)
    BY <1>a, <1>4, Sides DEF ClientTurn, Starts, Scans, Alive, Clear, Moved, Owns, Committing, Pc, CommitEnd, Reported
  <2>4. SaveTurn(r)
    BY <1>4, Sides DEF SaveTurn, Saves, SaveCall, Moved, Owns, Committing, CommitEnd, Reported
  <2> QED BY <2>1, <2>2, <2>3, <2>4 DEF Turn
<1>5. ASSUME NEW p \in Paths, PublishAdded(r, s, p) PROVE Turn(r)
  <2>1. Others(r)
    BY <1>5 DEF Others, PublishAdded
  <2>2. MarkerTurn(r)
    BY <1>5 DEF MarkerTurn, PublishAdded
  <2>3. ClientTurn(r)
    BY <1>a, <1>5, Sides DEF ClientTurn, Starts, Scans, Alive, Clear, Moved, Owns, Committing, Pc, PublishAdded
  <2>4. SaveTurn(r)
    BY <1>5, Sides DEF SaveTurn, Saves, SaveCall, Moved, Owns, Committing, PublishAdded
  <2> QED BY <2>1, <2>2, <2>3, <2>4 DEF Turn
<1>6. ASSUME NEW p \in Paths, PublishCheck(r, s, p) PROVE Turn(r)
  <2>1. Others(r)
    BY <1>6 DEF Others, PublishCheck
  <2>2. MarkerTurn(r)
    BY <1>6 DEF MarkerTurn, PublishCheck
  <2>3. ClientTurn(r)
    BY <1>a, <1>6, Sides DEF ClientTurn, Starts, Scans, Alive, Clear, Moved, Owns, Committing, Pc, PublishCheck
  <2>4. SaveTurn(r)
    BY <1>6, Sides DEF SaveTurn, Saves, SaveCall, Moved, Owns, Committing, PublishCheck
  <2> QED BY <2>1, <2>2, <2>3, <2>4 DEF Turn
<1> QED BY <1>1, <1>2, <1>3, <1>4, <1>5, <1>6 DEF Commit

\* ... and every start or fault of a run.
LEMMA FaultTurns ==
  ASSUME Typed, WaveOrder, NEW r \in Runs, Start(r) \/ Interrupt(r) \/ ClientDies(r) \/ ServerDies(r) \/ Disconnect(r)
  PROVE  Turn(r)
<1> USE DEF diskVars, histVars, planVars, callVars, comVars, clientRest, serverRest, commitRest, Goes, Fails,
            Goto, Send, Succeeds, Refuses, Reply, Leave, Forget
<1>0. ControlOK /\ RunTypes /\ PlanTypes /\ PublishTypes
  BY DEF Typed, Inv, DataTypes
<1>a. req[r] # "none" => pc[r] \notin {"idle", "scan", "panic"}
  BY <1>0 DEF WaveOrder, InOrder, ControlOK, Call
<1> USE <1>0 DEF ControlOK, RunTypes, PlanTypes, PublishTypes
<1>1. ASSUME Start(r) PROVE Turn(r)
  <2>1. Others(r)
    BY <1>1 DEF Others, Start
  <2>2. MarkerTurn(r)
    BY <1>1 DEF MarkerTurn, Start
  <2>3. ClientTurn(r)
    BY <1>a, <1>1, Sides DEF ClientTurn, Starts, Scans, Alive, Clear, Moved, Owns, Committing, Pc, Start
  <2>4. SaveTurn(r)
    BY <1>1, Sides DEF SaveTurn, Saves, SaveCall, Moved, Owns, Committing, Start
  <2> QED BY <2>1, <2>2, <2>3, <2>4 DEF Turn
<1>2. ASSUME Interrupt(r) PROVE Turn(r)
  <2>1. Others(r)
    BY <1>2 DEF Others, Interrupt
  <2>2. MarkerTurn(r)
    BY <1>2 DEF MarkerTurn, Interrupt
  <2>3. ClientTurn(r)
    BY <1>a, <1>2, Sides DEF ClientTurn, Starts, Scans, Alive, Clear, Moved, Owns, Committing, Pc, Interrupt
  <2>4. SaveTurn(r)
    BY <1>2, Sides DEF SaveTurn, Saves, SaveCall, Moved, Owns, Committing, Interrupt
  <2> QED BY <2>1, <2>2, <2>3, <2>4 DEF Turn
<1>3. ASSUME ClientDies(r) PROVE Turn(r)
  <2>1. Others(r)
    BY <1>3 DEF Others, ClientDies
  <2>2. MarkerTurn(r)
    BY <1>3 DEF MarkerTurn, ClientDies
  <2>3. ClientTurn(r)
    BY <1>a, <1>3, Sides DEF ClientTurn, Starts, Scans, Alive, Clear, Moved, Owns, Committing, Pc, ClientDies
  <2>4. SaveTurn(r)
    BY <1>3, Sides DEF SaveTurn, Saves, SaveCall, Moved, Owns, Committing, ClientDies
  <2> QED BY <2>1, <2>2, <2>3, <2>4 DEF Turn
<1>4. ASSUME ServerDies(r) PROVE Turn(r)
  <2>1. Others(r)
    BY <1>4 DEF Others, ServerDies
  <2>2. MarkerTurn(r)
    BY <1>4 DEF MarkerTurn, ServerDies
  <2>3. ClientTurn(r)
    BY <1>a, <1>4, Sides DEF ClientTurn, Starts, Scans, Alive, Clear, Moved, Owns, Committing, Pc, ServerDies
  <2>4. SaveTurn(r)
    BY <1>4, Sides DEF SaveTurn, Saves, SaveCall, Moved, Owns, Committing, ServerDies
  <2> QED BY <2>1, <2>2, <2>3, <2>4 DEF Turn
<1>5. ASSUME Disconnect(r) PROVE Turn(r)
  <2>1. Others(r)
    BY <1>5 DEF Others, Disconnect
  <2>2. MarkerTurn(r)
    BY <1>5 DEF MarkerTurn, Disconnect
  <2>3. ClientTurn(r)
    BY <1>a, <1>5, Sides DEF ClientTurn, Starts, Scans, Alive, Clear, Moved, Owns, Committing, Pc, Disconnect
  <2>4. SaveTurn(r)
    BY <1>5, Sides DEF SaveTurn, Saves, SaveCall, Moved, Owns, Committing, Disconnect
  <2> QED BY <2>1, <2>2, <2>3, <2>4 DEF Turn
<1> QED BY <1>1, <1>2, <1>3, <1>4, <1>5

-----------------------------------------------------------------------------
(* Runs one at a time: who is alone with what *)

\* At most one client is alive, ...
OneAlive == \A q, r \in Runs : Alive(q) /\ Alive(r) => q = r

\* ... a local marker is its own, ...
LocalMine == \A r \in Runs : Alive(r) => marker[Local] = None \/ marker[Local].run = r

\* ... and once it has found no remote marker the server of an earlier run can
\* only create one, in its last call.
Checked(r) == Alive(r) /\ (pc[r] # "scan" \/ Remote \in ready[r])
CheckedAlone ==
  \A r \in Runs : Checked(r) /\ marker[Remote] # None /\ marker[Remote].run # r =>
    marker[Remote].phase \in {"preparing", "malformed"} /\ req[marker[Remote].run] = "none"

\* It reads a side after that check.
LoadedReady ==
  \A r \in Runs, s \in Side, p \in Paths : old[r][s][p] # Unread =>
    pc[r] # "idle" /\ (pc[r] = "scan" => s \in ready[r])

Serial == OneAlive /\ LocalMine /\ CheckedAlone /\ LoadedReady

\* A client that is alive and checked after a step was that before, or has just
\* passed a check.
LEMMA CheckedBefore ==
  ASSUME Typed, Serial, NEW r \in Runs, Turn(r), NEW q \in Runs, Checked(q)', marker'[Remote] # None
  PROVE  Checked(q)
<1>1. CASE q # r
  BY <1>1 DEF Turn, Others, Checked, Alive
<1>2. CASE q = r
  <2>1. CASE pc'[r] = "scan"
    BY <1>2, <2>1 DEF Turn, ClientTurn, Scans, Starts, Checked, Alive, Clear, Side, Local, Remote
  <2>2. CASE pc'[r] # "scan"
    <3>1. pc[r] \notin {"idle", "over", "panic"}
      BY <1>2, <2>2 DEF Turn, ClientTurn, Checked, Alive
    <3>2. CASE pc[r] = "scan"
      <4>1. AllRead(r) /\ Paths # {}
        BY <1>2, <2>2, <3>2 DEF Turn, ClientTurn, Checked, Alive
      <4>2. PICK p \in Paths : old[r][Remote][p] # Unread
        BY <4>1, Sides DEF AllRead, Typed, ReadFirst
      <4> QED BY <1>2, <3>1, <3>2, <4>2, Sides DEF Serial, LoadedReady, Checked, Alive
    <3> QED BY <1>2, <3>1, <3>2 DEF Checked, Alive
  <2> QED BY <2>1, <2>2
<1> QED BY <1>1, <1>2

\* A step of a run keeps this, ...
LEMMA TurnSerial ==
  ASSUME ~AllowConcurrent, Typed, Typed', Serial, NEW r \in Runs, Turn(r)
  PROVE  Serial'
<1>0. ControlOK /\ ControlOK' /\ PlanTypes /\ Local \in Side /\ Remote \in Side /\ Local # Remote
  BY Sides DEF Typed, Inv, DataTypes
<1>1. \A q \in Runs : Alive(q)' => Alive(q) \/ (q = r /\ Starts(r))
  BY DEF Turn, Others, ClientTurn, Alive
<1>2. Starts(r) => \A q \in Runs : ~Alive(q)
  BY DEF Starts
<1>3. OneAlive'
  BY <1>1, <1>2 DEF Serial, OneAlive
<1>4. LocalMine'
  <2> SUFFICES ASSUME NEW q \in Runs, Alive(q)', marker'[Local] # None
               PROVE  marker'[Local].run = q
    BY DEF LocalMine
  <2>1. Alive(q)
    BY <1>1 DEF Starts, Clear
  <2>2. CASE marker'[Local] = marker[Local]
    BY <2>1, <2>2 DEF Serial, LocalMine
  <2>3. CASE Creates(r, Local) \/ MovesOn(r, Local)
    <3>1. marker'[Local].run = r /\ Alive(r)
      <4>1. CASE Creates(r, Local)
        BY <1>0, <4>1 DEF Creates, ControlOK, Alive
      <4>2. CASE MovesOn(r, Local)
        BY <1>0, <4>2 DEF MovesOn, ControlOK
      <4> QED BY <2>3, <4>1, <4>2
    <3> QED BY <2>1, <3>1 DEF Serial, OneAlive
  <2> QED BY <1>0, <2>2, <2>3 DEF Turn, MarkerTurn, Removes, Creates, MovesOn, ControlOK, Side
<1>5. CheckedAlone'
  <2> SUFFICES ASSUME NEW q \in Runs, Checked(q)', marker'[Remote] # None, marker'[Remote].run # q
               PROVE  /\ marker'[Remote].phase \in {"preparing", "malformed"}
                      /\ req'[marker'[Remote].run] = "none"
    BY DEF CheckedAlone
  <2>1. Checked(q) /\ Alive(q)
    BY CheckedBefore DEF Checked
  <2>2. CASE marker'[Remote] = marker[Remote]
    <3>1. /\ marker[Remote].phase \in {"preparing", "malformed"}
          /\ req[marker[Remote].run] = "none"
      BY <2>1, <2>2 DEF Serial, CheckedAlone
    <3>2. marker[Remote].run \in Runs
      BY <1>0, <2>2 DEF ControlOK, Marker
    <3>3. ~Alive(marker[Remote].run)
      BY <2>1, <2>2, <3>2 DEF Serial, OneAlive
    <3> QED BY <2>2, <3>1, <3>2, <3>3 DEF Turn, Others, ClientTurn
  <2>3. CASE Creates(r, Remote)
    BY <1>0, <2>3 DEF Creates, ControlOK, Local, Remote
  <2>4. CASE MovesOn(r, Remote)
    <3>1. marker[Remote].run = r /\ marker[Remote] # None /\ marker'[Remote].run = r
      BY <1>0, <2>4, OwnedMarker DEF MovesOn, ControlOK
    <3>2. req[r] # "none"
      BY <2>4 DEF MovesOn, Local, Remote
    <3> QED BY <2>1, <3>1, <3>2 DEF Serial, CheckedAlone
  <2> QED BY <1>0, <2>2, <2>3, <2>4 DEF Turn, MarkerTurn, Removes, Creates, MovesOn, ControlOK, Side
<1>6. LoadedReady'
  <2> SUFFICES ASSUME NEW q \in Runs, NEW s \in Side, NEW p \in Paths, old'[q][s][p] # Unread
               PROVE  pc'[q] # "idle" /\ (pc'[q] = "scan" => s \in ready'[q])
    BY DEF LoadedReady
  <2>1. CASE q # r
    BY <2>1 DEF Turn, Others, Serial, LoadedReady
  <2>2. CASE q = r
    BY <2>2 DEF Turn, ClientTurn, Scans, Starts, Serial, LoadedReady
  <2> QED BY <2>1, <2>2
<1> QED BY <1>3, <1>4, <1>5, <1>6 DEF Serial

\* A step of a user, of users of files and of those who clear markers, is none
\* of a run.
Unmoved == UNCHANGED <<pc, req, rep, saved, ready, old, seen, act, todo, group, com, left>>

\* It leaves those alone who are, even when it clears a marker.
LEMMA UnmovedSerial ==
  ASSUME Serial, Unmoved, \A s \in Side : marker'[s] \in {marker[s], None}
  PROVE  Serial'
  BY Sides DEF Serial, Unmoved, OneAlive, LocalMine, CheckedAlone, LoadedReady, Checked, Alive

\* Both snapshots are saved behind a local marker that says so.
Phases ==
  \A r \in Runs : pc[r] \in Saves \/ req[r] \in SaveCall => Owns(r, Local, {"state-save"})

\* A step of a run keeps that marker.
LEMMA TurnPhases ==
  ASSUME Typed, WaveOrder, Phases, NEW r \in Runs, Turn(r)
  PROVE  Phases'
<1>0. ControlOK
  BY DEF Typed, Inv
<1> SUFFICES ASSUME NEW q \in Runs, pc'[q] \in Saves \/ req'[q] \in SaveCall
             PROVE  Owns(q, Local, {"state-save"})'
  BY DEF Phases
<1>1. CASE q = r /\ Owns(r, Local, {"state-save"})'
  BY <1>1
<1>2. CASE pc[q] \in Saves \/ req[q] \in SaveCall
  <2>1. Owns(q, Local, {"state-save"})
    BY <1>2 DEF Phases
  <2>2. marker[Local] = [run |-> q, phase |-> "state-save"] /\ marker[Local] # None
    BY <1>0, <2>1, Sides, OwnedMarker DEF Owns, Phase
  <2>3. ~Removes(r, Local)
    <3>1. CASE Owns(r, Local, {"state-save"}) /\ pc[r] = "finishMarker"
               /\ pc'[r] \in {"wave", "over"} /\ req'[r] = req[r]
      <4>1. r = q
        BY <2>2, <3>1 DEF Owns
      <4> QED BY <3>1, <4>1 DEF WaveOrder, InOrder, Saves, SaveCall
    <3> QED BY <2>2, <3>1 DEF Removes, Precommit
  <2>4. ~Creates(r, Local) /\ ~MovesOn(r, Local)
    <3>1. ASSUME NEW from \in Phase, Owns(r, Local, {from}) PROVE from = "state-save"
      BY <2>2, <3>1 DEF Owns
    <3> QED BY <2>2, <3>1 DEF Creates, MovesOn
  <2>5. marker'[Local] = marker[Local]
    BY <1>0, <2>3, <2>4, Sides DEF Turn, MarkerTurn, Removes, Creates, MovesOn, ControlOK, Side
  <2> QED BY <2>1, <2>5 DEF Owns
<1>3. q # r => pc'[q] = pc[q] /\ req'[q] = req[q]
  BY DEF Turn, Others
<1>4. q = r => \/ pc[r] \in Saves \/ req[r] \in SaveCall
               \/ Owns(r, Local, {"state-save"})'
  BY DEF Turn, SaveTurn
<1> QED BY <1>1, <1>2, <1>3, <1>4

-----------------------------------------------------------------------------
(* Runs one at a time: what the steps of a run do to trees, snapshots and plans *)

\* The commit of run r on side s publishes p.
Publishes(r, s, p) ==
  /\ com[r][s] = "publishing" /\ com'[r][s] = "publishing" /\ Committing(r, s)
  /\ p \in left[r][s] /\ left' = [left EXCEPT ![r][s] = @ \ {p}]
  /\ tree' = [tree EXCEPT ![s][p] = NewEntry(r, p, s)]
  /\ \A q \in Paths : dropped'[q] \subseteq dropped[q] \cup {seen[r][s][q]}
  /\ UNCHANGED <<replaced, fresh, raced, snap, marker, pc, req, act, todo, group>>

TreeTurn(r) ==
  UNCHANGED <<tree, replaced, fresh, dropped, raced>> \/ \E s \in Side, p \in Paths : Publishes(r, s, p)

\* Between two waves, or two runs, a commit of run r on side s begins,
\* publishes, fails, or ends.
CommitTurn(r, s) ==
  \/ /\ todo'[r] = todo[r] /\ group'[r] = group[r]
     /\ \/ com'[r][s] = com[r][s] /\ left'[r][s] = left[r][s]
        \/ com'[r][s] = com[r][s] /\ com[r][s] # "publishing"
        \/ com[r][s] = "idle" /\ com'[r][s] = "publishing" /\ left'[r][s] = Targets(r, s)
        \/ com[r][s] \in {"idle", "publishing"} /\ com'[r][s] = "failed"
        \/ com[r][s] = "publishing" /\ left[r][s] = {} /\ com'[r][s] = "done"
        \/ \E p \in Paths : Publishes(r, s, p)
  \/ /\ todo'[r] = todo[r] /\ com[r][s] = "idle" /\ com'[r][s] = "idle"
  \/ /\ com[r][s] = "done" /\ com'[r][s] = "idle" /\ todo'[r] = todo[r] \ group[r]

\* A plan is made of what was read.
Plans(r) ==
  /\ pc[r] = "scan" /\ pc'[r] = "wave" /\ AllRead(r)
  /\ old'[r] = old[r] /\ seen'[r] = seen[r] /\ group'[r] = group[r]
  /\ com'[r] = com[r] /\ left'[r] = left[r]
  /\ todo'[r] = {p \in Paths : act'[r][p] # "none"}
  /\ UNCHANGED <<tree, replaced, snap, marker>>

\* Its data are of use as long as there is a client, or a call for the side.
Live(r, s) == Alive(r) \/ (s = Remote /\ req[r] # "none")
PlanTurn(r) ==
  \A s \in Side : Live(r, s)' =>
    \/ Plans(r)
    \/ /\ act'[r] = act[r] /\ CommitTurn(r, s)
       /\ pc[r] # "scan" => old'[r] = old[r] /\ seen'[r] = seen[r]
       /\ pc[r] = "scan" => pc'[r] # "wave"

\* A snapshot is saved with what the waves so far have done.
SavesTo(r, s) ==
  /\ snap' = [snap EXCEPT ![s] = Merged(r, s, DoneBySave(r))]
  /\ pc'[r] = pc[r]
  /\ IF s = Local THEN pc[r] = "save" /\ saved'[r] = "ok" /\ rep'[r] = rep[r]
                  ELSE req[r] = "save" /\ saved'[r] = saved[r]

\* The wave is over, and the next one begins.
WaveOver(r) ==
  /\ pc[r] = "finishMarker" /\ pc'[r] = "wave" /\ saved'[r] = "no"
  /\ todo'[r] = todo[r] \ group[r] /\ group'[r] = {} /\ UNCHANGED snap

\* The client waits for both saves.
SnapTurn(r) ==
  /\ UNCHANGED snap \/ \E s \in Side : SavesTo(r, s)
  /\ Alive(r)' =>
       /\ pc'[r] # "save" => UNCHANGED snap
       /\ \/ saved'[r] = saved[r] \/ SavesTo(r, Local) \/ WaveOver(r)
          \/ pc[r] = "save" /\ pc'[r] = "save" /\ UNCHANGED snap /\ rep'[r] = rep[r] /\ saved'[r] = "err"
             /\ saved[r] = "no"
       /\ pc'[r] = "save" => pc[r] = "save" \/ (pc[r] = "mark" /\ rep'[r] = "none" /\ UNCHANGED snap)
       /\ pc'[r] = "save" /\ rep'[r] = "ok" => rep[r] = "ok" \/ SavesTo(r, Remote)
       /\ pc'[r] = "complete" =>
            pc[r] = "complete" \/ (pc[r] = "save" /\ saved[r] = "ok" /\ rep[r] = "ok")
       /\ pc'[r] = "finishMarker" => pc[r] \in {"complete", "finishMarker"}
       /\ pc[r] \in Saves => pc'[r] \in Saves \/ WaveOver(r)
       /\ todo'[r] = todo[r] \/ Plans(r) \/ WaveOver(r)
  /\ pc'[r] = "idle" => saved'[r] = saved[r]

DataTurn(r) == UNCHANGED <<forced, edits>> /\ TreeTurn(r) /\ PlanTurn(r) /\ SnapTurn(r)

\* Every step of a client keeps these rules, ...
LEMMA ClientTurnsData ==
  ASSUME Typed, WaveOrder, NEW r \in Runs, Client(r)
  PROVE  DataTurn(r)
<1> USE DEF diskVars, histVars, userVars, planVars, callVars, comVars, clientRest, serverRest, commitRest, Goes, Fails,
            Goto, Send, Succeeds, Refuses, Reply, Leave, Forget
<1>0. ControlOK /\ DataTypes
  BY DEF Typed, Inv
<1>a. InOrder(r)
  BY DEF WaveOrder
<1> USE <1>0 DEF ControlOK, DataTypes, DiskTypes, RunTypes, PlanTypes, PublishTypes
<1>1. ASSUME ServerScan(r) PROVE DataTurn(r)
  <2>1. UNCHANGED <<forced, edits>> /\ TreeTurn(r)
    BY <1>1, Sides DEF TreeTurn, Publishes, ServerScan
  <2>2. PlanTurn(r)
    BY <1>a, <1>1, Sides DEF PlanTurn, Live, Alive, Plans, CommitTurn, Publishes, InOrder, ServerScan
  <2>3. SnapTurn(r)
    BY <1>a, <1>1, Sides DEF SnapTurn, SavesTo, WaveOver, Plans, Saves, Alive, Answered, InOrder, ServerScan
  <2> QED BY <2>1, <2>2, <2>3 DEF DataTurn
<1>2. ASSUME Plan(r) PROVE DataTurn(r)
  <2>1. UNCHANGED <<forced, edits>> /\ TreeTurn(r)
    BY <1>2, Sides DEF TreeTurn, Publishes, Plan
  <2>2. PlanTurn(r)
    BY <1>a, <1>2, Sides DEF PlanTurn, Live, Alive, Plans, CommitTurn, Publishes, InOrder, Plan
  <2>3. SnapTurn(r)
    BY <1>a, <1>2, Sides DEF SnapTurn, SavesTo, WaveOver, Plans, Saves, Alive, Answered, InOrder, Plan
  <2> QED BY <2>1, <2>2, <2>3 DEF DataTurn
<1>3. ASSUME UserAborts(r) PROVE DataTurn(r)
  <2>1. UNCHANGED <<forced, edits>> /\ TreeTurn(r)
    BY <1>3, Sides DEF TreeTurn, Publishes, UserAborts
  <2>2. PlanTurn(r)
    BY <1>a, <1>3, Sides DEF PlanTurn, Live, Alive, Plans, CommitTurn, Publishes, InOrder, UserAborts
  <2>3. SnapTurn(r)
    BY <1>a, <1>3, Sides DEF SnapTurn, SavesTo, WaveOver, Plans, Saves, Alive, Answered, InOrder, UserAborts
  <2> QED BY <2>1, <2>2, <2>3 DEF DataTurn
<1>4. ASSUME GiveUp(r) PROVE DataTurn(r)
  <2>1. UNCHANGED <<forced, edits>> /\ TreeTurn(r)
    BY <1>4, Sides DEF TreeTurn, Publishes, GiveUp
  <2>2. PlanTurn(r)
    BY <1>a, <1>4, Sides DEF PlanTurn, Live, Alive, Plans, CommitTurn, Publishes, InOrder, GiveUp
  <2>3. SnapTurn(r)
    BY <1>a, <1>4, Sides DEF SnapTurn, SavesTo, WaveOver, Plans, Saves, Alive, Answered, InOrder, GiveUp
  <2> QED BY <2>1, <2>2, <2>3 DEF DataTurn
<1>5. ASSUME BeginWave(r) PROVE DataTurn(r)
  <2>1. UNCHANGED <<forced, edits>> /\ TreeTurn(r)
    BY <1>5, Sides DEF TreeTurn, Publishes, BeginWave
  <2>2. PlanTurn(r)
    BY <1>a, <1>5, Sides DEF PlanTurn, Live, Alive, Plans, CommitTurn, Publishes, InOrder, BeginWave
  <2>3. SnapTurn(r)
    BY <1>a, <1>5, Sides DEF SnapTurn, SavesTo, WaveOver, Plans, Saves, Alive, Answered, InOrder, BeginWave
  <2> QED BY <2>1, <2>2, <2>3 DEF DataTurn
<1>6. ASSUME RemoteBegun(r) PROVE DataTurn(r)
  <2>1. UNCHANGED <<forced, edits>> /\ TreeTurn(r)
    BY <1>6, Sides DEF TreeTurn, Publishes, RemoteBegun
  <2>2. PlanTurn(r)
    BY <1>a, <1>6, Sides DEF PlanTurn, Live, Alive, Plans, CommitTurn, Publishes, InOrder, RemoteBegun
  <2>3. SnapTurn(r)
    BY <1>a, <1>6, Sides DEF SnapTurn, SavesTo, WaveOver, Plans, Saves, Alive, Answered, InOrder, RemoteBegun
  <2> QED BY <2>1, <2>2, <2>3 DEF DataTurn
<1>7. ASSUME BeginLocal(r) PROVE DataTurn(r)
  <2>1. UNCHANGED <<forced, edits>> /\ TreeTurn(r)
    BY <1>7, Sides DEF TreeTurn, Publishes, BeginLocal
  <2>2. PlanTurn(r)
    BY <1>a, <1>7, Sides DEF PlanTurn, Live, Alive, Plans, CommitTurn, Publishes, InOrder, BeginLocal
  <2>3. SnapTurn(r)
    BY <1>a, <1>7, Sides DEF SnapTurn, SavesTo, WaveOver, Plans, Saves, Alive, Answered, InOrder, BeginLocal
  <2> QED BY <2>1, <2>2, <2>3 DEF DataTurn
<1>8. ASSUME Stream(r) PROVE DataTurn(r)
  <2>1. UNCHANGED <<forced, edits>> /\ TreeTurn(r)
    BY <1>8, Sides DEF TreeTurn, Publishes, Stream
  <2>2. PlanTurn(r)
    BY <1>a, <1>8, Sides DEF PlanTurn, Live, Alive, Plans, CommitTurn, Publishes, InOrder, Stream
  <2>3. SnapTurn(r)
    BY <1>a, <1>8, Sides DEF SnapTurn, SavesTo, WaveOver, Plans, Saves, Alive, Answered, InOrder, Stream
  <2> QED BY <2>1, <2>2, <2>3 DEF DataTurn
<1>9. ASSUME FinishLocal(r) PROVE DataTurn(r)
  <2>1. UNCHANGED <<forced, edits>> /\ TreeTurn(r)
    BY <1>9, Sides DEF TreeTurn, Publishes, FinishLocal
  <2>2. PlanTurn(r)
    BY <1>a, <1>9, Sides DEF PlanTurn, Live, Alive, Plans, CommitTurn, Publishes, InOrder, FinishLocal
  <2>3. SnapTurn(r)
    BY <1>a, <1>9, Sides DEF SnapTurn, SavesTo, WaveOver, Plans, Saves, Alive, Answered, InOrder, FinishLocal
  <2> QED BY <2>1, <2>2, <2>3 DEF DataTurn
<1>10. ASSUME RemoteFinished(r) PROVE DataTurn(r)
  <2>1. UNCHANGED <<forced, edits>> /\ TreeTurn(r)
    BY <1>10, Sides DEF TreeTurn, Publishes, RemoteFinished
  <2>2. PlanTurn(r)
    BY <1>a, <1>10, Sides DEF PlanTurn, Live, Alive, Plans, CommitTurn, Publishes, InOrder, RemoteFinished
  <2>3. SnapTurn(r)
    BY <1>a, <1>10, Sides DEF SnapTurn, SavesTo, WaveOver, Plans, Saves, Alive, Answered, InOrder, RemoteFinished
  <2> QED BY <2>1, <2>2, <2>3 DEF DataTurn
<1>11. ASSUME Fence(r) PROVE DataTurn(r)
  <2>1. UNCHANGED <<forced, edits>> /\ TreeTurn(r)
    BY <1>11, Sides DEF TreeTurn, Publishes, Fence
  <2>2. PlanTurn(r)
    BY <1>a, <1>11, Sides DEF PlanTurn, Live, Alive, Plans, CommitTurn, Publishes, InOrder, Fence
  <2>3. SnapTurn(r)
    BY <1>a, <1>11, Sides DEF SnapTurn, SavesTo, WaveOver, Plans, Saves, Alive, Answered, InOrder, Fence
  <2> QED BY <2>1, <2>2, <2>3 DEF DataTurn
<1>12. ASSUME CommitsJoined(r) PROVE DataTurn(r)
  <2>1. UNCHANGED <<forced, edits>> /\ TreeTurn(r)
    BY <1>12, Sides DEF TreeTurn, Publishes, CommitsJoined
  <2>2. PlanTurn(r)
    BY <1>a, <1>12, Sides DEF PlanTurn, Live, Alive, Plans, CommitTurn, Publishes, InOrder, CommitsJoined
  <2>3. SnapTurn(r)
    BY <1>a, <1>12, Sides DEF SnapTurn, SavesTo, WaveOver, Plans, Saves, Alive, Answered, InOrder, CommitsJoined
  <2> QED BY <2>1, <2>2, <2>3 DEF DataTurn
<1>13. ASSUME MarkSave(r) PROVE DataTurn(r)
  <2>1. UNCHANGED <<forced, edits>> /\ TreeTurn(r)
    BY <1>13, Sides DEF TreeTurn, Publishes, MarkSave
  <2>2. PlanTurn(r)
    BY <1>a, <1>13, Sides DEF PlanTurn, Live, Alive, Plans, CommitTurn, Publishes, InOrder, MarkSave
  <2>3. SnapTurn(r)
    BY <1>a, <1>13, Sides DEF SnapTurn, SavesTo, WaveOver, Plans, Saves, Alive, Answered, InOrder, MarkSave
  <2> QED BY <2>1, <2>2, <2>3 DEF DataTurn
<1>14. ASSUME SaveLocal(r) PROVE DataTurn(r)
  <2>1. UNCHANGED <<forced, edits>> /\ TreeTurn(r)
    BY <1>14, Sides DEF TreeTurn, Publishes, SaveLocal
  <2>2. PlanTurn(r)
    BY <1>a, <1>14, Sides DEF PlanTurn, Live, Alive, Plans, CommitTurn, Publishes, InOrder, SaveLocal
  <2>3. SnapTurn(r)
    BY <1>a, <1>14, Sides DEF SnapTurn, SavesTo, WaveOver, Plans, Saves, Alive, Answered, InOrder, SaveLocal
  <2> QED BY <2>1, <2>2, <2>3 DEF DataTurn
<1>15. ASSUME SavesJoined(r) PROVE DataTurn(r)
  <2>1. UNCHANGED <<forced, edits>> /\ TreeTurn(r)
    BY <1>15, Sides DEF TreeTurn, Publishes, SavesJoined
  <2>2. PlanTurn(r)
    BY <1>a, <1>15, Sides DEF PlanTurn, Live, Alive, Plans, CommitTurn, Publishes, InOrder, SavesJoined
  <2>3. SnapTurn(r)
    BY <1>a, <1>15, Sides DEF SnapTurn, SavesTo, WaveOver, Plans, Saves, Alive, Answered, InOrder, SavesJoined
  <2> QED BY <2>1, <2>2, <2>3 DEF DataTurn
<1>16. ASSUME RemoteCompleted(r) PROVE DataTurn(r)
  <2>1. UNCHANGED <<forced, edits>> /\ TreeTurn(r)
    BY <1>16, Sides DEF TreeTurn, Publishes, RemoteCompleted
  <2>2. PlanTurn(r)
    BY <1>a, <1>16, Sides DEF PlanTurn, Live, Alive, Plans, CommitTurn, Publishes, InOrder, RemoteCompleted
  <2>3. SnapTurn(r)
    BY <1>a, <1>16, Sides DEF SnapTurn, SavesTo, WaveOver, Plans, Saves, Alive, Answered, InOrder, RemoteCompleted
  <2> QED BY <2>1, <2>2, <2>3 DEF DataTurn
<1>17. ASSUME FinishMarker(r) PROVE DataTurn(r)
  <2>1. UNCHANGED <<forced, edits>> /\ TreeTurn(r)
    BY <1>17, Sides DEF TreeTurn, Publishes, FinishMarker
  <2>2. PlanTurn(r)
    BY <1>a, <1>17, Sides DEF PlanTurn, Live, Alive, Plans, CommitTurn, Publishes, InOrder, FinishMarker
  <2>3. SnapTurn(r)
    BY <1>a, <1>17, Sides DEF SnapTurn, SavesTo, WaveOver, Plans, Saves, Alive, Answered, InOrder, FinishMarker
  <2> QED BY <2>1, <2>2, <2>3 DEF DataTurn
<1>18. ASSUME AbortLocal(r) PROVE DataTurn(r)
  <2>1. UNCHANGED <<forced, edits>> /\ TreeTurn(r)
    BY <1>18, Sides DEF TreeTurn, Publishes, AbortLocal
  <2>2. PlanTurn(r)
    BY <1>a, <1>18, Sides DEF PlanTurn, Live, Alive, Plans, CommitTurn, Publishes, InOrder, AbortLocal
  <2>3. SnapTurn(r)
    BY <1>a, <1>18, Sides DEF SnapTurn, SavesTo, WaveOver, Plans, Saves, Alive, Answered, InOrder, AbortLocal
  <2> QED BY <2>1, <2>2, <2>3 DEF DataTurn
<1>19. ASSUME Aborted(r) PROVE DataTurn(r)
  <2>1. UNCHANGED <<forced, edits>> /\ TreeTurn(r)
    BY <1>19, Sides DEF TreeTurn, Publishes, Aborted
  <2>2. PlanTurn(r)
    BY <1>a, <1>19, Sides DEF PlanTurn, Live, Alive, Plans, CommitTurn, Publishes, InOrder, Aborted
  <2>3. SnapTurn(r)
    BY <1>a, <1>19, Sides DEF SnapTurn, SavesTo, WaveOver, Plans, Saves, Alive, Answered, InOrder, Aborted
  <2> QED BY <2>1, <2>2, <2>3 DEF DataTurn
<1>20. ASSUME NEW s \in Side, LoadOld(r, s) PROVE DataTurn(r)
  <2>1. UNCHANGED <<forced, edits>> /\ TreeTurn(r)
    BY <1>20, Sides DEF TreeTurn, Publishes, LoadOld
  <2>2. PlanTurn(r)
    BY <1>a, <1>20, Sides DEF PlanTurn, Live, Alive, Plans, CommitTurn, Publishes, InOrder, LoadOld
  <2>3. SnapTurn(r)
    BY <1>a, <1>20, Sides DEF SnapTurn, SavesTo, WaveOver, Plans, Saves, Alive, Answered, InOrder, LoadOld
  <2> QED BY <2>1, <2>2, <2>3 DEF DataTurn
<1>21. ASSUME NEW s \in Side, NEW p \in Paths, ScanPath(r, s, p) PROVE DataTurn(r)
  <2>1. UNCHANGED <<forced, edits>> /\ TreeTurn(r)
    BY <1>21, Sides DEF TreeTurn, Publishes, ScanPath
  <2>2. PlanTurn(r)
    BY <1>a, <1>21, Sides DEF PlanTurn, Live, Alive, Plans, CommitTurn, Publishes, InOrder, ScanPath
  <2>3. SnapTurn(r)
    BY <1>a, <1>21, Sides DEF SnapTurn, SavesTo, WaveOver, Plans, Saves, Alive, Answered, InOrder, ScanPath
  <2> QED BY <2>1, <2>2, <2>3 DEF DataTurn
<1>22. ASSUME NEW s \in Side, ValidateSide(r, s) PROVE DataTurn(r)
  <2>1. UNCHANGED <<forced, edits>> /\ TreeTurn(r)
    BY <1>22, Sides DEF TreeTurn, Publishes, ValidateSide
  <2>2. PlanTurn(r)
    BY <1>a, <1>22, Sides DEF PlanTurn, Live, Alive, Plans, CommitTurn, Publishes, InOrder, ValidateSide
  <2>3. SnapTurn(r)
    BY <1>a, <1>22, Sides DEF SnapTurn, SavesTo, WaveOver, Plans, Saves, Alive, Answered, InOrder, ValidateSide
  <2> QED BY <2>1, <2>2, <2>3 DEF DataTurn
<1> QED BY <1>1, <1>2, <1>3, <1>4, <1>5, <1>6, <1>7, <1>8, <1>9, <1>10, <1>11, <1>12, <1>13, <1>14, <1>15, <1>16, <1>17, <1>18, <1>19, <1>20, <1>21, <1>22 DEF Client

\* ... of a server, ...
LEMMA ServerTurnsData ==
  ASSUME Typed, WaveOrder, NEW r \in Runs, ServerStep(r)
  PROVE  DataTurn(r)
<1> USE DEF diskVars, histVars, userVars, planVars, callVars, comVars, clientRest, serverRest, commitRest, Goes, Fails,
            Goto, Send, Succeeds, Refuses, Reply, Leave, Forget
<1>0. ControlOK /\ DataTypes
  BY DEF Typed, Inv
<1>a. InOrder(r)
  BY DEF WaveOrder
<1> USE <1>0 DEF ControlOK, DataTypes, DiskTypes, RunTypes, PlanTypes, PublishTypes
<1>1. ASSUME ServerBegin(r) PROVE DataTurn(r)
  <2>1. UNCHANGED <<forced, edits>> /\ TreeTurn(r)
    BY <1>1, Sides DEF TreeTurn, Publishes, ServerBegin
  <2>2. PlanTurn(r)
    BY <1>a, <1>1, Sides DEF PlanTurn, Live, Alive, Plans, CommitTurn, Publishes, InOrder, ServerBegin
  <2>3. SnapTurn(r)
    BY <1>a, <1>1, Sides DEF SnapTurn, SavesTo, WaveOver, Plans, Saves, Alive, Answered, InOrder, ServerBegin
  <2> QED BY <2>1, <2>2, <2>3 DEF DataTurn
<1>2. ASSUME ServerFinish(r) PROVE DataTurn(r)
  <2>1. UNCHANGED <<forced, edits>> /\ TreeTurn(r)
    BY <1>2, Sides DEF TreeTurn, Publishes, ServerFinish
  <2>2. PlanTurn(r)
    BY <1>a, <1>2, Sides DEF PlanTurn, Live, Alive, Plans, CommitTurn, Publishes, InOrder, ServerFinish
  <2>3. SnapTurn(r)
    BY <1>a, <1>2, Sides DEF SnapTurn, SavesTo, WaveOver, Plans, Saves, Alive, Answered, InOrder, ServerFinish
  <2> QED BY <2>1, <2>2, <2>3 DEF DataTurn
<1>3. ASSUME ServerMarkSave(r) PROVE DataTurn(r)
  <2>1. UNCHANGED <<forced, edits>> /\ TreeTurn(r)
    BY <1>3, Sides DEF TreeTurn, Publishes, ServerMarkSave
  <2>2. PlanTurn(r)
    BY <1>a, <1>3, Sides DEF PlanTurn, Live, Alive, Plans, CommitTurn, Publishes, InOrder, ServerMarkSave
  <2>3. SnapTurn(r)
    BY <1>a, <1>3, Sides DEF SnapTurn, SavesTo, WaveOver, Plans, Saves, Alive, Answered, InOrder, ServerMarkSave
  <2> QED BY <2>1, <2>2, <2>3 DEF DataTurn
<1>4. ASSUME ServerSave(r) PROVE DataTurn(r)
  <2>1. UNCHANGED <<forced, edits>> /\ TreeTurn(r)
    BY <1>4, Sides DEF TreeTurn, Publishes, ServerSave
  <2>2. PlanTurn(r)
    BY <1>a, <1>4, Sides DEF PlanTurn, Live, Alive, Plans, CommitTurn, Publishes, InOrder, ServerSave
  <2>3. SnapTurn(r)
    BY <1>a, <1>4, Sides DEF SnapTurn, SavesTo, WaveOver, Plans, Saves, Alive, Answered, InOrder, ServerSave
  <2> QED BY <2>1, <2>2, <2>3 DEF DataTurn
<1>5. ASSUME ServerSaveFails(r) PROVE DataTurn(r)
  <2>1. UNCHANGED <<forced, edits>> /\ TreeTurn(r)
    BY <1>5, Sides DEF TreeTurn, Publishes, ServerSaveFails
  <2>2. PlanTurn(r)
    BY <1>a, <1>5, Sides DEF PlanTurn, Live, Alive, Plans, CommitTurn, Publishes, InOrder, ServerSaveFails
  <2>3. SnapTurn(r)
    BY <1>a, <1>5, Sides DEF SnapTurn, SavesTo, WaveOver, Plans, Saves, Alive, Answered, InOrder, ServerSaveFails
  <2> QED BY <2>1, <2>2, <2>3 DEF DataTurn
<1>6. ASSUME ServerComplete(r) PROVE DataTurn(r)
  <2>1. UNCHANGED <<forced, edits>> /\ TreeTurn(r)
    BY <1>6, Sides DEF TreeTurn, Publishes, ServerComplete
  <2>2. PlanTurn(r)
    BY <1>a, <1>6, Sides DEF PlanTurn, Live, Alive, Plans, CommitTurn, Publishes, InOrder, ServerComplete
  <2>3. SnapTurn(r)
    BY <1>a, <1>6, Sides DEF SnapTurn, SavesTo, WaveOver, Plans, Saves, Alive, Answered, InOrder, ServerComplete
  <2> QED BY <2>1, <2>2, <2>3 DEF DataTurn
<1>7. ASSUME ServerAbort(r) PROVE DataTurn(r)
  <2>1. UNCHANGED <<forced, edits>> /\ TreeTurn(r)
    BY <1>7, Sides DEF TreeTurn, Publishes, ServerAbort
  <2>2. PlanTurn(r)
    BY <1>a, <1>7, Sides DEF PlanTurn, Live, Alive, Plans, CommitTurn, Publishes, InOrder, ServerAbort
  <2>3. SnapTurn(r)
    BY <1>a, <1>7, Sides DEF SnapTurn, SavesTo, WaveOver, Plans, Saves, Alive, Answered, InOrder, ServerAbort
  <2> QED BY <2>1, <2>2, <2>3 DEF DataTurn
<1>8. ASSUME ServerExit(r) PROVE DataTurn(r)
  <2>1. UNCHANGED <<forced, edits>> /\ TreeTurn(r)
    BY <1>8, Sides DEF TreeTurn, Publishes, ServerExit
  <2>2. PlanTurn(r)
    BY <1>a, <1>8, Sides DEF PlanTurn, Live, Alive, Plans, CommitTurn, Publishes, InOrder, ServerExit
  <2>3. SnapTurn(r)
    BY <1>a, <1>8, Sides DEF SnapTurn, SavesTo, WaveOver, Plans, Saves, Alive, Answered, InOrder, ServerExit
  <2> QED BY <2>1, <2>2, <2>3 DEF DataTurn
<1> QED BY <1>1, <1>2, <1>3, <1>4, <1>5, <1>6, <1>7, <1>8 DEF ServerStep

\* ... of a commit, ...
LEMMA CommitTurnsData ==
  ASSUME Typed, WaveOrder, NEW r \in Runs, RunData, NEW s \in Side, Commit(r, s)
  PROVE  DataTurn(r)
<1> USE DEF diskVars, histVars, userVars, planVars, callVars, comVars, clientRest, serverRest, commitRest, Goes, Fails,
            Goto, Send, Succeeds, Refuses, Reply, Leave, Forget
<1>0. ControlOK /\ DataTypes
  BY DEF Typed, Inv
<1>a. InOrder(r)
  BY DEF WaveOrder
<1> USE <1>0 DEF ControlOK, DataTypes, DiskTypes, RunTypes, PlanTypes, PublishTypes
<1>1. ASSUME CommitStart(r, s) PROVE DataTurn(r)
  <2>1. UNCHANGED <<forced, edits>> /\ TreeTurn(r)
    BY <1>1, Sides DEF TreeTurn, Publishes, CommitStart, Reported
  <2>2. PlanTurn(r)
    BY <1>a, <1>1, Sides DEF PlanTurn, Live, Alive, Plans, CommitTurn, Publishes, InOrder, CommitStart, Reported
  <2>3. SnapTurn(r)
    BY <1>a, <1>1, Sides DEF SnapTurn, SavesTo, WaveOver, Plans, Saves, Alive, Answered, InOrder, CommitStart, Reported
  <2> QED BY <2>1, <2>2, <2>3 DEF DataTurn
<1>2. ASSUME PublishRename(r, s) PROVE DataTurn(r)
  <2>1. win[r][s] # None /\ win[r][s] \in left[r][s] /\ win[r][s] \in Paths
    BY <1>2 DEF RunData, DataOf, WindowOf, PublishRename
  <2>2. Publishes(r, s, win[r][s])
    BY <1>2, <2>1 DEF Publishes, PublishRename
  <2>3. TreeTurn(r) /\ SnapTurn(r)
    BY <1>2, <2>1, <2>2 DEF TreeTurn, SnapTurn, Saves, PublishRename
  <2>4. \A t \in Side : CommitTurn(r, t)
    BY <1>2, <2>1, <2>2 DEF CommitTurn, PublishRename
  <2> QED BY <1>2, <2>3, <2>4 DEF DataTurn, PlanTurn, PublishRename
<1>3. ASSUME PublishFails(r, s) PROVE DataTurn(r)
  <2>1. UNCHANGED <<forced, edits>> /\ TreeTurn(r)
    BY <1>3, Sides DEF TreeTurn, Publishes, PublishFails, Reported
  <2>2. PlanTurn(r)
    BY <1>a, <1>3, Sides DEF PlanTurn, Live, Alive, Plans, CommitTurn, Publishes, InOrder, PublishFails, Reported
  <2>3. SnapTurn(r)
    BY <1>a, <1>3, Sides DEF SnapTurn, SavesTo, WaveOver, Plans, Saves, Alive, Answered, InOrder, PublishFails, Reported
  <2> QED BY <2>1, <2>2, <2>3 DEF DataTurn
<1>4. ASSUME CommitEnd(r, s) PROVE DataTurn(r)
  <2>1. UNCHANGED <<forced, edits>> /\ TreeTurn(r)
    BY <1>4, Sides DEF TreeTurn, Publishes, CommitEnd, Reported
  <2>2. PlanTurn(r)
    BY <1>a, <1>4, Sides DEF PlanTurn, Live, Alive, Plans, CommitTurn, Publishes, InOrder, CommitEnd, Reported
  <2>3. SnapTurn(r)
    BY <1>a, <1>4, Sides DEF SnapTurn, SavesTo, WaveOver, Plans, Saves, Alive, Answered, InOrder, CommitEnd, Reported
  <2> QED BY <2>1, <2>2, <2>3 DEF DataTurn
<1>5. ASSUME NEW p \in Paths, PublishAdded(r, s, p) PROVE DataTurn(r)
  <2>1. UNCHANGED <<forced, edits>> /\ TreeTurn(r)
    BY <1>5, Sides DEF TreeTurn, Publishes, PublishAdded
  <2>2. PlanTurn(r)
    BY <1>a, <1>5, Sides DEF PlanTurn, Live, Alive, Plans, CommitTurn, Publishes, InOrder, PublishAdded
  <2>3. SnapTurn(r)
    BY <1>a, <1>5, Sides DEF SnapTurn, SavesTo, WaveOver, Plans, Saves, Alive, Answered, InOrder, PublishAdded
  <2> QED BY <2>1, <2>2, <2>3 DEF DataTurn
<1>6. ASSUME NEW p \in Paths, PublishCheck(r, s, p) PROVE DataTurn(r)
  <2>1. UNCHANGED <<forced, edits>> /\ TreeTurn(r)
    BY <1>6, Sides DEF TreeTurn, Publishes, PublishCheck
  <2>2. PlanTurn(r)
    BY <1>a, <1>6, Sides DEF PlanTurn, Live, Alive, Plans, CommitTurn, Publishes, InOrder, PublishCheck
  <2>3. SnapTurn(r)
    BY <1>a, <1>6, Sides DEF SnapTurn, SavesTo, WaveOver, Plans, Saves, Alive, Answered, InOrder, PublishCheck
  <2> QED BY <2>1, <2>2, <2>3 DEF DataTurn
<1> QED BY <1>1, <1>2, <1>3, <1>4, <1>5, <1>6 DEF Commit

\* ... and every start or fault of a run.
LEMMA FaultTurnsData ==
  ASSUME Typed, WaveOrder, NEW r \in Runs, Start(r) \/ Interrupt(r) \/ ClientDies(r) \/ ServerDies(r) \/ Disconnect(r)
  PROVE  DataTurn(r)
<1> USE DEF diskVars, histVars, userVars, planVars, callVars, comVars, clientRest, serverRest, commitRest, Goes, Fails,
            Goto, Send, Succeeds, Refuses, Reply, Leave, Forget
<1>0. ControlOK /\ DataTypes
  BY DEF Typed, Inv
<1>a. InOrder(r)
  BY DEF WaveOrder
<1> USE <1>0 DEF ControlOK, DataTypes, DiskTypes, RunTypes, PlanTypes, PublishTypes
<1>1. ASSUME Start(r) PROVE DataTurn(r)
  <2>1. UNCHANGED <<forced, edits>> /\ TreeTurn(r)
    BY <1>1, Sides DEF TreeTurn, Publishes, Start
  <2>2. PlanTurn(r)
    BY <1>a, <1>1, Sides DEF PlanTurn, Live, Alive, Plans, CommitTurn, Publishes, InOrder, Start
  <2>3. SnapTurn(r)
    BY <1>a, <1>1, Sides DEF SnapTurn, SavesTo, WaveOver, Plans, Saves, Alive, Answered, InOrder, Start
  <2> QED BY <2>1, <2>2, <2>3 DEF DataTurn
<1>2. ASSUME Interrupt(r) PROVE DataTurn(r)
  <2>1. UNCHANGED <<forced, edits>> /\ TreeTurn(r)
    BY <1>2, Sides DEF TreeTurn, Publishes, Interrupt
  <2>2. PlanTurn(r)
    BY <1>a, <1>2, Sides DEF PlanTurn, Live, Alive, Plans, CommitTurn, Publishes, InOrder, Interrupt
  <2>3. SnapTurn(r)
    BY <1>a, <1>2, Sides DEF SnapTurn, SavesTo, WaveOver, Plans, Saves, Alive, Answered, InOrder, Interrupt
  <2> QED BY <2>1, <2>2, <2>3 DEF DataTurn
<1>3. ASSUME ClientDies(r) PROVE DataTurn(r)
  <2>1. UNCHANGED <<forced, edits>> /\ TreeTurn(r)
    BY <1>3, Sides DEF TreeTurn, Publishes, ClientDies
  <2>2. PlanTurn(r)
    BY <1>a, <1>3, Sides DEF PlanTurn, Live, Alive, Plans, CommitTurn, Publishes, InOrder, ClientDies
  <2>3. SnapTurn(r)
    BY <1>a, <1>3, Sides DEF SnapTurn, SavesTo, WaveOver, Plans, Saves, Alive, Answered, InOrder, ClientDies
  <2> QED BY <2>1, <2>2, <2>3 DEF DataTurn
<1>4. ASSUME ServerDies(r) PROVE DataTurn(r)
  <2>1. UNCHANGED <<forced, edits>> /\ TreeTurn(r)
    BY <1>4, Sides DEF TreeTurn, Publishes, ServerDies
  <2>2. PlanTurn(r)
    BY <1>a, <1>4, Sides DEF PlanTurn, Live, Alive, Plans, CommitTurn, Publishes, InOrder, ServerDies
  <2>3. SnapTurn(r)
    BY <1>a, <1>4, Sides DEF SnapTurn, SavesTo, WaveOver, Plans, Saves, Alive, Answered, InOrder, ServerDies
  <2> QED BY <2>1, <2>2, <2>3 DEF DataTurn
<1>5. ASSUME Disconnect(r) PROVE DataTurn(r)
  <2>1. UNCHANGED <<forced, edits>> /\ TreeTurn(r)
    BY <1>5, Sides DEF TreeTurn, Publishes, Disconnect
  <2>2. PlanTurn(r)
    BY <1>a, <1>5, Sides DEF PlanTurn, Live, Alive, Plans, CommitTurn, Publishes, InOrder, Disconnect
  <2>3. SnapTurn(r)
    BY <1>a, <1>5, Sides DEF SnapTurn, SavesTo, WaveOver, Plans, Saves, Alive, Answered, InOrder, Disconnect
  <2> QED BY <2>1, <2>2, <2>3 DEF DataTurn
<1> QED BY <1>1, <1>2, <1>3, <1>4, <1>5

\* The steps that are not of a run are those of users and of recover.
LEMMA NextTurns ==
  ASSUME Typed, WaveOrder, RunData, [Next]_vars
  PROVE  \/ \E r \in Runs : Turn(r) /\ DataTurn(r)
         \/ \E s \in Side, p \in Paths : Write(s, p) \/ Delete(s, p)
         \/ \E s \in Side : Recover(s)
         \/ UNCHANGED vars
<1>1. ASSUME NEW r \in Runs, Client(r) PROVE Turn(r) /\ DataTurn(r)
  BY <1>1, ClientTurns, ClientTurnsData
<1>2. ASSUME NEW r \in Runs, ServerStep(r) PROVE Turn(r) /\ DataTurn(r)
  BY <1>2, ServerTurns, ServerTurnsData
<1>3. ASSUME NEW r \in Runs, NEW s \in Side, Commit(r, s) PROVE Turn(r) /\ DataTurn(r)
  BY <1>3, CommitTurns, CommitTurnsData
<1>4. ASSUME NEW r \in Runs, Start(r) \/ Interrupt(r) \/ ClientDies(r) \/ ServerDies(r) \/ Disconnect(r)
      PROVE  Turn(r) /\ DataTurn(r)
  BY <1>4, FaultTurns, FaultTurnsData
<1> QED BY <1>1, <1>2, <1>3, <1>4 DEF Next, Environment

-----------------------------------------------------------------------------
(* Runs one at a time: the state between plan and save *)

\* The paths a run has taken over to a side, ...
taken == [r \in Runs |-> [s \in Side |-> {p \in Paths : Towards(r, p, s) /\
  \/ p \notin todo[r]
  \/ p \in group[r] /\ com[r][s] = "done"
  \/ p \in group[r] /\ com[r][s] = "publishing" /\ p \notin left[r][s]}]]

\* ... and those of which nobody knows, since the commit failed.
doubtful == [r \in Runs |-> [s \in Side |->
  {p \in Paths : Towards(r, p, s) /\ p \in group[r] /\ com[r][s] = "failed"}]]

\* The paths at which a side has what the other one has, or had before an edit
shared == [s \in Side |->
  {p \in Paths : tree[s][p] # Absent /\ tree[s][p] \in {tree[Other(s)][p]} \cup replaced[Other(s)][p]}]

\* The runs whose staged entries nobody else's commit can have overtaken: that
\* of a client, and the last of a server, on the sides in question.
Clean(r) == Alive(r) /\ (Busy(Remote) => marker[Remote].run = r)
holding == [r \in Runs |->
  {s \in Side :
     \/ Clean(r)
     \/ /\ s = Remote /\ req[r] \in {"finish", "commit"}
        /\ Owns(r, Remote, {"preparing", "prepared", "committing"})}]

\* A commit takes over what it publishes, ...
LEMMA CommitTaken ==
  ASSUME Typed, NEW r \in Runs, NEW s \in Side, act'[r] = act[r], CommitTurn(r, s)
  PROVE  /\ doubtful[r][s] \subseteq doubtful'[r][s]
         /\ taken[r][s] \subseteq taken'[r][s] \cup doubtful'[r][s]
         /\ \A p \in taken'[r][s] : p \in taken[r][s] \/ Publishes(r, s, p)
<1>1. \A p \in Paths : Towards(r, p, s)' <=> Towards(r, p, s)
  BY DEF Towards
<1>2. /\ taken[r][s] = {p \in Paths : Towards(r, p, s) /\
           \/ p \notin todo[r]
           \/ p \in group[r] /\ com[r][s] = "done"
           \/ p \in group[r] /\ com[r][s] = "publishing" /\ p \notin left[r][s]}
      /\ doubtful[r][s] = {p \in Paths : Towards(r, p, s) /\ p \in group[r] /\ com[r][s] = "failed"}
  BY DEF taken, doubtful
<1>3. /\ taken'[r][s] = {p \in Paths : Towards(r, p, s) /\
           \/ p \notin todo'[r]
           \/ p \in group'[r] /\ com'[r][s] = "done"
           \/ p \in group'[r] /\ com'[r][s] = "publishing" /\ p \notin left'[r][s]}
      /\ doubtful'[r][s] = {p \in Paths : Towards(r, p, s) /\ p \in group'[r] /\ com'[r][s] = "failed"}
  BY <1>1 DEF taken, doubtful
<1> HIDE DEF taken, doubtful
<1>4. CASE \E p \in Paths : Publishes(r, s, p)
  <2>1. PICK p \in Paths : Publishes(r, s, p)
    BY <1>4
  <2>2. left'[r][s] = left[r][s] \ {p} /\ group'[r] = group[r] /\ todo'[r] = todo[r]
        /\ com[r][s] = "publishing" /\ com'[r][s] = "publishing"
    BY <2>1 DEF Publishes, Typed, DataTypes, PublishTypes
  <2> QED BY <1>2, <1>3, <2>1, <2>2
<1>5. CASE /\ todo'[r] = todo[r] /\ group'[r] = group[r]
           /\ com[r][s] = "idle" /\ com'[r][s] = "publishing" /\ left'[r][s] = Targets(r, s)
  BY <1>2, <1>3, <1>5 DEF Targets
<1>6. CASE /\ todo'[r] = todo[r] /\ group'[r] = group[r] /\ com'[r][s] = com[r][s]
           /\ left'[r][s] = left[r][s] \/ com[r][s] # "publishing"
  BY <1>2, <1>3, <1>6
<1>7. CASE todo'[r] = todo[r] /\ group'[r] = group[r] /\ com[r][s] \in {"idle", "publishing"} /\ com'[r][s] = "failed"
  BY <1>2, <1>3, <1>7
<1>8. CASE todo'[r] = todo[r] /\ group'[r] = group[r] /\ com[r][s] = "publishing" /\ left[r][s] = {} /\ com'[r][s] = "done"
  BY <1>2, <1>3, <1>8
<1>9. CASE \/ todo'[r] = todo[r] /\ com[r][s] = "idle" /\ com'[r][s] = "idle"
           \/ com[r][s] = "done" /\ com'[r][s] = "idle" /\ todo'[r] = todo[r] \ group[r]
  BY <1>2, <1>3, <1>9
<1> QED BY <1>4, <1>5, <1>6, <1>7, <1>8, <1>9 DEF CommitTurn

\* ... and a new plan has taken over nothing.
LEMMA PlanTaken ==
  ASSUME Typed, WaveOrder, NEW r \in Runs, NEW s \in Side, Plans(r)
  PROVE  taken[r][s] = {} /\ taken'[r][s] = {} /\ doubtful[r][s] = {} /\ doubtful'[r][s] = {}
<1>1. act[r] = NoAction /\ com[r][s] = "idle" /\ com'[r][s] = "idle"
  BY DEF Typed, ReadFirst, WaveOrder, InOrder, Plans
<1>2. \A p \in Paths : ~Towards(r, p, s)
  BY <1>1 DEF Towards, NoAction
<1>3. \A p \in Paths : Towards(r, p, s)' => p \in todo'[r]
  BY DEF Towards, Plans
<1> QED BY <1>1, <1>2, <1>3 DEF taken, doubtful

\* Before that there is none.
LEMMA ScanTaken ==
  ASSUME Typed, NEW r \in Runs, pc[r] \in {"idle", "scan"}, NEW s \in Side
  PROVE  taken[r][s] = {} /\ doubtful[r][s] = {}
<1>1. \A p \in Paths : ~Towards(r, p, s)
  BY DEF Typed, ReadFirst, Towards, NoAction
<1> QED BY <1>1 DEF taken, doubtful

\* A run that does not move keeps what it has taken.
LEMMA SameTaken ==
  ASSUME NEW r \in Runs, UNCHANGED <<act[r], todo[r], group[r], com[r], left[r]>>
  PROVE  taken'[r] = taken[r] /\ doubtful'[r] = doubtful[r]
<1>1. \A s \in Side, p \in Paths : Towards(r, p, s)' <=> Towards(r, p, s)
  BY DEF Towards
<1> QED BY <1>1 DEF taken, doubtful

\* What is published was planned, its source had changed, and it was not taken
\* over before.
LEMMA PublishedKnown ==
  ASSUME Typed, RunData, NEW r \in Runs, NEW s \in Side, NEW p \in Paths, Publishes(r, s, p)
  PROVE  /\ Towards(r, p, s) /\ Changed(r, Other(s), p)
         /\ p \in taken'[r][s]
         /\ \A t \in Side : p \notin taken[r][t] \cup doubtful[r][t]
         /\ \A t \in Side : t # s => p \notin taken'[r][t]
         /\ Changed(r, s, p) \/ act[r][p] \in {"toLocal", "toRemote"}
<1>1. p \in Targets(r, s) /\ p \in group[r] /\ p \in todo[r] /\ Towards(r, p, s)
  BY DEF Publishes, RunData, DataOf, ProgressOf, WaveOf, Targets
<1>2. \A t \in Side : t # s => ~Towards(r, p, t) /\ ~Towards(r, p, t)'
  BY <1>1 DEF Towards, Publishes, Side, Local, Remote
<1>3. Changed(r, Other(s), p)
  BY <1>1 DEF Towards, RunData, DataOf, PlanOf, Side, Other, Local, Remote
<1>4. Changed(r, s, p) \/ act[r][p] \in {"toLocal", "toRemote"}
  BY <1>1 DEF Towards, RunData, DataOf, PlanOf, Side, Other, Local, Remote
<1>5. p \in taken'[r][s]
  <2>1. p \notin left'[r][s] /\ com'[r][s] = "publishing" /\ group'[r] = group[r] /\ act' = act
    BY DEF Publishes, Typed, DataTypes, PublishTypes
  <2>2. Towards(r, p, s)'
    BY <1>1, <2>1 DEF Towards
  <2> QED BY <1>1, <2>1, <2>2 DEF taken
<1>6. p \notin taken[r][s] \cup doubtful[r][s]
  BY <1>1 DEF Publishes, taken, doubtful
<1>7. \A t \in Side : t # s => p \notin taken[r][t] \cup doubtful[r][t] \cup taken'[r][t]
  BY <1>2 DEF taken, doubtful
<1> QED BY <1>1, <1>3, <1>4, <1>5, <1>6, <1>7

-----------------------------------------------------------------------------
(* Runs one at a time: bounds *)

\* Versions are numbered as users write them, and no version stands for none.
Bounds ==
  \A s \in Side, p \in Paths :
    /\ tree[s][p] \in 0..fresh[p]
    /\ Absent \notin replaced[s][p]
    /\ \A v \in GivenUp(p) : v \in 0..fresh[p]

\* What a run knows is bounded, too.
LEMMA KnownBounds ==
  ASSUME Typed, Knowledge, Bounds, NEW r \in Runs, NEW s \in Side, NEW p \in Paths
  PROVE  /\ seen[r][s][p] # Unread => seen[r][s][p] \in 0..fresh[p]
         /\ old[r][s][p] # Unread => old[r][s][p] \in 0..fresh[p]
<1>1. fresh[p] \in Nat /\ tree[s][p] \in 0..fresh[p] /\ \A v \in GivenUp(p) : v \in 0..fresh[p]
  BY DEF Typed, DataTypes, DiskTypes, Version, Bounds
<1>2. seen[r][s][p] \in held[s][p] /\ old[r][s][p] \in held[s][p]
  BY DEF Knowledge
<1>3. \A v \in held[s][p] : v = Unread \/ v \in 0..fresh[p]
  BY <1>1 DEF held, gone, Absent
<1> QED BY <1>2, <1>3

\* An edit puts a fresh version, or none, in place of what becomes replaced.
EditOf(s, p) ==
  /\ tree'[s][p] \in {Absent, fresh[p] + 1}
  /\ replaced'[s][p] \in {replaced[s][p], replaced[s][p] \cup {tree[s][p]}}
  /\ tree[s][p] = Absent => replaced'[s][p] = replaced[s][p]
  /\ tree'[s][p] # Absent => fresh'[p] = fresh[p] + 1
  /\ fresh'[p] \in {fresh[p], fresh[p] + 1}
  /\ raced'[p] \in {raced[p], raced[p] \cup {fresh'[p]}}
  /\ \A t \in Side, q \in Paths : <<t, q>> # <<s, p>> =>
       tree'[t][q] = tree[t][q] /\ replaced'[t][q] = replaced[t][q]
  /\ \A q \in Paths : q # p => fresh'[q] = fresh[q] /\ raced'[q] = raced[q]
  /\ UNCHANGED <<snap, marker, dropped, forced>> /\ Unmoved

\* This is what the edits of users do.
LEMMA Edits ==
  ASSUME Typed, NEW s \in Side, NEW p \in Paths, Write(s, p) \/ Delete(s, p)
  PROVE  EditOf(s, p)
<1>0. DiskTypes
  BY DEF Typed, DataTypes
<1>1. CASE Write(s, p)
  BY <1>0, <1>1 DEF Write, Edited, EditOf, DiskTypes, Unmoved, planVars, callVars, comVars
<1>2. CASE Delete(s, p)
  BY <1>0, <1>2 DEF Delete, Edited, EditOf, DiskTypes, Unmoved, planVars, callVars, comVars
<1> QED BY <1>1, <1>2

\* An edit keeps them.
LEMMA EditBounds ==
  ASSUME Typed, Bounds, NEW s \in Side, NEW p \in Paths, EditOf(s, p)
  PROVE  Bounds'
<1>0. \A q \in Paths : fresh[q] \in Nat /\ fresh'[q] \in {fresh[q], fresh[q] + 1}
  BY DEF Typed, DataTypes, DiskTypes, Version, EditOf
<1>1. ASSUME NEW t \in Side, NEW q \in Paths
      PROVE  tree'[t][q] \in 0..fresh'[q] /\ Absent \notin replaced'[t][q]
  BY <1>0 DEF Bounds, EditOf, Absent
<1>2. ASSUME NEW q \in Paths, NEW v \in GivenUp(q)' PROVE v \in 0..fresh'[q]
  <2>1. \/ v \in GivenUp(q) \/ v = fresh'[q] \/ (q = p /\ v = tree[s][p])
    BY <1>2 DEF GivenUp, EditOf, Side, Local, Remote
  <2> QED BY <1>0, <2>1, Sides DEF Bounds
<1> QED BY <1>1, <1>2 DEF Bounds

\* A run moves versions about and makes none.
LEMMA TurnBounds ==
  ASSUME Typed, Knowledge, RunData, Bounds, NEW r \in Runs, DataTurn(r)
  PROVE  Bounds'
<1>1. CASE UNCHANGED <<tree, replaced, fresh, dropped, raced>>
  BY <1>1 DEF Bounds, GivenUp
<1>2. ASSUME NEW s \in Side, NEW p \in Paths, Publishes(r, s, p) PROVE Bounds'
  <2>1. /\ replaced' = replaced /\ fresh' = fresh /\ raced' = raced
        /\ \A q \in Paths : dropped'[q] \subseteq dropped[q] \cup {seen[r][s][q]}
        /\ \A t \in Side, q \in Paths :
             tree'[t][q] = IF t = s /\ q = p THEN seen[r][Other(s)][p] ELSE tree[t][q]
    BY <1>2 DEF Publishes, NewEntry, Typed, DataTypes, DiskTypes
  <2>2. Read(r) /\ Other(s) \in Side
    <3>1. pc[r] = "commit" \/ req[r] # "none"
      BY <1>2 DEF Publishes, Committing
    <3> QED BY <3>1 DEF Typed, ReadFirst, Other, Side
  <2>3. \A q \in Paths, t \in Side : seen[r][t][q] \in 0..fresh[q]
    BY <2>2, KnownBounds DEF Read
  <2>4. \A t \in Side, q \in Paths : tree'[t][q] \in 0..fresh'[q]
    BY <2>1, <2>2, <2>3 DEF Bounds
  <2>5. \A q \in Paths : \A v \in GivenUp(q)' : v \in 0..fresh'[q]
    BY <2>1, <2>3, Sides DEF GivenUp, Bounds
  <2> QED BY <2>1, <2>4, <2>5 DEF Bounds
<1> QED BY <1>1, <1>2 DEF DataTurn, TreeTurn

\* An edit shares nothing new.
LEMMA EditShares ==
  ASSUME Typed, Bounds, NEW s \in Side, NEW p \in Paths, EditOf(s, p), NEW t \in Side
  PROVE  /\ shared'[t] \subseteq shared[t]
         /\ \A q \in shared'[t] : tree'[t][q] = tree[t][q]
<1>0. Other(t) \in Side /\ Other(t) # t /\ \A u \in Side : u = t \/ u = Other(t)
  BY DEF Other, Side, Local, Remote
<1>1. \A q \in Paths : fresh[q] \in Nat
  BY DEF Typed, DataTypes, DiskTypes, Version
<1>2. /\ shared[t] = {q \in Paths : tree[t][q] # Absent /\
           tree[t][q] \in {tree[Other(t)][q]} \cup replaced[Other(t)][q]}
      /\ shared'[t] = {q \in Paths : tree'[t][q] # Absent /\
           tree'[t][q] \in {tree'[Other(t)][q]} \cup replaced'[Other(t)][q]}
  BY DEF shared
<1> HIDE DEF shared
<1>3. ASSUME NEW q \in shared'[t] PROVE q \in shared[t] /\ tree'[t][q] = tree[t][q]
  <2>1. CASE q # p
    BY <1>0, <1>2, <1>3, <2>1 DEF EditOf
  <2>2. CASE q = p /\ t # s
    <3>1. s = Other(t) /\ tree'[t][p] = tree[t][p] /\ tree[t][p] \in 0..fresh[p]
      BY <1>0, <1>3, <2>2 DEF EditOf, Bounds
    <3>2. tree[t][p] # tree'[s][p]
      BY <1>1, <1>2, <1>3, <2>2, <3>1 DEF EditOf
    <3> QED BY <1>2, <1>3, <2>2, <3>1, <3>2 DEF EditOf
  <2>3. CASE q = p /\ t = s
    <3>1. tree'[s][p] = fresh[p] + 1
      BY <1>2, <1>3, <2>3 DEF EditOf
    <3>2. tree'[Other(t)][p] \in 0..fresh[p] /\ \A v \in replaced'[Other(t)][p] : v \in 0..fresh[p]
      <4>1. tree'[Other(t)][p] = tree[Other(t)][p] /\ replaced'[Other(t)][p] = replaced[Other(t)][p]
        BY <1>0, <2>3 DEF EditOf
      <4>2. replaced[Other(t)][p] \subseteq GivenUp(p)
        BY <1>0 DEF GivenUp, Side
      <4> QED BY <1>0, <4>1, <4>2 DEF Bounds
    <3>3. FALSE
      BY <1>1, <1>2, <1>3, <2>3, <3>1, <3>2
    <3> QED BY <3>3
  <2> QED BY <2>1, <2>2, <2>3
<1> QED BY <1>2, <1>3

-----------------------------------------------------------------------------
(* Runs one at a time: what the snapshots say *)

\* The snapshot of a side as its run has merged it before, and after, the
\* save of its wave
before == [r \in Runs |-> [s \in Side |-> Merged(r, s, Planned(r) \ todo[r])]]
after == [r \in Runs |-> [s \in Side |-> Merged(r, s, DoneBySave(r))]]

\* The client knows which of the two the snapshots are, and what it loaded
\* was the same on both sides.
SavedOf(r) ==
  /\ pc[r] \notin Saves \cup {"over", "panic"} => saved[r] = "no"
  /\ pc[r] \in {"complete", "finishMarker"} => saved[r] = "ok"
SnapOf(r, p) ==
  /\ old[r][Local][p] # Unread =>
       snap[Local][p] = (IF saved[r] = "ok" THEN after[r][Local][p] ELSE before[r][Local][p])
  /\ old[r][Remote][p] # Unread =>
       /\ pc[r] \notin Saves => snap[Remote][p] = before[r][Remote][p]
       /\ pc[r] \in {"complete", "finishMarker"} \/ (pc[r] = "save" /\ rep[r] = "ok") =>
            snap[Remote][p] = after[r][Remote][p]
  /\ pc[r] # "scan" => old[r][Local][p] = old[r][Remote][p]
BaseOf(r) == Alive(r) => \A p \in Paths : SnapOf(r, p)
Base == \A r \in Runs : SavedOf(r) /\ BaseOf(r)

\* The two snapshots agree, and what a tree shares with the other one is in them.
Baseline ==
  \A p \in Paths :
    /\ snap[Local][p] = snap[Remote][p]
    /\ \A s \in Side : p \in shared[s] => tree[s][p] = snap[s][p]
Agreed == (\A s \in Side : ~Busy(s)) => Baseline

\* Where the plan and its progress do not change the merged snapshots do not.
LEMMA SameMerged ==
  ASSUME NEW r \in Runs, UNCHANGED <<act[r], old[r], seen[r], todo[r]>>
  PROVE  before'[r] = before[r] /\ (group'[r] = group[r] => after'[r] = after[r])
<1>1. \A s \in Side, p \in Paths :
        /\ Towards(r, p, s)' <=> Towards(r, p, s)
        /\ NewEntry(r, p, s)' = NewEntry(r, p, s)
  BY DEF Towards, NewEntry
<1>2. Planned(r)' = Planned(r)
  BY DEF Planned
<1>3. before'[r] = before[r]
  <2>1. \A s \in Side : Merged(r, s, Planned(r) \ todo[r])' = Merged(r, s, Planned(r) \ todo[r])
    BY <1>1, <1>2 DEF Merged
  <2> QED BY <2>1 DEF before
<1>4. ASSUME group'[r] = group[r] PROVE after'[r] = after[r]
  <2>1. DoneBySave(r)' = DoneBySave(r)
    BY <1>2, <1>4 DEF DoneBySave
  <2>2. \A s \in Side : Merged(r, s, DoneBySave(r))' = Merged(r, s, DoneBySave(r))
    BY <1>1, <2>1 DEF Merged
  <2> QED BY <2>2 DEF after
<1> QED BY <1>3, <1>4

\* Nothing is merged before there is a plan.
LEMMA NothingMerged ==
  ASSUME NEW r \in Runs, NEW s \in Side, NEW p \in Paths, act[r][p] = "none" \/ p \in todo[r]
  PROVE  before[r][s][p] = old[r][s][p]
  BY DEF before, Merged, Planned

\* The next wave begins with what the last one has merged.
LEMMA WaveMerged ==
  ASSUME RunData, NEW r \in Runs, UNCHANGED <<act[r], old[r], seen[r]>>, todo'[r] = todo[r] \ group[r]
  PROVE  before'[r] = after[r]
<1>1. \A s \in Side, p \in Paths :
        /\ Towards(r, p, s)' <=> Towards(r, p, s)
        /\ NewEntry(r, p, s)' = NewEntry(r, p, s)
  BY DEF Towards, NewEntry
<1>2. (Planned(r) \ todo[r])' = DoneBySave(r)
  <2>1. Planned(r)' = Planned(r)
    BY DEF Planned
  <2>2. group[r] \subseteq todo[r] /\ todo[r] \subseteq Planned(r)
    BY DEF RunData, DataOf, WaveOf
  <2> QED BY <2>1, <2>2 DEF DoneBySave
<1>3. \A s \in Side : Merged(r, s, Planned(r) \ todo[r])' = Merged(r, s, DoneBySave(r))
  BY <1>1, <1>2 DEF Merged
<1> QED BY <1>3 DEF before, after

\* A step of another run, or of none, changes neither.
LEMMA OtherBase ==
  ASSUME NEW q \in Runs, SavedOf(q), BaseOf(q), UNCHANGED snap,
         UNCHANGED <<pc[q], rep[q], saved[q], old[q], seen[q], act[q], todo[q], group[q]>>
  PROVE  SavedOf(q)' /\ BaseOf(q)'
<1>1. before'[q] = before[q] /\ after'[q] = after[q]
  BY SameMerged
<1> QED BY <1>1 DEF SavedOf, BaseOf, SnapOf, Alive

\* Nobody commits or saves while a client plans.
LEMMA QuietAtPlan ==
  ASSUME Typed, OwnMarkers, Serial, NEW r \in Runs, pc[r] = "scan", AllRead(r), Paths # {}
  PROVE  \A s \in Side : ~Busy(s)
<1>0. Alive(r) /\ Local \in Side /\ Remote \in Side
  BY Sides DEF Alive
<1>1. ~Marked(r, Local) /\ ~Marked(r, Remote)
  BY DEF OwnMarkers, MarkersOf
<1>2. ~Busy(Local)
  BY <1>0, <1>1 DEF Busy, Marked, Serial, LocalMine
<1>3. Checked(r)
  <2>1. PICK p \in Paths : old[r][Remote][p] # Unread
    BY <1>0 DEF AllRead, Typed, ReadFirst
  <2> QED BY <1>0, <2>1 DEF Serial, LoadedReady, Checked
<1>4. ~Busy(Remote)
  BY <1>1, <1>3 DEF Busy, Marked, Serial, CheckedAlone, Late
<1> QED BY <1>2, <1>4 DEF Side

\* While it reads, ...
LEMMA ScanBase ==
  ASSUME Typed, Base, Serial, Reading, NEW r \in Runs, Turn(r), DataTurn(r),
         pc'[r] = "scan"
  PROVE  SavedOf(r)' /\ BaseOf(r)'
<1>0. Local \in Side /\ Remote \in Side /\ Alive(r)'
  BY Sides DEF Alive
<1>1. pc[r] \in {"idle", "scan"}
  BY DEF Turn, ClientTurn, Starts
<1>2. saved[r] = "no" /\ saved'[r] = "no" /\ UNCHANGED snap
  BY <1>0, <1>1 DEF DataTurn, SnapTurn, SavesTo, WaveOver, Saves, Base, SavedOf
<1>3. SavedOf(r)'
  BY <1>2 DEF SavedOf
<1>4. act'[r] = act[r] /\ \A p \in Paths : act[r][p] = "none"
  <2>1. act'[r] = act[r]
    BY <1>0 DEF DataTurn, PlanTurn, Live, Plans
  <2> QED BY <1>1, <2>1 DEF Typed, ReadFirst, NoAction
<1>5. \A s \in Side, p \in Paths : before[r][s][p] = old[r][s][p] /\ before'[r][s][p] = old'[r][s][p]
  <2>1. ASSUME NEW s \in Side, NEW p \in Paths
        PROVE  before[r][s][p] = old[r][s][p] /\ before'[r][s][p] = old'[r][s][p]
    BY <1>4 DEF before, Merged, Planned
  <2> QED BY <2>1
<1>6. ASSUME NEW s \in Side, NEW p \in Paths, old'[r][s][p] # Unread PROVE snap[s][p] = old'[r][s][p]
  <2>1. CASE old'[r][s][p] = old[r][s][p]
    <3>1. pc[r] = "scan"
      BY <1>1, <1>6, <2>1 DEF Serial, LoadedReady
    <3>2. SnapOf(r, p)
      BY <3>1 DEF Base, BaseOf, Alive
    <3>3. \/ s = Local /\ snap[Local][p] = before[r][Local][p]
          \/ s = Remote /\ snap[Remote][p] = before[r][Remote][p]
      BY <1>2, <1>6, <2>1, <3>1, <3>2 DEF SnapOf, Saves, Side
    <3> QED BY <1>5, <2>1, <3>3
  <2> QED BY <1>6, <2>1 DEF Reading
<1>7. BaseOf(r)'
  BY <1>0, <1>2, <1>5, <1>6 DEF BaseOf, SnapOf, Saves
<1> QED BY <1>3, <1>7

\* ... when it plans, ...
LEMMA PlanBase ==
  ASSUME Typed, OwnMarkers, RunData, Base, Serial, Agreed, NEW r \in Runs, Turn(r), DataTurn(r),
         pc[r] = "scan", pc'[r] = "wave"
  PROVE  SavedOf(r)' /\ BaseOf(r)'
<1>0. Local \in Side /\ Remote \in Side /\ Alive(r)' /\ Alive(r)
  BY Sides DEF Alive
<1>1. AllRead(r) /\ Paths # {}
  BY DEF Turn, ClientTurn
<1>2. saved[r] = "no" /\ saved'[r] = "no" /\ UNCHANGED snap
  BY <1>0 DEF DataTurn, SnapTurn, SavesTo, WaveOver, Saves, Base, SavedOf
<1>3. Baseline
  BY <1>1, QuietAtPlan DEF Agreed
<1>4. \A p \in Paths : act[r][p] = "none"
  BY DEF Typed, ReadFirst, NoAction
<1>6. Plans(r)
  BY <1>0 DEF DataTurn, PlanTurn, Live
<1>5. old'[r] = old[r]
  BY <1>6 DEF Plans

<1>7. ASSUME NEW s \in Side, NEW p \in Paths
      PROVE  before[r][s][p] = old[r][s][p] /\ before'[r][s][p] = old'[r][s][p]
  <2>1. before[r][s][p] = old[r][s][p]
    BY <1>4, NothingMerged
  <2>2. act'[r][p] = "none" \/ p \in todo'[r]
    BY <1>4, <1>6 DEF Plans
  <2>3. before'[r][s][p] = old'[r][s][p]
    BY <2>2 DEF before, Merged, Planned
  <2> QED BY <2>1, <2>3
<1>8. \A p \in Paths : snap[Local][p] = old[r][Local][p] /\ snap[Remote][p] = old[r][Remote][p]
  <2>1. \A p \in Paths : old[r][Local][p] # Unread /\ old[r][Remote][p] # Unread
    BY <1>0, <1>1 DEF AllRead, Typed, ReadFirst
  <2> QED BY <1>0, <1>2, <1>7, <2>1 DEF Base, BaseOf, SnapOf, Saves
<1>9. SavedOf(r)'
  BY <1>2 DEF SavedOf
<1>10. BaseOf(r)'
  BY <1>0, <1>2, <1>3, <1>5, <1>7, <1>8 DEF BaseOf, SnapOf, Saves, Baseline
<1> QED BY <1>9, <1>10

\* ... and while its waves are done and saved, a run knows the snapshots.
LEMMA WaveBase ==
  ASSUME Typed, WaveOrder, WaveOrder', RunData, Base, Serial, NEW r \in Runs, Turn(r), DataTurn(r),
         Alive(r)', pc[r] \notin {"idle", "scan"}
  PROVE  SavedOf(r)' /\ BaseOf(r)'
<1>0. Local \in Side /\ Remote \in Side /\ Local # Remote /\ Alive(r)
  BY Sides DEF Alive, Turn, ClientTurn
<1>1. act'[r] = act[r] /\ old'[r] = old[r] /\ seen'[r] = seen[r]
  BY <1>0 DEF DataTurn, PlanTurn, Live, Plans
<1>2. CommitTurn(r, Local)
  BY <1>0 DEF DataTurn, PlanTurn, Live, Plans
<1>3. \A p \in Paths : SnapOf(r, p)
  BY <1>0 DEF Base, BaseOf
<1>4. ~Plans(r)
  BY DEF Plans
<1>5. CASE WaveOver(r)
  <2>1. before'[r] = after[r]
    BY <1>1, <1>5, WaveMerged DEF WaveOver
  <2>2. SavedOf(r)'
    BY <1>5 DEF WaveOver, SavedOf, Saves
  <2>3. \A p \in Paths : SnapOf(r, p)'
    BY <1>1, <1>3, <1>5, <2>1 DEF WaveOver, SnapOf, Saves, Base, SavedOf
  <2> QED BY <2>2, <2>3 DEF BaseOf
<1>6. CASE ~WaveOver(r) /\ pc[r] \in Saves
  <2>1. pc'[r] \in Saves /\ todo'[r] = todo[r]
    BY <1>4, <1>6 DEF DataTurn, SnapTurn
  <2>2. com[r][Local] = "done" /\ com'[r][Local] = "done"
    BY <1>0, <1>6, <2>1 DEF WaveOrder, InOrder, Saves
  <2>3. group'[r] = group[r]
    BY <1>2, <2>2 DEF CommitTurn
  <2>4. before'[r] = before[r] /\ after'[r] = after[r]
    BY <1>1, <2>1, <2>3, SameMerged
  <2>5. CASE SavesTo(r, Local)
    <3>1. pc[r] = "save" /\ pc'[r] = "save" /\ saved'[r] = "ok" /\ rep'[r] = rep[r]
          /\ snap' = [snap EXCEPT ![Local] = after[r][Local]]
      BY <2>5, <1>0 DEF SavesTo, after
    <3>2. snap'[Local] = after[r][Local] /\ snap'[Remote] = snap[Remote]
      BY <1>0, <3>1 DEF Typed, DataTypes, DiskTypes
    <3>3. \A p \in Paths : SnapOf(r, p)'
      BY <1>1, <1>3, <2>4, <3>1, <3>2 DEF SnapOf, Saves
    <3> QED BY <3>1, <3>3 DEF SavedOf, BaseOf, Saves
  <2>6. CASE SavesTo(r, Remote)
    <3>1. req[r] = "save" /\ pc'[r] = pc[r] /\ saved'[r] = saved[r]
          /\ snap' = [snap EXCEPT ![Remote] = after[r][Remote]]
      BY <2>6, <1>0 DEF SavesTo, after
    <3>2. snap'[Remote] = after[r][Remote] /\ snap'[Local] = snap[Local]
      BY <1>0, <3>1 DEF Typed, DataTypes, DiskTypes
    <3>3. pc[r] = "save"
      BY <1>0, <3>1 DEF WaveOrder, InOrder, Alive
    <3>4. \A p \in Paths : SnapOf(r, p)'
      BY <1>1, <1>3, <2>4, <3>1, <3>2, <3>3 DEF SnapOf, Saves
    <3> QED BY <3>1, <3>3, <3>4 DEF SavedOf, BaseOf, Saves
  <2>7. CASE UNCHANGED snap
    <3>1. \/ saved'[r] = saved[r]
          \/ pc[r] = "save" /\ pc'[r] = "save" /\ rep'[r] = rep[r] /\ saved'[r] = "err" /\ saved[r] = "no"
          \/ SavesTo(r, Local)
      BY <1>6 DEF DataTurn, SnapTurn
    <3>2. CASE pc[r] = "save" /\ pc'[r] = "save" /\ rep'[r] = rep[r] /\ saved'[r] = "err" /\ saved[r] = "no"
      <4>1. \A p \in Paths : SnapOf(r, p)'
        BY <1>1, <1>3, <2>4, <2>7, <3>2 DEF SnapOf, Saves
      <4> QED BY <3>2, <4>1 DEF SavedOf, BaseOf, Saves
    <3>3. CASE saved'[r] = saved[r]
      <4>1. /\ pc'[r] = "save" => pc[r] = "save" 
            /\ pc'[r] = "save" /\ rep'[r] = "ok" => rep[r] = "ok" \/ SavesTo(r, Remote)
            /\ pc'[r] = "complete" =>
                 pc[r] = "complete" \/ (pc[r] = "save" /\ saved[r] = "ok" /\ rep[r] = "ok")
            /\ pc'[r] = "finishMarker" => pc[r] \in {"complete", "finishMarker"}
        BY <1>6 DEF DataTurn, SnapTurn, Saves
      <4>2. SavedOf(r)'
        BY <2>1, <3>3, <4>1 DEF SavedOf, Saves, Base
      <4>3. CASE ~SavesTo(r, Remote)
        <5>1. \A p \in Paths : SnapOf(r, p)'
          BY <1>1, <1>3, <2>1, <2>4, <2>7, <3>3, <4>1, <4>3 DEF SnapOf, Saves
        <5> QED BY <4>2, <5>1 DEF BaseOf
      <4> QED BY <2>6, <4>3
    <3> QED BY <2>5, <3>1, <3>2, <3>3
  <2> QED BY <2>5, <2>6, <2>7 DEF DataTurn, SnapTurn, Side
<1>7. CASE ~WaveOver(r) /\ pc[r] \notin Saves
  <2>1. UNCHANGED snap
    BY <1>0, <1>7 DEF DataTurn, SnapTurn, SavesTo, Saves, WaveOrder, InOrder, Alive
  <2>2. saved[r] = "no" /\ saved'[r] = "no"
    BY <1>0, <1>7 DEF DataTurn, SnapTurn, SavesTo, Saves, Base, SavedOf, Alive
  <2>3. before'[r] = before[r]
    BY <1>1, <1>4, <1>7, SameMerged DEF DataTurn, SnapTurn
  <2>4. pc'[r] \notin {"complete", "finishMarker"} /\ (pc'[r] = "save" => rep'[r] = "none")
    BY <1>7 DEF DataTurn, SnapTurn, Saves
  <2>5. pc[r] # "scan" /\ pc'[r] # "scan"
    BY <1>0 DEF Turn, ClientTurn, Starts
  <2>6. \A p \in Paths : SnapOf(r, p)'
    BY <1>1, <1>3, <1>7, <2>1, <2>2, <2>3, <2>4, <2>5 DEF SnapOf, Saves
  <2> QED BY <2>2, <2>4, <2>6 DEF SavedOf, BaseOf
<1> QED BY <1>5, <1>6, <1>7

\* No snapshot is saved behind the back of a client.
LEMMA NextBase ==
  ASSUME ~AllowConcurrent, Typed, WaveOrder, WaveOrder', OwnMarkers, RunData, Reading, Serial, Phases,
         Agreed, Base, [Next]_vars
  PROVE  Base'
<1>0. Local \in Side /\ Remote \in Side
  BY Sides
<1>1. ASSUME NEW r \in Runs, Turn(r), DataTurn(r) PROVE Base'
  <2> SUFFICES ASSUME NEW q \in Runs PROVE SavedOf(q)' /\ BaseOf(q)'
    BY DEF Base
  <2>1. CASE q # r
    <3>1. UNCHANGED <<pc[q], rep[q], saved[q], old[q], seen[q], act[q], todo[q], group[q]>>
      BY <1>1, <2>1 DEF Turn, Others
    <3>2. CASE ~Alive(q)
      BY <3>1, <3>2 DEF SavedOf, BaseOf, Base, Alive
    <3>3. CASE Alive(q)
      <4>1. ~SavesTo(r, Local)
        BY <2>1, <3>3 DEF SavesTo, Alive, Serial, OneAlive
      <4>2. ~SavesTo(r, Remote)
        <5>1. req[r] = "save" => Owns(r, Local, {"state-save"})
          BY DEF Phases, SaveCall
        <5>2. req[r] = "save" => marker[Local] # None /\ marker[Local].run = r
          BY <1>0, <5>1, OwnedMarker DEF Typed, Inv, Phase
        <5> QED BY <1>0, <2>1, <3>3, <5>2, Sides DEF SavesTo, Serial, LocalMine
      <4>3. UNCHANGED snap
        BY <1>1, <4>1, <4>2 DEF DataTurn, SnapTurn, Side
      <4> QED BY <3>1, <4>3, OtherBase DEF Base
    <3> QED BY <3>2, <3>3
  <2>2. CASE q = r /\ Alive(r)'
    <3>1. CASE pc'[r] = "scan"
      BY <1>1, <2>2, <3>1, ScanBase
    <3>2. CASE pc[r] = "scan" /\ pc'[r] = "wave"
      BY <1>1, <2>2, <3>2, PlanBase
    <3>3. CASE pc[r] \notin {"idle", "scan"}
      BY <1>1, <2>2, <3>3, WaveBase
    <3> QED BY <1>1, <2>2, <3>1, <3>2, <3>3 DEF Turn, ClientTurn, Alive
  <2>3. CASE q = r /\ ~Alive(r)'
    <3>1. pc'[r] = "idle" => pc[r] = "idle" /\ saved'[r] = saved[r]
      BY <1>1, <2>3 DEF Turn, ClientTurn, DataTurn, SnapTurn
    <3> QED BY <2>3, <3>1 DEF SavedOf, BaseOf, Base, Alive, Saves
  <2> QED BY <2>1, <2>2, <2>3
<1>2. ASSUME Unmoved, UNCHANGED snap PROVE Base'
  BY <1>2, OtherBase DEF Unmoved, Base
<1>3. ASSUME NEW s \in Side, NEW p \in Paths, Write(s, p) \/ Delete(s, p) PROVE Base'
  BY <1>2, <1>3, Edits DEF EditOf
<1>4. ASSUME NEW s \in Side, Recover(s) PROVE Base'
  BY <1>2, <1>4 DEF Recover, Unmoved, planVars, callVars, comVars
<1>5. CASE UNCHANGED vars
  BY <1>2, <1>5 DEF vars, Unmoved, diskVars, planVars, callVars, comVars
<1> QED BY <1>1, <1>3, <1>4, <1>5, NextTurns

-----------------------------------------------------------------------------
(* Runs one at a time: what a run has seen of the edits *)

\* An entry that was seen replaced by another is not on its side again.
NotBack ==
  \A r \in Runs : Alive(r) =>
    \A s \in Side, p \in Paths :
      /\ seen[r][s][p] \notin {Unread, old[r][s][p]}
      /\ old[r][s][p] # Absent
      => tree[s][p] # old[r][s][p]

\* Nothing is published where a live client has read.
LEMMA OtherPublish ==
  ASSUME Typed, Serial, NEW q \in Runs, Alive(q), NEW r \in Runs, r # q, NEW s \in Side, NEW p \in Paths,
         Publishes(r, s, p)
  PROVE  s = Remote /\ ~Checked(q) /\ pc[q] = "scan"
         /\ \A x \in Paths : old[q][Remote][x] = Unread /\ seen[q][Remote][x] = Unread
<1>1. Owns(r, s, {"committing"})
  BY DEF Publishes, Typed, Inv, PublishUnderMarker
<1>2. marker[s] # None /\ marker[s].run = r /\ marker[s].phase = "committing"
  BY <1>1, OwnedMarker DEF Typed, Inv, Phase
<1>3. s = Remote
  <2>1. s # Local
    BY <1>2 DEF Serial, LocalMine
  <2> QED BY <2>1 DEF Side
<1>4. req[r] = "commit"
  BY <1>3, Sides DEF Publishes, Committing
<1>5. ~Checked(q)
  BY <1>2, <1>3, <1>4 DEF Serial, CheckedAlone
<1>6. pc[q] = "scan" /\ Remote \notin ready[q]
  BY <1>5 DEF Checked
<1>7. \A x \in Paths : old[q][Remote][x] = Unread
  BY <1>6, Sides DEF Serial, LoadedReady
<1> QED BY <1>3, <1>5, <1>6, <1>7, Sides DEF Typed, ReadFirst

\* Only a client that scans reads a tree, and it publishes nothing.
LEMMA ScanReads ==
  ASSUME Typed, WaveOrder, NEW r \in Runs, DataTurn(r), NEW s \in Side, NEW t \in Side, Live(r, t)',
         NEW p \in Paths, seen'[r][s][p] # seen[r][s][p]
  PROVE  pc[r] = "scan" /\ UNCHANGED <<tree, replaced>>
<1>1. pc[r] = "scan"
  BY DEF DataTurn, PlanTurn, Plans
<1>2. \A u \in Side, x \in Paths : ~Publishes(r, u, x)
  BY <1>1 DEF WaveOrder, InOrder, Publishes
<1> QED BY <1>1, <1>2 DEF DataTurn, TreeTurn

\* Only a commit of its own could bring it back, and that takes what has changed.
LEMMA NextNotBack ==
  ASSUME Typed, WaveOrder, Knowledge, RunData, Reading, Serial, Bounds, Base, NotBack, [Next]_vars
  PROVE  NotBack'
<1> SUFFICES ASSUME NEW q \in Runs, Alive(q)', NEW s \in Side, NEW p \in Paths,
                    seen'[q][s][p] \notin {Unread, old'[q][s][p]}, old'[q][s][p] # Absent
             PROVE  tree'[s][p] # old'[q][s][p]
  BY DEF NotBack
<1>1. ASSUME NEW r \in Runs, Turn(r), DataTurn(r) PROVE tree'[s][p] # old'[q][s][p]
  <2>1. old'[q][s][p] = old[q][s][p]
    BY DEF Reading
  <2>2. CASE pc[q] = "idle"
    <3>1. old[q][s][p] = Unread /\ seen[q][s][p] = Unread
      BY <2>2 DEF Serial, LoadedReady, Typed, ReadFirst
    <3>2. seen'[q][s][p] = seen[q][s][p]
      BY <1>1, <2>2 DEF Turn, ClientTurn, Others
    <3> QED BY <3>1, <3>2
  <2>3. Alive(q) \/ pc[q] = "idle"
    BY <1>1 DEF Turn, ClientTurn, Others, Alive
  <2>4. CASE Alive(q) /\ seen'[q][s][p] # seen[q][s][p]
    <3>1. q = r
      BY <1>1, <2>4 DEF Turn, Others
    <3>2. UNCHANGED tree
      BY <1>1, <2>4, <3>1, ScanReads DEF Live
    <3>3. seen'[q][s][p] = tree[s][p]
      BY <2>4 DEF Reading
    <3> QED BY <3>2, <3>3
  <2>5. CASE Alive(q) /\ seen'[q][s][p] = seen[q][s][p]
    <3>1. tree[s][p] # old[q][s][p]
      BY <2>1, <2>5 DEF NotBack
    <3>2. CASE tree'[s][p] = tree[s][p]
      BY <2>1, <3>1, <3>2
    <3>3. CASE tree'[s][p] # tree[s][p]
      <4>1. PICK t \in Side, x \in Paths : Publishes(r, t, x)
        BY <1>1, <3>3 DEF DataTurn, TreeTurn
      <4>2. t = s /\ x = p /\ tree'[s][p] = NewEntry(r, p, s)
        BY <3>3, <4>1 DEF Publishes, Typed, DataTypes, DiskTypes
      <4>3. q = r
        <5>1. q # r => seen[q][s][p] = Unread
          BY <2>5, <4>1, <4>2, OtherPublish
        <5> QED BY <2>5, <5>1
      <4>4. Changed(r, Other(s), p)
        BY <4>1, <4>2, PublishedKnown
      <4>5. pc[r] # "scan"
        BY <4>1 DEF Publishes, WaveOrder, InOrder
      <4>6. old[r][Local][p] = old[r][Remote][p]
        BY <2>5, <4>3, <4>5 DEF Base, BaseOf, SnapOf
      <4>7. old[r][Other(s)][p] = old[r][s][p]
        BY <4>6 DEF Other, Side
      <4> QED BY <2>1, <4>2, <4>3, <4>4, <4>7 DEF Changed, NewEntry
    <3> QED BY <3>2, <3>3
  <2> QED BY <2>2, <2>3, <2>4, <2>5
<1>2. ASSUME Unmoved, tree'[s][p] = tree[s][p] \/ tree'[s][p] \in {Absent, fresh[p] + 1}
      PROVE  tree'[s][p] # old'[q][s][p]
  <2>1. old'[q][s][p] = old[q][s][p] /\ seen'[q][s][p] = seen[q][s][p] /\ Alive(q)
    BY <1>2 DEF Unmoved, Alive
  <2>2. tree[s][p] # old[q][s][p]
    BY <2>1 DEF NotBack
  <2>3. old[q][s][p] \in 0..fresh[p]
    <3>1. old[q][s][p] # Unread
      BY <2>1 DEF Typed, ReadFirst
    <3> QED BY <3>1, KnownBounds
  <2>4. fresh[p] \in Nat
    BY DEF Typed, DataTypes, DiskTypes, Version
  <2> QED BY <1>2, <2>1, <2>2, <2>3, <2>4
<1>3. ASSUME NEW t \in Side, NEW x \in Paths, Write(t, x) \/ Delete(t, x)
      PROVE  tree'[s][p] # old'[q][s][p]
  BY <1>2, <1>3, Edits DEF EditOf
<1>4. ASSUME NEW t \in Side, Recover(t) PROVE tree'[s][p] # old'[q][s][p]
  BY <1>2, <1>4 DEF Recover, Unmoved, planVars, callVars, comVars
<1>5. CASE UNCHANGED vars
  BY <1>2, <1>5 DEF vars, Unmoved, diskVars, planVars, callVars, comVars
<1> QED BY <1>1, <1>3, <1>4, <1>5, NextTurns

\* What becomes of the markers, one by one.
LEMMA MovesTo ==
  ASSUME ControlOK, NEW r \in Runs, NEW s \in Side, MovesOn(r, s)
  PROVE  \E from, to \in Phase :
           /\ marker[s] = [run |-> r, phase |-> from] /\ marker[s] # None
           /\ marker'[s] = [run |-> r, phase |-> to] /\ marker'[s] # None
           /\ \A t \in Side : t # s => marker'[t] = marker[t]
           /\ from # "state-save" /\ to \in {"prepared", "committing", "committed", "state-save"}
           /\ to = "prepared" => from = "preparing"
           /\ to = "committing" => from = "prepared"
           /\ to \in {"committed", "state-save"} => from \in {"committing", "committed"}
<1>1. PICK from \in Phase, to \in Phase :
        /\ Owns(r, s, {from}) /\ marker' = [marker EXCEPT ![s] = [run |-> r, phase |-> to]]
        /\ from # "state-save" /\ to \in {"prepared", "committing", "committed", "state-save"}
        /\ to = "prepared" => from = "preparing"
        /\ to = "committing" => from = "prepared"
        /\ to \in {"committed", "state-save"} => from \in {"committing", "committed"}
  BY DEF MovesOn
<1>2. marker[s] = [run |-> r, phase |-> from]
  BY <1>1 DEF Owns
<1>3. marker'[s] = [run |-> r, phase |-> to] /\ \A t \in Side : t # s => marker'[t] = marker[t]
  BY <1>1 DEF ControlOK
<1>4. \A ph \in Phase : [run |-> r, phase |-> ph] # None
  BY NoneAssumption DEF Marker
<1> QED BY <1>1, <1>2, <1>3, <1>4

\* Seen from a side its marker stays, goes, moves on or is new.
LEMMA OneMarker ==
  ASSUME ControlOK, NEW r \in Runs, MarkerTurn(r), NEW s \in Side
  PROVE  \/ marker'[s] = marker[s]
         \/ Removes(r, s) /\ marker'[s] = None
         \/ Creates(r, s) /\ marker[s] = None /\ marker'[s] # None /\ marker'[s].run = r
         \/ MovesOn(r, s) /\ marker[s] # None /\ marker[s].run = r /\ marker'[s] # None /\ marker'[s].run = r
<1>1. CASE MovesOn(r, s)
  <2>1. PICK from, to \in Phase :
           /\ marker[s] = [run |-> r, phase |-> from] /\ marker[s] # None
           /\ marker'[s] = [run |-> r, phase |-> to] /\ marker'[s] # None
    BY <1>1, MovesTo
  <2> QED BY <1>1, <2>1
<1>2. CASE Removes(r, s)
  BY <1>2 DEF Removes, ControlOK
<1>3. CASE Creates(r, s)
  <2>1. PICK ph \in Phase : marker' = [marker EXCEPT ![s] = [run |-> r, phase |-> ph]]
    BY <1>3 DEF Creates, Phase
  <2>2. marker'[s] = [run |-> r, phase |-> ph]
    BY <2>1 DEF ControlOK
  <2>3. [run |-> r, phase |-> ph] \in Marker
    BY DEF Marker
  <2>4. marker[s] = None
    BY <1>3 DEF Creates
  <2> QED BY <1>3, <2>2, <2>3, <2>4, NoneAssumption
<1>4. ASSUME NEW t \in Side, t # s, Removes(r, t) \/ Creates(r, t) \/ MovesOn(r, t)
      PROVE  marker'[s] = marker[s]
  BY <1>4, MovesTo DEF Removes, Creates, ControlOK
<1> QED BY <1>1, <1>2, <1>3, <1>4 DEF MarkerTurn

\* A marker of a commit stays one until it is removed.
LEMMA StaysBusy ==
  ASSUME ControlOK, NEW r \in Runs, MarkerTurn(r), NEW s \in Side, Busy(s)
  PROVE  \/ Busy(s)' /\ marker'[s].run = marker[s].run
         \/ Removes(r, s) /\ marker'[s] = None
<1>1. CASE MovesOn(r, s)
  <2>1. PICK from, to \in Phase :
           /\ marker[s] = [run |-> r, phase |-> from]
           /\ marker'[s] = [run |-> r, phase |-> to] /\ marker'[s] # None
           /\ to \in {"prepared", "committing", "committed", "state-save"}
           /\ to = "prepared" => from = "preparing"
    BY <1>1, MovesTo
  <2>2. to \in Late
    BY <2>1 DEF Busy, Late
  <2> QED BY <2>1, <2>2 DEF Busy
<1>2. CASE marker'[s] = marker[s]
  BY <1>2 DEF Busy
<1> QED BY <1>1, <1>2, OneMarker DEF Busy

\* What a run means to publish is neither on the other side nor was it there
\* before an edit.
News ==
  \A r \in Runs : \A s \in holding[r], p \in Paths :
    /\ seen[r][Other(s)][p] \notin {Unread, Absent, old[r][Other(s)][p]}
    /\ p \notin taken[r][s] \cup doubtful[r][s]
    => seen[r][Other(s)][p] \notin {tree[s][p]} \cup replaced[s][p]

\* A side is held from the start of a run on, or not at all.
LEMMA TurnHolding ==
  ASSUME Typed, WaveOrder, Serial, Phases, NEW r \in Runs, Turn(r), NEW q \in Runs,
         NEW s \in holding'[q]
  PROVE  s \in holding[q] \/ pc[q] = "idle"
<1>0. ControlOK /\ ControlOK /\ Local \in Side /\ Remote \in Side /\ Local # Remote
  BY Sides DEF Typed, Inv
<1>1. /\ holding[q] = {t \in Side : \/ Clean(q)
                                   \/ /\ t = Remote /\ req[q] \in {"finish", "commit"}
                                      /\ Owns(q, Remote, {"preparing", "prepared", "committing"})}
      /\ holding'[q] = {t \in Side : \/ Clean(q)'
                                    \/ /\ t = Remote /\ req'[q] \in {"finish", "commit"}
                                       /\ Owns(q, Remote, {"preparing", "prepared", "committing"})'}
  BY DEF holding
<1> HIDE DEF holding
<1>2. MarkerTurn(r)
  BY DEF Turn
<1>5. ASSUME Busy(Remote), marker[Remote].run # q, Alive(q), Alive(q)', Clean(q)' PROVE FALSE
  <2>1. Removes(r, Remote)
    BY <1>0, <1>2, <1>5, StaysBusy DEF Clean
  <2>2. Owns(r, Remote, {"state-save"}) /\ req[r] = "complete"
    BY <1>0, <1>5, <2>1 DEF Removes, Busy, Late, Precommit
  <2>3. marker[Remote].run = r
    BY <1>0, <2>2, OwnedMarker DEF Phase
  <2>4. Owns(r, Local, {"state-save"})
    BY <2>2 DEF Phases, SaveCall
  <2>5. marker[Local] # None /\ marker[Local].run = r
    BY <1>0, <2>4, OwnedMarker DEF Phase
  <2> QED BY <1>5, <2>3, <2>5 DEF Serial, LocalMine
<1>6. CASE Clean(q)'
  <2>1. Alive(q)'
    BY <1>6 DEF Clean
  <2>2. Alive(q) \/ pc[q] = "idle"
    BY <2>1 DEF Turn, Others, ClientTurn, Alive
  <2>3. Alive(q) => Clean(q)
    BY <1>5, <1>6, <2>1 DEF Clean
  <2> QED BY <1>1, <2>2, <2>3
<1>7. CASE /\ s = Remote /\ req'[q] \in {"finish", "commit"}
           /\ Owns(q, Remote, {"preparing", "prepared", "committing"})'
  <2>1. marker'[Remote] # None /\ marker'[Remote].run = q
    BY <1>7, NoneAssumption DEF Owns, Marker, Phase
  <2>2. CASE q # r
    <3>1. marker'[Remote] = marker[Remote] /\ req'[q] = req[q]
      BY <1>0, <1>2, <2>1, <2>2, OneMarker DEF Turn, Others
    <3> QED BY <1>0, <1>1, <1>7, <3>1 DEF Owns
  <2>3. CASE q = r /\ req'[r] = req[r]
    <3>1. CASE marker'[Remote] = marker[Remote]
      BY <1>0, <1>1, <1>7, <2>3, <3>1 DEF Owns
    <3>2. CASE MovesOn(r, Remote)
      <4>1. PICK from, to \in Phase :
              /\ marker[Remote] = [run |-> r, phase |-> from]
              /\ marker'[Remote] = [run |-> r, phase |-> to]
              /\ to \in {"prepared", "committing", "committed", "state-save"}
              /\ to = "prepared" => from = "preparing"
              /\ to = "committing" => from = "prepared"
        BY <1>0, <3>2, MovesTo
      <4>2. to \in {"preparing", "prepared", "committing"}
        BY <1>7, <2>3, <4>1 DEF Owns
      <4>3. from \in {"preparing", "prepared"}
        BY <4>1, <4>2
      <4>4. Owns(r, Remote, {"preparing", "prepared", "committing"})
        BY <4>1, <4>3 DEF Owns
      <4> QED BY <1>0, <1>1, <1>7, <2>3, <4>4
    <3> QED BY <1>0, <1>2, <1>7, <2>1, <2>3, <3>1, <3>2, Sides, OneMarker DEF Creates
  <2>4. CASE q = r /\ req'[r] # req[r]
    <3>1. Alive(r) /\ Alive(r)'
      BY <1>7, <2>4 DEF Turn, ClientTurn
    <3>2. Clean(r)'
      BY <2>1, <2>4, <3>1 DEF Clean
    <3>3. Clean(r)
      BY <1>5, <2>4, <3>1, <3>2 DEF Clean
    <3> QED BY <1>0, <1>1, <1>7, <2>4, <3>3
  <2> QED BY <2>2, <2>3, <2>4
<1> QED BY <1>1, <1>6, <1>7

\* A side is held in the hands of a client, or in those of its server.
LEMMA HoldingLive ==
  ASSUME NEW q \in Runs, NEW s \in holding[q]
  PROVE  Live(q, s) /\ s \in Side
  BY DEF holding, Live, Clean

\* Nobody else publishes on a side that is held.
LEMMA HoldingAlone ==
  ASSUME Typed, Serial, NEW q \in Runs, NEW s \in holding[q], NEW r \in Runs, NEW p \in Paths,
         Publishes(r, s, p)
  PROVE  r = q
<1>0. ControlOK /\ s \in Side
  BY HoldingLive DEF Typed, Inv
<1>1. marker[s] # None /\ marker[s].run = r /\ marker[s].phase = "committing"
  <2>1. Owns(r, s, {"committing"})
    BY <1>0 DEF Publishes, Typed, Inv, PublishUnderMarker
  <2> QED BY <1>0, <2>1, OwnedMarker DEF Phase
<1>2. CASE s = Local
  <2>1. Alive(r) /\ Alive(q)
    BY <1>2, Sides DEF Publishes, Committing, Alive, holding, Clean
  <2> QED BY <2>1 DEF Serial, OneAlive
<1>3. CASE s = Remote /\ Clean(q)
  BY <1>1, <1>3 DEF Clean, Busy, Late
<1>4. CASE s = Remote /\ Owns(q, Remote, {"preparing", "prepared", "committing"})
  BY <1>0, <1>1, <1>4, OwnedMarker DEF Phase
<1> QED BY <1>2, <1>3, <1>4 DEF holding, Side

\* While a client scans what both sides share is what it loaded.
LEMMA ScanShares ==
  ASSUME Typed, WaveOrder, OwnMarkers, Serial, Base, Agreed, NEW q \in Runs, pc[q] = "scan",
         NEW s \in holding[q], NEW t \in Side, NEW p \in Paths, old[q][t][p] # Unread, p \in shared[t]
  PROVE  tree[t][p] = old[q][t][p]
<1>0. Alive(q) /\ Local \in Side /\ Remote \in Side
  BY Sides DEF Alive
<1>1. ~Marked(q, Local) /\ ~Marked(q, Remote)
  BY DEF OwnMarkers, MarkersOf
<1>2. Clean(q)
  BY DEF holding, WaveOrder, InOrder
<1>3. ~Busy(Local) /\ ~Busy(Remote)
  BY <1>0, <1>1, <1>2 DEF Busy, Marked, Clean, Serial, LocalMine
<1>4. tree[t][p] = snap[t][p]
  BY <1>3 DEF Agreed, Baseline, Side
<1>5. before[q][t][p] = old[q][t][p]
  <2>1. act[q][p] = "none"
    BY DEF Typed, ReadFirst, NoAction
  <2> QED BY <2>1, NothingMerged
<1>6. SnapOf(q, p) /\ saved[q] = "no"
  BY <1>0 DEF Base, BaseOf, SavedOf, Saves
<1> QED BY <1>4, <1>5, <1>6 DEF SnapOf, Saves, Side

\* What is news to a side stays so until the run publishes it.
LEMMA NextNews ==
  ASSUME Typed, Typed', WaveOrder, OwnMarkers, Knowledge, RunData, Reading, Serial, Phases, Bounds,
         Base, Agreed, News, [Next]_vars, ~forced'
  PROVE  News'
<1> SUFFICES ASSUME NEW q \in Runs, NEW s \in holding'[q], NEW p \in Paths,
                    seen'[q][Other(s)][p] \notin {Unread, Absent, old'[q][Other(s)][p]},
                    p \notin taken'[q][s] \cup doubtful'[q][s]
             PROVE  seen'[q][Other(s)][p] \notin {tree'[s][p]} \cup replaced'[s][p]
  BY DEF News
<1>0. s \in Side /\ Other(s) \in Side /\ Live(q, s)'
  BY DEF holding, Live, Clean, Other, Side
<1> HIDE DEF holding, taken, doubtful, shared
<1>1. ASSUME NEW r \in Runs, Turn(r), DataTurn(r)
      PROVE  seen'[q][Other(s)][p] \notin {tree'[s][p]} \cup replaced'[s][p]
  <2>1. CASE pc[q] = "idle"
    <3>1. seen[q][Other(s)][p] = Unread
      BY <1>0, <2>1 DEF Serial, LoadedReady, Typed, ReadFirst
    <3>2. seen'[q][Other(s)][p] = Unread
      BY <1>1, <2>1, <3>1 DEF Turn, ClientTurn, Others
    <3> QED BY <3>2
  <2>2. s \in holding[q] \/ pc[q] = "idle"
    BY <1>1, TurnHolding
  <2>3. CASE s \in holding[q] /\ seen'[q][Other(s)][p] # seen[q][Other(s)][p]
    <3>1. q = r
      BY <1>1, <2>3 DEF Turn, Others
    <3>2. pc[q] = "scan" /\ UNCHANGED <<tree, replaced>>
      BY <1>0, <1>1, <2>3, <3>1, ScanReads
    <3>3. seen'[q][Other(s)][p] = tree[Other(s)][p] /\ old'[q][Other(s)][p] = old[q][Other(s)][p]
          /\ old[q][Other(s)][p] # Unread
      <4>1. old'[q][Other(s)][p] # Unread
        BY <1>0 DEF Reading, Typed, ReadFirst
      <4> QED BY <1>0, <2>3, <4>1 DEF Reading
    <3>4. p \notin shared[Other(s)]
      BY <1>0, <2>3, <3>2, <3>3, ScanShares
    <3>5. Other(Other(s)) = s
      BY <1>0 DEF Other, Side, Local, Remote
    <3> QED BY <1>0, <3>2, <3>3, <3>4, <3>5 DEF shared
  <2>4. CASE s \in holding[q] /\ seen'[q][Other(s)][p] = seen[q][Other(s)][p]
    <3>1. old'[q][Other(s)][p] = old[q][Other(s)][p]
      BY <1>0, <2>4 DEF Reading
    <3>2. p \notin taken[q][s] \cup doubtful[q][s]
      <4>1. CASE q # r
        <5>1. UNCHANGED <<act[q], todo[q], group[q], com[q], left[q]>>
          BY <1>1, <4>1 DEF Turn, Others
        <5> QED BY <5>1, SameTaken
      <4>2. CASE q = r /\ Plans(r)
        BY <1>0, <4>2, PlanTaken
      <4>3. CASE q = r /\ ~Plans(r)
        <5>1. act'[r] = act[r] /\ CommitTurn(r, s)
          BY <1>0, <1>1, <4>3 DEF DataTurn, PlanTurn
        <5> QED BY <1>0, <4>3, <5>1, CommitTaken
      <4> QED BY <4>1, <4>2, <4>3
    <3>3. seen[q][Other(s)][p] \notin {tree[s][p]} \cup replaced[s][p]
      BY <2>4, <3>1, <3>2 DEF News
    <3>4. UNCHANGED replaced
      BY <1>1 DEF DataTurn, TreeTurn, Publishes
    <3>5. tree'[s][p] = tree[s][p]
      <4>1. ASSUME tree'[s][p] # tree[s][p] PROVE FALSE
        <5>1. PICK t \in Side, x \in Paths : Publishes(r, t, x)
          BY <1>1, <4>1 DEF DataTurn, TreeTurn
        <5>2. t = s /\ x = p
          BY <1>0, <4>1, <5>1 DEF Publishes, Typed, DataTypes, DiskTypes
        <5>3. r = q
          BY <2>4, <5>1, <5>2, HoldingAlone
        <5> QED BY <5>1, <5>2, <5>3, PublishedKnown
      <4> QED BY <4>1
    <3> QED BY <2>4, <3>3, <3>4, <3>5
  <2> QED BY <2>1, <2>2, <2>3, <2>4
<1>2. ASSUME Unmoved, s \in holding[q],
             tree'[s][p] = tree[s][p] \/ tree'[s][p] \in {Absent, fresh[p] + 1},
             replaced'[s][p] \subseteq replaced[s][p] \cup {tree[s][p]}
      PROVE  seen'[q][Other(s)][p] \notin {tree'[s][p]} \cup replaced'[s][p]
  <2>1. old'[q] = old[q] /\ seen'[q] = seen[q]
    BY <1>2 DEF Unmoved
  <2>2. p \notin taken[q][s] \cup doubtful[q][s]
    BY <1>2, SameTaken DEF Unmoved
  <2>3. seen[q][Other(s)][p] \notin {tree[s][p]} \cup replaced[s][p]
    BY <1>2, <2>1, <2>2 DEF News
  <2>4. seen[q][Other(s)][p] \in 0..fresh[p] /\ fresh[p] \in Nat
    BY <1>0, <2>1, KnownBounds DEF Typed, DataTypes, DiskTypes, Version
  <2> QED BY <1>2, <2>1, <2>3, <2>4
<1>3. ASSUME Unmoved, UNCHANGED marker PROVE s \in holding[q]
  BY <1>3 DEF holding, Clean, Alive, Busy, Owns, Unmoved
<1>4. ASSUME NEW t \in Side, NEW x \in Paths, Write(t, x) \/ Delete(t, x)
      PROVE  seen'[q][Other(s)][p] \notin {tree'[s][p]} \cup replaced'[s][p]
  <2>1. EditOf(t, x)
    BY <1>4, Edits
  <2>2. Unmoved /\ s \in holding[q]
    BY <1>3, <2>1 DEF EditOf
  <2>3. tree'[s][p] = tree[s][p] \/ tree'[s][p] \in {Absent, fresh[p] + 1}
    BY <1>0, <2>1 DEF EditOf
  <2>4. replaced'[s][p] \subseteq replaced[s][p] \cup {tree[s][p]}
    BY <1>0, <2>1 DEF EditOf
  <2> QED BY <1>2, <2>2, <2>3, <2>4
<1>5. ASSUME NEW t \in Side, Recover(t)
      PROVE  seen'[q][Other(s)][p] \notin {tree'[s][p]} \cup replaced'[s][p]
  <2>1. /\ Unmoved /\ UNCHANGED <<tree, replaced>>
        /\ marker[t] # None /\ marker[t].phase \in Precommit /\ marker' = [marker EXCEPT ![t] = None]
    BY <1>5 DEF Recover, Unmoved, planVars, callVars, comVars
  <2>2. Busy(Remote) => Busy(Remote)' /\ marker'[Remote] = marker[Remote]
    BY <2>1, Sides DEF Busy, Late, Precommit, Typed, Inv, ControlOK
  <2>3. Clean(q)' => Clean(q)
    BY <2>1, <2>2 DEF Clean, Unmoved, Alive
  <2>4. Owns(q, Remote, {"preparing", "prepared", "committing"})' =>
        Owns(q, Remote, {"preparing", "prepared", "committing"})
    <3>1. marker'[Remote] = marker[Remote] \/ marker'[Remote] = None
      BY <2>1, Sides DEF Typed, Inv, ControlOK
    <3>2. \A ph \in Phase : [run |-> q, phase |-> ph] # None
      BY NoneAssumption DEF Marker
    <3> QED BY <3>1, <3>2 DEF Owns, Phase
  <2>5. s \in holding[q]
    BY <2>1, <2>3, <2>4 DEF holding, Unmoved
  <2> QED BY <1>2, <2>1, <2>5
<1>6. CASE UNCHANGED vars
  BY <1>2, <1>3, <1>6 DEF vars, Unmoved, diskVars, histVars, userVars, planVars, callVars, comVars
<1> QED BY <1>1, <1>4, <1>5, <1>6, NextTurns

-----------------------------------------------------------------------------
(* Runs one at a time: what the two trees share *)

\* What both sides have, or one has and the other had before an edit, is what
\* the run has taken over there, or else what it loaded.
Shares ==
  \A r \in Runs : Alive(r) /\ pc[r] # "scan" =>
    \A p \in Paths : (\A t \in Side : p \notin doubtful[r][t]) =>
      \A s \in Side : p \in shared[s] =>
        /\ \A t \in Side : p \in taken[r][t] => tree[s][p] = NewEntry(r, p, t)
        /\ (\A t \in Side : p \notin taken[r][t]) => tree[s][p] = old[r][Local][p]

\* When its plan is made a run shares what was last synchronized, ...
LEMMA PlanShares ==
  ASSUME Typed, WaveOrder, OwnMarkers, Serial, Base, Agreed, NEW r \in Runs, Plans(r), Paths # {},
         NEW s \in Side, NEW p \in Paths, p \in shared'[s]
  PROVE  /\ \A t \in Side : p \notin taken'[r][t]
         /\ tree'[s][p] = old'[r][Local][p]
<1>0. pc[r] = "scan" /\ AllRead(r) /\ Alive(r)
  BY DEF Plans, Alive
<1>1. Baseline
  BY <1>0, QuietAtPlan DEF Agreed
<1>2. shared' = shared /\ UNCHANGED <<tree, snap>> /\ old'[r] = old[r]
  BY DEF Plans, shared
<1>3. tree[s][p] = snap[s][p] /\ snap[Local][p] = snap[Remote][p]
  BY <1>1, <1>2 DEF Baseline
<1>4. act[r][p] = "none" /\ before[r][Local][p] = old[r][Local][p]
  BY <1>0, Sides, NothingMerged DEF Typed, ReadFirst, NoAction
<1>5. old[r][Local][p] # Unread
  BY <1>0, Sides DEF AllRead, Typed, ReadFirst
<1>6. SnapOf(r, p) /\ saved[r] = "no"
  BY <1>0 DEF Base, BaseOf, SavedOf, Saves
<1>7. tree'[s][p] = old'[r][Local][p]
  BY <1>2, <1>3, <1>4, <1>5, <1>6 DEF SnapOf, Side
<1> QED BY <1>7, PlanTaken

\* ... and with what it publishes it shares just that.
LEMMA PublishShares ==
  ASSUME Typed, WaveOrder, RunData, Base, NotBack, Shares, NEW r \in Runs, Alive(r),
         NEW s \in Side, NEW p \in Paths, Publishes(r, s, p), NEW u \in Side, p \in shared'[u]
  PROVE  tree'[u][p] = NewEntry(r, p, s)
<1>0. Other(s) \in Side /\ Other(s) # s /\ Other(Other(s)) = s
  BY DEF Other, Side, Local, Remote
<1>1. tree'[s][p] = NewEntry(r, p, s) /\ tree'[Other(s)] = tree[Other(s)] /\ replaced' = replaced
  BY <1>0 DEF Publishes, Typed, DataTypes, DiskTypes
<1>2. CASE u = s
  BY <1>1, <1>2
<1>3. CASE u = Other(s) /\ tree[u][p] # NewEntry(r, p, s)
  <2>1. p \in shared[u] /\ tree[u][p] # Absent
    BY <1>0, <1>1, <1>3 DEF shared
  <2>2. /\ Changed(r, u, p)
        /\ \A t \in Side : p \notin taken[r][t] \cup doubtful[r][t]
    BY <1>3, PublishedKnown
  <2>3. pc[r] # "scan"
    BY DEF Publishes, WaveOrder, InOrder
  <2>4. tree[u][p] = old[r][Local][p]
    BY <2>1, <2>2, <2>3 DEF Shares
  <2>5. old[r][Local][p] = old[r][Remote][p]
    BY <2>3 DEF Base, BaseOf, SnapOf
  <2>6. tree[u][p] = old[r][u][p]
    BY <2>4, <2>5 DEF Side
  <2>7. seen[r][u][p] # Unread
    <3>1. pc[r] = "commit" \/ req[r] # "none"
      BY DEF Publishes, Committing
    <3> QED BY <3>1 DEF Typed, ReadFirst, Read
  <2> QED BY <2>1, <2>2, <2>6, <2>7 DEF NotBack, Changed
<1> QED BY <1>0, <1>1, <1>2, <1>3 DEF Side

\* Other steps of a run share what they shared.
LEMMA WaveShares ==
  ASSUME Typed, RunData, Shares, WaveOrder, Base, NotBack, NEW r \in Runs, DataTurn(r),
         Alive(r), Alive(r)', pc[r] # "scan",
         TreeTurn(r), act'[r] = act[r], old'[r] = old[r], seen'[r] = seen[r],
         \A t \in Side : CommitTurn(r, t),
         NEW p \in Paths, \A t \in Side : p \notin doubtful'[r][t], NEW s \in Side, p \in shared'[s]
  PROVE  /\ \A t \in Side : p \in taken'[r][t] => tree'[s][p] = NewEntry(r, p, t)
         /\ (\A t \in Side : p \notin taken'[r][t]) => tree'[s][p] = old[r][Local][p]
<1> HIDE DEF taken, doubtful, shared
<1>1. \A t \in Side : /\ doubtful[r][t] \subseteq doubtful'[r][t]
                      /\ taken[r][t] \subseteq taken'[r][t] \cup doubtful'[r][t]
                      /\ \A x \in taken'[r][t] : x \in taken[r][t] \/ Publishes(r, t, x)
  BY CommitTaken
<1>2. CASE \A t \in Side : ~Publishes(r, t, p)
  <2>1. \A t \in Side : p \in taken'[r][t] <=> p \in taken[r][t]
    BY <1>1, <1>2
  <2>2. \A t \in Side : tree'[t][p] = tree[t][p] /\ replaced'[t][p] = replaced[t][p]
    <3>1. CASE UNCHANGED <<tree, replaced>>
      BY <3>1
    <3>2. ASSUME NEW u \in Side, NEW x \in Paths, Publishes(r, u, x)
          PROVE  \A t \in Side : tree'[t][p] = tree[t][p] /\ replaced'[t][p] = replaced[t][p]
      <4>1. x # p
        BY <1>2, <3>2
      <4> QED BY <3>2, <4>1 DEF Publishes, Typed, DataTypes, DiskTypes
    <3> QED BY <3>1, <3>2 DEF TreeTurn
  <2>3. p \in shared[s]
    <3>1. Other(s) \in Side
      BY DEF Other, Side
    <3> QED BY <2>2, <3>1 DEF shared
  <2> QED BY <1>1, <2>1, <2>2, <2>3 DEF Shares
<1>3. ASSUME NEW t \in Side, Publishes(r, t, p)
      PROVE  /\ \A u \in Side : p \in taken'[r][u] => tree'[s][p] = NewEntry(r, p, u)
             /\ (\A u \in Side : p \notin taken'[r][u]) => tree'[s][p] = old[r][Local][p]
  <2>1. p \in taken'[r][t] /\ \A u \in Side : u # t => p \notin taken'[r][u]
    BY <1>3, PublishedKnown
  <2>2. tree'[s][p] = NewEntry(r, p, t)
    BY <1>3, PublishShares
  <2> QED BY <2>1, <2>2
<1> QED BY <1>2, <1>3

\* The trees share what the run alive has made them share.
LEMMA NextShares ==
  ASSUME Typed, WaveOrder, OwnMarkers, RunData, Serial, Bounds, Base, NotBack, Agreed,
         Shares, [Next]_vars
  PROVE  Shares'
<1> SUFFICES ASSUME NEW q \in Runs, Alive(q)', pc'[q] # "scan", NEW p \in Paths,
                    \A t \in Side : p \notin doubtful'[q][t], NEW s \in Side, p \in shared'[s]
             PROVE  /\ \A t \in Side : p \in taken'[q][t] => tree'[s][p] = NewEntry(q, p, t)'
                    /\ (\A t \in Side : p \notin taken'[q][t]) => tree'[s][p] = old'[q][Local][p]
  BY DEF Shares
<1> HIDE DEF taken, doubtful, shared
<1>1. ASSUME Alive(q), pc[q] # "scan", act'[q] = act[q], old'[q] = old[q], seen'[q] = seen[q],
             todo'[q] = todo[q], group'[q] = group[q], com'[q] = com[q], left'[q] = left[q],
             p \in shared[s], tree'[s][p] = tree[s][p]
      PROVE  /\ \A t \in Side : p \in taken'[q][t] => tree'[s][p] = NewEntry(q, p, t)'
             /\ (\A t \in Side : p \notin taken'[q][t]) => tree'[s][p] = old'[q][Local][p]
  <2>1. taken'[q] = taken[q] /\ doubtful'[q] = doubtful[q]
    BY <1>1, SameTaken
  <2>2. \A t \in Side : NewEntry(q, p, t)' = NewEntry(q, p, t)
    BY <1>1 DEF NewEntry
  <2> QED BY <1>1, <2>1, <2>2 DEF Shares
<1>2. ASSUME NEW r \in Runs, Turn(r), DataTurn(r), q # r
      PROVE  /\ \A t \in Side : p \in taken'[q][t] => tree'[s][p] = NewEntry(q, p, t)'
             /\ (\A t \in Side : p \notin taken'[q][t]) => tree'[s][p] = old'[q][Local][p]
  <2>1. Alive(q) /\ pc[q] # "scan"
    BY <1>2 DEF Turn, Others, Alive
  <2>2. UNCHANGED <<tree, replaced>>
    BY <1>2, <2>1, OtherPublish DEF DataTurn, TreeTurn
  <2>3. shared' = shared
    BY <2>2 DEF shared
  <2> QED BY <1>1, <1>2, <2>1, <2>2, <2>3 DEF Turn, Others
<1>3. ASSUME Turn(q), DataTurn(q)
      PROVE  /\ \A t \in Side : p \in taken'[q][t] => tree'[s][p] = NewEntry(q, p, t)'
             /\ (\A t \in Side : p \notin taken'[q][t]) => tree'[s][p] = old'[q][Local][p]
  <2>1. CASE Plans(q)
    BY <2>1, PlanShares
  <2>2. CASE ~Plans(q)
    <3>1. Alive(q) /\ pc[q] # "scan"
      BY <1>3, <2>2, Sides DEF Turn, ClientTurn, DataTurn, PlanTurn, Live, Alive
    <3>2. /\ act'[q] = act[q] /\ old'[q] = old[q] /\ seen'[q] = seen[q]
          /\ \A t \in Side : CommitTurn(q, t)
      BY <1>3, <2>2, <3>1, Sides DEF DataTurn, PlanTurn, Live
    <3>3. \A t \in Side : NewEntry(q, p, t)' = NewEntry(q, p, t)
      BY <3>2 DEF NewEntry
    <3>4. TreeTurn(q)
      BY <1>3 DEF DataTurn
    <3> QED BY <1>3, <3>1, <3>2, <3>3, <3>4, WaveShares
  <2> QED BY <2>1, <2>2
<1>4. ASSUME NEW t \in Side, NEW x \in Paths, Write(t, x) \/ Delete(t, x)
      PROVE  /\ \A u \in Side : p \in taken'[q][u] => tree'[s][p] = NewEntry(q, p, u)'
             /\ (\A u \in Side : p \notin taken'[q][u]) => tree'[s][p] = old'[q][Local][p]
  <2>1. EditOf(t, x)
    BY <1>4, Edits
  <2>2. p \in shared[s] /\ tree'[s][p] = tree[s][p]
    BY <2>1, EditShares
  <2> QED BY <1>1, <2>1, <2>2 DEF EditOf, Unmoved, Alive
<1>5. ASSUME NEW t \in Side, Recover(t)
      PROVE  /\ \A u \in Side : p \in taken'[q][u] => tree'[s][p] = NewEntry(q, p, u)'
             /\ (\A u \in Side : p \notin taken'[q][u]) => tree'[s][p] = old'[q][Local][p]
  <2>1. Unmoved /\ UNCHANGED <<tree, replaced>>
    BY <1>5 DEF Recover, Unmoved, planVars, callVars, comVars
  <2>2. shared' = shared
    BY <2>1 DEF shared
  <2> QED BY <1>1, <2>1, <2>2 DEF Unmoved, Alive
<1>6. CASE UNCHANGED vars
  <2>1. Unmoved /\ UNCHANGED <<tree, replaced>>
    BY <1>6 DEF vars, Unmoved, diskVars, histVars, userVars, planVars, callVars, comVars
  <2>2. shared' = shared
    BY <2>1 DEF shared
  <2> QED BY <1>1, <2>1, <2>2 DEF Unmoved, Alive
<1> QED BY <1>2, <1>3, <1>4, <1>5, <1>6, NextTurns

-----------------------------------------------------------------------------
(* Runs one at a time: the baseline *)

\* At the end of a wave both snapshots say what the trees share.
LEMMA WaveBaseline ==
  ASSUME Typed, WaveOrder, RunData, Base, NotBack, Shares, NEW r \in Runs, pc[r] = "finishMarker"
  PROVE  Baseline
<1> SUFFICES ASSUME NEW p \in Paths
             PROVE  /\ snap[Local][p] = snap[Remote][p]
                    /\ \A s \in Side : p \in shared[s] => tree[s][p] = snap[s][p]
  BY DEF Baseline
<1>0. Alive(r) /\ Local \in Side /\ Remote \in Side /\ Read(r)
  BY Sides DEF Alive, Typed, ReadFirst
<1>1. \A s \in Side : com[r][s] = "done"
  BY DEF WaveOrder, InOrder
<1>2. /\ \A t \in Side : p \notin doubtful[r][t]
      /\ \A t \in Side : p \in taken[r][t] <=> Towards(r, p, t) /\ p \in DoneBySave(r)
  <2>1. \A t \in Side : Towards(r, p, t) => p \in Planned(r)
    BY DEF Towards, Planned
  <2>2. group[r] \subseteq todo[r]
    BY DEF RunData, DataOf, WaveOf
  <2> QED BY <1>1, <2>1, <2>2 DEF taken, doubtful, DoneBySave
<1>3. /\ snap[Local][p] = after[r][Local][p] /\ snap[Remote][p] = after[r][Remote][p]
      /\ old[r][Local][p] = old[r][Remote][p]
  BY <1>0 DEF Base, BaseOf, SavedOf, SnapOf, Read
<1> HIDE DEF taken, doubtful, shared
<1>4. \A s \in Side : old[r][s][p] = old[r][Local][p] /\ snap[s][p] = after[r][s][p]
  BY <1>3 DEF Side
<1>5. \A s \in Side : p \in shared[s] =>
        /\ \A t \in Side : p \in taken[r][t] => tree[s][p] = NewEntry(r, p, t)
        /\ (\A t \in Side : p \notin taken[r][t]) => tree[s][p] = old[r][Local][p]
  BY <1>0, <1>2 DEF Shares
<1>6. CASE p \notin DoneBySave(r) \/ act[r][p] \in {"none", "conflict"}
  <2>1. \A s \in Side : after[r][s][p] = old[r][s][p]
    BY <1>6 DEF after, Merged
  <2>2. \A t \in Side : p \notin taken[r][t]
    BY <1>2, <1>6 DEF Towards
  <2> QED BY <1>0, <1>4, <1>5, <2>1, <2>2
<1>7. ASSUME NEW t \in Side, p \in DoneBySave(r), Towards(r, p, t)
      PROVE  /\ snap[Local][p] = snap[Remote][p]
             /\ \A s \in Side : p \in shared[s] => tree[s][p] = snap[s][p]
  <2>1. ASSUME NEW s \in Side PROVE after[r][s][p] = NewEntry(r, p, t)
    <3>1. act[r][p] \notin {"none", "conflict"}
      BY <1>7 DEF Towards
    <3>2. CASE s = t
      BY <1>7, <3>1, <3>2 DEF after, Merged
    <3>3. CASE s # t
      <4>1. s = Other(t) /\ ~Towards(r, p, s)
        BY <1>7, <3>3 DEF Other, Side, Towards, Local, Remote
      <4> QED BY <1>7, <3>1, <4>1 DEF after, Merged, NewEntry
    <3> QED BY <3>2, <3>3
  <2>2. p \in taken[r][t]
    BY <1>2, <1>7
  <2> QED BY <1>0, <1>4, <1>5, <2>1, <2>2
<1>8. CASE p \in DoneBySave(r) /\ act[r][p] = "identical"
  <2>1. /\ \A s \in Side : Changed(r, s, p)
        /\ seen[r][Local][p] = seen[r][Remote][p]
    BY <1>8 DEF RunData, DataOf, PlanOf, Side
  <2>2. \A s \in Side : ~Towards(r, p, s)
    BY <1>8 DEF Towards
  <2>3. \A s \in Side : after[r][s][p] = seen[r][s][p]
    BY <1>8, <2>2 DEF after, Merged
  <2>4. snap[Local][p] = snap[Remote][p]
    BY <1>0, <1>4, <2>1, <2>3
  <2>5. ASSUME NEW s \in Side, p \in shared[s] PROVE FALSE
    <3>1. tree[s][p] = old[r][s][p] /\ tree[s][p] # Absent
      BY <1>2, <1>4, <1>5, <2>2, <2>5 DEF shared
    <3>2. seen[r][s][p] \notin {Unread, old[r][s][p]}
      BY <1>0, <2>1 DEF Read, Changed
    <3> QED BY <1>0, <3>1, <3>2 DEF NotBack
  <2> QED BY <2>4, <2>5
<1>9. act[r][p] \in {"none", "conflict", "identical"} \/ \E t \in Side : Towards(r, p, t)
  BY <1>0, Sides DEF Typed, DataTypes, PlanTypes, Action, Towards
<1> QED BY <1>6, <1>7, <1>8, <1>9

\* Where a side is still committing or saving after a step, or was before it
\* and is not now, the snapshots agree.
LEMMA TurnAgreed ==
  ASSUME Typed, WaveOrder, RunData, Base, NotBack, Shares, Serial, Phases, Agreed,
         NEW r \in Runs, Turn(r), DataTurn(r), \A s \in Side : ~Busy(s)'
  PROVE  Baseline'
<1>0. ControlOK /\ Local \in Side /\ Remote \in Side /\ Local # Remote
  BY Sides DEF Typed, Inv
<1>1. CASE \A s \in Side : ~Busy(s)
  <2>1. Baseline
    BY <1>1 DEF Agreed
  <2>2. pc[r] \notin Saves /\ req[r] \notin SaveCall
    <3>1. ~Owns(r, Local, {"state-save"})
      BY <1>0, <1>1, OwnedMarker DEF Busy, Late, Phase
    <3> QED BY <3>1 DEF Phases
  <2>3. UNCHANGED snap
    BY <1>0, <2>2 DEF DataTurn, SnapTurn, SavesTo, Saves, SaveCall, Side
  <2>4. \A s \in Side, p \in Paths : ~Publishes(r, s, p)
    <3>1. ASSUME NEW s \in Side, NEW p \in Paths, Publishes(r, s, p) PROVE FALSE
      <4>1. Owns(r, s, {"committing"})
        BY <3>1 DEF Publishes, Typed, Inv, PublishUnderMarker
      <4> QED BY <1>0, <1>1, <4>1, OwnedMarker DEF Busy, Late, Phase
    <3> QED BY <3>1
  <2>5. UNCHANGED <<tree, replaced>>
    BY <2>4 DEF DataTurn, TreeTurn
  <2>6. shared' = shared
    BY <2>5 DEF shared
  <2> HIDE DEF shared
  <2> QED BY <2>1, <2>3, <2>5, <2>6 DEF Baseline
<1>2. ASSUME NEW s \in Side, Busy(s) PROVE Baseline'
  <2>1. Removes(r, s) /\ marker' = [marker EXCEPT ![s] = None]
    BY <1>0, <1>2, StaysBusy DEF Turn, Removes
  <2>2. Owns(r, s, {"state-save"})
        /\ IF s = Local THEN pc[r] = "finishMarker" /\ pc'[r] \in {"wave", "over"} /\ req'[r] = req[r]
                        ELSE req[r] = "complete"
    BY <1>2, <2>1 DEF Removes, Busy, Late, Precommit
  <2>3. s = Local
    <3>1. CASE s = Remote
      <4>1. Owns(r, Local, {"state-save"})
        BY <1>0, <2>2, <3>1 DEF Phases, SaveCall
      <4>2. marker'[Local] = marker[Local]
        BY <1>0, <2>1, <3>1 DEF ControlOK
      <4>3. Busy(Local)'
        BY <1>0, <4>1, <4>2, OwnedMarker DEF Busy, Late, Phase
      <4> QED BY <1>0, <4>3
    <3> QED BY <3>1 DEF Side
  <2>4. pc[r] = "finishMarker" /\ pc'[r] # pc[r]
    BY <2>2, <2>3
  <2>5. Baseline
    BY <2>4, WaveBaseline
  <2>6. UNCHANGED snap
    BY <2>4 DEF DataTurn, SnapTurn, SavesTo
  <2>7. UNCHANGED <<tree, replaced>>
    BY <2>4 DEF DataTurn, TreeTurn, Publishes
  <2>8. shared' = shared
    BY <2>7 DEF shared
  <2> HIDE DEF shared
  <2> QED BY <2>5, <2>6, <2>7, <2>8 DEF Baseline
<1> QED BY <1>1, <1>2

\* A commit or a save keeps its local marker until both snapshots are saved.
LEMMA NextAgreed ==
  ASSUME Typed, WaveOrder, RunData, Bounds, Base, NotBack, Shares, Serial, Phases, Agreed,
         [Next]_vars, ~forced'
  PROVE  Agreed'
<1> SUFFICES ASSUME \A s \in Side : ~Busy(s)' PROVE Baseline'
  BY DEF Agreed
<1>1. ASSUME NEW t \in Side, NEW x \in Paths, Write(t, x) \/ Delete(t, x) PROVE Baseline'
  <2>1. EditOf(t, x)
    BY <1>1, Edits
  <2>2. Baseline
    BY <2>1 DEF EditOf, Busy, Agreed
  <2>3. \A s \in Side : shared'[s] \subseteq shared[s] /\ \A p \in shared'[s] : tree'[s][p] = tree[s][p]
    BY <2>1, EditShares
  <2> HIDE DEF shared
  <2> QED BY <2>1, <2>2, <2>3 DEF EditOf, Baseline
<1>2. ASSUME NEW t \in Side, Recover(t) PROVE Baseline'
  <2>1. /\ UNCHANGED <<tree, replaced, snap>> /\ marker[t].phase \in Precommit
        /\ marker' = [marker EXCEPT ![t] = None]
    BY <1>2 DEF Recover
  <2>2. \A s \in Side : ~Busy(s)
    BY <2>1 DEF Busy, Late, Precommit, Typed, Inv, ControlOK
  <2>3. shared' = shared
    BY <2>1 DEF shared
  <2> HIDE DEF shared
  <2> QED BY <2>1, <2>2, <2>3 DEF Agreed, Baseline
<1>3. CASE UNCHANGED vars
  <2>1. UNCHANGED <<tree, replaced, snap, marker>>
    BY <1>3 DEF vars, diskVars, histVars, userVars
  <2>2. shared' = shared
    BY <2>1 DEF shared
  <2> HIDE DEF shared
  <2> QED BY <2>1, <2>2 DEF Agreed, Baseline, Busy
<1> QED BY <1>1, <1>2, <1>3, NextTurns, TurnAgreed

-----------------------------------------------------------------------------
(* Runs one at a time: the theorems *)

\* What holds as long as no marker of a commit was cleared by hand
Orderly == Agreed /\ Base /\ NotBack /\ News /\ Shares

\* The inductive invariant
Alone ==
  /\ Typed /\ WaveOrder /\ OwnMarkers /\ Knowledge /\ RunData
  /\ Bounds /\ Serial /\ Phases
  /\ ~forced => Orderly

\* At first everything is synchronized and no run has started.
LEMMA InitAlone == Init => Alone
<1> SUFFICES ASSUME Init PROVE Alone
  OBVIOUS
<1>1. PICK S \in SUBSET Paths :
        LET v == [p \in Paths |-> IF p \in S THEN 1 ELSE Absent] IN
        /\ tree = [s \in Side |-> v] /\ snap = [s \in Side |-> v] /\ fresh = v
  BY DEF Init
<1>2. /\ \A s \in Side, p \in Paths : tree[s][p] = fresh[p] /\ snap[s][p] = fresh[p]
      /\ \A p \in Paths : fresh[p] \in {0, 1}
  BY <1>1 DEF Absent
<1>3. \A r \in Runs, s \in Side, p \in Paths : old[r][s][p] = Unread /\ seen[r][s][p] = Unread
  BY DEF Init, Nowhere
<1>4. \A r \in Runs : ~Alive(r) /\ pc[r] = "idle" /\ req[r] = "none" /\ saved[r] = "no"
  BY DEF Init, Alive
<1>5. Typed /\ WaveOrder /\ OwnMarkers /\ Knowledge /\ RunData
  BY InitTyped, InitOrder, InitMarkers, InitData
<1>6. Bounds
  <2>1. \A s \in Side, p \in Paths : tree[s][p] \in 0..fresh[p] /\ replaced[s][p] = {}
    <3>1. \A s \in Side, p \in Paths : replaced[s][p] = {}
      BY DEF Init
    <3>2. \A p \in Paths : fresh[p] \in 0..fresh[p]
      BY <1>2
    <3> QED BY <1>2, <3>1, <3>2
  <2>2. \A p \in Paths : GivenUp(p) = {}
    BY Sides DEF Init, GivenUp
  <2> QED BY <2>1, <2>2 DEF Bounds
<1>7. Serial /\ Phases
  BY <1>3, <1>4 DEF Serial, OneAlive, LocalMine, CheckedAlone, LoadedReady, Checked, Phases, Saves, SaveCall
<1>8. Agreed
  <2>1. \A s \in Side, p \in Paths : tree[s][p] = snap[s][p] /\ snap[s][p] = fresh[p]
    BY <1>2
  <2> QED BY <2>1, Sides DEF Agreed, Baseline
<1>9. Base /\ NotBack /\ Shares
  BY <1>4 DEF Base, SavedOf, BaseOf, NotBack, Shares, Saves
<1>10. News
  <2>1. ASSUME NEW r \in Runs, NEW s \in holding[r], NEW p \in Paths PROVE seen[r][Other(s)][p] = Unread
    <3>1. Other(s) \in Side
      BY Sides DEF Other
    <3> QED BY <1>3, <3>1
  <2> QED BY <2>1 DEF News
<1> QED BY <1>5, <1>6, <1>7, <1>8, <1>9, <1>10 DEF Alone, Orderly

\* Runs make no versions.
LEMMA NextBounds == Typed /\ Knowledge /\ RunData /\ WaveOrder /\ Bounds /\ [Next]_vars => Bounds'
<1> SUFFICES ASSUME Typed, Knowledge, RunData, WaveOrder, Bounds, [Next]_vars PROVE Bounds'
  OBVIOUS
<1>1. CASE UNCHANGED <<tree, replaced, fresh, dropped, raced>>
  BY <1>1 DEF Bounds, GivenUp
<1>2. \A s \in Side : Recover(s) => Bounds'
  BY <1>1 DEF Recover
<1>3. UNCHANGED vars => Bounds'
  BY <1>1 DEF vars, diskVars, histVars, userVars
<1> QED BY <1>2, <1>3, NextTurns, TurnBounds, Edits, EditBounds

\* One client at a time stays one client at a time.
LEMMA NextSerial ==
  ASSUME ~AllowConcurrent, Typed, Typed', WaveOrder, RunData, Serial, Phases, [Next]_vars
  PROVE  Serial' /\ Phases'
<1>1. ASSUME NEW r \in Runs, Turn(r) PROVE Serial' /\ Phases'
  BY <1>1, TurnSerial, TurnPhases
<1>2. ASSUME Unmoved, UNCHANGED marker PROVE Serial' /\ Phases'
  <2>1. Serial'
    BY <1>2, UnmovedSerial
  <2> QED BY <1>2, <2>1 DEF Phases, Unmoved, Owns
<1>3. ASSUME NEW s \in Side, NEW p \in Paths, Write(s, p) \/ Delete(s, p) PROVE Serial' /\ Phases'
  BY <1>2, <1>3, Edits DEF EditOf
<1>4. ASSUME NEW s \in Side, Recover(s) PROVE Serial' /\ Phases'
  <2>1. Unmoved /\ marker' = [marker EXCEPT ![s] = None] /\ ControlOK
    BY <1>4 DEF Recover, Unmoved, planVars, callVars, comVars, Typed, Inv
  <2>2. Serial'
    <3>1. \A t \in Side : marker'[t] \in {marker[t], None}
      BY <2>1 DEF ControlOK
    <3> QED BY <2>1, <3>1, UnmovedSerial
  <2>3. Phases'
    <3> SUFFICES ASSUME NEW r \in Runs, pc[r] \in Saves \/ req[r] \in SaveCall
                 PROVE  Owns(r, Local, {"state-save"})'
      BY <2>1 DEF Phases, Unmoved
    <3>1. Owns(r, Local, {"state-save"})
      BY DEF Phases
    <3>2. Alive(r) \/ srv[r] # "off"
      BY DEF Saves, SaveCall, Alive, Typed, Inv, CallInFlight
    <3>3. marker[s].phase \in Precommit
      BY <1>4, <3>2 DEF Recover
    <3>4. marker[Local].phase = "state-save"
      BY <2>1, <3>1, Sides, OwnedMarker DEF Phase
    <3>5. marker'[Local] = marker[Local]
      BY <2>1, <3>3, <3>4, Sides DEF ControlOK, Precommit
    <3> QED BY <3>1, <3>5 DEF Owns
  <2> QED BY <2>2, <2>3
<1>5. CASE UNCHANGED vars
  BY <1>2, <1>5 DEF vars, Unmoved, diskVars, planVars, callVars, comVars
<1> QED BY <1>1, <1>3, <1>4, <1>5, NextTurns

\* What was cleared by hand stays so.
LEMMA NextForced == Typed /\ WaveOrder /\ RunData /\ [Next]_vars /\ ~forced' => ~forced
<1> SUFFICES ASSUME Typed, WaveOrder, RunData, [Next]_vars PROVE forced => forced'
  OBVIOUS
<1>1. ASSUME NEW r \in Runs, DataTurn(r) PROVE UNCHANGED forced
  BY <1>1 DEF DataTurn
<1>2. ASSUME NEW s \in Side, NEW p \in Paths, Write(s, p) \/ Delete(s, p) PROVE UNCHANGED forced
  BY <1>2 DEF Write, Delete, Edited
<1>3. ASSUME NEW s \in Side, Recover(s) PROVE forced => forced'
  BY <1>3 DEF Recover
<1>4. UNCHANGED vars => UNCHANGED forced
  BY DEF vars, histVars, userVars
<1> QED BY <1>1, <1>2, <1>3, <1>4, NextTurns

\* The invariant is inductive.
LEMMA NextAlone == ASSUME ~AllowConcurrent, Alone, [Next]_vars PROVE Alone'
<1>0. Typed /\ WaveOrder /\ OwnMarkers /\ Knowledge /\ RunData /\ Bounds /\ Serial /\ Phases
  BY DEF Alone
<1>1. Typed' /\ WaveOrder' /\ OwnMarkers'
  BY <1>0, NextTyped, NextOrder, NextMarkers
<1>2. Grows /\ Reading /\ Saving
  BY <1>0, NextGrows, NextReading, NextSaving
<1>3. Knowledge' /\ RunData'
  BY <1>0, <1>2, NextKnowledge, NextRunData
<1>4. Bounds' /\ Serial' /\ Phases'
  BY <1>0, <1>1, NextBounds, NextSerial
<1>5. ASSUME ~forced' PROVE Orderly'
  <2>1. Orderly
    BY <1>0, <1>5, NextForced DEF Alone
  <2>2. Agreed'
    BY <1>0, <1>5, <2>1, NextAgreed DEF Orderly
  <2>3. Base'
    BY <1>0, <1>1, <1>2, <2>1, NextBase DEF Orderly
  <2>4. NotBack'
    BY <1>0, <1>2, <2>1, NextNotBack DEF Orderly
  <2>5. News'
    BY <1>0, <1>1, <1>2, <1>5, <2>1, NextNews DEF Orderly
  <2>6. Shares'
    BY <1>0, <2>1, NextShares DEF Orderly
  <2> QED BY <2>2, <2>3, <2>4, <2>5, <2>6 DEF Orderly
<1> QED BY <1>1, <1>3, <1>4, <1>5 DEF Alone

\* Where no two clients are alive at once the two snapshots agree, and say what
\* the trees share, whenever no marker blocks the next run.
THEOREM BaselineAgrees == ASSUME ~AllowConcurrent PROVE Spec => []AgreedBaseline
<1>1. Alone /\ [Next]_vars => Alone'
  BY NextAlone
<1>2. Alone => AgreedBaseline
  <2> SUFFICES ASSUME Alone, NoMarker, ~forced
               PROVE  /\ snap[Local] = snap[Remote]
                      /\ \A p \in Paths : tree[Local][p] = tree[Remote][p] /\ tree[Local][p] # Absent
                                           => snap[Local][p] = tree[Local][p]
    BY DEF AgreedBaseline
  <2>1. Baseline
    BY DEF Alone, Orderly, Agreed, Busy, NoMarker
  <2>2. snap[Local] = snap[Remote]
    <3>1. snap[Local] \in [Paths -> Version] /\ snap[Remote] \in [Paths -> Version]
      BY Sides DEF Alone, Typed, DataTypes, DiskTypes
    <3> QED BY <2>1, <3>1 DEF Baseline
  <2>3. ASSUME NEW p \in Paths, tree[Local][p] = tree[Remote][p], tree[Local][p] # Absent
        PROVE  snap[Local][p] = tree[Local][p]
    <3>1. p \in shared[Local]
      BY <2>3, Sides DEF shared, Other
    <3> QED BY <2>1, <3>1, Sides DEF Baseline
  <2> QED BY <2>2, <2>3
<1> HIDE DEF Alone
<1> QED BY <1>1, <1>2, InitAlone, PTL DEF Spec

\* Nor does a run, whether it ends or not, bring back a version that the user
\* of a side has replaced or deleted there.
THEOREM NothingResurrected == ASSUME ~AllowConcurrent PROVE Spec => NoResurrection
<1> DEFINE Kept == edits' = edits /\ ~forced =>
       \A s \in Side, p \in Paths : tree'[s][p] # tree[s][p] => tree'[s][p] \notin replaced[s][p]
<1>1. Alone /\ [Next]_vars => Alone'
  BY NextAlone
<1>2. Alone /\ [Next]_vars => [Kept]_vars
  <2> SUFFICES ASSUME Alone, [Next]_vars, edits' = edits, ~forced, NEW s \in Side, NEW p \in Paths,
                      tree'[s][p] # tree[s][p]
               PROVE  tree'[s][p] \notin replaced[s][p]
    OBVIOUS
  <2>0. Typed /\ WaveOrder /\ Knowledge /\ RunData /\ Bounds /\ Serial /\ News
    BY DEF Alone, Orderly
  <2>1. PICK r \in Runs : Turn(r) /\ DataTurn(r)
    <3>1. ASSUME NEW t \in Side, NEW x \in Paths, Write(t, x) \/ Delete(t, x) PROVE FALSE
      <4>1. edits' = edits + 1 /\ edits \in Nat
        BY <2>0, <3>1 DEF Write, Delete, Edited, Typed, DataTypes, DiskTypes
      <4> QED BY <4>1
    <3>2. ASSUME NEW t \in Side, Recover(t) PROVE FALSE
      BY <3>2 DEF Recover
    <3>3. ~UNCHANGED vars
      BY DEF vars, diskVars
    <3> QED BY <2>0, <3>1, <3>2, <3>3, NextTurns
  <2>2. PICK t \in Side, x \in Paths : Publishes(r, t, x)
    BY <2>1 DEF DataTurn, TreeTurn
  <2>3. t = s /\ x = p /\ tree'[s][p] = seen[r][Other(s)][p]
    BY <2>0, <2>2 DEF Publishes, NewEntry, Typed, DataTypes, DiskTypes
  <2>4. Absent \notin replaced[s][p]
    BY <2>0 DEF Bounds
  <2>5. /\ seen[r][Other(s)][p] # old[r][Other(s)][p]
        /\ p \notin taken[r][s] \cup doubtful[r][s]
    BY <2>0, <2>2, <2>3, PublishedKnown DEF Changed
  <2>6. seen[r][Other(s)][p] # Unread
    <3>1. (pc[r] = "commit" \/ req[r] # "none") /\ Other(s) \in Side
      BY <2>2 DEF Publishes, Committing, Other, Side
    <3> QED BY <2>0, <3>1 DEF Typed, ReadFirst, Read
  <2>7. s \in holding[r]
    <3>1. Owns(r, s, {"committing"})
      BY <2>0, <2>2, <2>3 DEF Publishes, Typed, Inv, PublishUnderMarker
    <3>2. CASE s = Remote
      BY <2>2, <2>3, <3>1, <3>2, Sides DEF Publishes, Committing, holding, Owns
    <3>3. CASE s = Local
      <4>1. Alive(r) /\ Checked(r)
        BY <2>2, <2>3, <3>3 DEF Publishes, Committing, Alive, Checked
      <4>2. Clean(r)
        BY <2>0, <4>1 DEF Clean, Busy, Late, Serial, CheckedAlone
      <4> QED BY <4>2 DEF holding
    <3> QED BY <3>2, <3>3 DEF Side
  <2> HIDE DEF holding, taken, doubtful
  <2>8. CASE seen[r][Other(s)][p] # Absent
    BY <2>0, <2>3, <2>5, <2>6, <2>7, <2>8 DEF News
  <2> QED BY <2>3, <2>4, <2>8
<1> HIDE DEF Alone, Kept
<1>3. Spec => [][Kept]_vars
  BY <1>1, <1>2, InitAlone, PTL DEF Spec
<1> QED BY <1>3 DEF NoResurrection, Kept

\* A plan is made on one baseline.
LEMMA OneBaseline ==
  ASSUME Typed, OwnMarkers, Serial, Agreed, Base, NEW r \in Runs, pc[r] = "scan", AllRead(r), NEW p \in Paths
  PROVE  old[r][Local][p] = old[r][Remote][p]
<1>1. Baseline
  BY QuietAtPlan DEF Agreed
<1>2. old[r][Local][p] # Unread /\ old[r][Remote][p] # Unread
  BY Sides DEF AllRead, Typed, ReadFirst
<1>3. act[r][p] = "none"
  BY DEF Typed, ReadFirst, NoAction
<1>4. before[r][Local][p] = old[r][Local][p] /\ before[r][Remote][p] = old[r][Remote][p]
  BY <1>3, Sides, NothingMerged
<1>5. SnapOf(r, p) /\ saved[r] = "no"
  BY DEF Base, BaseOf, SavedOf, Alive, Saves
<1> QED BY <1>1, <1>2, <1>4, <1>5 DEF SnapOf, Saves, Baseline

\* Nor is there then a conflict without an arm of resolve_action: the changes
\* of the two sides are changes of one baseline.
THEOREM EveryConflictResolves == ASSUME ~AllowConcurrent PROVE Spec => []ResolutionTotal
<1>1. Alone /\ [Next]_vars => Alone'
  BY NextAlone
<1>2. Alone /\ ResolutionTotal /\ [Next]_vars => ResolutionTotal'
  <2> SUFFICES ASSUME Alone, ResolutionTotal, [Next]_vars, ~forced', NEW r \in Runs, pc'[r] = "panic"
               PROVE  FALSE
    BY DEF ResolutionTotal
  <2>0. Typed /\ WaveOrder /\ OwnMarkers /\ RunData /\ Serial
    BY DEF Alone
  <2>1. ~forced /\ pc[r] # "panic"
    BY <2>0, NextForced DEF ResolutionTotal
  <2>2. Agreed /\ Base
    BY <2>1 DEF Alone, Orderly
  <2>3. PICK q \in Runs : Turn(q) /\ DataTurn(q)
    <3>1. ASSUME NEW t \in Side, NEW x \in Paths, Write(t, x) \/ Delete(t, x) PROVE FALSE
      BY <2>1, <3>1 DEF Write, Delete, Edited
    <3>2. ASSUME NEW t \in Side, Recover(t) PROVE FALSE
      BY <2>1, <3>2 DEF Recover
    <3>3. ~UNCHANGED vars
      BY <2>1 DEF vars
    <3> QED BY <2>0, <3>1, <3>2, <3>3, NextTurns
  <2>4. Panics(r)
    BY <2>1, <2>3 DEF Turn, Others, ClientTurn
  <2>5. PICK p \in Paths : ActionFor(r, p) = "conflict" /\ Unresolvable(r, p)
    BY <2>4 DEF Panics
  <2>6. old[r][Local][p] = old[r][Remote][p]
    BY <2>0, <2>2, <2>4, OneBaseline DEF Panics
  <2> DEFINE lc == ChangeAt(r, Local, p)
             rc == ChangeAt(r, Remote, p)
  <2>7. lc # "same" /\ rc # "same" /\ ~(lc = rc /\ seen[r][Local][p] = seen[r][Remote][p])
    BY <2>5 DEF ActionFor
  <2>8. <<lc, rc>> \in ResolvablePairs
    <3>1. CASE old[r][Local][p] = Absent
      <4>1. lc = "added" /\ rc = "added"
        BY <2>6, <2>7, <3>1 DEF ChangeAt, Change
      <4> QED BY <4>1 DEF ResolvablePairs
    <3>2. CASE old[r][Local][p] # Absent
      <4>1. /\ lc \in {"removed", "modified"} /\ (lc = "removed" <=> seen[r][Local][p] = Absent)
            /\ rc \in {"removed", "modified"} /\ (rc = "removed" <=> seen[r][Remote][p] = Absent)
        BY <2>6, <2>7, <3>2 DEF ChangeAt, Change
      <4>2. ~(lc = "removed" /\ rc = "removed")
        BY <2>7, <4>1
      <4> HIDE DEF lc, rc
      <4> QED BY <4>1, <4>2 DEF ResolvablePairs
    <3> QED BY <3>1, <3>2
  <2> QED BY <2>5, <2>8 DEF Unresolvable
<1>3. Init => ResolutionTotal
  BY DEF Init, ResolutionTotal
<1> HIDE DEF Alone
<1> QED BY <1>1, <1>2, <1>3, InitAlone, PTL DEF Spec

-----------------------------------------------------------------------------
(* Runs one at a time: what a run that succeeds leaves *)

\* A run succeeds when nothing has changed, or after its last wave.
Concludes(r) ==
  \/ pc[r] = "scan" /\ AllRead(r) /\ \A p \in Paths : ActionFor(r, p) = "none"
  \/ pc[r] = "finishMarker" /\ todo[r] \subseteq group[r]

\* It plans nothing only where nothing changed, and what was edited during a
\* run is remembered as long as it is alive.
Outcomes ==
  \A q \in Runs :
    /\ out'[q] = "success" => out[q] = "success" \/ Concludes(q)
    /\ pc[q] = "scan" /\ pc'[q] = "wave" =>
         \A p \in Paths : act'[q][p] = "none" => ActionFor(q, p) = "none"
    /\ Alive(q)' => dirty[q] \subseteq dirty'[q]

\* So it is with every step of a client, ...
LEMMA ClientOutcomes ==
  ASSUME Typed, NEW r \in Runs, Client(r)
  PROVE  Outcomes
<1> USE DEF diskVars, histVars, userVars, planVars, callVars, comVars, clientRest, serverRest, commitRest, Goes,
            Fails, Goto, Leave, Forget
<1>0. ControlOK /\ RunTypes /\ PlanTypes
  BY DEF Typed, Inv, DataTypes
<1> USE <1>0 DEF ControlOK, RunTypes, PlanTypes
<1>1. ASSUME ServerScan(r) PROVE Outcomes
  <2>1. UNCHANGED <<pc, out, dirty>> \/ Leave(r, "error")
    BY <1>1 DEF ServerScan
  <2> QED BY <2>1 DEF Outcomes, Alive
<1>2. ASSUME Plan(r) PROVE Outcomes
  <2>1. PICK d \in [Paths -> Action] :
          /\ \A p \in Paths : d[p] \in Resolutions(ActionFor(r, p))
          /\ \/ Goto(r, "panic") /\ UNCHANGED <<out, dirty>>
             \/ (\A p \in Paths : d[p] = "none") /\ Leave(r, "success")
             \/ act' = [act EXCEPT ![r] = d] /\ Goto(r, "wave") /\ UNCHANGED <<out, dirty>>
    BY <1>2 DEF Plan
  <2>2. \A p \in Paths : d[p] = "none" => ActionFor(r, p) = "none"
    BY <2>1 DEF Resolutions
  <2> QED BY <1>2, <2>1, <2>2 DEF Outcomes, Concludes, Alive, Plan
<1>3. ASSUME UserAborts(r) PROVE Outcomes
  BY <1>3 DEF Outcomes, Alive, UserAborts
<1>4. ASSUME GiveUp(r) PROVE Outcomes
  BY <1>4 DEF Outcomes, Alive, GiveUp
<1>5. ASSUME NEW s \in Side, LoadOld(r, s) PROVE Outcomes
  BY <1>5 DEF Outcomes, Alive, LoadOld
<1>6. ASSUME NEW s \in Side, NEW p \in Paths, ScanPath(r, s, p) PROVE Outcomes
  BY <1>6 DEF Outcomes, Alive, ScanPath
<1>7. ASSUME BeginWave(r) PROVE Outcomes
  BY <1>7 DEF Outcomes, Alive, BeginWave
<1>8. ASSUME RemoteBegun(r) PROVE Outcomes
  BY <1>8 DEF Outcomes, Alive, RemoteBegun
<1>9. ASSUME BeginLocal(r) PROVE Outcomes
  BY <1>9 DEF Outcomes, Alive, BeginLocal
<1>10. ASSUME Stream(r) PROVE Outcomes
  BY <1>10 DEF Outcomes, Alive, Stream
<1>11. ASSUME FinishLocal(r) PROVE Outcomes
  BY <1>11 DEF Outcomes, Alive, FinishLocal
<1>12. ASSUME RemoteFinished(r) PROVE Outcomes
  BY <1>12 DEF Outcomes, Alive, RemoteFinished
<1>13. ASSUME NEW s \in Side, ValidateSide(r, s) PROVE Outcomes
  BY <1>13 DEF Outcomes, Alive, ValidateSide
<1>14. ASSUME Fence(r) PROVE Outcomes
  BY <1>14 DEF Outcomes, Alive, Fence
<1>15. ASSUME CommitsJoined(r) PROVE Outcomes
  BY <1>15 DEF Outcomes, Alive, CommitsJoined
<1>16. ASSUME MarkSave(r) PROVE Outcomes
  BY <1>16 DEF Outcomes, Alive, MarkSave
<1>17. ASSUME SaveLocal(r) PROVE Outcomes
  BY <1>17 DEF Outcomes, Alive, SaveLocal
<1>18. ASSUME SavesJoined(r) PROVE Outcomes
  BY <1>18 DEF Outcomes, Alive, SavesJoined
<1>19. ASSUME RemoteCompleted(r) PROVE Outcomes
  BY <1>19 DEF Outcomes, Alive, RemoteCompleted
<1>20. ASSUME FinishMarker(r) PROVE Outcomes
  <2>1. pc[r] = "finishMarker"
    BY <1>20 DEF FinishMarker
  <2>2. out'[r] = "success" => out[r] = "success" \/ todo[r] \subseteq group[r]
    BY <1>20 DEF FinishMarker
  <2>3. /\ \A q \in Runs : q # r => out'[q] = out[q] /\ pc'[q] = pc[q] /\ dirty'[q] = dirty[q]
        /\ Alive(r)' => dirty'[r] = dirty[r]
    BY <1>20 DEF FinishMarker, Alive
  <2> QED BY <2>1, <2>2, <2>3 DEF Outcomes, Concludes, Alive
<1>21. ASSUME AbortLocal(r) PROVE Outcomes
  BY <1>21 DEF Outcomes, Alive, AbortLocal
<1>22. ASSUME Aborted(r) PROVE Outcomes
  BY <1>22 DEF Outcomes, Alive, Aborted
<1> QED BY <1>1, <1>2, <1>3, <1>4, <1>5, <1>6, <1>7, <1>8, <1>9, <1>10, <1>11, <1>12, <1>13, <1>14, <1>15, <1>16, <1>17, <1>18, <1>19, <1>20, <1>21, <1>22 DEF Client

\* ... of a server or a commit, ...
LEMMA OtherOutcomes ==
  ASSUME Typed, NEW r \in Runs, ServerStep(r) \/ \E s \in Side : Commit(r, s)
  PROVE  Outcomes
<1> USE DEF diskVars, histVars, userVars, planVars, callVars, comVars, clientRest, serverRest, commitRest, Goes,
            Fails, Goto, Leave, Forget
<1>0. ControlOK /\ RunTypes /\ PlanTypes
  BY DEF Typed, Inv, DataTypes
<1> USE <1>0 DEF ControlOK, RunTypes, PlanTypes
<1>1. ASSUME ServerBegin(r) PROVE Outcomes
  BY <1>1 DEF Outcomes, Alive, ServerBegin
<1>2. ASSUME ServerFinish(r) PROVE Outcomes
  BY <1>2 DEF Outcomes, Alive, ServerFinish
<1>3. ASSUME ServerMarkSave(r) PROVE Outcomes
  BY <1>3 DEF Outcomes, Alive, ServerMarkSave
<1>4. ASSUME ServerSave(r) PROVE Outcomes
  BY <1>4 DEF Outcomes, Alive, ServerSave
<1>5. ASSUME ServerSaveFails(r) PROVE Outcomes
  BY <1>5 DEF Outcomes, Alive, ServerSaveFails
<1>6. ASSUME ServerComplete(r) PROVE Outcomes
  BY <1>6 DEF Outcomes, Alive, ServerComplete
<1>7. ASSUME ServerAbort(r) PROVE Outcomes
  BY <1>7 DEF Outcomes, Alive, ServerAbort
<1>8. ASSUME ServerExit(r) PROVE Outcomes
  BY <1>8 DEF Outcomes, Alive, ServerExit
<1>9. ASSUME NEW s \in Side, CommitStart(r, s) PROVE Outcomes
  BY <1>9 DEF Outcomes, Alive, CommitStart
<1>10. ASSUME NEW s \in Side, PublishRename(r, s) PROVE Outcomes
  BY <1>10 DEF Outcomes, Alive, PublishRename
<1>11. ASSUME NEW s \in Side, PublishFails(r, s) PROVE Outcomes
  BY <1>11 DEF Outcomes, Alive, PublishFails
<1>12. ASSUME NEW s \in Side, CommitEnd(r, s) PROVE Outcomes
  BY <1>12 DEF Outcomes, Alive, CommitEnd
<1>13. ASSUME NEW s \in Side, NEW p \in Paths, PublishAdded(r, s, p) PROVE Outcomes
  BY <1>13 DEF Outcomes, Alive, PublishAdded
<1>14. ASSUME NEW s \in Side, NEW p \in Paths, PublishCheck(r, s, p) PROVE Outcomes
  BY <1>14 DEF Outcomes, Alive, PublishCheck
<1> QED BY <1>1, <1>2, <1>3, <1>4, <1>5, <1>6, <1>7, <1>8, <1>9, <1>10, <1>11, <1>12, <1>13, <1>14 DEF ServerStep, Commit

\* ... and of everybody else.
LEMMA EnvironmentOutcomes ==
  ASSUME Typed, Environment
  PROVE  Outcomes
<1> USE DEF diskVars, histVars, userVars, planVars, callVars, comVars, clientRest, serverRest, commitRest, Goes,
            Fails, Goto, Leave, Forget
<1>0. ControlOK /\ RunTypes /\ PlanTypes
  BY DEF Typed, Inv, DataTypes
<1> USE <1>0 DEF ControlOK, RunTypes, PlanTypes
<1>1. ASSUME NEW s \in Side, Recover(s) PROVE Outcomes
  BY <1>1 DEF Outcomes, Alive, Recover
<1>2. ASSUME NEW s \in Side, NEW p \in Paths, Write(s, p) PROVE Outcomes
  BY <1>2 DEF Outcomes, Alive, Write, Edited
<1>3. ASSUME NEW s \in Side, NEW p \in Paths, Delete(s, p) PROVE Outcomes
  BY <1>3 DEF Outcomes, Alive, Delete, Edited
<1>4. ASSUME NEW r \in Runs, Start(r) PROVE Outcomes
  BY <1>4 DEF Outcomes, Alive, Start
<1>5. ASSUME NEW r \in Runs, Interrupt(r) PROVE Outcomes
  BY <1>5 DEF Outcomes, Alive, Interrupt
<1>6. ASSUME NEW r \in Runs, ClientDies(r) PROVE Outcomes
  BY <1>6 DEF Outcomes, Alive, ClientDies
<1>7. ASSUME NEW r \in Runs, ServerDies(r) PROVE Outcomes
  BY <1>7 DEF Outcomes, Alive, ServerDies
<1>8. ASSUME NEW r \in Runs, Disconnect(r) PROVE Outcomes
  BY <1>8 DEF Outcomes, Alive, Disconnect
<1> QED BY <1>1, <1>2, <1>3, <1>4, <1>5, <1>6, <1>7, <1>8 DEF Environment

LEMMA NextOutcomes == Typed /\ [Next]_vars => Outcomes
<1>1. UNCHANGED vars => Outcomes
  BY DEF vars, histVars, planVars, Outcomes, Alive
<1> QED BY <1>1, ClientOutcomes, OtherOutcomes, EnvironmentOutcomes DEF Next

\* Where nobody edited since the run began to read, a side holds what the run
\* saw, or what it took over.
Untouched ==
  \A r \in Runs : Alive(r) =>
    \A s \in Side : \A p \in Paths \ dirty[r] :
      seen[r][s][p] # Unread /\ p \notin doubtful[r][s] =>
        tree[s][p] = IF p \in taken[r][s] THEN NewEntry(r, p, s) ELSE seen[r][s][p]

\* No change is left out of a plan.
AllPlanned ==
  \A r \in Runs : Alive(r) /\ pc[r] # "scan" =>
    \A p \in Paths : act[r][p] = "none" => \A s \in Side : ~Changed(r, s, p)

\* A plan is made with every change, and kept.
LEMMA NextAllPlanned ==
  ASSUME Typed, WaveOrder, RunData, Outcomes, AllPlanned, [Next]_vars
  PROVE  AllPlanned'
<1> SUFFICES ASSUME NEW q \in Runs, Alive(q)', pc'[q] # "scan", NEW p \in Paths, act'[q][p] = "none", NEW s \in Side
             PROVE  ~Changed(q, s, p)'
  BY DEF AllPlanned
<1>1. ASSUME Alive(q), pc[q] # "scan", act'[q] = act[q], old'[q] = old[q], seen'[q] = seen[q]
      PROVE  ~Changed(q, s, p)'
  BY <1>1 DEF AllPlanned, Changed
<1>2. ASSUME NEW r \in Runs, Turn(r), DataTurn(r), q # r PROVE ~Changed(q, s, p)'
  BY <1>1, <1>2 DEF Turn, Others, Alive
<1>3. ASSUME Turn(q), DataTurn(q) PROVE ~Changed(q, s, p)'
  <2>1. CASE Plans(q)
    <3>1. ActionFor(q, p) = "none" /\ old'[q] = old[q] /\ seen'[q] = seen[q]
      BY <2>1 DEF Plans, Outcomes
    <3>2. ~Changed(q, s, p)
      BY <3>1 DEF ActionFor, ChangeAt, Change, Changed, Side
    <3> QED BY <3>1, <3>2 DEF Changed
  <2>2. CASE ~Plans(q)
    <3>1. Alive(q) /\ pc[q] # "scan"
      BY <1>3, <2>2, Sides DEF Turn, ClientTurn, DataTurn, PlanTurn, Live, Alive
    <3>2. act'[q] = act[q] /\ old'[q] = old[q] /\ seen'[q] = seen[q]
      BY <1>3, <2>2, <3>1, Sides DEF DataTurn, PlanTurn, Live
    <3> QED BY <1>1, <3>1, <3>2
  <2> QED BY <2>1, <2>2
<1>4. Unmoved => ~Changed(q, s, p)'
  BY <1>1 DEF Unmoved, Alive
<1>5. ASSUME NEW t \in Side, NEW x \in Paths, Write(t, x) \/ Delete(t, x) PROVE Unmoved
  BY <1>5, Edits DEF EditOf
<1>6. ASSUME NEW t \in Side, Recover(t) PROVE Unmoved
  BY <1>6 DEF Recover, Unmoved, planVars, callVars, comVars
<1>7. UNCHANGED vars => Unmoved
  BY DEF vars, Unmoved, diskVars, planVars, callVars, comVars
<1> QED BY <1>2, <1>3, <1>4, <1>5, <1>6, <1>7, NextTurns

\* A run's own turn keeps what it has not touched, and moves the rest to taken.
LEMMA TurnUntouched ==
  ASSUME Typed, Typed', WaveOrder, RunData, Reading, Serial, Untouched, NEW r \in Runs, Turn(r), DataTurn(r),
         Alive(r)', NEW s \in Side, NEW p \in Paths, Alive(r) => p \notin dirty[r],
         seen'[r][s][p] # Unread, p \notin doubtful'[r][s]
  PROVE  tree'[s][p] = IF p \in taken'[r][s] THEN NewEntry(r, p, s)' ELSE seen'[r][s][p]
<1> HIDE DEF taken, doubtful
<1>0. Live(r, s)' /\ pc[r] \notin {"over", "panic"}
  BY DEF Live, Alive, Turn, ClientTurn
<1>1. CASE pc[r] = "idle" \/ (pc[r] = "scan" /\ pc'[r] = "scan") \/ Plans(r)
  <2>1. taken[r][s] = {} /\ doubtful[r][s] = {} /\ taken'[r][s] = {}
    <3>1. CASE Plans(r)
      BY <3>1, PlanTaken
    <3>2. CASE ~Plans(r)
      <4>1. pc[r] \in {"idle", "scan"} /\ taken[r][s] = {} /\ doubtful[r][s] = {}
        BY <1>1, <3>2, ScanTaken
      <4>2. pc'[r] = "scan" /\ act'[r] = NoAction
        BY <1>0, <1>1, <3>2 DEF Turn, ClientTurn, Alive, Typed, ReadFirst
      <4>3. \A x \in Paths : ~Towards(r, x, s)'
        BY <4>2 DEF Towards, NoAction
      <4>4. taken'[r][s] = {}
        BY <4>3 DEF taken
      <4> QED BY <4>1, <4>4
    <3> QED BY <3>1, <3>2
  <2>2. UNCHANGED tree
    <3>1. \A t \in Side, x \in Paths : ~Publishes(r, t, x)
      BY <1>1 DEF Publishes, WaveOrder, InOrder, Plans
    <3> QED BY <3>1 DEF DataTurn, TreeTurn
  <2>3. CASE seen'[r][s][p] # seen[r][s][p]
    <3>1. seen'[r][s][p] = tree[s][p]
      BY <2>3 DEF Reading
    <3> QED BY <2>1, <2>2, <3>1
  <2>4. CASE seen'[r][s][p] = seen[r][s][p]
    <3>1. pc[r] # "idle"
      BY <2>4 DEF Typed, ReadFirst, Serial, LoadedReady
    <3>2. Alive(r)
      BY <1>0, <3>1 DEF Alive
    <3> QED BY <2>1, <2>2, <2>4, <3>2 DEF Untouched
  <2> QED BY <2>3, <2>4
<1>2. CASE ~(pc[r] = "idle" \/ (pc[r] = "scan" /\ pc'[r] = "scan") \/ Plans(r))
  <2>1. Alive(r) /\ pc[r] # "scan"
    BY <1>0, <1>2 DEF Alive, DataTurn, PlanTurn, Turn, ClientTurn
  <2>2. act'[r] = act[r] /\ seen'[r] = seen[r] /\ CommitTurn(r, s)
    BY <1>0, <1>2, <2>1 DEF DataTurn, PlanTurn
  <2>3. /\ doubtful[r][s] \subseteq doubtful'[r][s]
        /\ taken[r][s] \subseteq taken'[r][s] \cup doubtful'[r][s]
        /\ \A x \in taken'[r][s] : x \in taken[r][s] \/ Publishes(r, s, x)
    BY <2>2, CommitTaken
  <2>4. NewEntry(r, p, s)' = NewEntry(r, p, s)
    BY <2>2 DEF NewEntry
  <2>5. CASE Publishes(r, s, p)
    <3>1. tree'[s][p] = NewEntry(r, p, s)
      BY <2>5 DEF Publishes, Typed, DataTypes, DiskTypes
    <3>2. p \in taken'[r][s]
      BY <2>5, PublishedKnown
    <3> QED BY <2>4, <3>1, <3>2
  <2>6. CASE ~Publishes(r, s, p)
    <3>1. tree'[s][p] = tree[s][p]
      <4>1. ASSUME NEW t \in Side, NEW x \in Paths, Publishes(r, t, x) PROVE tree'[s][p] = tree[s][p]
        <5>1. t # s \/ x # p
          BY <2>6, <4>1
        <5> QED BY <4>1, <5>1 DEF Publishes, Typed, DataTypes, DiskTypes
      <4> QED BY <4>1 DEF DataTurn, TreeTurn
    <3>2. p \in taken'[r][s] <=> p \in taken[r][s]
      BY <2>3, <2>6
    <3>3. tree[s][p] = IF p \in taken[r][s] THEN NewEntry(r, p, s) ELSE seen[r][s][p]
      BY <2>1, <2>2, <2>3 DEF Untouched
    <3> QED BY <2>2, <2>4, <3>1, <3>2, <3>3
  <2> QED BY <2>5, <2>6
<1> QED BY <1>1, <1>2

\* Only the run itself and the user, whose edits are remembered, touch a side
\* after a live run has read it.
LEMMA NextUntouched ==
  ASSUME Typed, Typed', WaveOrder, RunData, Reading, Serial, Outcomes, Untouched, [Next]_vars
  PROVE  Untouched'
<1> SUFFICES ASSUME NEW q \in Runs, Alive(q)', NEW s \in Side, NEW p \in Paths, p \notin dirty'[q],
                    seen'[q][s][p] # Unread, p \notin doubtful'[q][s]
             PROVE  tree'[s][p] = IF p \in taken'[q][s] THEN NewEntry(q, p, s)' ELSE seen'[q][s][p]
  BY DEF Untouched
<1> HIDE DEF taken, doubtful
<1>0. p \notin dirty[q]
  BY DEF Outcomes
<1>1. ASSUME Alive(q), tree'[s][p] = tree[s][p], act'[q] = act[q], seen'[q] = seen[q],
             todo'[q] = todo[q], group'[q] = group[q], com'[q] = com[q], left'[q] = left[q]
      PROVE  tree'[s][p] = IF p \in taken'[q][s] THEN NewEntry(q, p, s)' ELSE seen'[q][s][p]
  <2>1. taken'[q] = taken[q] /\ doubtful'[q] = doubtful[q]
    BY <1>1, SameTaken
  <2>2. NewEntry(q, p, s)' = NewEntry(q, p, s)
    BY <1>1 DEF NewEntry
  <2>3. tree[s][p] = IF p \in taken[q][s] THEN NewEntry(q, p, s) ELSE seen[q][s][p]
    BY <1>0, <1>1, <2>1 DEF Untouched
  <2> QED BY <1>1, <2>1, <2>2, <2>3
<1>2. ASSUME NEW r \in Runs, Turn(r), DataTurn(r), q # r
      PROVE  tree'[s][p] = IF p \in taken'[q][s] THEN NewEntry(q, p, s)' ELSE seen'[q][s][p]
  <2>1. Alive(q) /\ seen'[q] = seen[q]
    BY <1>2 DEF Turn, Others, Alive
  <2>2. tree'[s][p] = tree[s][p]
    <3>1. ASSUME NEW t \in Side, NEW x \in Paths, Publishes(r, t, x) PROVE tree'[s][p] = tree[s][p]
      <4>1. t = Remote /\ seen[q][Remote][p] = Unread
        BY <1>2, <2>1, <3>1, OtherPublish
      <4>2. s # t
        BY <2>1, <4>1
      <4> QED BY <3>1, <4>2 DEF Publishes, Typed, DataTypes, DiskTypes
    <3> QED BY <1>2, <3>1 DEF DataTurn, TreeTurn
  <2> QED BY <1>1, <1>2, <2>1, <2>2 DEF Turn, Others
<1>3. ASSUME Turn(q), DataTurn(q)
      PROVE  tree'[s][p] = IF p \in taken'[q][s] THEN NewEntry(q, p, s)' ELSE seen'[q][s][p]
  BY <1>0, <1>3, TurnUntouched
<1>4. ASSUME NEW t \in Side, NEW x \in Paths, Write(t, x) \/ Delete(t, x)
      PROVE  tree'[s][p] = IF p \in taken'[q][s] THEN NewEntry(q, p, s)' ELSE seen'[q][s][p]
  <2>1. EditOf(t, x)
    BY <1>4, Edits
  <2>2. Alive(q)
    BY <2>1 DEF EditOf, Unmoved, Alive
  <2>3. x \in dirty'[q]
    BY <1>4, <2>2 DEF Write, Delete, Edited
  <2>4. tree'[s][p] = tree[s][p]
    BY <2>1, <2>3 DEF EditOf
  <2> QED BY <1>1, <2>1, <2>2, <2>4 DEF EditOf, Unmoved
<1>5. ASSUME Unmoved, UNCHANGED tree
      PROVE  tree'[s][p] = IF p \in taken'[q][s] THEN NewEntry(q, p, s)' ELSE seen'[q][s][p]
  BY <1>1, <1>5 DEF Unmoved, Alive
<1>6. ASSUME NEW t \in Side, Recover(t) PROVE Unmoved /\ UNCHANGED tree
  BY <1>6 DEF Recover, Unmoved, planVars, callVars, comVars
<1>7. UNCHANGED vars => Unmoved /\ UNCHANGED tree
  BY DEF vars, Unmoved, diskVars, planVars, callVars, comVars
<1> QED BY <1>2, <1>3, <1>4, <1>5, <1>6, <1>7, NextTurns

\* A run that concludes leaves both sides the same where nobody edited, but for
\* the conflicts it was to leave.
LEMMA ConcludesEqual ==
  ASSUME Alone, Untouched, AllPlanned, ~forced, NEW r \in Runs, Concludes(r),
         NEW p \in Paths \ dirty[r], act[r][p] # "conflict"
  PROVE  tree[Local][p] = tree[Remote][p]
<1> HIDE DEF taken, doubtful
<1>0. /\ Typed /\ WaveOrder /\ OwnMarkers /\ RunData /\ Serial /\ Agreed /\ Base
      /\ Alive(r) /\ Local \in Side /\ Remote \in Side
  BY Sides DEF Alone, Orderly, Concludes, Alive
<1>1. CASE pc[r] = "scan" /\ AllRead(r) /\ \A x \in Paths : ActionFor(r, x) = "none"
  <2>1. \A s \in Side : seen[r][s][p] # Unread /\ p \notin taken[r][s] \cup doubtful[r][s]
    BY <1>0, <1>1, ScanTaken DEF AllRead
  <2>2. \A s \in Side : tree[s][p] = seen[r][s][p]
    BY <1>0, <2>1 DEF Untouched
  <2>3. \A s \in Side : seen[r][s][p] = old[r][s][p]
    BY <1>1 DEF ActionFor, ChangeAt, Change, Side
  <2>4. old[r][Local][p] = old[r][Remote][p]
    BY <1>0, <1>1, OneBaseline
  <2> QED BY <1>0, <2>2, <2>3, <2>4
<1>2. CASE pc[r] = "finishMarker" /\ todo[r] \subseteq group[r]
  <2>1. \A s \in Side : com[r][s] = "done"
    BY <1>0, <1>2 DEF WaveOrder, InOrder
  <2>2. \A s \in Side : p \notin doubtful[r][s] /\ (p \in taken[r][s] <=> Towards(r, p, s))
    BY <1>2, <2>1 DEF doubtful, taken
  <2>3. \A s \in Side : seen[r][s][p] # Unread
    BY <1>0, <1>2 DEF Typed, ReadFirst, Read
  <2>4. \A s \in Side : tree[s][p] = IF Towards(r, p, s) THEN NewEntry(r, p, s) ELSE seen[r][s][p]
    BY <1>0, <2>2, <2>3 DEF Untouched
  <2>5. act[r][p] = "none" => seen[r][Local][p] = seen[r][Remote][p]
    <3>1. old[r][Local][p] = old[r][Remote][p]
      BY <1>0, <1>2 DEF Base, BaseOf, SnapOf
    <3> QED BY <1>0, <1>2, <3>1 DEF AllPlanned, Changed
  <2>6. act[r][p] = "identical" => seen[r][Local][p] = seen[r][Remote][p]
    BY <1>0 DEF RunData, DataOf, PlanOf
  <2>7. act[r][p] \in Action
    BY <1>0 DEF Typed, DataTypes, PlanTypes
  <2>8. CASE act[r][p] \in {"none", "identical"}
    BY <1>0, <2>4, <2>5, <2>6, <2>8 DEF Towards
  <2>9. CASE act[r][p] \in {"toLocal", "resolvedToLocal"}
    <3>1. Towards(r, p, Local) /\ ~Towards(r, p, Remote) /\ NewEntry(r, p, Local) = seen[r][Remote][p]
      BY <2>9 DEF Towards, NewEntry, Other, Local, Remote
    <3> QED BY <1>0, <2>4, <3>1
  <2>10. CASE act[r][p] \in {"toRemote", "resolvedToRemote"}
    <3>1. Towards(r, p, Remote) /\ ~Towards(r, p, Local) /\ NewEntry(r, p, Remote) = seen[r][Local][p]
      BY <2>10 DEF Towards, NewEntry, Other, Local, Remote
    <3> QED BY <1>0, <2>4, <3>1
  <2> QED BY <2>7, <2>8, <2>9, <2>10 DEF Action
<1> QED BY <1>1, <1>2 DEF Concludes

\* A run that reports success leaves both sides the same wherever nobody edited
\* since it began to read, unless the user left a conflict there.
THEOREM SuccessMeansEqual == ASSUME ~AllowConcurrent PROVE Spec => SuccessConverges
<1> DEFINE Whole == Alone /\ Untouched /\ AllPlanned
           Equal == \A r \in Runs : out[r] = "none" /\ out'[r] = "success" /\ ~forced =>
                      \A p \in Paths \ dirty[r] : act[r][p] = "conflict" \/ tree[Local][p] = tree[Remote][p]
<1>1. Init => Whole
  <2>1. Init => Untouched /\ AllPlanned
    BY DEF Init, Untouched, AllPlanned, Alive
  <2> QED BY <2>1, InitAlone
<1>2. Whole /\ [Next]_vars => Whole'
  <2> SUFFICES ASSUME Whole, [Next]_vars PROVE Whole'
    OBVIOUS
  <2>1. /\ Typed /\ WaveOrder /\ OwnMarkers /\ Knowledge /\ RunData /\ Serial
        /\ Alone' /\ Typed'
    BY NextAlone DEF Alone
  <2>2. Reading /\ Outcomes
    BY <2>1, NextReading, NextOutcomes
  <2> QED BY <2>1, <2>2, NextUntouched, NextAllPlanned
<1>3. Whole /\ [Next]_vars => [Equal]_vars
  <2> SUFFICES ASSUME Whole, [Next]_vars, NEW r \in Runs, out[r] = "none", out'[r] = "success", ~forced,
                      NEW p \in Paths \ dirty[r], act[r][p] # "conflict"
               PROVE  tree[Local][p] = tree[Remote][p]
    OBVIOUS
  <2>1. Concludes(r)
    BY NextOutcomes DEF Alone, Outcomes
  <2> QED BY <2>1, ConcludesEqual
<1> HIDE DEF Whole, Equal
<1>4. Spec => [][Equal]_vars
  BY <1>1, <1>2, <1>3, PTL DEF Spec
<1> QED BY <1>4 DEF SuccessConverges, Equal
=============================================================================
