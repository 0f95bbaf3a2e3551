-------------------------- MODULE UvcBackendProofs --------------------------
(***************************************************************************)
(* Theorems about UvcBackend, for any number of inspections, commands and  *)
(* reads.  Every step of the backend is a step or a stutter of             *)
(* CommandWorker, so CWInv holds here too.  With it, BackendInv says what  *)
(* each step of a command has done to the stream, which events may still   *)
(* be under way for the active one, and what the client knows of the       *)
(* commands it has left behind.                                            *)
(***************************************************************************)
EXTENDS UvcBackend, CommandWorkerProofs

\* Where the client's thread is in each stage; the worker is spawned once.
StageInv ==
  /\ stage = "new" => issued = 0 /\ pc[client] = "idle" /\ wpc = "none"
  /\ stage = "starting" => pc[client] \in {"start_wait", "start_join"}
  /\ Calling => pc[client] \in {"idle", "submit_wait"}
  /\ stage \in {"ready", "failed", "closed"} => pc[client] = "idle"
  /\ stage = "closing" => pc[client] = "stop_join"
  /\ submitted_sequence = issued

\* A command that has an outcome has run; the client waits for the last one.
RequestInv ==
  /\ \A k \in Commands :
       /\ outcome[k] # "none" => k \in executed
       /\ outcome[k] = "frame" => request[k].kind = "capture"
  /\ pc[client] = "submit_wait" =>
       /\ Calling /\ mine[client].command = issued
       /\ request[issued].kind = KindOf(stage)
  /\ pc[client] # "submit_wait" => mine[client] = NoEntry

\* COM and Media Foundation run exactly as long as a worker that has started.
LifetimeInv ==
  /\ wpc \in {"none", "startup", "end", "done"} =>
       ~com_initialized /\ ~mf_started /\ ~reader /\ ~open /\ generation = 0
  /\ wpc \in {"loop", "run", "complete"} => mf_started
  /\ reader => mf_started
  /\ mf_started => com_initialized

\* What each step of a command has made of the stream.
StreamInv ==
  /\ step # "begin" => Busy
  /\ step \in {"begin", "again", "wait", "flush"} =>
       (open <=> generation # 0) /\ (open <=> reader)
  /\ step \in {"again", "wait", "flush"} =>
       open /\ ~needs_reconnect /\ Request.kind = "capture"
  /\ step = "activate" => generation = 0
  /\ step = "format" => generation # 0
  /\ step \in {"activate", "format"} =>
       /\ ~open /\ ~reader /\ ~needs_reconnect
       /\ Request.kind \in {"open", "reconnect"}
  /\ generation <= next_generation

\* After a successful open the backend knows the camera for ever.
IdentityInv ==
  /\ \A k \in Commands :
       request[k].kind \in {"open", "reconnect"} /\ outcome[k] = "ok" => identity
  /\ stage \in {"ready", "first", "reconnect", "second", "settle"} => identity

\* No event is under way for a stream still to come.
KnownStreams ==
  /\ \A p \in pending : p.stream <= next_generation
  /\ \A e \in accepted : e.stream <= next_generation

\* The active stream has no event under way where a read may be issued ...
QuietInv ==
  generation # 0 /\ step \notin {"wait", "flush"} /\ ~needs_reconnect =>
    /\ \A p \in pending : p.stream # generation
    /\ \A e \in accepted : e.stream # generation

\* ... and in the wait at most one: requested, accepted or arrived.
AwaitedInv ==
  step = "wait" =>
    /\ arrived # NoEvent => arrived.read = reads
    /\ \A p \in pending : p.stream = generation =>
         /\ p.read = reads /\ arrived = NoEvent
         /\ \A e \in accepted : e.stream # generation
    /\ \A e \in accepted : e.stream = generation =>
         /\ e.read = reads /\ arrived = NoEvent
         /\ \A f \in accepted : f.stream = generation => f = e

ReadInv ==
  /\ step \in {"wait", "again"} => since < reads
  /\ KnownStreams
  /\ QuietInv
  /\ AwaitedInv

\* The last command submitted has opened a stream, and nothing ran since.
Connected(k) ==
  k # 0 /\ request[k].kind \in {"open", "reconnect"} /\ outcome[k] = "ok"

Usable == wpc \in {"loop", "run", "complete"} => open /\ ~needs_reconnect

\* Nothing runs between the reconnect that succeeded and its recapture.
RecaptureInv ==
  /\ Connected(issued) => Usable
  /\ stage = "second" /\ pc[client] = "idle" => Connected(issued)
  /\ stage = "second" /\ pc[client] = "submit_wait" =>
       /\ issued - 1 \in executed
       /\ issued \notin executed /\ step = "begin" => Usable

BackendInv ==
  /\ BackendTypeOK
  /\ StageInv
  /\ RequestInv
  /\ LifetimeInv
  /\ StreamInv
  /\ IdentityInv
  /\ ReadInv
  /\ RecaptureInv

-----------------------------------------------------------------------------
(***************************************************************************)
(* The backend's steps are all that happens to CommandWorker's variables.  *)
(***************************************************************************)
LEMMA ClientIsCaller == client \in Callers /\ Callers = {client}
  BY BackendBounds DEF client

LEMMA ClientRefines ==
  ASSUME ClientStep \/ BeginInspection \/ Close \/ Tick
  PROVE  [Next]_vars
<1> USE ClientIsCaller DEF Next, CallerNext, CallerReturn
<1>1. CASE Construct \/ Constructed \/ Call \/ CallRefused
  BY <1>1 DEF Construct, Constructed, Call, CallRefused
<1>2. CASE CallReturns \/ Closed \/ Close
  BY <1>2 DEF CallReturns, Closed, Close
<1>3. CASE BeginInspection \/ Tick
  BY <1>3 DEF BeginInspection, Tick
<1>4. QED
  BY <1>1, <1>2, <1>3 DEF ClientStep

\* Every step inside a command keeps the worker where it is or is WorkerRun.
LEMMA CommandRefines ==
  ASSUME \/ Enumerate \/ Activate \/ ActivateFails \/ BeginStream \/ StreamFails
         \/ StreamStarts \/ CaptureRefused \/ IssueRead \/ IssueFails \/ CaptureFrame
         \/ CaptureBreaks \/ CaptureTick \/ CaptureTimeout \/ CaptureGivesUp
  PROVE  WorkerRun \/ UNCHANGED vars
  BY DEF Enumerate, Activate, ActivateFails, BeginStream, StreamFails, StreamStarts,
     CaptureRefused, IssueRead, IssueFails, CaptureFrame, CaptureBreaks, CaptureTick,
     CaptureTimeout, CaptureGivesUp, Finish, Proceed

LEMMA BackendRefinesStep == [BackendNext]_allVars => [Next]_vars
<1> SUFFICES ASSUME [BackendNext]_allVars PROVE [Next]_vars
  OBVIOUS
<1>1. CASE ClientStep \/ BeginInspection \/ Close \/ Tick
  BY <1>1, ClientRefines
<1>2. CASE Startup
  <2>1. WorkerStartup(mf_started') /\ mf_started' \in BOOLEAN
    BY <1>2 DEF Startup
  <2>2. QED
    BY <2>1 DEF Next, WorkerNext
<1>3. CASE Teardown \/ Marshal
  BY <1>3 DEF Teardown, Marshal, Next, WorkerNext
<1>4. CASE \/ Enumerate \/ Activate \/ ActivateFails \/ BeginStream \/ StreamFails
           \/ StreamStarts \/ CaptureRefused \/ IssueRead \/ IssueFails \/ CaptureFrame
           \/ CaptureBreaks \/ CaptureTick \/ CaptureTimeout \/ CaptureGivesUp
  BY <1>4, CommandRefines DEF Next, WorkerNext
<1>5. CASE OnReadSample \/ CompleteRead
  BY <1>5 DEF OnReadSample, CompleteRead
<1>6. CASE UNCHANGED allVars
  BY <1>6 DEF allVars
<1>7. QED
  BY <1>1, <1>2, <1>3, <1>4, <1>5, <1>6 DEF BackendNext, WorkerStep

\* What CommandWorker guarantees, it guarantees to the backend.
LEMMA WorkerInvariance == BackendSpec => []CWInv
<1>1. BackendInit => Init
  BY DEF BackendInit
<1>2. CWInv /\ [BackendNext]_allVars => CWInv'
  BY BackendRefinesStep, TypeStep, LifecycleStep, CommandStep DEF CWInv
<1>3. QED
  BY <1>1, <1>2, CWInvInit, PTL DEF BackendSpec

-----------------------------------------------------------------------------
(***************************************************************************)
(* What each side leaves alone.                                            *)
(***************************************************************************)
LEMMA ClientFrame ==
  ASSUME ClientStep \/ BeginInspection \/ Close \/ Tick
  PROVE  /\ UNCHANGED <<outcome, step, lifetimeVars, streamVars, readVars, eventVars>>
         /\ UNCHANGED <<executed, current>>
<1> USE DEF commandVars, lifetimeVars, streamVars, readVars, eventVars, clientVars,
        shared, callers, worker, history
<1>1. CASE Construct \/ Constructed
  BY <1>1 DEF Construct, Constructed, StartSpawn, StartResolved, StartTimeout, StartJoin
<1>2. CASE Call \/ CallRefused
  BY <1>2 DEF Call, CallRefused, SubmitQueued, vars
<1>3. CASE CallReturns \/ Closed \/ Close
  BY <1>3 DEF CallReturns, Closed, Close, SubmitReturns, StopJoin, StopSignal
<1>4. CASE BeginInspection \/ Tick
  BY <1>4 DEF BeginInspection, Tick, vars
<1>5. QED
  BY <1>1, <1>2, <1>3, <1>4 DEF ClientStep

LEMMA WorkerFrame ==
  ASSUME WorkerStep
  PROVE  /\ UNCHANGED <<clientVars, request, callers, issued, submitted_sequence, starts>>
         /\ wpc # "none" /\ wpc' # "none"
<1> USE DEF commandVars, clientVars, shared, callers, worker, history
<1>1. CASE Startup \/ Teardown
  BY <1>1 DEF Startup, Teardown, WorkerStartup, WorkerTeardown
<1>2. CASE Marshal
  BY <1>2 DEF Marshal, WorkerTake, WorkerStop, WorkerComplete, WorkerLeave, WorkerEnd
<1>3. CASE Enumerate \/ Activate \/ ActivateFails \/ BeginStream \/ StreamFails
  BY <1>3 DEF Enumerate, Activate, ActivateFails, BeginStream, StreamFails, Finish,
     Proceed, WorkerRun, Busy, vars
<1>4. CASE StreamStarts \/ CaptureRefused \/ IssueRead \/ IssueFails
  BY <1>4 DEF StreamStarts, CaptureRefused, IssueRead, IssueFails, CanRead, Finish,
     Proceed, WorkerRun, Busy, vars
<1>5. CASE CaptureFrame \/ CaptureBreaks \/ CaptureTick \/ CaptureTimeout \/ CaptureGivesUp
  BY <1>5 DEF CaptureFrame, CaptureBreaks, CaptureTick, CaptureTimeout, CaptureGivesUp,
     Woken, Finish, Proceed, WorkerRun, Busy, vars
<1>6. QED
  BY <1>1, <1>2, <1>3, <1>4, <1>5 DEF WorkerStep

LEMMA EventFrame ==
  ASSUME OnReadSample \/ CompleteRead
  PROVE  UNCHANGED <<vars, clientVars, commandVars, lifetimeVars, streamVars, readVars>>
  BY DEF OnReadSample, CompleteRead

\* What may follow a call.
LEMMA StagesAfter ==
  ASSUME NEW result, NEW s \in NextStages(result)
  PROVE  /\ s \in {"settle", "ready", "reconnect", "second", "open", "failed"}
         /\ s = "open" => stage = "enumerate"
         /\ s = "second" => stage = "reconnect" /\ result = "ok"
         /\ s \notin {"open", "failed"} /\ result # "frame" /\ stage = "open"
              => result = "ok"
         /\ stage = "enumerate" /\ result # "frame" => s \in {"open", "failed"}
  BY Zenon DEF NextStages

-----------------------------------------------------------------------------
LEMMA BackendInvInit == BackendInit => BackendInv
<1> SUFFICES ASSUME BackendInit PROVE BackendInv
  OBVIOUS
<1> USE DEF BackendInit
<1>1. TypeOK
  BY CWInvInit DEF CWInv
<1>2. BackendTypeOK
  <2>1. NoEvent \in [read : 0 .. MaxReads, what : Events \cup {"none"}]
    BY BackendBounds DEF NoEvent
  <2>2. NoRequest \in [kind : Kinds \cup {"none"}, due : Inspections]
    BY BackendBounds DEF NoRequest, Inspections
  <2>3. 0 \in Inspections /\ 0 \in 0 .. MaxReads
    BY BackendBounds DEF Inspections
  <2>4. QED
    BY <1>1, <2>1, <2>2, <2>3 DEF BackendTypeOK, Outcomes, Steps
<1>3. StageInv /\ RequestInv /\ LifetimeInv
  BY ClientIsCaller DEF Init, StageInv, RequestInv, LifetimeInv, Calling
<1>4. StreamInv /\ IdentityInv /\ ReadInv /\ RecaptureInv
  BY ClientIsCaller DEF Init, StreamInv, IdentityInv, ReadInv, KnownStreams, QuietInv,
     AwaitedInv, RecaptureInv, Connected, NoRequest
<1>5. QED
  BY <1>2, <1>3, <1>4 DEF BackendInv

\* A command's step ends the command or moves it on.
InCommand ==
  \/ Enumerate \/ Activate \/ ActivateFails \/ BeginStream \/ StreamFails
  \/ StreamStarts \/ CaptureRefused \/ IssueRead \/ IssueFails \/ CaptureFrame
  \/ CaptureBreaks \/ CaptureTick \/ CaptureTimeout \/ CaptureGivesUp

LEMMA CommandEnds ==
  ASSUME StreamInv, InCommand
  PROVE  /\ Busy
         /\ \/ \E next \in Steps \ {"begin"} : Proceed(next)
            \/ \E result \in Outcomes \ {"none"} :
                 /\ Finish(result)
                 /\ result = "frame" => Request.kind = "capture"
                 /\ result = "ok" => StreamStarts \/ Request.kind = "enumerate"
<1> DEFINE Goal == \/ \E next \in Steps \ {"begin"} : Proceed(next)
                   \/ \E result \in Outcomes \ {"none"} :
                        /\ Finish(result)
                        /\ result = "frame" => Request.kind = "capture"
                        /\ result = "ok" => StreamStarts \/ Request.kind = "enumerate"
<1> USE DEF Steps, Outcomes
<1>1. CASE Enumerate
  BY <1>1 DEF Enumerate
<1>2. CASE Activate
  BY <1>2 DEF Activate
<1>3. CASE ActivateFails \/ StreamFails
  BY <1>3 DEF ActivateFails, StreamFails, Failure
<1>4. CASE BeginStream \/ CaptureTimeout
  BY <1>4 DEF BeginStream, CaptureTimeout
<1>5. CASE StreamStarts
  BY <1>5 DEF StreamStarts
<1>6. CASE CaptureRefused \/ IssueFails
  BY <1>6 DEF CaptureRefused, IssueFails, CanRead
<1>7. CASE IssueRead
  BY <1>7 DEF IssueRead, CanRead
<1>8. CASE CaptureFrame
  BY <1>8 DEF CaptureFrame, Woken, StreamInv
<1>9. CASE CaptureBreaks \/ CaptureTick \/ CaptureGivesUp
  BY <1>9 DEF CaptureBreaks, CaptureTick, CaptureGivesUp, Woken
<1>10. QED
  BY <1>1, <1>2, <1>3, <1>4, <1>5, <1>6, <1>7, <1>8, <1>9 DEF InCommand

\* A command leaves the client, the requests and the worker's lifetime alone,
\* and sets at most its own outcome, when it ends.
LEMMA CommandFrame ==
  ASSUME StreamInv, InCommand
  PROVE  /\ UNCHANGED <<clientVars, request, lifetimeVars, issued, starts, callers,
                        submitted_sequence, completed_sequence, current>>
         /\ wpc = "run" /\ wpc' \in {"run", "complete"}
         /\ wpc' = "run" => UNCHANGED <<outcome, executed>> /\ step' \in Steps \ {"begin"}
         /\ wpc' = "complete" =>
              /\ step' = "begin"
              /\ executed' = executed \cup {current.command}
              /\ \E result \in Outcomes \ {"none"} :
                   /\ outcome' = [outcome EXCEPT ![current.command] = result]
                   /\ result = "frame" => Request.kind = "capture"
                   /\ result = "ok" => StreamStarts \/ Request.kind = "enumerate"
<1>1. ASSUME NEW next \in Steps \ {"begin"}, Busy, Proceed(next)
      PROVE  /\ UNCHANGED <<clientVars, request, lifetimeVars, vars, outcome>>
             /\ step' = next /\ wpc = "run" /\ wpc' = "run"
  BY <1>1 DEF Proceed, Busy, vars, worker
<1>2. ASSUME NEW result, Busy, Finish(result)
      PROVE  /\ UNCHANGED <<clientVars, request, lifetimeVars, shared, callers, current,
                            issued, starts>>
             /\ wpc = "run" /\ wpc' = "complete" /\ step' = "begin"
             /\ executed' = executed \cup {current.command}
             /\ outcome' = [outcome EXCEPT ![current.command] = result]
  BY <1>2 DEF Finish, WorkerRun, Busy
<1>3. QED
  BY <1>1, <1>2, CommandEnds DEF vars, shared, callers, worker, history

LEMMA CommandTypes ==
  ASSUME BackendInv, InCommand
  PROVE  outcome' \in [Commands -> Outcomes] /\ step' \in Steps
<1>1. CASE wpc' = "run"
  BY <1>1, CommandFrame DEF BackendInv, BackendTypeOK
<1>2. CASE wpc' = "complete"
  <2>1. PICK result \in Outcomes :
          outcome' = [outcome EXCEPT ![current.command] = result]
    BY <1>2, CommandFrame DEF BackendInv
  <2>2. QED
    BY <1>2, <2>1, CommandFrame DEF BackendInv, BackendTypeOK, Steps
<1>3. QED
  BY <1>1, <1>2, CommandFrame DEF BackendInv

\* The types of what a command does to the stream and its reads.
StreamTyped ==
  /\ generation \in Nat /\ next_generation \in Nat
  /\ reader \in BOOLEAN /\ open \in BOOLEAN
  /\ needs_reconnect \in BOOLEAN /\ identity \in BOOLEAN

ReadTyped ==
  /\ since \in 0 .. MaxReads /\ reads \in 0 .. MaxReads
  /\ pending \in SUBSET [stream : Nat, read : 1 .. MaxReads]
  /\ accepted \in SUBSET [stream : Nat, read : 1 .. MaxReads, what : Events]
  /\ arrived \in [read : 0 .. MaxReads, what : Events \cup {"none"}]

LEMMA NoEventTyped == NoEvent \in [read : 0 .. MaxReads, what : Events \cup {"none"}]
  BY BackendBounds DEF NoEvent

LEMMA TeardownTyped ==
  ASSUME StreamTyped, ReadTyped, TeardownStream, UNCHANGED readVars
  PROVE  StreamTyped' /\ ReadTyped'
  BY NoEventTyped DEF StreamTyped, ReadTyped, TeardownStream, readVars

LEMMA StreamTypes ==
  ASSUME StreamTyped, ReadTyped, InCommand
  PROVE  StreamTyped' /\ ReadTyped'
<1> USE NoEventTyped DEF streamVars, readVars, eventVars, StreamTyped, ReadTyped
<1>1. CASE Enumerate \/ CaptureRefused \/ CaptureFrame \/ CaptureTimeout
  BY <1>1 DEF Enumerate, CaptureRefused, CaptureFrame, CaptureTimeout, Finish
<1>2. CASE Activate \/ ActivateFails \/ StreamFails
  <2>1. TeardownStream /\ UNCHANGED readVars
    BY <1>2 DEF Activate, ActivateFails, StreamFails, Finish
  <2>2. QED
    BY <2>1, TeardownTyped
<1>3. CASE BeginStream
  <2>1. next_generation + 1 \in Nat
    OBVIOUS
  <2>2. QED
    BY <1>3, <2>1 DEF BeginStream
<1>4. CASE StreamStarts
  BY <1>4 DEF StreamStarts, Finish
<1>5. CASE IssueRead
  <2>1. reads + 1 \in 1 .. MaxReads /\ reads + 1 \in 0 .. MaxReads
    BY <1>5, BackendBounds DEF IssueRead
  <2>2. [stream |-> generation, read |-> reads + 1] \in [stream : Nat, read : 1 .. MaxReads]
    BY <2>1
  <2>3. pending' \in SUBSET [stream : Nat, read : 1 .. MaxReads]
    BY <1>5, <2>2 DEF IssueRead
  <2>4. QED
    BY <1>5, <2>1, <2>3 DEF IssueRead
<1>6. CASE IssueFails
  BY <1>6 DEF IssueFails, Finish
<1>7. CASE CaptureBreaks \/ CaptureTick
  BY <1>7 DEF CaptureBreaks, CaptureTick, Finish
<1>8. CASE CaptureGivesUp
  BY <1>8 DEF CaptureGivesUp, Finish
<1>9. QED
  BY <1>1, <1>2, <1>3, <1>4, <1>5, <1>6, <1>7, <1>8 DEF InCommand

LEMMA BackendTypeStep ==
  ASSUME BackendInv, TypeOK', [BackendNext]_allVars
  PROVE  BackendTypeOK'
<1> USE DEF clientVars, commandVars, lifetimeVars, streamVars, readVars, eventVars
<1>a. StreamTyped /\ ReadTyped /\ BackendTypeOK /\ StreamInv
  BY DEF BackendInv, BackendTypeOK, StreamTyped, ReadTyped
<1>1. CASE Construct \/ Constructed \/ CallRefused \/ CallReturns
  <2>1. stage' \in {"new", "starting", "enumerate", "open", "ready", "first",
                    "reconnect", "second", "settle", "failed", "closing", "closed"}
    BY <1>1, StagesAfter DEF Construct, Constructed, CallRefused, CallReturns
  <2>2. UNCHANGED <<inspection, left, request>>
    BY <1>1 DEF Construct, Constructed, CallRefused, CallReturns
  <2>3. QED
    BY <1>1, <1>a, <2>1, <2>2, ClientFrame DEF ClientStep, BackendTypeOK
<1>2. CASE Call
  <2>1. [kind |-> KindOf(stage), due |-> inspection]
          \in [kind : Kinds \cup {"none"}, due : Inspections]
    <3>1. KindOf(stage) \in Kinds
      BY <1>2, Zenon DEF Call, Calling, KindOf, Kinds
    <3>2. QED
      BY <1>a, <3>1 DEF BackendTypeOK
  <2>2. request' \in [Commands -> [kind : Kinds \cup {"none"}, due : Inspections]]
    BY <1>2, <1>a, <2>1 DEF Call, BackendTypeOK
  <2>3. QED
    BY <1>2, <1>a, <2>2, ClientFrame DEF ClientStep, Call, BackendTypeOK
<1>3. CASE Closed \/ Close \/ BeginInspection
  <2>1. inspection' \in Inspections
    BY <1>3, <1>a, BackendBounds DEF Closed, Close, BeginInspection, BackendTypeOK, Inspections
  <2>2. QED
    BY <1>3, <1>a, <2>1, ClientFrame DEF ClientStep, Closed, Close, BeginInspection, BackendTypeOK
<1>4. CASE Tick
  <2>1. left' \in [Inspections -> {"ms", "sub", "none"}]
    BY <1>4, <1>a DEF Tick, BackendTypeOK
  <2>2. QED
    BY <1>4, <1>a, <2>1, ClientFrame DEF Tick, BackendTypeOK
<1>5. CASE Startup
  BY <1>5, <1>a DEF Startup, BackendTypeOK
<1>6. CASE Teardown
  <2>1. StreamTyped' /\ ReadTyped'
    BY <1>6, <1>a, TeardownTyped DEF Teardown
  <2>2. QED
    BY <1>6, <1>a, <2>1 DEF Teardown, StreamTyped, ReadTyped, BackendTypeOK
<1>7. CASE Marshal
  BY <1>7, <1>a DEF Marshal, BackendTypeOK
<1>8. CASE InCommand
  <2>1. StreamTyped' /\ ReadTyped'
    BY <1>8, <1>a, StreamTypes
  <2>2. QED
    BY <1>8, <1>a, <2>1, CommandTypes, CommandFrame
    DEF StreamTyped, ReadTyped, BackendTypeOK
<1>9. CASE OnReadSample
  <2>1. pending' \in SUBSET [stream : Nat, read : 1 .. MaxReads]
    BY <1>9, <1>a DEF OnReadSample, ReadTyped
  <2>2. accepted' \in SUBSET [stream : Nat, read : 1 .. MaxReads, what : Events]
    BY <1>9, <1>a DEF OnReadSample, ReadTyped
  <2>3. QED
    BY <1>9, <1>a, <2>1, <2>2 DEF OnReadSample, BackendTypeOK
<1>10. CASE CompleteRead
  <2>1. PICK e \in accepted : accepted' = accepted \ {e} /\ Store(e)
    BY <1>10 DEF CompleteRead
  <2>2. [read |-> e.read, what |-> e.what] \in [read : 0 .. MaxReads, what : Events \cup {"none"}]
    BY <1>a, <2>1 DEF ReadTyped
  <2>3. arrived' \in [read : 0 .. MaxReads, what : Events \cup {"none"}]
    BY <1>a, <2>1, <2>2 DEF ReadTyped, Store
  <2>4. QED
    BY <1>10, <1>a, <2>1, <2>3 DEF CompleteRead, BackendTypeOK
<1>11. CASE UNCHANGED allVars
  BY <1>11, <1>a DEF allVars, BackendTypeOK
<1>12. QED
  BY <1>1, <1>2, <1>3, <1>4, <1>5, <1>6, <1>7, <1>8, <1>9, <1>10, <1>11
  DEF BackendNext, ClientStep, WorkerStep, InCommand

-----------------------------------------------------------------------------
\* A command that the worker has is not one that is still to be submitted.
LEMMA CurrentIssued ==
  ASSUME CWInv, wpc \in {"run", "complete"}
  PROVE  /\ current.command \in Commands /\ current.command <= issued
         /\ wpc = "run" => current.command \notin executed
         /\ wpc = "run" /\ submitted_sequence = issued =>
              \A k \in Commands : k \in executed => k < current.command
<1> USE CommandBounds DEF CWInv, TypeOK, CommandInv, NumberInv, Commands, Base
<1>1. /\ current.sequence \in 1 .. submitted_sequence
      /\ current.sequence = completed_sequence + 1
      /\ current.command = issued - submitted_sequence + current.sequence
  BY DEF OrderInv, Numbered
<1>2. current.command \in Commands /\ current.command <= issued
  BY <1>1
<1>3. ASSUME wpc = "run", NEW k \in Commands, Base < k, k <= issued, k \in executed
      PROVE  k < current.command
  <2>1. k <= Base + completed_sequence
    BY <1>3 DEF ExecutedInv
  <2>2. QED
    BY <1>1, <2>1
<1>4. \A k \in Commands : k \in executed => k <= issued
  OBVIOUS
<1>5. wpc = "run" => current.command \notin executed
  BY <1>1, <1>2, <1>3
<1>6. ASSUME wpc = "run", submitted_sequence = issued, NEW k \in Commands, k \in executed
      PROVE  k < current.command
  <2>1. Base < k /\ k <= issued
    BY <1>4, <1>6
  <2>2. QED
    BY <1>3, <1>6, <2>1
<1>7. QED
  BY <1>2, <1>5, <1>6

\* A command that is not submitted has neither run nor an outcome.
LEMMA UnissuedHasNothing ==
  ASSUME CWInv, RequestInv, NEW k \in Commands, k > issued
  PROVE  k \notin executed /\ outcome[k] = "none"
  BY DEF CWInv, CommandInv, NumberInv, RequestInv

LEMMA StageStep ==
  ASSUME BackendInv, CWInv, [BackendNext]_allVars
  PROVE  StageInv'
<1> USE ClientIsCaller DEF BackendInv, StageInv, clientVars, callers, Calling
<1>1. CASE Construct \/ Constructed
  BY <1>1 DEF Construct, Constructed, StartSpawn, StartResolved, StartTimeout, StartJoin,
     CWInv, TypeOK, shared, history, worker
<1>2. CASE Call
  BY <1>2 DEF Call, SubmitQueued, CWInv, TypeOK, worker
<1>3. CASE CallRefused
  BY <1>3, StagesAfter DEF CallRefused, vars, shared, history, worker
<1>4. CASE CallReturns
  <2>1. stage' \in {"settle", "ready", "reconnect", "second", "open", "failed"}
    BY <1>4, StagesAfter DEF CallReturns
  <2>2. pc'[client] = "idle" /\ UNCHANGED <<issued, submitted_sequence>>
    BY <1>4 DEF CallReturns, SubmitReturns, shared, CWInv, TypeOK
  <2>3. QED
    BY <2>1, <2>2
<1>5. CASE Closed \/ Close
  BY <1>5 DEF Closed, Close, StopJoin, StopSignal, CWInv, TypeOK, history
<1>6. CASE BeginInspection \/ Tick
  BY <1>6 DEF BeginInspection, Tick, vars, shared, history, worker
<1>7. CASE WorkerStep
  BY <1>7, WorkerFrame
<1>8. CASE OnReadSample \/ CompleteRead \/ UNCHANGED allVars
  BY <1>8, EventFrame DEF allVars, vars, shared, history, worker
<1>9. QED
  BY <1>1, <1>2, <1>3, <1>4, <1>5, <1>6, <1>7, <1>8 DEF BackendNext, ClientStep

LEMMA LifetimeStep ==
  ASSUME BackendInv, CWInv, [BackendNext]_allVars
  PROVE  LifetimeInv'
<1> USE DEF BackendInv, LifetimeInv, lifetimeVars, streamVars
<1>1. CASE Construct \/ Constructed
  BY <1>1, ClientFrame DEF ClientStep, Construct, Constructed, StartSpawn, StartResolved,
     StartTimeout, StartJoin, StageInv, worker
<1>2. CASE Call \/ CallRefused \/ CallReturns
  BY <1>2, ClientFrame DEF ClientStep, Call, CallRefused, CallReturns, SubmitQueued,
     SubmitReturns, vars, worker
<1>3. CASE Closed \/ Close \/ BeginInspection \/ Tick
  BY <1>3, ClientFrame DEF ClientStep, Closed, Close, BeginInspection, Tick, StopJoin,
     StopSignal, vars, worker
<1>4. CASE Startup
  BY <1>4 DEF Startup, WorkerStartup, BackendTypeOK
<1>5. CASE Teardown
  BY <1>5 DEF Teardown, WorkerTeardown, TeardownStream
<1>6. CASE Marshal
  BY <1>6 DEF Marshal, WorkerTake, WorkerStop, WorkerComplete, WorkerLeave, WorkerEnd
<1>7. CASE InCommand
  BY <1>7, CommandFrame
<1>8. CASE OnReadSample \/ CompleteRead \/ UNCHANGED allVars
  BY <1>8, EventFrame DEF allVars, vars, worker
<1>9. QED
  BY <1>1, <1>2, <1>3, <1>4, <1>5, <1>6, <1>7, <1>8
  DEF BackendNext, ClientStep, WorkerStep, InCommand

LEMMA RequestStep ==
  ASSUME BackendInv, CWInv, [BackendNext]_allVars
  PROVE  RequestInv'
<1> USE ClientIsCaller DEF BackendInv, RequestInv, clientVars, commandVars, callers
<1>1. CASE Construct \/ Constructed \/ CallRefused
  <2>1. pc'[client] # "submit_wait" /\ mine' = mine /\ request' = request
    BY <1>1 DEF Construct, Constructed, CallRefused, StartSpawn, StartResolved, StartTimeout,
       StartJoin, CWInv, TypeOK, vars
  <2>2. pc[client] # "submit_wait"
    BY <1>1 DEF Construct, Constructed, CallRefused, StageInv
  <2>3. QED
    BY <1>1, <2>1, <2>2, ClientFrame DEF ClientStep
<1>2. CASE Call
  <2>1. /\ issued + 1 \in Commands /\ outcome[issued + 1] = "none"
        /\ issued' = issued + 1 /\ pc'[client] = "submit_wait"
        /\ mine'[client].command = issued + 1
    <3>1. issued + 1 \in Commands /\ issued + 1 > issued
      BY <1>2, CommandBounds DEF Call, SubmitQueued, CWInv, TypeOK, Commands
    <3>2. outcome[issued + 1] = "none"
      BY <3>1, UnissuedHasNothing
    <3>3. QED
      BY <1>2, <3>1, <3>2 DEF Call, SubmitQueued, CWInv, TypeOK
  <2>2. /\ request'[issued + 1].kind = KindOf(stage)
        /\ \A k \in Commands : k # issued + 1 => request'[k] = request[k]
        /\ stage' = stage /\ Calling
    BY <1>2, <2>1 DEF Call, BackendTypeOK
  <2>3. KindOf(stage') = KindOf(stage) /\ Calling'
    BY <2>2 DEF KindOf, Calling
  <2>4. QED
    BY <1>2, <2>1, <2>2, <2>3, ClientFrame DEF ClientStep
<1>3. CASE CallReturns
  BY <1>3, ClientFrame DEF ClientStep, CallReturns, SubmitReturns, CWInv, TypeOK
<1>4. CASE Closed \/ Close \/ BeginInspection
  <2>1. pc'[client] # "submit_wait" /\ mine' = mine /\ request' = request
    BY <1>4 DEF Closed, Close, BeginInspection, StopJoin, StopSignal, StageInv, CWInv, TypeOK,
       vars
  <2>2. pc[client] # "submit_wait"
    BY <1>4 DEF Closed, Close, BeginInspection, StageInv
  <2>3. QED
    BY <1>4, <2>1, <2>2, ClientFrame DEF ClientStep
<1>5. CASE Tick
  BY <1>5, ClientFrame, Zenon DEF Tick, vars, history, Calling, KindOf
<1>6. CASE Startup \/ Teardown \/ Marshal
  <2>1. UNCHANGED <<outcome, executed>>
    BY <1>6 DEF Startup, Teardown, Marshal, WorkerStartup, WorkerTeardown, WorkerTake,
       WorkerStop, WorkerComplete, WorkerLeave, WorkerEnd, history
  <2>2. UNCHANGED <<stage, request, pc, mine, issued>>
    BY <1>6, WorkerFrame DEF WorkerStep
  <2>3. QED
    BY <2>1, <2>2, Zenon DEF Calling, KindOf
<1>7. CASE InCommand
  <2>1. UNCHANGED <<stage, request, pc, mine, issued>>
    BY <1>7, CommandFrame
  <2>2. CASE wpc' = "run"
    BY <1>7, <2>1, <2>2, CommandFrame, Zenon DEF Calling, KindOf
  <2>3. CASE wpc' = "complete"
    <3>1. PICK result : /\ outcome' = [outcome EXCEPT ![current.command] = result]
                        /\ result = "frame" => Request.kind = "capture"
      BY <1>7, <2>3, CommandFrame
    <3>2. executed' = executed \cup {current.command}
      BY <1>7, <2>3, CommandFrame
    <3>3. \A k \in Commands : outcome'[k] = IF k = current.command THEN result ELSE outcome[k]
      BY <3>1 DEF BackendTypeOK
    <3>4. \A k \in Commands : /\ outcome'[k] # "none" => k \in executed'
                              /\ outcome'[k] = "frame" => request'[k].kind = "capture"
      BY <2>1, <3>1, <3>2, <3>3 DEF Request
    <3>5. /\ pc[client] = "submit_wait" =>
               /\ Calling' /\ mine'[client].command = issued'
               /\ request'[issued'].kind = KindOf(stage')
          /\ pc[client] # "submit_wait" => mine'[client] = NoEntry
      BY <2>1, Zenon DEF Calling, KindOf
    <3>6. QED
      BY <2>1, <3>4, <3>5
  <2>4. QED
    BY <1>7, <2>2, <2>3, CommandFrame
<1>8. CASE OnReadSample \/ CompleteRead \/ UNCHANGED allVars
  BY <1>8, EventFrame, Zenon DEF allVars, vars, history, Calling, KindOf
<1>9. QED
  BY <1>1, <1>2, <1>3, <1>4, <1>5, <1>6, <1>7, <1>8
  DEF BackendNext, ClientStep, WorkerStep, InCommand

\* The client neither moves the worker inside a command nor changes the command.
LEMMA ClientKeepsCommand ==
  ASSUME BackendInv, CWInv, ClientStep \/ BeginInspection \/ Close \/ Tick
  PROVE  /\ wpc \in {"startup", "loop", "run", "complete"} => wpc' = wpc
         /\ wpc' \in {"loop", "run", "complete"} => wpc' = wpc
         /\ wpc = "run" => Request' = Request
         /\ \A k \in Commands : k <= issued => request'[k] = request[k]
<1>1. /\ wpc' = wpc \/ wpc' \in {"startup", "none"}
      /\ wpc' # wpc => wpc \in {"none", "done"}
  <2>1. CASE Construct \/ Constructed
    BY <2>1 DEF Construct, Constructed, StartSpawn, StartResolved, StartTimeout, StartJoin,
       BackendInv, StageInv, worker
  <2>2. CASE Call \/ CallRefused \/ CallReturns
    BY <2>2 DEF Call, CallRefused, CallReturns, SubmitQueued, SubmitReturns, vars, worker
  <2>3. CASE Closed \/ Close \/ BeginInspection \/ Tick
    BY <2>3 DEF Closed, Close, BeginInspection, Tick, StopJoin, StopSignal, vars, worker
  <2>4. QED
    BY <2>1, <2>2, <2>3 DEF ClientStep
<1>2. \A k \in Commands : k <= issued => request'[k] = request[k]
  <2>1. CASE Call
    BY <2>1 DEF Call, BackendInv, BackendTypeOK, CWInv, TypeOK
  <2>2. CASE ~Call
    BY <2>2 DEF ClientStep, Construct, Constructed, CallRefused, CallReturns, Closed,
       Close, BeginInspection, Tick, commandVars
  <2>3. QED
    BY <2>1, <2>2
<1>3. wpc = "run" => Request' = Request
  BY <1>2, CurrentIssued, ClientFrame DEF Request
<1>4. QED
  BY <1>1, <1>2, <1>3

\* Startup, teardown and the marshalling are no part of a command.
LEMMA HooksFrame ==
  ASSUME BackendInv, Startup \/ Teardown \/ Marshal
  PROVE  /\ wpc # "run" /\ step = "begin"
         /\ UNCHANGED <<commandVars, executed, readVars, next_generation, identity,
                        pending, accepted>>
         /\ Teardown \/ UNCHANGED <<streamVars, eventVars>>
         /\ Teardown => TeardownStream
<1>1. wpc # "run"
  BY DEF Startup, Teardown, Marshal, WorkerStartup, WorkerTeardown, WorkerTake,
     WorkerStop, WorkerComplete, WorkerLeave, WorkerEnd
<1>2. UNCHANGED <<commandVars, executed, readVars>>
  BY DEF Startup, Teardown, Marshal, WorkerStartup, WorkerTeardown, WorkerTake,
     WorkerStop, WorkerComplete, WorkerLeave, WorkerEnd, history
<1>3. CASE Teardown
  BY <1>1, <1>2, <1>3 DEF Teardown, TeardownStream, BackendInv, StreamInv, Busy
<1>4. CASE Startup \/ Marshal
  BY <1>1, <1>2, <1>4 DEF Startup, Marshal, Teardown, streamVars, eventVars, BackendInv,
     StreamInv, Busy
<1>5. QED
  BY <1>3, <1>4

LEMMA StreamStep ==
  ASSUME BackendInv, CWInv, [BackendNext]_allVars
  PROVE  StreamInv'
<1> USE DEF BackendInv, StreamInv, Busy, streamVars
<1>1. CASE ClientStep \/ BeginInspection \/ Close \/ Tick
  BY <1>1, ClientFrame, ClientKeepsCommand
<1>2. CASE Startup \/ Teardown \/ Marshal
  <2>1. step' = "begin" /\ step = "begin" /\ next_generation' = next_generation
    BY <1>2, HooksFrame DEF commandVars
  <2>2. CASE Teardown
    BY <2>1, <2>2 DEF Teardown, TeardownStream, BackendTypeOK
  <2>3. CASE UNCHANGED streamVars
    BY <2>1, <2>3
  <2>4. QED
    BY <1>2, <2>2, <2>3, HooksFrame
<1>3. CASE InCommand
  <2>1. /\ wpc = "run" /\ Request' = Request
        /\ step' # "begin" => wpc' = "run"
    BY <1>3, CommandFrame DEF Request
  <2>a. BackendTypeOK
    OBVIOUS
  <2>2. CASE Enumerate \/ CaptureRefused \/ CaptureFrame
    <3>1. step' = "begin" /\ UNCHANGED streamVars
      BY <2>2 DEF Enumerate, CaptureRefused, CaptureFrame, Finish
    <3>2. step \in {"begin", "wait"}
      BY <2>2 DEF Enumerate, CaptureRefused, CaptureFrame, Woken, BackendTypeOK, Steps
    <3>3. QED
      BY <2>1, <3>1, <3>2
  <2>3. CASE Activate \/ ActivateFails \/ StreamFails
    <3>1. /\ TeardownStream /\ step' \in {"begin", "activate"}
          /\ step' = "activate" => Request.kind \in {"open", "reconnect"}
      BY <2>3 DEF Activate, ActivateFails, StreamFails, Finish, Proceed
    <3>2. QED
      BY <2>1, <2>a, <3>1 DEF TeardownStream, BackendTypeOK
  <2>4. CASE BeginStream \/ StreamStarts
    BY <2>1, <2>4 DEF BeginStream, StreamStarts, Proceed, Finish, BackendTypeOK
  <2>5. CASE IssueRead \/ IssueFails
    BY <2>1, <2>5 DEF IssueRead, IssueFails, CanRead, Proceed, Finish
  <2>6. CASE CaptureBreaks \/ CaptureTick \/ CaptureTimeout \/ CaptureGivesUp
    BY <2>1, <2>6 DEF CaptureBreaks, CaptureTick, CaptureTimeout, CaptureGivesUp, Woken,
       Proceed, Finish
  <2>7. QED
    BY <1>3, <2>2, <2>3, <2>4, <2>5, <2>6 DEF InCommand
<1>4. CASE OnReadSample \/ CompleteRead \/ UNCHANGED allVars
  BY <1>4, EventFrame DEF allVars, vars, worker, commandVars, Request
<1>5. QED
  BY <1>1, <1>2, <1>3, <1>4 DEF BackendNext, WorkerStep, InCommand

LEMMA IdentityStep ==
  ASSUME BackendInv, CWInv, [BackendNext]_allVars
  PROVE  IdentityInv'
<1> USE DEF BackendInv, IdentityInv
<1>1. CASE ClientStep \/ BeginInspection \/ Close \/ Tick
  <2>1. UNCHANGED <<outcome, identity>>
    BY <1>1, ClientFrame DEF streamVars
  <2>2. \A k \in Commands : k > issued => outcome[k] = "none"
    BY UnissuedHasNothing
  <2>3. \A k \in Commands : k <= issued => request'[k] = request[k]
    BY <1>1, ClientKeepsCommand
  <2>4. ASSUME NEW k \in Commands, request'[k].kind \in {"open", "reconnect"},
               outcome'[k] = "ok"
        PROVE  identity'
    BY <2>1, <2>2, <2>3, <2>4 DEF CWInv, TypeOK, Commands
  <2>5. stage' \in {"ready", "first", "reconnect", "second", "settle"} => identity
    <3>1. CASE Construct \/ Constructed \/ Close \/ Closed \/ BeginInspection
      BY <3>1 DEF Construct, Constructed, Close, Closed, BeginInspection
    <3>2. CASE Call \/ Tick
      BY <3>2 DEF Call, Tick, clientVars
    <3>3. CASE CallRefused
      BY <3>3, StagesAfter DEF CallRefused, Calling
    <3>4. CASE CallReturns
      <4>1. PICK k \in Commands : /\ k = mine[client].command /\ k = issued
                                 /\ request[k].kind = KindOf(stage)
        <5>1. pc[client] = "submit_wait"
          BY <3>4 DEF CallReturns, SubmitReturns
        <5>2. mine[client].command \in Commands
          <6>1. mine[client].command \in 1 .. issued
            BY <5>1, ClientIsCaller DEF CWInv, CommandInv, WaiterInv
          <6>2. QED
            BY <6>1, CommandBounds DEF CWInv, TypeOK, Commands
        <5>3. QED
          BY <5>1, <5>2 DEF RequestInv
      <4>2. stage' \in NextStages(Result(k))
        BY <3>4, <4>1 DEF CallReturns
      <4>3. stage \in {"enumerate", "open"} => Result(k) # "frame"
        <5>1. stage \in {"enumerate", "open"} => KindOf(stage) # "capture"
          BY Zenon DEF KindOf
        <5>2. stage \in {"enumerate", "open"} => outcome[k] # "frame"
          BY <4>1, <5>1 DEF RequestInv
        <5>3. told'[k] \in {"completed", "unavailable", "timeout"}
          BY <3>4, <4>1 DEF CallReturns, SubmitReturns, Answer, CWInv, TypeOK
        <5>4. QED
          BY <5>2, <5>3, Zenon DEF Result
      <4>4. stage = "open" /\ Result(k) = "ok" => identity
        <5>1. told'[k] \in {"completed", "unavailable", "timeout"}
          BY <3>4, <4>1 DEF CallReturns, SubmitReturns, Answer, CWInv, TypeOK
        <5>2. Result(k) = "ok" => outcome[k] = "ok"
          BY <5>1, Zenon DEF Result
        <5>3. stage = "open" => KindOf(stage) = "open"
          BY Zenon DEF KindOf
        <5>4. QED
          BY <4>1, <5>2, <5>3
      <4>5. QED
        BY <3>4, <4>2, <4>3, <4>4, StagesAfter DEF CallReturns, Calling
    <3>5. QED
      BY <1>1, <3>1, <3>2, <3>3, <3>4 DEF ClientStep
  <2>6. QED
    BY <2>1, <2>4, <2>5
<1>2. CASE Startup \/ Teardown \/ Marshal
  BY <1>2, HooksFrame, WorkerFrame DEF WorkerStep, commandVars, clientVars
<1>3. CASE InCommand
  <2>1. UNCHANGED <<stage, request>> /\ (identity => identity')
    <3>1. identity => identity'
      BY <1>3 DEF InCommand, Enumerate, Activate, ActivateFails, BeginStream, StreamFails,
         StreamStarts, CaptureRefused, IssueRead, IssueFails, CaptureFrame, CaptureBreaks,
         CaptureTick, CaptureTimeout, CaptureGivesUp, TeardownStream, streamVars
    <3>2. QED
      BY <1>3, <3>1, CommandFrame DEF clientVars
  <2>2. CASE wpc' = "run"
    BY <1>3, <2>1, <2>2, CommandFrame
  <2>3. CASE wpc' = "complete"
    <3>1. PICK result : /\ outcome' = [outcome EXCEPT ![current.command] = result]
                        /\ result = "ok" => StreamStarts \/ Request.kind = "enumerate"
      BY <1>3, <2>3, CommandFrame
    <3>2. \A k \in Commands : outcome'[k] = IF k = current.command THEN result ELSE outcome[k]
      BY <3>1 DEF BackendTypeOK
    <3>3. StreamStarts => identity'
      BY DEF StreamStarts
    <3>4. QED
      BY <2>1, <3>1, <3>2, <3>3 DEF Request
  <2>4. QED
    BY <1>3, <2>2, <2>3, CommandFrame
<1>4. CASE OnReadSample \/ CompleteRead \/ UNCHANGED allVars
  BY <1>4, EventFrame DEF allVars, commandVars, clientVars, streamVars
<1>5. QED
  BY <1>1, <1>2, <1>3, <1>4 DEF BackendNext, WorkerStep, InCommand

-----------------------------------------------------------------------------
\* With the awaited event arrived, nothing is under way for the active stream.
LEMMA ArrivedLast ==
  ASSUME BackendInv, step = "wait", arrived # NoEvent
  PROVE  /\ \A p \in pending : p.stream # generation
         /\ \A e \in accepted : e.stream # generation
  BY DEF BackendInv, ReadInv, AwaitedInv

LEMMA IssueReadStep ==
  ASSUME BackendInv, IssueRead
  PROVE  ReadInv'
<1> USE DEF BackendInv, ReadInv, streamVars
<1>1. /\ step' = "wait" /\ arrived' = NoEvent /\ reads' = reads + 1
      /\ pending' = pending \cup {[stream |-> generation, read |-> reads + 1]}
      /\ UNCHANGED <<generation, next_generation, accepted>>
  BY DEF IssueRead, Proceed
<1>2. generation # 0 /\ step \in {"begin", "again"} /\ ~needs_reconnect
  BY DEF IssueRead, CanRead, StreamInv
<1>3. /\ \A p \in pending : p.stream # generation
      /\ \A e \in accepted : e.stream # generation
  BY <1>2 DEF QuietInv
<1>4. reads \in Nat /\ since \in Nat
  BY BackendBounds DEF BackendTypeOK
<1>5. since' < reads'
  BY <1>1, <1>2, <1>4 DEF IssueRead
<1>6. KnownStreams'
  BY <1>1 DEF KnownStreams, StreamInv
<1>7. \A p \in pending' : p.stream = generation => p.read = reads + 1
  BY <1>1, <1>3
<1>8. AwaitedInv'
  BY <1>1, <1>3, <1>7 DEF AwaitedInv
<1>9. QED
  BY <1>1, <1>5, <1>6, <1>8 DEF QuietInv

LEMMA OnReadSampleStep ==
  ASSUME BackendInv, OnReadSample
  PROVE  ReadInv'
<1> USE DEF BackendInv, ReadInv
<1>1. PICK p \in pending, what \in Events :
        /\ pending' = pending \ {p}
        /\ accepted' = IF Accepts(p.stream)
             THEN accepted \cup {[stream |-> p.stream, read |-> p.read, what |-> what]}
             ELSE accepted
        /\ UNCHANGED arrived
  BY DEF OnReadSample
<1>2. UNCHANGED <<generation, next_generation, needs_reconnect, step, since, reads>>
  BY EventFrame DEF commandVars, streamVars, readVars
<1>3. CASE p.stream # generation
  <2>1. accepted' = accepted
    BY <1>1, <1>3 DEF Accepts
  <2>2. QED
    BY <1>1, <1>2, <2>1 DEF KnownStreams, QuietInv, AwaitedInv
<1>4. CASE p.stream = generation
  <2> DEFINE new == [stream |-> p.stream, read |-> p.read, what |-> what]
  <2>1. /\ accepted' = accepted \cup {new}
        /\ new.stream = generation /\ new.read = p.read
    BY <1>1, <1>4 DEF Accepts
  <2> HIDE DEF new
  <2>2. KnownStreams'
    BY <1>1, <1>2, <1>4, <2>1 DEF KnownStreams
  <2>3. QuietInv'
    <3>1. generation = 0 \/ needs_reconnect \/ step \in {"wait", "flush"}
      BY <1>1, <1>4 DEF QuietInv
    <3>2. QED
      BY <1>2, <3>1 DEF QuietInv
  <2>4. AwaitedInv'
    <3>1. SUFFICES ASSUME step = "wait" PROVE AwaitedInv'
      BY <1>2 DEF AwaitedInv
    <3>2. /\ p.read = reads /\ arrived = NoEvent
          /\ \A e \in accepted : e.stream # generation
          /\ \A q \in pending : q.stream = generation => q.read = p.read
      BY <1>1, <1>4, <3>1 DEF AwaitedInv
    <3>3. \A q \in pending : q.stream = generation => q = p
      BY <1>1, <1>4, <3>2 DEF BackendTypeOK
    <3>4. \A q \in pending' : q.stream # generation
      BY <1>1, <3>3
    <3>5. \A e \in accepted' : e.stream = generation => e = new
      BY <2>1, <3>2
    <3>6. QED
      BY <1>1, <1>2, <2>1, <3>2, <3>4, <3>5 DEF AwaitedInv
  <2>5. QED
    BY <1>2, <2>2, <2>3, <2>4
<1>5. QED
  BY <1>3, <1>4

LEMMA CompleteReadStep ==
  ASSUME BackendInv, CompleteRead
  PROVE  ReadInv'
<1> USE DEF BackendInv, ReadInv
<1>1. PICK e \in accepted : accepted' = accepted \ {e} /\ Store(e) /\ UNCHANGED pending
  BY DEF CompleteRead
<1>2. UNCHANGED <<generation, next_generation, needs_reconnect, step, since, reads>>
  BY EventFrame DEF commandVars, streamVars, readVars
<1>3. KnownStreams' /\ QuietInv'
  BY <1>1, <1>2 DEF KnownStreams, QuietInv
<1>4. CASE e.stream # generation
  <2>1. arrived' = arrived
    BY <1>1, <1>4 DEF Store
  <2>2. QED
    BY <1>1, <1>2, <1>3, <2>1 DEF AwaitedInv
<1>5. CASE e.stream = generation
  <2>1. arrived'.read = e.read
    BY <1>1, <1>5 DEF Store
  <2>2. AwaitedInv'
    <3>1. SUFFICES ASSUME step = "wait" PROVE AwaitedInv'
      BY <1>2 DEF AwaitedInv
    <3>2. /\ e.read = reads
          /\ \A f \in accepted : f.stream = generation => f = e
          /\ \A p \in pending : p.stream # generation
      BY <1>1, <1>5, <3>1 DEF AwaitedInv
    <3>3. QED
      BY <1>1, <1>2, <2>1, <3>2 DEF AwaitedInv
  <2>3. QED
    BY <1>2, <1>3, <2>2
<1>6. QED
  BY <1>4, <1>5

LEMMA ReadStep ==
  ASSUME BackendInv, [BackendNext]_allVars
  PROVE  ReadInv'
<1> USE DEF BackendInv, ReadInv, streamVars, readVars, eventVars
<1>1. CASE ClientStep \/ BeginInspection \/ Close \/ Tick
  BY <1>1, ClientFrame DEF KnownStreams, QuietInv, AwaitedInv
<1>2. CASE Startup \/ Teardown \/ Marshal
  <2>1. /\ step' = "begin" /\ step = "begin"
        /\ UNCHANGED <<next_generation, pending, accepted>>
        /\ generation' = 0 \/ UNCHANGED <<generation, needs_reconnect>>
    BY <1>2, HooksFrame DEF commandVars, TeardownStream
  <2>2. QED
    BY <2>1 DEF KnownStreams, QuietInv, AwaitedInv
<1>3. CASE Enumerate \/ CaptureRefused
  <2>1. step = "begin"
    BY <1>3 DEF Enumerate, CaptureRefused, StreamInv, BackendTypeOK, Steps
  <2>2. step' = "begin" /\ UNCHANGED <<streamVars, eventVars>>
    BY <1>3 DEF Enumerate, CaptureRefused, Finish
  <2>3. QED
    BY <2>1, <2>2 DEF KnownStreams, QuietInv, AwaitedInv
<1>4. CASE Activate \/ ActivateFails \/ StreamFails
  <2>1. TeardownStream /\ step' \in {"begin", "activate"}
    BY <1>4 DEF Activate, ActivateFails, StreamFails, Finish, Proceed
  <2>2. QED
    BY <2>1 DEF TeardownStream, KnownStreams, QuietInv, AwaitedInv
<1>5. CASE BeginStream
  <2>1. /\ step' = "format" /\ generation' = next_generation + 1
        /\ next_generation' = next_generation + 1
        /\ UNCHANGED <<pending, accepted>>
    BY <1>5 DEF BeginStream, Proceed
  <2>2. /\ next_generation \in Nat
        /\ \A p \in pending : p.stream \in Nat
        /\ \A e \in accepted : e.stream \in Nat
    BY DEF BackendTypeOK
  <2>3. /\ \A p \in pending : p.stream < next_generation + 1
        /\ \A e \in accepted : e.stream < next_generation + 1
    BY <2>2 DEF KnownStreams
  <2>4. QED
    BY <2>1, <2>2, <2>3 DEF KnownStreams, QuietInv, AwaitedInv
<1>6. CASE StreamStarts
  <2>1. /\ step = "format" /\ step' = "begin" /\ ~needs_reconnect
        /\ UNCHANGED <<generation, next_generation, pending, accepted>>
    BY <1>6 DEF StreamStarts, Finish, StreamInv
  <2>2. QED
    BY <2>1 DEF KnownStreams, QuietInv, AwaitedInv
<1>7. CASE IssueRead
  BY <1>7, IssueReadStep
<1>8. CASE IssueFails \/ CaptureBreaks \/ CaptureGivesUp
  <2>1. /\ step' = "begin" /\ needs_reconnect'
        /\ UNCHANGED <<next_generation, pending, accepted>>
    BY <1>8 DEF IssueFails, CaptureBreaks, CaptureGivesUp, Finish
  <2>2. QED
    BY <2>1 DEF KnownStreams, QuietInv, AwaitedInv
<1>9. CASE CaptureFrame \/ CaptureTick
  <2>1. /\ step = "wait" /\ arrived # NoEvent /\ step' \in {"begin", "again"}
        /\ UNCHANGED <<streamVars, pending, accepted, since, reads>>
    BY <1>9 DEF CaptureFrame, CaptureTick, Woken, Finish, Proceed, NoEvent
  <2>2. QED
    BY <2>1, ArrivedLast DEF KnownStreams, QuietInv, AwaitedInv
<1>10. CASE CaptureTimeout
  <2>1. step' = "flush" /\ UNCHANGED <<streamVars, pending, accepted>>
    BY <1>10 DEF CaptureTimeout, Proceed
  <2>2. QED
    BY <2>1 DEF KnownStreams, QuietInv, AwaitedInv
<1>11. CASE OnReadSample \/ CompleteRead
  BY <1>11, OnReadSampleStep, CompleteReadStep
<1>12. CASE UNCHANGED allVars
  BY <1>12 DEF allVars, commandVars, KnownStreams, QuietInv, AwaitedInv
<1>13. QED
  BY <1>1, <1>2, <1>3, <1>4, <1>5, <1>6, <1>7, <1>8, <1>9, <1>10, <1>11, <1>12
  DEF BackendNext, WorkerStep

-----------------------------------------------------------------------------
LEMMA ClientRecaptureStep ==
  ASSUME BackendInv, CWInv, ClientStep \/ BeginInspection \/ Close \/ Tick
  PROVE  RecaptureInv'
<1> USE ClientIsCaller DEF BackendInv, RecaptureInv
<1>1. Usable => Usable'
  BY ClientKeepsCommand, ClientFrame DEF Usable, streamVars
<1>2. CASE ~Call /\ ~CallReturns
  <2>1. UNCHANGED <<issued, request, outcome, step, executed>>
    BY <1>2, ClientFrame DEF ClientStep, Construct, Constructed, CallRefused, Closed,
       Close, BeginInspection, Tick, StartSpawn, StartResolved, StartTimeout, StartJoin,
       StopJoin, StopSignal, commandVars, vars, history
  <2>2. stage' = "second" => stage = "second" /\ pc' = pc
    BY <1>2, StagesAfter DEF ClientStep, Construct, Constructed, CallRefused, Closed,
       Close, BeginInspection, Tick, vars, callers
  <2>3. Connected(issued)' <=> Connected(issued)
    BY <2>1 DEF Connected
  <2>4. QED
    BY <1>1, <2>1, <2>2, <2>3
<1>3. CASE Call
  <2>1. /\ issued + 1 \in Commands /\ issued' = issued + 1 /\ issued' # 0
        /\ pc[client] = "idle" /\ pc'[client] = "submit_wait" /\ stage' = stage
    BY <1>3, CommandBounds DEF Call, SubmitQueued, CWInv, TypeOK, Commands, clientVars
  <2>2. outcome[issued + 1] = "none"
    BY <2>1, UnissuedHasNothing DEF CWInv, TypeOK
  <2>3. UNCHANGED <<outcome, step, executed>>
    BY <1>3, ClientFrame DEF ClientStep
  <2>4. ~Connected(issued)'
    BY <2>1, <2>2, <2>3 DEF Connected
  <2>5. ASSUME stage = "second" PROVE issued \in executed /\ Usable
    <3>1. Connected(issued) /\ issued \in Commands
      BY <2>1, <2>5 DEF Connected, CWInv, TypeOK, Commands
    <3>2. QED
      BY <3>1 DEF Connected, RequestInv
  <2>6. issued' - 1 = issued
    BY <2>1 DEF CWInv, TypeOK
  <2>7. QED
    BY <1>1, <2>1, <2>3, <2>4, <2>5, <2>6
<1>4. CASE CallReturns
  <2>1. UNCHANGED <<issued, request, outcome, step, executed>>
    BY <1>4, ClientFrame DEF ClientStep, CallReturns, SubmitReturns, commandVars, history
  <2>2. pc[client] = "submit_wait" /\ pc'[client] = "idle"
    BY <1>4 DEF CallReturns, SubmitReturns, CWInv, TypeOK
  <2>3. PICK k \in Commands : k = mine[client].command /\ k = issued /\ k # 0
    <3>1. mine[client].command \in 1 .. issued
      BY <2>2 DEF CWInv, CommandInv, WaiterInv
    <3>2. QED
      BY <2>2, <3>1, CommandBounds DEF RequestInv, CWInv, TypeOK, Commands
  <2>4. ASSUME stage' = "second" PROVE Connected(issued)
    <3>1. stage' \in NextStages(Result(k))
      BY <1>4, <2>3 DEF CallReturns
    <3>2. stage = "reconnect" /\ Result(k) = "ok"
      BY <2>4, <3>1, StagesAfter
    <3>3. told'[k] \in {"completed", "unavailable", "timeout"}
      BY <1>4, <2>3 DEF CallReturns, SubmitReturns, Answer, CWInv, TypeOK
    <3>4. outcome[k] = "ok"
      BY <3>2, <3>3, Zenon DEF Result
    <3>5. request[k].kind = "reconnect"
      <4>1. request[k].kind = KindOf(stage)
        BY <2>2, <2>3 DEF RequestInv
      <4>2. KindOf("reconnect") = "reconnect"
        BY Zenon DEF KindOf
      <4>3. QED
        BY <3>2, <4>1, <4>2
    <3>6. QED
      BY <2>3, <3>4, <3>5 DEF Connected
  <2>5. Connected(issued)' <=> Connected(issued)
    BY <2>1 DEF Connected
  <2>6. QED
    BY <1>1, <2>1, <2>2, <2>4, <2>5
<1>5. QED
  BY <1>2, <1>3, <1>4

LEMMA CommandRecaptureStep ==
  ASSUME BackendInv, CWInv, InCommand
  PROVE  RecaptureInv'
<1> USE ClientIsCaller DEF BackendInv, RecaptureInv
<1>1. /\ UNCHANGED <<stage, pc, issued, request, current>>
      /\ wpc = "run" /\ issued \in Nat
  BY CommandFrame DEF clientVars, callers, CWInv, TypeOK
<1>2. /\ current.command \in Commands /\ current.command <= issued
      /\ current.command \notin executed
      /\ \A k \in Commands : k \in executed => k < current.command
  BY <1>1, CurrentIssued DEF StageInv
<1>3. issued \in Commands /\ issued # 0 /\ issued \notin executed
  BY <1>1, <1>2, CommandBounds DEF CWInv, TypeOK, Commands
<1>4. ~Connected(issued)
  BY <1>3 DEF Connected, RequestInv
<1>5. stage = "second" => pc[client] # "idle"
  BY <1>4
<1>6. Connected(issued)' => Usable'
  <2>1. CASE wpc' = "run"
    <3>1. ~Connected(issued)'
      BY <1>1, <1>4, <2>1, CommandFrame DEF Connected
    <3>2. QED
      BY <3>1
  <2>2. CASE wpc' = "complete"
    <3>1. PICK result : /\ outcome' = [outcome EXCEPT ![current.command] = result]
                        /\ result = "ok" => StreamStarts \/ Request.kind = "enumerate"
      BY <2>2, CommandFrame
    <3>2. outcome'[issued] = IF issued = current.command THEN result ELSE "none"
      BY <1>3, <3>1 DEF BackendTypeOK, RequestInv
    <3>3. SUFFICES ASSUME Connected(issued)' PROVE Usable'
      OBVIOUS
    <3>4. StreamStarts
      BY <1>1, <3>1, <3>2, <3>3 DEF Connected, Request
    <3>5. QED
      BY <3>4 DEF StreamStarts, StreamInv, Usable
  <2>3. QED
    BY <2>1, <2>2, CommandFrame
<1>7. ASSUME stage = "second", pc[client] = "submit_wait"
      PROVE  /\ issued - 1 \in executed'
             /\ issued \notin executed' => step' # "begin"
  <2>1. issued - 1 \in executed
    BY <1>7
  <2>2. issued - 1 \in Commands
    BY <2>1 DEF CWInv, TypeOK
  <2>3. current.command = issued
    BY <1>1, <1>2, <2>1, <2>2 DEF Commands
  <2>4. CASE wpc' = "run"
    BY <2>1, <2>4, CommandFrame
  <2>5. CASE wpc' = "complete"
    BY <2>1, <2>3, <2>5, CommandFrame
  <2>6. QED
    BY <2>4, <2>5, CommandFrame
<1>8. QED
  BY <1>1, <1>5, <1>6, <1>7

LEMMA RecaptureStep ==
  ASSUME BackendInv, CWInv, [BackendNext]_allVars
  PROVE  RecaptureInv'
<1> USE ClientIsCaller DEF BackendInv, RecaptureInv
<1>1. CASE ClientStep \/ BeginInspection \/ Close \/ Tick
  BY <1>1, ClientRecaptureStep
<1>2. CASE InCommand
  BY <1>2, CommandRecaptureStep
<1>3. CASE Startup \/ Teardown \/ Marshal
  <2>1. UNCHANGED <<stage, pc, issued, request, outcome, step, executed>>
    BY <1>3, HooksFrame, WorkerFrame DEF WorkerStep, commandVars, clientVars, callers
  <2>2. Connected(issued)' <=> Connected(issued)
    BY <2>1 DEF Connected
  <2>3. CASE ~Startup
    <3>1. Usable => Usable'
      BY <1>3, <2>3, HooksFrame DEF Teardown, Marshal, WorkerTeardown, WorkerTake, WorkerStop,
         WorkerComplete, WorkerLeave, WorkerEnd, streamVars, Usable
    <3>2. QED
      BY <2>1, <2>2, <3>1
  <2>4. CASE Startup
    <3>1. wpc = "startup"
      BY <2>4 DEF Startup, WorkerStartup
    <3>2. lifecycle = client
      BY <3>1 DEF CWInv, TypeOK, LifecycleInv, HolderInv
    <3>3. pc[client] \in {"start_wait", "start_join", "stop_join"}
      BY <3>2 DEF CWInv, LifecycleInv, HeldInv
    <3>4. stage # "second"
      BY <3>3 DEF StageInv, Calling
    <3>5. ~Connected(issued)
      <4>1. submitted_sequence = 0
        BY <3>1 DEF CWInv, CommandInv, OrderInv
      <4>2. QED
        BY <4>1 DEF StageInv, Connected
    <3>6. QED
      BY <2>1, <2>2, <3>4, <3>5
  <2>5. QED
    BY <2>3, <2>4
<1>4. CASE OnReadSample \/ CompleteRead \/ UNCHANGED allVars
  BY <1>4, EventFrame DEF allVars, vars, worker, callers, history, commandVars, clientVars,
     streamVars, Connected, Usable
<1>5. QED
  BY <1>1, <1>2, <1>3, <1>4 DEF BackendNext, WorkerStep, InCommand

-----------------------------------------------------------------------------
LEMMA BackendInvariance == BackendSpec => [](BackendInv /\ CWInv)
<1>1. BackendInit => BackendInv
  BY BackendInvInit
<1>2. BackendInv /\ CWInv /\ CWInv' /\ [BackendNext]_allVars => BackendInv'
  <2>1. SUFFICES ASSUME BackendInv, CWInv, CWInv', [BackendNext]_allVars
                 PROVE  BackendInv'
    OBVIOUS
  <2>2. BackendTypeOK'
    BY <2>1, BackendTypeStep DEF CWInv
  <2>3. StageInv' /\ RequestInv' /\ LifetimeInv' /\ StreamInv'
    BY <2>1, StageStep, RequestStep, LifetimeStep, StreamStep
  <2>4. IdentityInv' /\ ReadInv' /\ RecaptureInv'
    BY <2>1, IdentityStep, ReadStep, RecaptureStep
  <2>5. QED
    BY <2>2, <2>3, <2>4 DEF BackendInv
<1>3. QED
  BY <1>1, <1>2, WorkerInvariance, PTL DEF BackendSpec

\* Whatever the interleaving of the runtime, the worker and Media Foundation's
\* threads, the variables of the backend keep their types.
THEOREM BackendTypes == BackendSpec => []BackendTypeOK
<1>1. BackendInv => BackendTypeOK
  BY DEF BackendInv
<1>2. QED
  BY <1>1, BackendInvariance, PTL

\* The capture that follows a successful reconnect finds the stream that the
\* reconnect has opened (capture_with_one_retry, camera_backend.cpp).
THEOREM RecaptureFinds == BackendSpec => []RecaptureFindsStream
<1>1. BackendInv /\ CWInv => RecaptureFindsStream
  <2>1. SUFFICES ASSUME BackendInv, CWInv, Busy, step = "begin", stage = "second",
                        current.command = mine[client].command
                 PROVE  open /\ ~needs_reconnect
    BY DEF RecaptureFindsStream
  <2>2. /\ current.command \in Commands /\ current.command <= issued
        /\ current.command \notin executed
    BY <2>1, CurrentIssued DEF Busy
  <2>3. pc[client] = "submit_wait"
    <3>1. pc[client] # "submit_wait" => current.command = 0
      BY <2>1 DEF BackendInv, RequestInv, NoEntry
    <3>2. QED
      BY <2>2, <3>1 DEF Commands
  <2>4. issued \notin executed
    BY <2>1, <2>2, <2>3 DEF BackendInv, RequestInv
  <2>5. QED
    BY <2>1, <2>3, <2>4 DEF BackendInv, RecaptureInv, Usable, Busy
<1>2. QED
  BY <1>1, BackendInvariance, PTL

\* Between two commands the backend holds a whole stream or none, however the
\* last command failed, and it knows the camera once a context exists.
THEOREM StreamSettles == BackendSpec => []SettledStream
<1>1. BackendInv => SettledStream
  BY DEF BackendInv, SettledStream, StreamInv, IdentityInv, Busy, Calling
<1>2. QED
  BY <1>1, BackendInvariance, PTL

\* COM and Media Foundation outlive every stream and end with the worker
\* (startup_worker, teardown_worker).
THEOREM LifetimesNest == BackendSpec => []BalancedLifetime
<1>1. BackendInv => BalancedLifetime
  BY DEF BackendInv, BalancedLifetime, LifetimeInv
<1>2. QED
  BY <1>1, BackendInvariance, PTL

\* A frame is the answer to a read that its own capture requested, however
\* late Media Foundation answers the reads of earlier captures and streams.
THEOREM FramesAreFresh == BackendSpec => FreshFrames
<1>1. BackendInv /\ [BackendNext]_allVars => [CaptureFrame => arrived.read > since]_allVars
  <2>1. ASSUME BackendInv, CaptureFrame PROVE arrived.read > since
    <3>1. step = "wait" /\ arrived # NoEvent
      BY <2>1 DEF CaptureFrame, Woken, NoEvent
    <3>2. arrived.read = reads /\ since < reads
      BY <2>1, <3>1 DEF BackendInv, ReadInv, AwaitedInv
    <3>3. QED
      BY <2>1, <3>2 DEF BackendInv, BackendTypeOK
  <2>2. QED
    BY <2>1
<1>2. QED
  BY <1>1, BackendInvariance, PTL DEF BackendSpec, FreshFrames

\* The source reader is asked for a sample only when it owes none (begin_read).
THEOREM ReadsAlternate == BackendSpec => OneReadAtATime
<1>1. BackendInv /\ [BackendNext]_allVars =>
        [IssueRead => \A p \in pending : p.stream # generation]_allVars
  <2>1. ASSUME BackendInv, IssueRead PROVE \A p \in pending : p.stream # generation
    BY <2>1 DEF IssueRead, CanRead, BackendInv, StreamInv, ReadInv, QuietInv
  <2>2. QED
    BY <2>1
<1>2. QED
  BY <1>1, BackendInvariance, PTL DEF BackendSpec, OneReadAtATime

\* The backend uses its command worker as CommandWorker says: every step of the
\* camera is a step of the worker's threads or leaves the worker alone.
THEOREM BackendUsesWorker == BackendSpec => Init /\ [][Next]_vars
<1>1. BackendInit => Init
  BY DEF BackendInit
<1>2. QED
  BY <1>1, BackendRefinesStep, PTL DEF BackendSpec
=============================================================================
