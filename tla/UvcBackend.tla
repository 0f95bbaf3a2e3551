----------------------------- MODULE UvcBackend -----------------------------
(***************************************************************************)
(* The UVC camera backend of                                               *)
(* src/src/camera/uvc_windows/uvc_backend.cpp: its commands as they run on *)
(* the CommandWorker, the stream generation gate of                        *)
(* uvc_stream_generation.h, and Media Foundation's work-queue threads that *)
(* deliver read events late or never.  The caller is the runtime: create,  *)
(* inspect with capture_with_one_retry (camera_backend.cpp), destroy, one  *)
(* after the other, so a call that timed out leaves a command behind that  *)
(* still runs while the caller goes on.                                    *)
(*                                                                         *)
(* The wait for a flush is left out: it is entered only with a millisecond *)
(* left, and the wait for the read has used up all of them.                *)
(***************************************************************************)
EXTENDS CommandWorker, FiniteSets

CONSTANTS
  MaxInspections,   \* bound on the inspections
  MaxReads          \* bound on the reads requested from Media Foundation

ASSUME BackendBounds ==
  /\ Callers = {"client"}
  /\ MaxInspections \in Nat /\ MaxReads \in Nat

VARIABLES
  stage,            \* the call the runtime is making
  inspection,       \* its number; 0 is the creation of the context
  left,             \* left[i]: what is left of deadline i
  request,          \* request[k]: what command k is to do, and its deadline
  outcome,          \* outcome[k]: the shared result the command fills
  com_initialized, mf_started,
  generation,       \* the gate's active_generation_, 0 if none
  next_generation,  \* the gate's next_generation_
  reader,           \* reader_, source_ and callback_ are held
  open,             \* open_
  needs_reconnect,  \* needs_reconnect_
  identity,         \* has_identity
  step,             \* where the worker is in its command
  since,            \* reads requested before the running capture
  reads,            \* reads requested so far
  pending,          \* reads Media Foundation has not answered
  accepted,         \* events past the gate, not yet written by their callback
  arrived           \* completion state of callback_

clientVars == <<stage, inspection, left>>
commandVars == <<request, outcome, step>>
lifetimeVars == <<com_initialized, mf_started>>
streamVars == <<generation, next_generation, reader, open, needs_reconnect, identity>>
readVars == <<since, reads>>
eventVars == <<pending, accepted, arrived>>
allVars == <<vars, clientVars, commandVars, lifetimeVars, streamVars, readVars,
             eventVars>>

Inspections == 0 .. MaxInspections
Kinds == {"enumerate", "open", "capture", "reconnect"}
Outcomes == {"none", "ok", "frame", "camera_io", "not_found", "timeout"}
Events == {"sample", "tick", "failed", "ended"}
NoRequest == [kind |-> "none", due |-> 0]
NoEvent == [read |-> 0, what |-> "none"]

Request == request[current.command]
Expired == left[Request.due] = "none"
Busy == wpc = "run"
Steps == {"begin", "activate", "format", "again", "wait", "flush"}

BackendTypeOK ==
  /\ TypeOK
  /\ stage \in {"new", "starting", "enumerate", "open", "ready", "first",
                "reconnect", "second", "settle", "failed", "closing", "closed"}
  /\ inspection \in Inspections
  /\ left \in [Inspections -> {"ms", "sub", "none"}]
  /\ request \in [Commands -> [kind : Kinds \cup {"none"}, due : Inspections]]
  /\ outcome \in [Commands -> Outcomes]
  /\ com_initialized \in BOOLEAN /\ mf_started \in BOOLEAN
  /\ generation \in Nat
  /\ next_generation \in Nat
  /\ reader \in BOOLEAN /\ open \in BOOLEAN
  /\ needs_reconnect \in BOOLEAN /\ identity \in BOOLEAN
  /\ step \in Steps
  /\ since \in 0 .. MaxReads /\ reads \in 0 .. MaxReads
  /\ pending \in SUBSET [stream : Nat, read : 1 .. MaxReads]
  /\ accepted \in SUBSET [stream : Nat, read : 1 .. MaxReads, what : Events]
  /\ arrived \in [read : 0 .. MaxReads, what : Events \cup {"none"}]

BackendInit ==
  /\ Init
  /\ stage = "new"
  /\ inspection = 0
  /\ left = [i \in Inspections |-> "ms"]
  /\ request = [k \in Commands |-> NoRequest]
  /\ outcome = [k \in Commands |-> "none"]
  /\ com_initialized = FALSE /\ mf_started = FALSE
  /\ generation = 0 /\ next_generation = 0
  /\ reader = FALSE /\ open = FALSE
  /\ needs_reconnect = FALSE /\ identity = FALSE
  /\ step = "begin"
  /\ since = 0 /\ reads = 0
  /\ pending = {} /\ accepted = {}
  /\ arrived = NoEvent

-----------------------------------------------------------------------------
(***************************************************************************)
(* The runtime's calls.                                                    *)
(***************************************************************************)

client == "client"

\* The backend operation behind a call of the runtime.
KindOf(s) ==
  CASE s \in {"first", "second", "settle"} -> "capture"
    [] s \notin {"first", "second", "settle"} -> s

Calling == stage \in {"enumerate", "open", "first", "reconnect", "second", "settle"}

\* What follows a call: Context::create, capture_with_one_retry, settle frames.
NextStages(result) ==
  CASE result = "frame" -> {"settle", "ready"}
    [] stage = "first" /\ result = "camera_io" -> {"reconnect"}
    [] stage = "reconnect" /\ result = "ok" -> {"second"}
    [] stage = "enumerate" /\ result = "ok" -> {"open"}
    [] stage = "open" /\ result = "ok" -> {"ready"}
    [] stage \in {"enumerate", "open"} /\ result # "ok" -> {"failed"}
    [] OTHER -> {"ready"}

\* The constructor of the backend starts its worker.
Construct ==
  /\ stage = "new" /\ StartSpawn(client)
  /\ stage' = "starting"
  /\ UNCHANGED <<inspection, left, commandVars, lifetimeVars, streamVars,
                 readVars, eventVars>>

Constructed ==
  /\ stage = "starting"
  /\ StartResolved(client) \/ StartTimeout(client) \/ StartJoin(client)
  /\ stage' = IF pc'[client] = "idle" THEN "enumerate" ELSE "starting"
  /\ UNCHANGED <<inspection, left, commandVars, lifetimeVars, streamVars,
                 readVars, eventVars>>

BeginInspection ==
  /\ stage = "ready" /\ inspection < MaxInspections
  /\ inspection' = inspection + 1
  /\ stage' = "first"
  /\ UNCHANGED <<vars, left, commandVars, lifetimeVars, streamVars, readVars,
                 eventVars>>

\* enumerate, open, capture or reconnect is marshalled to the worker ...
Call ==
  /\ Calling /\ running /\ left[inspection] # "none"
  /\ SubmitQueued(client)
  /\ request' = [request EXCEPT ![issued + 1] =
                   [kind |-> KindOf(stage), due |-> inspection]]
  /\ UNCHANGED <<clientVars, outcome, step, lifetimeVars, streamVars, readVars,
                 eventVars>>

\* ... or fails at once: no worker, or no time left.
CallRefused ==
  /\ Calling /\ pc[client] = "idle"
  /\ \/ ~running /\ stage' \in NextStages("camera_io")
     \/ left[inspection] = "none" /\ stage' \in NextStages("timeout")
  /\ UNCHANGED <<vars, inspection, left, commandVars, lifetimeVars, streamVars,
                 readVars, eventVars>>

\* finalize: the result of the command counts only if submit saw it completed.
Result(k) ==
  CASE told'[k] = "completed" -> outcome[k]
    [] told'[k] = "unavailable" -> "camera_io"
    [] told'[k] = "timeout" -> "timeout"

CallReturns ==
  LET k == mine[client].command IN
  /\ Calling /\ SubmitReturns(client)
  /\ told'[k] = "timeout" => left[inspection] # "ms"
  /\ stage' \in NextStages(Result(k))
  /\ UNCHANGED <<inspection, left, commandVars, lifetimeVars, streamVars,
                 readVars, eventVars>>

\* close, by ~Impl of the context or a creation that failed.
Close ==
  /\ stage \in {"ready", "failed"} /\ StopSignal(client)
  /\ stage' = "closing"
  /\ UNCHANGED <<inspection, left, commandVars, lifetimeVars, streamVars,
                 readVars, eventVars>>

Closed ==
  /\ stage = "closing" /\ StopJoin(client)
  /\ stage' = "closed"
  /\ UNCHANGED <<inspection, left, commandVars, lifetimeVars, streamVars,
                 readVars, eventVars>>

\* The clock: whole milliseconds left, less than one, none.
Tick ==
  /\ \E i \in 0 .. inspection :
       /\ left[i] # "none"
       /\ left' = [left EXCEPT ![i] = IF @ = "ms" THEN "sub" ELSE "none"]
  /\ UNCHANGED <<vars, stage, inspection, commandVars, lifetimeVars, streamVars,
                 readVars, eventVars>>

-----------------------------------------------------------------------------
(***************************************************************************)
(* The worker: its lifetime hooks and the commands.                        *)
(***************************************************************************)

\* startup_worker: COM, then Media Foundation.
Startup ==
  /\ com_initialized' \in BOOLEAN
  /\ mf_started' \in (IF com_initialized' THEN BOOLEAN ELSE {FALSE})
  /\ WorkerStartup(mf_started')
  /\ UNCHANGED <<clientVars, commandVars, streamVars, readVars, eventVars>>

\* teardown_stream.
TeardownStream ==
  /\ generation' = 0
  /\ reader' = FALSE
  /\ open' = FALSE
  /\ needs_reconnect' = FALSE
  /\ arrived' = NoEvent
  /\ UNCHANGED <<next_generation, identity, pending, accepted>>

\* Mutant: Media Foundation is shut down only with a stream.
TeardownWithStream ==
  /\ WorkerTeardown
  /\ TeardownStream
  /\ mf_started' = (mf_started /\ ~reader)
  /\ com_initialized' = FALSE
  /\ UNCHANGED <<clientVars, commandVars, readVars>>

\* teardown_worker.
Teardown ==
  /\ WorkerTeardown
  /\ TeardownStream
  /\ mf_started' = FALSE
  /\ com_initialized' = FALSE
  /\ UNCHANGED <<clientVars, commandVars, readVars>>

\* The command returns with its outcome set.
Finish(result) ==
  /\ WorkerRun
  /\ outcome' = [outcome EXCEPT ![current.command] = result]
  /\ step' = "begin"
  /\ UNCHANGED <<request, clientVars, lifetimeVars, readVars>>

Proceed(next) ==
  /\ step' = next
  /\ UNCHANGED <<vars, clientVars, request, outcome, lifetimeVars>>

Enumerate ==
  /\ Busy /\ Request.kind = "enumerate"
  /\ \E result \in {"ok", "camera_io"} : Finish(result)
  /\ UNCHANGED <<streamVars, eventVars>>

\* open and reconnect start from no stream at all; reconnect has an identity
\* to look for (SettledStream).
Activate ==
  /\ Busy /\ Request.kind \in {"open", "reconnect"} /\ step = "begin"
  /\ TeardownStream
  /\ IF Expired THEN Finish("timeout") ELSE Proceed("activate") /\ UNCHANGED readVars

Failure ==
  {"camera_io"} \cup (IF Request.kind = "open" THEN {"not_found"} ELSE {})
                \cup (IF Expired THEN {"timeout"} ELSE {})

\* activate fails before there is a stream: not enumerated, no match.
ActivateFails ==
  /\ Busy /\ step = "activate"
  /\ \E result \in Failure : Finish(result)
  /\ TeardownStream

\* start_stream: a new generation and a new callback that carries it.
BeginStream ==
  /\ Busy /\ step = "activate"
  /\ next_generation' = next_generation + 1
  /\ generation' = next_generation + 1
  /\ arrived' = NoEvent
  /\ Proceed("format")
  /\ UNCHANGED <<reader, open, needs_reconnect, identity, readVars, pending, accepted>>

\* Mutant: a stream whose format was refused is left as it is.
StreamFailsHalfway ==
  /\ Busy /\ step = "format"
  /\ \E result \in Failure : Finish(result)
  /\ UNCHANGED <<streamVars, eventVars>>

\* The reader cannot be created or no format is accepted.
StreamFails ==
  /\ Busy /\ step = "format"
  /\ \E result \in Failure : Finish(result)
  /\ TeardownStream

\* Mutant: open_ is only set by open, not by reconnect.
StreamStartsOnOpen ==
  /\ Busy /\ step = "format"
  /\ reader' = TRUE
  /\ open' = (Request.kind = "open")
  /\ identity' = TRUE
  /\ needs_reconnect' = FALSE
  /\ Finish("ok")
  /\ UNCHANGED <<generation, next_generation, eventVars>>

StreamStarts ==
  /\ Busy /\ step = "format"
  /\ reader' = TRUE
  /\ open' = TRUE
  /\ identity' = TRUE
  /\ needs_reconnect' = FALSE
  /\ Finish("ok")
  /\ UNCHANGED <<generation, next_generation, eventVars>>

\* capture_or_failure, the three early returns.
CaptureRefused ==
  /\ Busy /\ Request.kind = "capture" /\ step = "begin"
  /\ ~open \/ Expired \/ needs_reconnect
  /\ Finish(IF open /\ Expired THEN "timeout" ELSE "camera_io")
  /\ UNCHANGED <<streamVars, eventVars>>

CanRead ==
  /\ Busy /\ Request.kind = "capture"
  /\ \/ step = "begin" /\ open /\ ~Expired /\ ~needs_reconnect
     \/ step = "again"

\* begin_read clears the completion state, then ReadSample is requested.
IssueRead ==
  /\ CanRead /\ reads < MaxReads
  /\ arrived' = NoEvent
  /\ reads' = reads + 1
  /\ since' = IF step = "begin" THEN reads ELSE since
  /\ pending' = pending \cup {[stream |-> generation, read |-> reads + 1]}
  /\ Proceed("wait")
  /\ UNCHANGED <<streamVars, accepted>>

IssueFails ==
  /\ CanRead
  /\ arrived' = NoEvent
  /\ needs_reconnect' = TRUE
  /\ Finish("camera_io")
  /\ UNCHANGED <<generation, next_generation, reader, open, identity, pending,
                 accepted>>

\* The wait for the read ends with an event of the active stream.
Woken(what) ==
  Busy /\ step = "wait" /\ arrived.what = what /\ generation # 0

\* A sample is converted, or cannot be.
CaptureFrame ==
  /\ Woken("sample")
  /\ \E result \in {"frame", "camera_io"} : Finish(result)
  /\ UNCHANGED <<streamVars, eventVars>>

\* An error, a media type that cannot be read any more, the end of the stream.
CaptureBreaks ==
  /\ Woken("failed") \/ Woken("ended")
  /\ needs_reconnect' = TRUE
  /\ Finish("camera_io")
  /\ UNCHANGED <<generation, next_generation, reader, open, identity, eventVars>>

\* An event without a sample: again, if there is time.
CaptureTick ==
  /\ Woken("tick")
  /\ IF Expired THEN Finish("timeout") ELSE Proceed("again") /\ UNCHANGED readVars
  /\ UNCHANGED <<streamVars, eventVars>>

\* Mutant: the wait for the read has no deadline.
CaptureWaitsForever == FALSE

\* The wait times out: cancel_pending_read flushes the reader ...
CaptureTimeout ==
  /\ Busy /\ step = "wait" /\ arrived = NoEvent
  /\ left[Request.due] # "ms"
  /\ Proceed("flush")
  /\ UNCHANGED <<streamVars, readVars, eventVars>>

\* Mutant: the stream is used again although its read was never answered.
CaptureGivesUpQuietly ==
  /\ Busy /\ step = "flush"
  /\ arrived' \in {NoEvent, arrived}
  /\ Finish("timeout")
  /\ UNCHANGED <<streamVars, pending, accepted>>

\* ... which fails, or succeeds with no time left to wait for it.
CaptureGivesUp ==
  /\ Busy /\ step = "flush"
  /\ arrived' \in {NoEvent, arrived}
  /\ needs_reconnect' = TRUE
  /\ Finish("timeout")
  /\ UNCHANGED <<generation, next_generation, reader, open, identity, pending,
                 accepted>>

\* The rest of CommandWorker's worker.
Marshal ==
  /\ WorkerTake \/ WorkerStop \/ WorkerComplete \/ WorkerLeave \/ WorkerEnd
  /\ UNCHANGED <<clientVars, commandVars, lifetimeVars, streamVars, readVars,
                 eventVars>>

-----------------------------------------------------------------------------
(***************************************************************************)
(* ReadCallback, on Media Foundation's threads.                            *)
(***************************************************************************)

\* StreamGenerationGate::accepts.
Accepts(stream) == stream = generation

\* OnReadSample asks the gate: an event of a retired stream is dropped ...
OnReadSample ==
  \E p \in pending, what \in Events :
    /\ pending' = pending \ {p}
    /\ accepted' = IF Accepts(p.stream)
         THEN accepted \cup {[stream |-> p.stream, read |-> p.read, what |-> what]}
         ELSE accepted
    /\ UNCHANGED <<vars, clientVars, commandVars, lifetimeVars, streamVars,
                   readVars, arrived>>

\* Mutant: one callback object serves every stream.
StoreReused(e) == arrived' = [read |-> e.read, what |-> e.what]

\* The callback of another stream than the active one is nobody's.
Store(e) ==
  arrived' = IF e.stream = generation THEN [read |-> e.read, what |-> e.what]
                                      ELSE arrived

\* ... any other is stored in its own callback, however late.
CompleteRead ==
  \E e \in accepted :
    /\ accepted' = accepted \ {e}
    /\ Store(e)
    /\ UNCHANGED <<vars, clientVars, commandVars, lifetimeVars, streamVars,
                   readVars, pending>>

-----------------------------------------------------------------------------
ClientStep ==
  \/ Construct \/ Constructed \/ Call \/ CallRefused \/ CallReturns \/ Closed

WorkerStep ==
  \/ Startup \/ Teardown \/ Marshal \/ Enumerate
  \/ Activate \/ ActivateFails \/ BeginStream \/ StreamFails \/ StreamStarts
  \/ CaptureRefused \/ IssueRead \/ IssueFails \/ CaptureFrame \/ CaptureBreaks
  \/ CaptureTick \/ CaptureTimeout \/ CaptureGivesUp

BackendNext ==
  \/ ClientStep \/ BeginInspection \/ Close \/ Tick \/ WorkerStep
  \/ OnReadSample \/ CompleteRead

\* The runtime ends what it began, the worker runs, Media Foundation's calls
\* return and the clock goes on; no event need ever be delivered.
BackendFairness ==
  /\ WF_allVars(ClientStep)
  /\ WF_allVars(WorkerStep)
  /\ WF_allVars(Tick)

BackendSpec == BackendInit /\ [][BackendNext]_allVars /\ BackendFairness

-----------------------------------------------------------------------------
(***************************************************************************)
(* Properties.                                                             *)
(***************************************************************************)

\* A frame is the answer to a read its own capture requested: no frame of a
\* capture that timed out, or of a stream that was replaced, is ever returned.
FreshFrames == [][CaptureFrame => arrived.read > since]_allVars

\* A reader is never asked for a sample while an older request to it is open.
OneReadAtATime ==
  [][IssueRead => \A p \in pending : p.stream # generation]_allVars

\* After a successful reconnect the recapture finds its stream, whatever
\* commands earlier calls have left behind.
RecaptureFindsStream ==
  Busy /\ step = "begin" /\ stage = "second"
    /\ current.command = mine[client].command
    => open /\ ~needs_reconnect

\* Between commands there is a whole stream or none, however the last command
\* failed, and one that was opened is known for a reconnect.
SettledStream ==
  wpc = "loop" =>
    /\ open <=> generation # 0
    /\ open <=> reader
    /\ Calling /\ stage \notin {"enumerate", "open"} => identity

\* COM and Media Foundation outlive every stream and end with the worker.
BalancedLifetime ==
  /\ reader => mf_started
  /\ mf_started => com_initialized
  /\ wpc \in {"none", "end", "done"} => ~com_initialized /\ generation = 0

\* close joins the worker, even in the middle of a command whose read Media
\* Foundation never answers.
CloseReturns == stage = "closing" ~> stage = "closed"
=============================================================================
