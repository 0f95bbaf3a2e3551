---------------------------- MODULE CommandWorker ----------------------------
(***************************************************************************)
(* The single-thread command marshaller of                                 *)
(* src/src/camera/uvc_windows/uvc_command_worker.h: start, submit,         *)
(* stop_and_join and the loop of the worker thread.                        *)
(*                                                                         *)
(* Any thread may call the three operations.  lifecycle_ is held from the  *)
(* start of start and stop_and_join to their end; mutex_ is only held over *)
(* short critical sections, so each of them is one step.  The hooks and    *)
(* the commands run without a lock.  A deadline may pass at any moment.    *)
(***************************************************************************)
EXTENDS Naturals, Sequences

CONSTANTS
  Callers,      \* threads that call the operations
  MaxCommands,  \* bound on the commands submitted
  MaxStarts     \* bound on the threads spawned

ASSUME CommandBounds == MaxCommands \in Nat /\ MaxStarts \in Nat
ASSUME NoCallerIsFree == "free" \notin Callers

VARIABLES
  state,                \* state_
  running,              \* running_
  stop_requested,       \* stop_requested_
  submitted_sequence,   \* submitted_sequence_
  completed_sequence,   \* completed_sequence_
  queue,                \* queue_
  thread,               \* thread_ is joinable
  lifecycle,            \* who holds lifecycle_, or "free"
  pc,                   \* pc[c]: where caller c is
  mine,                 \* mine[c]: the entry caller c waits for
  wpc,                  \* where the worker thread is, "none" if there is none
  current,              \* the entry the worker executes
  issued,               \* commands submitted, each has its number
  starts,               \* threads spawned
  teardowns,            \* teardown hooks run
  executed,             \* commands that have run to their end
  told,                 \* what submit returned for each command
  epoch                 \* the value of starts when each command was submitted

shared == <<state, running, stop_requested, submitted_sequence,
            completed_sequence, queue, thread>>
callers == <<lifecycle, pc, mine>>
worker == <<wpc, current>>
history == <<issued, starts, teardowns, executed, told, epoch>>
vars == <<shared, callers, worker, history>>

Commands == 1 .. MaxCommands
NoEntry == [sequence |-> 0, command |-> 0]
Entries == [sequence : 0 .. MaxCommands, command : 0 .. MaxCommands]

TypeOK ==
  /\ state \in {"stopped", "starting", "running", "failed"}
  /\ running \in BOOLEAN
  /\ stop_requested \in BOOLEAN
  /\ submitted_sequence \in 0 .. MaxCommands
  /\ completed_sequence \in 0 .. MaxCommands
  /\ queue \in Seq(Entries)
  /\ thread \in BOOLEAN
  /\ lifecycle \in Callers \cup {"free"}
  /\ pc \in [Callers -> {"idle", "start_wait", "start_join", "submit_wait",
                         "stop_join"}]
  /\ mine \in [Callers -> Entries]
  /\ wpc \in {"none", "startup", "loop", "run", "complete", "leave",
              "teardown", "end", "done"}
  /\ current \in Entries
  /\ issued \in 0 .. MaxCommands
  /\ starts \in 0 .. MaxStarts
  /\ teardowns \in 0 .. MaxStarts
  /\ executed \in SUBSET Commands
  /\ told \in [Commands -> {"none", "completed", "timeout", "unavailable"}]
  /\ epoch \in [Commands -> 0 .. MaxStarts]

Init ==
  /\ state = "stopped"
  /\ running = FALSE
  /\ stop_requested = FALSE
  /\ submitted_sequence = 0
  /\ completed_sequence = 0
  /\ queue = <<>>
  /\ thread = FALSE
  /\ lifecycle = "free"
  /\ pc = [c \in Callers |-> "idle"]
  /\ mine = [c \in Callers |-> NoEntry]
  /\ wpc = "none"
  /\ current = NoEntry
  /\ issued = 0
  /\ starts = 0
  /\ teardowns = 0
  /\ executed = {}
  /\ told = [k \in Commands |-> "none"]
  /\ epoch = [k \in Commands |-> 0]

-----------------------------------------------------------------------------
(***************************************************************************)
(* start.                                                                  *)
(***************************************************************************)

\* A worker is running, nothing to do.  With lifecycle_ held the state is never
\* "starting" here (LifecycleSettled), so the wait for another start is dead.
StartAgain(c) ==
  /\ pc[c] = "idle" /\ lifecycle = "free"
  /\ state = "running"
  /\ UNCHANGED vars

\* Mutant: a command left in queue_ by the last thread is not dropped.
StartSpawnKeepingQueue(c) ==
  /\ pc[c] = "idle" /\ lifecycle = "free"
  /\ state \notin {"running", "starting"}
  /\ starts < MaxStarts
  /\ lifecycle' = c
  /\ state' = "starting"
  /\ stop_requested' = FALSE
  /\ submitted_sequence' = 0
  /\ completed_sequence' = 0
  /\ thread' = TRUE
  /\ starts' = starts + 1
  /\ wpc' = "startup"
  /\ pc' = [pc EXCEPT ![c] = "start_wait"]
  /\ UNCHANGED <<running, queue, mine, current, issued, teardowns, executed,
                 told, epoch>>

\* Reset everything and spawn the thread; lifecycle_ stays held.
StartSpawn(c) ==
  /\ pc[c] = "idle" /\ lifecycle = "free"
  /\ state \notin {"running", "starting"}
  /\ starts < MaxStarts
  /\ lifecycle' = c
  /\ state' = "starting"
  /\ queue' = <<>>
  /\ stop_requested' = FALSE
  /\ submitted_sequence' = 0
  /\ completed_sequence' = 0
  /\ thread' = TRUE
  /\ starts' = starts + 1
  /\ wpc' = "startup"
  /\ pc' = [pc EXCEPT ![c] = "start_wait"]
  /\ UNCHANGED <<running, mine, current, issued, teardowns, executed, told, epoch>>

\* The wait ends with the predicate true: running, or failed and to be joined.
StartResolved(c) ==
  /\ pc[c] = "start_wait" /\ state \in {"running", "failed"}
  /\ pc' = [pc EXCEPT ![c] = IF state = "running" THEN "idle" ELSE "start_join"]
  /\ lifecycle' = IF state = "running" THEN "free" ELSE lifecycle
  /\ UNCHANGED <<shared, mine, worker, history>>

\* Mutant: a worker that is still starting is not asked to stop.
StartTimeoutSilent(c) ==
  /\ pc[c] = "start_wait" /\ state \notin {"running", "failed"}
  /\ pc' = [pc EXCEPT ![c] = "start_join"]
  /\ UNCHANGED <<shared, lifecycle, mine, worker, history>>

\* The deadline passes with the predicate false: starting, or failed and torn
\* down before this thread looked.
StartTimeout(c) ==
  /\ pc[c] = "start_wait" /\ state \notin {"running", "failed"}
  /\ stop_requested' = (stop_requested \/ state = "starting")
  /\ pc' = [pc EXCEPT ![c] = "start_join"]
  /\ UNCHANGED <<state, running, submitted_sequence, completed_sequence, queue,
                 thread, lifecycle, mine, worker, history>>

StartJoin(c) ==
  /\ pc[c] = "start_join" /\ wpc = "done"
  /\ wpc' = "none"
  /\ thread' = FALSE
  /\ pc' = [pc EXCEPT ![c] = "idle"]
  /\ lifecycle' = "free"
  /\ UNCHANGED <<state, running, stop_requested, submitted_sequence,
                 completed_sequence, queue, mine, current, history>>

-----------------------------------------------------------------------------
(***************************************************************************)
(* submit.                                                                 *)
(***************************************************************************)

\* No worker is running, or the deadline has already passed: nothing is queued.
SubmitRefused(c) == pc[c] = "idle" /\ UNCHANGED vars

SubmitQueued(c) ==
  /\ pc[c] = "idle" /\ state = "running"
  /\ issued < MaxCommands
  /\ LET entry == [sequence |-> submitted_sequence + 1, command |-> issued + 1] IN
     /\ queue' = Append(queue, entry)
     /\ mine' = [mine EXCEPT ![c] = entry]
  /\ submitted_sequence' = submitted_sequence + 1
  /\ issued' = issued + 1
  /\ epoch' = [epoch EXCEPT ![issued + 1] = starts]
  /\ pc' = [pc EXCEPT ![c] = "submit_wait"]
  /\ UNCHANGED <<state, running, stop_requested, completed_sequence, thread,
                 lifecycle, worker, starts, teardowns, executed, told>>

\* Mutant: whoever is woken was served.
AnswerWoken(c) == "completed"

\* What submit returns once its wait has ended.
Answer(c) ==
  IF completed_sequence >= mine[c].sequence THEN "completed"
  ELSE IF state # "running" THEN "unavailable" ELSE "timeout"

\* The wait of submit ends, woken or at its deadline.
SubmitReturns(c) ==
  /\ pc[c] = "submit_wait"
  /\ told' = [told EXCEPT ![mine[c].command] = Answer(c)]
  /\ mine' = [mine EXCEPT ![c] = NoEntry]
  /\ pc' = [pc EXCEPT ![c] = "idle"]
  /\ UNCHANGED <<shared, lifecycle, worker, issued, starts, teardowns, executed,
                 epoch>>

-----------------------------------------------------------------------------
(***************************************************************************)
(* stop_and_join.                                                          *)
(***************************************************************************)

\* Tell the worker to stop, drop what is queued and take thread_ over.
StopSignal(c) ==
  /\ pc[c] = "idle" /\ lifecycle = "free"
  /\ lifecycle' = c
  /\ stop_requested' = TRUE
  /\ queue' = <<>>
  /\ thread' = FALSE
  /\ pc' = [pc EXCEPT ![c] = "stop_join"]
  /\ UNCHANGED <<state, running, submitted_sequence, completed_sequence, mine,
                 worker, history>>

StopJoin(c) ==
  /\ pc[c] = "stop_join" /\ wpc \in {"none", "done"}
  /\ wpc' = "none"
  /\ state' = "stopped"
  /\ running' = FALSE
  /\ pc' = [pc EXCEPT ![c] = "idle"]
  /\ lifecycle' = "free"
  /\ UNCHANGED <<stop_requested, submitted_sequence, completed_sequence, queue,
                 thread, mine, current, history>>

-----------------------------------------------------------------------------
(***************************************************************************)
(* worker_main.                                                            *)
(***************************************************************************)

\* The startup hook returns and its result is stored.
WorkerStartup(ok) ==
  /\ wpc = "startup"
  /\ state' = IF ok THEN "running" ELSE "failed"
  /\ running' = ok
  /\ wpc' = IF ok THEN "loop" ELSE "leave"
  /\ UNCHANGED <<stop_requested, submitted_sequence, completed_sequence, queue,
                 thread, callers, current, history>>

WorkerTake ==
  /\ wpc = "loop" /\ ~stop_requested /\ queue # <<>>
  /\ current' = Head(queue)
  /\ queue' = Tail(queue)
  /\ wpc' = "run"
  /\ UNCHANGED <<state, running, stop_requested, submitted_sequence,
                 completed_sequence, thread, callers, history>>

WorkerStop ==
  /\ wpc = "loop" /\ stop_requested
  /\ queue' = <<>>
  /\ wpc' = "leave"
  /\ UNCHANGED <<state, running, stop_requested, submitted_sequence,
                 completed_sequence, thread, callers, current, history>>

\* The command returns or throws.
WorkerRun ==
  /\ wpc = "run"
  /\ executed' = executed \cup {current.command}
  /\ wpc' = "complete"
  /\ UNCHANGED <<shared, callers, current, issued, starts, teardowns, told, epoch>>

WorkerComplete ==
  /\ wpc = "complete"
  /\ completed_sequence' = current.sequence
  /\ current' = NoEntry
  /\ wpc' = "loop"
  /\ UNCHANGED <<state, running, stop_requested, submitted_sequence, queue,
                 thread, callers, history>>

WorkerLeave ==
  /\ wpc = "leave"
  /\ running' = FALSE
  /\ wpc' = "teardown"
  /\ UNCHANGED <<state, stop_requested, submitted_sequence, completed_sequence,
                 queue, thread, callers, current, history>>

\* Mutant: a worker whose startup failed has nothing to tear down.
WorkerTeardownStarted ==
  /\ wpc = "teardown"
  /\ teardowns' = IF state = "failed" THEN teardowns ELSE teardowns + 1
  /\ wpc' = "end"
  /\ UNCHANGED <<shared, callers, current, issued, starts, executed, told, epoch>>

\* The teardown hook returns or throws.
WorkerTeardown ==
  /\ wpc = "teardown"
  /\ teardowns' = teardowns + 1
  /\ wpc' = "end"
  /\ UNCHANGED <<shared, callers, current, issued, starts, executed, told, epoch>>

\* Mutant: the state is left as it was.
WorkerEndRunning ==
  /\ wpc = "end"
  /\ wpc' = "done"
  /\ UNCHANGED <<shared, callers, current, history>>

WorkerEnd ==
  /\ wpc = "end"
  /\ state' = "stopped"
  /\ wpc' = "done"
  /\ UNCHANGED <<running, stop_requested, submitted_sequence, completed_sequence,
                 queue, thread, callers, current, history>>

-----------------------------------------------------------------------------
CallerReturn(c) ==
  \/ StartResolved(c) \/ StartTimeout(c) \/ StartJoin(c)
  \/ SubmitReturns(c) \/ StopJoin(c)

CallerNext(c) ==
  \/ StartSpawn(c) \/ SubmitQueued(c) \/ StopSignal(c) \/ CallerReturn(c)

WorkerNext ==
  \/ \E ok \in BOOLEAN : WorkerStartup(ok)
  \/ WorkerTake \/ WorkerStop \/ WorkerRun \/ WorkerComplete
  \/ WorkerLeave \/ WorkerTeardown \/ WorkerEnd

Next ==
  \/ \E c \in Callers : CallerNext(c) \/ StartAgain(c) \/ SubmitRefused(c)
  \/ WorkerNext

\* Hooks and commands return, waits end by their deadlines, and a thread that
\* can run does; nobody has to call an operation.
Fairness ==
  /\ WF_vars(WorkerNext)
  /\ \A c \in Callers : WF_vars(CallerReturn(c))

Spec == Init /\ [][Next]_vars /\ Fairness

-----------------------------------------------------------------------------
(***************************************************************************)
(* Properties.                                                             *)
(***************************************************************************)

\* Between lifecycle operations there is a worker that runs and is owned by
\* thread_, or there is none at all: no thread leaks, none is joined twice and
\* thread_ is never overwritten while joinable.
LifecycleSettled ==
  lifecycle = "free" =>
    \/ state = "running" /\ thread /\ running /\ wpc \in {"loop", "run", "complete"}
    \/ state = "stopped" /\ ~thread /\ ~running /\ wpc = "none"

\* Each thread spawned runs the teardown hook exactly once, after a failed or
\* an abandoned startup too.
TeardownBalances ==
  starts = teardowns + (IF wpc \in {"none", "end", "done"} THEN 0 ELSE 1)

\* While no other thread was started since the call, submit tells the truth:
\* "completed" of a command that has run, "unavailable" of one that has not ...
AnswersAreTrue ==
  [][\A k \in Commands : told[k] = "none" /\ epoch[k] = starts =>
       /\ told'[k] = "completed" => k \in executed
       /\ told'[k] = "unavailable" => k \notin executed]_vars

\* ... and never will, though one submitted to a worker that already leaves
\* stays in queue_: only a timed-out command may still run afterwards.
UnavailableNeverRuns ==
  [][\A k \in executed' \ executed : told[k] # "unavailable"]_vars

\* start and stop_and_join return, whatever the worker is doing.
LifecycleReturns == \A c \in Callers : lifecycle = c ~> lifecycle # c
=============================================================================
