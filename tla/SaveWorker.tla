----------------------------- MODULE SaveWorker -----------------------------
(***************************************************************************)
(* The bounded capture-save worker of src/src/artifacts/save_worker.{h,cpp} *)
(* with its sink, src/src/artifacts/capture_sink.cpp.                       *)
(*                                                                         *)
(* Two threads: one client (the runtime serialises its inspections, so one *)
(* thread at a time calls the public operations) and the worker.  Two      *)
(* locks: mutex (mutex_) guards the slots, publish_mutex (publish_mutex_)  *)
(* makes the cancellation check and the commit one critical section.  A    *)
(* critical section that takes no other lock and calls no sink is one      *)
(* step; the others are cut at every lock they wait for and every sink     *)
(* call they make.  A job is its id; job 0 is the empty slot.              *)
(***************************************************************************)
EXTENDS Naturals, FiniteSets

CONSTANTS
  MaxJobs,       \* bound on the ids try_submit issues (uint64_t next_id_)
  RemoveMayFail  \* the file system may refuse to remove a temporary

ASSUME MaxJobsAssumption == MaxJobs \in Nat
ASSUME RemoveMayFailAssumption == RemoveMayFail \in BOOLEAN

VARIABLES
  executing_id,     \* the job of the executing slot, or 0
  queued_id,        \* the job of the queue slot, or 0
  next_id,          \* last id issued; also last_submitted_id_
  completed,        \* completed_: outcome per finished job, "none" if absent
  stopping,         \* stopping_
  cancelled_ids,    \* jobs cancelled before their commit decision
  awaited_id,       \* the job wait_until published to the worker, or 0
  expired,          \* the clock has passed awaited_deadline_
  decided_id,       \* the job whose decision is made but not yet moved, or 0
  decided_outcome,  \* its outcome, "none" once taken
  mutex,            \* "free" or its owner
  publish_mutex,    \* "free" or its owner
  cpc,              \* where the client is
  target,           \* wait_until's local
  accepted,         \* what the last try_submit returned
  told,             \* what wait_until returned for a job, "none" before
  wpc,              \* where the worker is
  outcome,          \* execute's local, "none" outside it
  temps,            \* jobs with a temporary file on disk the worker will remove
  leaked,           \* a temporary could not be removed and is forgotten
  final             \* jobs with a published file on disk

slots == <<executing_id, queued_id, next_id, completed, stopping>>
gateVars == <<cancelled_ids, awaited_id, expired, decided_id, decided_outcome>>
locks == <<mutex, publish_mutex>>
client == <<cpc, target, accepted, told>>
worker == <<wpc, outcome>>
files == <<temps, leaked, final>>
vars == <<slots, gateVars, locks, client, worker, files>>

Jobs == 1 .. MaxJobs
SlotId == 0 .. MaxJobs
Outcomes == {"completed", "cancelled", "failed"}

TypeOK ==
  /\ executing_id \in SlotId
  /\ queued_id \in SlotId
  /\ next_id \in SlotId
  /\ completed \in [Jobs -> Outcomes \cup {"none"}]
  /\ stopping \in BOOLEAN
  /\ cancelled_ids \in SUBSET Jobs
  /\ awaited_id \in SlotId
  /\ expired \in BOOLEAN
  /\ decided_id \in SlotId
  /\ decided_outcome \in Outcomes \cup {"none"}
  /\ mutex \in {"free", "client"}
  /\ publish_mutex \in {"free", "worker"}
  /\ cpc \in {"idle", "arm", "waiting", "cancel", "recheck", "draining"}
  /\ target \in SlotId
  /\ accepted \in BOOLEAN
  /\ told \in [Jobs -> Outcomes \cup {"none", "idle"}]
  /\ wpc \in {"parked", "ready", "write", "gate", "commit", "discard",
              "record", "finish", "exited"}
  /\ outcome \in Outcomes \cup {"none"}
  /\ temps \in SUBSET Jobs
  /\ leaked \in BOOLEAN
  /\ final \in SUBSET Jobs

Init ==
  /\ executing_id = 0
  /\ queued_id = 0
  /\ next_id = 0
  /\ completed = [j \in Jobs |-> "none"]
  /\ stopping = FALSE
  /\ cancelled_ids = {}
  /\ awaited_id = 0
  /\ expired = FALSE
  /\ decided_id = 0
  /\ decided_outcome = "none"
  /\ mutex = "free"
  /\ publish_mutex = "free"
  /\ cpc = "idle"
  /\ target = 0
  /\ accepted = FALSE
  /\ told = [j \in Jobs |-> "none"]
  /\ wpc = "ready"
  /\ outcome = "none"
  /\ temps = {}
  /\ leaked = FALSE
  /\ final = {}

-----------------------------------------------------------------------------
(***************************************************************************)
(* Client: try_submit, wait_until, cancel_pending, drain.                  *)
(***************************************************************************)

\* Mutant: work_cv_ is not notified.
NotifyLost == wpc' = wpc

\* Notifying work_cv_ wakes the worker if it is parked on it, else is lost.
NotifyWork == wpc' = IF wpc = "parked" THEN "ready" ELSE wpc

\* try_submit: fill the executing slot, else the queue slot, else refuse.
TrySubmitExecuting ==
  /\ cpc = "idle" /\ mutex = "free"
  /\ ~stopping /\ executing_id = 0
  /\ next_id < MaxJobs
  /\ next_id' = next_id + 1
  /\ executing_id' = next_id + 1
  /\ accepted' = TRUE
  /\ NotifyWork
  /\ UNCHANGED <<queued_id, completed, stopping, gateVars, locks,
                 cpc, target, told, outcome, files>>

TrySubmitQueued ==
  /\ cpc = "idle" /\ mutex = "free"
  /\ ~stopping /\ executing_id # 0 /\ queued_id = 0
  /\ next_id < MaxJobs
  /\ next_id' = next_id + 1
  /\ queued_id' = next_id + 1
  /\ accepted' = TRUE
  /\ UNCHANGED <<executing_id, completed, stopping, gateVars, locks,
                 cpc, target, told, worker, files>>

TrySubmitRefused ==
  /\ cpc = "idle" /\ mutex = "free"
  /\ stopping \/ (executing_id # 0 /\ queued_id # 0)
  /\ accepted' = FALSE
  /\ UNCHANGED <<slots, gateVars, locks, cpc, target, told, worker, files>>

\* A client waits at most once for a submission (finalize_post_frame does).
MayWait == next_id # 0 /\ told[next_id] = "none"

\* The lambda `take': hand out the outcome of job j, and drop it and every
\* older one from completed_.
Take(j) ==
  /\ told' = [told EXCEPT ![j] = completed[j]]
  /\ completed' = [i \in Jobs |-> IF i <= j THEN "none" ELSE completed[i]]

\* wait_until, the outcome is already there.
WaitFound ==
  /\ cpc = "idle" /\ mutex = "free" /\ MayWait
  /\ completed[next_id] # "none"
  /\ target' = next_id
  /\ Take(next_id)
  /\ UNCHANGED <<executing_id, queued_id, next_id, stopping, gateVars, locks,
                 cpc, accepted, worker, files>>

\* wait_until, nothing executes and nothing is queued.
WaitIdle ==
  /\ cpc = "idle" /\ mutex = "free" /\ MayWait
  /\ completed[next_id] = "none"
  /\ executing_id = 0 /\ queued_id = 0
  /\ target' = next_id
  /\ told' = [told EXCEPT ![next_id] = "idle"]
  /\ UNCHANGED <<slots, gateVars, locks, cpc, accepted, worker, files>>

\* wait_until, otherwise: keep mutex_ and ask for publish_mutex_.
WaitBegin ==
  /\ cpc = "idle" /\ mutex = "free" /\ MayWait
  /\ completed[next_id] = "none"
  /\ executing_id # 0 \/ queued_id # 0
  /\ target' = next_id
  /\ mutex' = "client"
  /\ cpc' = "arm"
  /\ UNCHANGED <<slots, gateVars, publish_mutex, accepted, told, worker, files>>

\* Publish the awaited job and its deadline, then wait: mutex_ is released.
WaitArm ==
  /\ cpc = "arm" /\ publish_mutex = "free"
  /\ awaited_id' = target
  /\ expired' \in BOOLEAN
  /\ mutex' = "free"
  /\ cpc' = "waiting"
  /\ UNCHANGED <<slots, cancelled_ids, decided_id, decided_outcome,
                 publish_mutex, target, accepted, told, worker, files>>

\* state_cv_.wait_for returns with the predicate true.
WaitDone ==
  /\ cpc = "waiting" /\ mutex = "free"
  /\ completed[target] # "none"
  /\ Take(target)
  /\ cpc' = "idle"
  /\ UNCHANGED <<executing_id, queued_id, next_id, stopping, gateVars, locks,
                 target, accepted, worker, files>>

\* state_cv_.wait_for times out with the predicate false.  remaining() is cut
\* to milliseconds, so this may precede the expiry the worker reads.  Then
\* cancel_target drops the job from the queue, or goes on to publish_mutex_.
WaitTimeout ==
  /\ cpc = "waiting" /\ mutex = "free"
  /\ completed[target] = "none"
  /\ mutex' = "client"
  /\ queued_id' = IF queued_id = target THEN 0 ELSE queued_id
  /\ cpc' = IF queued_id # target /\ executing_id = target
            THEN "cancel" ELSE "recheck"
  /\ UNCHANGED <<executing_id, next_id, completed, stopping, gateVars,
                 publish_mutex, target, accepted, told, worker, files>>

\* cancel_target under publish_mutex_: a decision already made wins.
WaitCancel ==
  /\ cpc = "cancel" /\ publish_mutex = "free"
  /\ cancelled_ids' = IF decided_id = target THEN cancelled_ids
                      ELSE cancelled_ids \cup {target}
  /\ cpc' = "recheck"
  /\ UNCHANGED <<slots, awaited_id, expired, decided_id, decided_outcome,
                 locks, target, accepted, told, worker, files>>

\* Mutant: the decided outcome is not looked at before giving up.
WonIgnored == FALSE

\* The worker has decided the awaited job but not yet moved its outcome.
Won == decided_id = target /\ decided_outcome # "none"

\* Mutant: a wait that lost its race starts over instead of giving up.
WaitRecheckAgain ==
  /\ cpc = "recheck" /\ publish_mutex = "free"
  /\ told' = IF Won THEN [told EXCEPT ![target] = decided_outcome] ELSE told
  /\ decided_id' = IF Won THEN 0 ELSE decided_id
  /\ decided_outcome' = IF Won THEN "none" ELSE decided_outcome
  /\ mutex' = "free"
  /\ cpc' = IF Won THEN "idle" ELSE "waiting"
  /\ UNCHANGED <<slots, cancelled_ids, awaited_id, expired, publish_mutex,
                 target, accepted, worker, files>>

\* The last look before the synthetic cancellation: take a decided outcome.
WaitRecheck ==
  /\ cpc = "recheck" /\ publish_mutex = "free"
  /\ told' = [told EXCEPT ![target] =
                IF Won THEN decided_outcome ELSE "cancelled"]
  /\ decided_id' = IF Won THEN 0 ELSE decided_id
  /\ decided_outcome' = IF Won THEN "none" ELSE decided_outcome
  /\ mutex' = "free"
  /\ cpc' = "idle"
  /\ UNCHANGED <<slots, cancelled_ids, awaited_id, expired, publish_mutex,
                 target, accepted, worker, files>>

CancelPending ==
  /\ cpc = "idle" /\ mutex = "free" /\ queued_id # 0
  /\ queued_id' = 0
  /\ UNCHANGED <<executing_id, next_id, completed, stopping, gateVars, locks,
                 client, worker, files>>

\* drain: refuse new jobs, drop the queue, wake the worker ...
Drain ==
  /\ cpc = "idle" /\ mutex = "free"
  /\ stopping' = TRUE
  /\ queued_id' = 0
  /\ NotifyWork
  /\ cpc' = "draining"
  /\ UNCHANGED <<executing_id, next_id, completed, gateVars, locks,
                 target, accepted, told, outcome, files>>

\* ... wait for the executing job, then join the worker.
Drained ==
  /\ cpc = "draining" /\ mutex = "free"
  /\ executing_id = 0 /\ wpc = "exited"
  /\ cpc' = "idle"
  /\ UNCHANGED <<slots, gateVars, locks, target, accepted, told, worker, files>>

-----------------------------------------------------------------------------
(***************************************************************************)
(* Worker: worker_loop and execute.                                        *)
(***************************************************************************)

\* worker_loop takes mutex_, finds the predicate of work_cv_ false and parks.
WorkerPark ==
  /\ wpc = "ready" /\ mutex = "free"
  /\ ~stopping /\ executing_id = 0
  /\ wpc' = "parked"
  /\ UNCHANGED <<slots, gateVars, locks, client, outcome, files>>

WorkerExit ==
  /\ wpc = "ready" /\ mutex = "free"
  /\ stopping /\ executing_id = 0
  /\ wpc' = "exited"
  /\ UNCHANGED <<slots, gateVars, locks, client, outcome, files>>

\* worker_loop copies the job and releases mutex_ for execute.
WorkerStart ==
  /\ wpc = "ready" /\ mutex = "free"
  /\ executing_id # 0
  /\ wpc' = "write"
  /\ UNCHANGED <<slots, gateVars, locks, client, outcome, files>>

\* std::filesystem::remove of a temporary: its error is ignored.
RemoveTemporary == UNCHANGED leaked \/ (RemoveMayFail /\ leaked' = TRUE)

\* execute, phase 1, no lock: sink_.write_temp writes the file, or fails and
\* removes what it has written.
WorkerWriteTemp ==
  /\ wpc = "write"
  /\ \/ /\ temps' = temps \cup {executing_id}
        /\ UNCHANGED <<outcome, leaked>>
     \/ /\ outcome' = "failed"
        /\ RemoveTemporary
        /\ UNCHANGED temps
  /\ wpc' = "gate"
  /\ UNCHANGED <<slots, gateVars, locks, client, final>>

\* Mutant: only the deadline is looked at, not the cancellation.
GivenUpByDeadline(j) == awaited_id = j /\ expired

\* cancel_requested: the client cancelled job j or its deadline has passed.
GivenUp(j) == j \in cancelled_ids \/ (awaited_id = j /\ expired)

\* execute, phase 2: take publish_mutex_ and decide.
WorkerGate ==
  /\ wpc = "gate" /\ publish_mutex = "free"
  /\ publish_mutex' = "worker"
  /\ wpc' = IF executing_id \notin temps THEN "record"
            ELSE IF GivenUp(executing_id) THEN "discard" ELSE "commit"
  /\ outcome' = IF executing_id \in temps /\ GivenUp(executing_id)
                THEN "cancelled" ELSE outcome
  /\ UNCHANGED <<slots, gateVars, mutex, client, files>>

\* sink_.commit renames the temporary, or fails and leaves it to discard.
WorkerCommit ==
  /\ wpc = "commit"
  /\ \/ /\ temps' = temps \ {executing_id}
        /\ final' = final \cup {executing_id}
        /\ outcome' = "completed"
        /\ wpc' = "record"
     \/ /\ outcome' = "failed"
        /\ wpc' = "discard"
        /\ UNCHANGED files
  /\ UNCHANGED <<slots, gateVars, locks, client, leaked>>

\* Mutant: the temporary is not removed.
WorkerDiscardNothing ==
  /\ wpc = "discard"
  /\ wpc' = "record"
  /\ UNCHANGED <<slots, gateVars, locks, client, outcome, files>>

\* sink_.discard forgets the temporary of a job that is not published and
\* removes it.
WorkerDiscard ==
  /\ wpc = "discard"
  /\ temps' = temps \ {executing_id}
  /\ RemoveTemporary
  /\ wpc' = "record"
  /\ UNCHANGED <<slots, gateVars, locks, client, outcome, final>>

\* Mutant: the cancellation mark is kept.
ForgetAwaited(j) ==
  /\ awaited_id' = IF awaited_id = j THEN 0 ELSE awaited_id
  /\ expired' = IF awaited_id = j THEN FALSE ELSE expired
  /\ UNCHANGED cancelled_ids

\* Both critical sections end by forgetting what concerned job j.
ForgetMarks(j) ==
  /\ cancelled_ids' = cancelled_ids \ {j}
  /\ awaited_id' = IF awaited_id = j THEN 0 ELSE awaited_id
  /\ expired' = IF awaited_id = j THEN FALSE ELSE expired

\* The end of execute: store the decision and release publish_mutex_.
WorkerRecord ==
  /\ wpc = "record"
  /\ decided_id' = executing_id
  /\ decided_outcome' = outcome
  /\ ForgetMarks(executing_id)
  /\ publish_mutex' = "free"
  /\ wpc' = "finish"
  /\ UNCHANGED <<slots, mutex, client, outcome, files>>

\* Mutant: the queued job is left where it is.
PromoteNothing == executing_id' = 0 /\ UNCHANGED queued_id

\* The queued job moves into the emptied slot, unless the worker is to stop.
Promote ==
  /\ executing_id' = IF stopping THEN 0 ELSE queued_id
  /\ queued_id' = IF stopping THEN queued_id ELSE 0

\* worker_loop after execute: empty the slot, move the outcome unless the
\* client took it, promote the queued job and notify state_cv_.
WorkerFinish ==
  /\ wpc = "finish" /\ mutex = "free" /\ publish_mutex = "free"
  /\ completed' = IF decided_id = executing_id /\ decided_outcome # "none"
                  THEN [completed EXCEPT ![executing_id] = decided_outcome]
                  ELSE completed
  /\ decided_id' = 0
  /\ decided_outcome' = IF decided_id = executing_id THEN "none"
                        ELSE decided_outcome
  /\ ForgetMarks(executing_id)
  /\ Promote
  /\ wpc' = "ready"
  /\ outcome' = "none"
  /\ UNCHANGED <<next_id, stopping, locks, client, files>>

\* The clock passes the deadline the worker holds.
ExpireDeadline ==
  /\ awaited_id # 0 /\ ~expired
  /\ expired' = TRUE
  /\ UNCHANGED <<slots, cancelled_ids, awaited_id, decided_id, decided_outcome,
                 locks, client, worker, files>>

-----------------------------------------------------------------------------
WaitReturn == WaitDone \/ WaitTimeout \/ WaitCancel \/ WaitRecheck

ClientNext ==
  \/ TrySubmitExecuting \/ TrySubmitQueued \/ TrySubmitRefused
  \/ WaitFound \/ WaitIdle \/ WaitBegin \/ WaitArm \/ WaitReturn
  \/ CancelPending \/ Drain \/ Drained

WorkerNext ==
  \/ WorkerPark \/ WorkerExit \/ WorkerStart \/ WorkerWriteTemp
  \/ WorkerGate \/ WorkerCommit \/ WorkerDiscard \/ WorkerRecord \/ WorkerFinish

Next == ClientNext \/ WorkerNext \/ ExpireDeadline

\* A thread that can run does run: sink calls return and timed waits end.  The
\* client owes no further operation, so only what it has begun is fair.  The
\* client's two waits for mutex_ compete with a worker that releases it.
Fairness ==
  /\ WF_vars(WorkerNext)
  /\ WF_vars(WaitArm)
  /\ WF_vars(WaitReturn)
  /\ WF_vars(Drained)

Spec == Init /\ [][Next]_vars /\ Fairness

-----------------------------------------------------------------------------
(***************************************************************************)
(* Properties.                                                             *)
(***************************************************************************)

\* What wait_until told the client of a job is the truth about the disk, then
\* and for ever: "completed" exactly when the final file is published.
PublicationAgreement ==
  \A j \in Jobs : told[j] # "none" => (told[j] = "completed" <=> j \in final)

\* Every temporary file belongs to the job the worker is executing: none is left
\* behind by a cancellation, a failed commit or an expired deadline, but for one
\* whose removal failed.
NoOrphanTemporary ==
  \A j \in temps : j = executing_id /\ wpc \in {"gate", "commit", "discard"}

\* A queued job always has an older executing job ahead of it, whose end
\* promotes it: it is never stranded in the queue, and jobs run in order.
NoStrandedJob ==
  queued_id # 0 => executing_id # 0 /\ executing_id < queued_id

\* A cancellation mark is only kept for the executing job, and only until its
\* decision is recorded: cancelled_ids_ does not grow and never hits a later job.
NoStaleCancellation ==
  cancelled_ids \subseteq {executing_id} \ {decided_id}

\* The worker or the client may still publish job j: nothing settled it yet.
Live(j) ==
  \/ j = queued_id
  \/ j = executing_id /\ outcome = "none" /\ j \notin cancelled_ids

Fate(j) ==
  IF j > next_id THEN "new"
  ELSE IF j \in final THEN "published"
  ELSE IF Live(j) THEN "open" ELSE "withdrawn"

Promise == INSTANCE ArtifactSave WITH fate <- [j \in Jobs |-> Fate(j)]

\* The two locks, the slots and the timed wait together keep the promise of
\* ArtifactSave: a job settles once, and the answer follows the settlement.
ImplementsArtifactSave == Promise!Spec

\* wait_until returns: the client is never stuck in its wait.
WaitReturns == cpc \in {"arm", "waiting", "cancel", "recheck"} ~> cpc = "idle"

\* drain returns, with the worker gone and no temporary file on disk.
DrainReturns ==
  cpc = "draining" ~> (cpc = "idle" /\ wpc = "exited" /\ temps = {})
=============================================================================
