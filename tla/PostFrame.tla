----------------------------- MODULE PostFrame -----------------------------
(***************************************************************************)
(* finalize_post_frame of src/src/runtime/context.cpp: what an inspection  *)
(* does once it has a frame, composed with the save worker it submits to   *)
(* and with the maintenance thread that deletes captures.                  *)
(*                                                                         *)
(* The inspections of a context run one at a time (gate_), so they are the *)
(* single client of SaveWorker; its operations are called here in the      *)
(* order of the code.  What happened before (capture, algorithm,           *)
(* serialisation) is an arbitrary result, reached at an arbitrary time.    *)
(***************************************************************************)
EXTENDS SaveWorker, Finalization

CONSTANTS
  Failures,   \* the technical failures the earlier stages end with
  Sizes, MaxAged, MaxTotal, Trigger    \* as in Retention

ASSUME FailuresAssumption == Failures \subseteq FailureStatuses

VARIABLES
  phase,       \* where the inspection is; "idle" between inspections
  inspection,  \* recipe policy and the result of the earlier stages
  late,        \* the inspection's absolute deadline has passed
  job,         \* the job this inspection submitted, or 0
  warnings,    \* warnings_ of the context, never cleared
  reported,    \* jobs whose image_path was returned to a caller
  size, aged, removed, committed_captures, interval_over, maintenance_requested,
  maintenance_stop, mpc, listing, overdue, failed    \* as in Retention

Maintenance == INSTANCE Retention WITH Captures <- Jobs, published <- final

inspectionVars == <<inspection, late, job>>
outputVars == <<warnings, reported>>
runtimeVars == <<phase, inspectionVars, outputVars>>
maintenanceVars == <<size, aged, removed, committed_captures, interval_over,
  maintenance_requested, maintenance_stop, mpc, listing, overdue, failed>>
allVars == <<vars, runtimeVars, maintenanceVars>>

Inspections ==
  [policy : Policies, required : BOOLEAN, verdict : {"pass", "fail"},
   failure : {"ok"} \cup Failures]

\* A failure replaces the verdict and clears execution_ok.
ExecutionOk == inspection.failure = "ok"
Verdict == IF ExecutionOk THEN inspection.verdict ELSE "not_evaluated"
SaveDecided == DecideCaptureSave(inspection.policy, Verdict, ExecutionOk)
Requirement ==
  IF SaveDecided THEN SaveRequirementFor(inspection.policy, inspection.required)
                 ELSE "none"

PostFrameTypeOK ==
  /\ TypeOK
  /\ Maintenance!TypeOK
  /\ phase \in {"idle", "policy", "await", "settle", "decide"}
  /\ inspection \in Inspections
  /\ late \in BOOLEAN
  /\ job \in SlotId
  /\ warnings \in SUBSET Warnings
  /\ reported \in SUBSET Jobs

NoInspection == [policy |-> "never", required |-> FALSE,
                 verdict |-> "pass", failure |-> "ok"]

PostFrameInit ==
  /\ Init
  /\ phase = "idle"
  /\ inspection = NoInspection
  /\ late = FALSE
  /\ job = 0
  /\ warnings = {}
  /\ reported = {}
  /\ Maintenance!MaintenanceInit

\* An inspection reaches finalize_post_frame with a frame, in time or not.
Arrive ==
  /\ phase = "idle" /\ cpc = "idle" /\ ~maintenance_stop
  /\ next_id < MaxJobs      \* bound: there is an id left for its save
  /\ inspection' \in Inspections
  /\ late' \in BOOLEAN
  /\ phase' = "policy"
  /\ UNCHANGED <<vars, job, outputVars, maintenanceVars>>

SkipSave ==
  /\ phase = "policy" /\ ~SaveDecided
  /\ phase' = "decide"
  /\ UNCHANGED <<vars, inspectionVars, outputVars, maintenanceVars>>

\* Mutant: only a required save is awaited.
SubmitSaveAndForget ==
  /\ phase = "policy" /\ SaveDecided
  /\ TrySubmitExecuting \/ TrySubmitQueued
  /\ job' = next_id'
  /\ phase' = IF Requirement = "required" THEN "await" ELSE "decide"
  /\ UNCHANGED <<inspection, late, outputVars, maintenanceVars>>

\* try_submit.  Its refusal is not modelled: SaveNeverRefused excludes it.
SubmitSave ==
  /\ phase = "policy" /\ SaveDecided
  /\ TrySubmitExecuting \/ TrySubmitQueued
  /\ job' = next_id'
  /\ phase' = "await"
  /\ UNCHANGED <<inspection, late, outputVars, maintenanceVars>>

\* wait_until with the inspection's own deadline.
AwaitSave ==
  /\ phase = "await"
  /\ \/ WaitFound \/ WaitIdle \/ WaitBegin \/ WaitReturn
     \/ WaitArm /\ expired' = late
  /\ phase' = IF told'[job] = "none" THEN "await" ELSE "settle"
  /\ UNCHANGED <<inspectionVars, outputVars, maintenanceVars>>

\* A save that did not complete: cancel_pending.
SettleSave ==
  /\ phase = "settle"
  /\ IF told[job] # "completed" /\ queued_id # 0
     THEN CancelPending ELSE UNCHANGED vars
  /\ phase' = "decide"
  /\ UNCHANGED <<inspectionVars, outputVars, maintenanceVars>>

\* Mutant: an accepted save counts as committed.
CommittedWhenAccepted == job # 0

\* save_committed.
Committed == job # 0 /\ told[job] = "completed"

FinalizeRequest ==
  [verdict |-> Verdict, execution_ok |-> ExecutionOk, frame_valid |-> TRUE,
   post_frame_status |-> inspection.failure, requirement |-> Requirement,
   save_attempted |-> SaveDecided, save_committed |-> Committed,
   deadline_expired |-> late /\ ~Committed]

Decision == FinalizeAfterFrame(FinalizeRequest, warnings)

\* The single decision is returned; the artifact warning sticks to the context
\* and retention is scheduled.
Decide ==
  /\ phase = "decide"
  /\ reported' = IF Decision.publish_image_path THEN reported \cup {job}
                 ELSE reported
  /\ warnings' = warnings \cup (Decision.warning_flags \cap {"image_save_failed"})
  /\ Maintenance!ScheduleRetention(Committed)
  /\ phase' = "idle"
  /\ inspection' = NoInspection
  /\ late' = FALSE
  /\ job' = 0
  /\ UNCHANGED <<vars, size, aged>>

\* The clock passes the inspection's deadline; the worker reads the same clock.
PassDeadline ==
  /\ phase # "idle" /\ ~late
  /\ late' = TRUE
  /\ IF job # 0 /\ awaited_id = job /\ ~expired
     THEN ExpireDeadline ELSE UNCHANGED vars
  /\ UNCHANGED <<phase, inspection, job, outputVars, maintenanceVars>>

\* The deadline of an earlier inspection that has already returned.
PassEarlierDeadline ==
  /\ phase = "idle" \/ awaited_id # job
  /\ ExpireDeadline
  /\ UNCHANGED <<runtimeVars, maintenanceVars>>

RunWorker == WorkerNext /\ UNCHANGED <<runtimeVars, maintenanceVars>>

RunMaintenance ==
  /\ Maintenance!MaintenanceNext \/ Maintenance!ClockNext
  /\ UNCHANGED <<vars, phase, inspectionVars, reported>>

\* ~Impl, once no inspection runs: stop and join the maintenance thread, then
\* drain the save worker.
Destroy ==
  /\ phase = "idle"
  /\ \/ Maintenance!StopMaintenance /\ UNCHANGED vars
     \/ mpc = "exited" /\ ~stopping /\ Drain /\ UNCHANGED maintenanceVars
     \/ Drained /\ UNCHANGED maintenanceVars
  /\ UNCHANGED runtimeVars

PostFrameNext ==
  \/ Arrive \/ SkipSave \/ SubmitSave \/ AwaitSave \/ SettleSave \/ Decide
  \/ PassDeadline \/ PassEarlierDeadline \/ RunWorker \/ RunMaintenance
  \/ Destroy

\* An inspection that has begun runs to its end, and the two workers run.
PostFrameFairness ==
  /\ WF_allVars(SkipSave \/ SubmitSave \/ SettleSave \/ Decide)
  /\ WF_allVars(phase = "await" /\ cpc = "idle" /\ AwaitSave)
  /\ WF_allVars(phase = "await" /\ cpc # "idle" /\ AwaitSave)
  /\ WF_allVars(RunWorker)

PostFrameSpec == PostFrameInit /\ [][PostFrameNext]_allVars /\ PostFrameFairness

-----------------------------------------------------------------------------
(***************************************************************************)
(* Properties.                                                             *)
(***************************************************************************)

\* An image_path returned to a caller names a file that was published, and
\* every published file was returned to the caller of its inspection: a timeout
\* that races the commit neither invents a path nor hides a file.
PublishedIffReported ==
  /\ reported \subseteq final
  /\ final \subseteq reported \cup {job}

\* An inspection that returned is done with the save queue, whatever the worker
\* still executes: try_submit always has room for the next one.
SaveNeverRefused ==
  /\ phase \in {"idle", "policy"} => queued_id = 0
  /\ phase # "idle" => ~stopping

\* A required capture was published when its inspection returns OK.
RequiredMeansSaved ==
  [][Decide /\ Requirement = "required" /\ Decision.status = "ok"
       => job \in final]_allVars

\* An optional save never costs a valid verdict, whatever the deadline did, and
\* is flagged when its file is not there.
OptionalKeepsVerdict ==
  [][Decide /\ ExecutionOk /\ Requirement # "required"
       => /\ Decision.status = "ok" /\ Decision.verdict = inspection.verdict
          /\ Requirement = "optional" /\ job \notin final
               => "image_save_failed" \in Decision.warning_flags]_allVars
=============================================================================
