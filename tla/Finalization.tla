---------------------------- MODULE Finalization ----------------------------
(***************************************************************************)
(* The pure part of what follows a captured frame: the save policy         *)
(* (decide_capture_save, src/src/artifacts/capture_store.cpp) and the one  *)
(* decision every post-frame outcome goes through (finalize_after_frame,   *)
(* src/src/runtime/finalization.h).  A status stands for the status and    *)
(* its error code, which finalize_after_frame moves together.              *)
(***************************************************************************)

Policies == {"always", "fail_or_error", "never"}
Verdicts == {"pass", "fail", "not_evaluated"}
Requirements == {"none", "optional", "required"}

\* Statuses a stage after the frame can fail with.
FailureStatuses == {"timeout", "camera_error", "algorithm_error",
                    "buffer_too_small", "internal_error"}
Statuses == FailureStatuses \cup {"ok", "required_artifact_error"}

Warnings == {"log_sink_failed", "image_save_failed"}

Requests ==
  [verdict : Verdicts, execution_ok : BOOLEAN, frame_valid : BOOLEAN,
   post_frame_status : FailureStatuses \cup {"ok"}, requirement : Requirements,
   save_attempted : BOOLEAN, save_committed : BOOLEAN, deadline_expired : BOOLEAN]

\* decide_capture_save returns save.
DecideCaptureSave(policy, verdict, execution_ok) ==
  \/ policy = "always"
  \/ policy = "fail_or_error" /\ (~execution_ok \/ verdict = "fail")

SaveRequirementFor(policy, required) ==
  IF policy = "never" THEN "none"
  ELSE IF required THEN "required" ELSE "optional"

Technical(status) == IF status = "ok" THEN "internal_error" ELSE status

\* An optional save was tried and is not committed.
OptionalIncomplete(r) ==
  r.requirement = "optional" /\ r.save_attempted /\ ~r.save_committed

\* Mutant: a required save that ran out of time is let go.
RequiredIncompleteInTime(r) ==
  r.requirement = "required" /\ ~r.save_committed /\ ~r.deadline_expired

\* Mutant: an optional save that failed counts too.
AnyIncomplete(r) == r.save_attempted /\ ~r.save_committed

\* A required save is not committed.
RequiredIncomplete(r) ==
  r.requirement = "required" /\ ~r.save_committed

WithOptionalWarning(r, warn_base) ==
  IF OptionalIncomplete(r) THEN warn_base \cup {"image_save_failed"}
                           ELSE warn_base

DecisionStatus(r) ==
  CASE ~r.frame_valid /\ r.execution_ok /\ r.post_frame_status = "ok" -> "ok"
    [] ~r.frame_valid /\ ~(r.execution_ok /\ r.post_frame_status = "ok")
         -> Technical(r.post_frame_status)
    [] r.frame_valid /\ RequiredIncomplete(r)
         -> IF r.deadline_expired THEN "timeout" ELSE "required_artifact_error"
    [] r.frame_valid /\ ~RequiredIncomplete(r) /\ ~r.execution_ok
         -> Technical(r.post_frame_status)
    [] r.frame_valid /\ ~RequiredIncomplete(r) /\ r.execution_ok -> "ok"

FinalizeAfterFrame(r, warn_base) ==
  [status |-> DecisionStatus(r),
   verdict |-> IF r.frame_valid /\ ~RequiredIncomplete(r) /\ r.execution_ok
               THEN r.verdict ELSE "not_evaluated",
   warning_flags |-> IF r.frame_valid /\ RequiredIncomplete(r) THEN warn_base
                     ELSE WithOptionalWarning(r, warn_base),
   publish_image_path |-> r.frame_valid /\ r.save_committed]
=============================================================================
