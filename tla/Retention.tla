----------------------------- MODULE Retention -----------------------------
(***************************************************************************)
(* Background retention of published captures: the trigger policy of       *)
(* src/src/artifacts/retention_scheduler.h, the maintenance thread of      *)
(* src/src/runtime/context.cpp and CaptureStore::enforce_retention of      *)
(* src/src/artifacts/capture_store.cpp.                                    *)
(*                                                                         *)
(* A capture is its number: captures are written one after the other, so   *)
(* the order of the numbers is older_first.  maintenance_mutex_ is never   *)
(* held over a file operation: its critical sections are single steps, and *)
(* the scan and every deletion interleave with publications.  The sleep of *)
(* 200 ms between two looks at the triggers is stuttering in "idle".       *)
(***************************************************************************)
EXTENDS Naturals, FiniteSetsExt

CONSTANTS
  Captures,   \* bound on the captures published: a set of numbers
  Sizes,      \* sizes a file can have
  MaxAged,    \* bound on the captures that grow older than max_age
  MaxTotal,   \* retention.max_total_bytes
  Trigger     \* capture_trigger_; 0 switches it off

ASSUME RetentionAssumption ==
  /\ Captures \subseteq Nat /\ Sizes \subseteq Nat
  /\ MaxAged \in Nat /\ MaxTotal \in Nat /\ Trigger \in Nat

VARIABLES
  published,              \* captures ever renamed to their final name
  size,                   \* size of each capture
  aged,                   \* captures older than max_age by now
  removed,                \* captures retention has deleted
  committed_captures,     \* committed_captures_
  interval_over,          \* time_trigger_ has passed since last_run_
  maintenance_requested,  \* maintenance_requested_
  maintenance_stop,       \* maintenance_stop_
  mpc,                    \* where the maintenance thread is
  listing,                  \* what is left of the list the scan returned
  overdue,                \* the captures of the list older than max_age
  failed,                 \* the last run ended with an error
  warnings                \* warnings_ of the context

disk == <<published, size, aged>>
scheduler == <<committed_captures, interval_over>>
request == <<maintenance_requested, maintenance_stop>>
run == <<mpc, listing, overdue, failed, removed>>
vars == <<disk, scheduler, request, run, warnings>>

OnDisk == published \ removed
TotalBytes(S) == MapThenSumSet(LAMBDA f : size[f], S)
Oldest(f, S) == f \in S /\ \A g \in S : f <= g

TypeOK ==
  /\ published \in SUBSET Captures
  /\ size \in [Captures -> Sizes]
  /\ aged \in SUBSET published
  /\ removed \in SUBSET published
  /\ committed_captures \in Nat
  /\ interval_over \in BOOLEAN
  /\ maintenance_requested \in BOOLEAN
  /\ maintenance_stop \in BOOLEAN
  /\ mpc \in {"idle", "scan", "delete", "record", "exited"}
  /\ listing \in SUBSET published
  /\ overdue \in SUBSET published
  /\ failed \in BOOLEAN
  /\ warnings \in SUBSET {"log_sink_failed", "image_save_failed"}

\* The constructor anchors the time trigger before it starts the thread.
MaintenanceInit ==
  /\ aged = {}
  /\ size \in [Captures -> Sizes]
  /\ removed = {}
  /\ committed_captures = 0
  /\ interval_over = FALSE
  /\ maintenance_requested = FALSE
  /\ maintenance_stop = FALSE
  /\ mpc = "idle"
  /\ listing = {}
  /\ overdue = {}
  /\ failed = FALSE

Init == MaintenanceInit /\ published = {} /\ warnings = {}

-----------------------------------------------------------------------------
\* schedule_retention, at the end of every inspection that had a frame.
ScheduleRetention(committed) ==
  LET count == committed_captures + IF committed THEN 1 ELSE 0 IN
  /\ committed_captures' = count
  /\ maintenance_requested' =
       \/ maintenance_requested
       \/ committed /\ Trigger # 0 /\ count >= Trigger
       \/ interval_over
  /\ UNCHANGED <<interval_over, maintenance_stop, run>>

\* Mutant: a run that is due begins although the thread is told to stop.
MaintenanceBeginAnyway ==
  /\ mpc = "idle"
  /\ maintenance_requested \/ interval_over
  /\ maintenance_requested' = FALSE
  /\ listing' = OnDisk
  /\ mpc' = "scan"
  /\ UNCHANGED <<disk, scheduler, maintenance_stop, overdue, failed, removed,
                 warnings>>

\* maintenance_loop: take the coalesced request, or see that a run is due, and
\* begin to iterate over the directory with the lock released.
MaintenanceBegin ==
  /\ mpc = "idle" /\ ~maintenance_stop
  /\ maintenance_requested \/ interval_over
  /\ maintenance_requested' = FALSE
  /\ listing' = OnDisk
  /\ mpc' = "scan"
  /\ UNCHANGED <<disk, scheduler, maintenance_stop, overdue, failed, removed,
                 warnings>>

\* is_temporary_capture_name keeps temporaries off the list.
Listable == OnDisk

\* The end of the iteration: a capture published meanwhile is listed or not.
ScanEnd ==
  /\ mpc = "scan"
  /\ \E late \in SUBSET (Listable \ listing) : listing' = listing \cup late
  /\ overdue' = listing' \cap aged
  /\ mpc' = "delete"
  /\ UNCHANGED <<disk, scheduler, request, failed, removed, warnings>>

Abort ==
  /\ failed' = TRUE
  /\ mpc' = "record"
  /\ UNCHANGED <<removed, listing, overdue>>

ScanFails ==
  /\ mpc = "scan" /\ Abort
  /\ UNCHANGED <<disk, scheduler, request, warnings>>

\* Mutant: the newest capture is always kept.
DoomedButLast(f) ==
  \/ Oldest(f, listing \cap overdue)
  \/ /\ listing \cap overdue = {} /\ Cardinality(listing) > 1
     /\ Oldest(f, listing) /\ TotalBytes(listing) > MaxTotal

\* Mutant: the quota is taken as a strict bound.
DoomedAtQuota(f) ==
  \/ Oldest(f, listing \cap overdue)
  \/ listing \cap overdue = {} /\ Oldest(f, listing) /\ TotalBytes(listing) >= MaxTotal

\* Overdue captures go first, then the oldest while the rest is too big.
Doomed(f) ==
  \/ Oldest(f, listing \cap overdue)
  \/ listing \cap overdue = {} /\ Oldest(f, listing) /\ TotalBytes(listing) > MaxTotal

DeleteCapture(f) ==
  /\ mpc = "delete" /\ Doomed(f)
  /\ \/ /\ removed' = removed \cup {f}
        /\ listing' = listing \ {f}
        /\ UNCHANGED <<mpc, overdue, failed>>
     \/ Abort
  /\ UNCHANGED <<disk, scheduler, request, warnings>>

DeleteEnd ==
  /\ mpc = "delete" /\ \A f \in listing : ~Doomed(f)
  /\ failed' = FALSE
  /\ mpc' = "record"
  /\ UNCHANGED <<disk, scheduler, request, removed, listing, overdue, warnings>>

\* Mutant: the thread ends with a run that failed.
MaintenanceRecordGivingUp ==
  /\ mpc = "record"
  /\ warnings' = IF failed THEN warnings \cup {"image_save_failed"} ELSE warnings
  /\ committed_captures' = 0
  /\ interval_over' = FALSE
  /\ listing' = {}
  /\ overdue' = {}
  /\ mpc' = IF failed THEN "exited" ELSE "idle"
  /\ UNCHANGED <<disk, request, failed, removed>>

\* Back under the lock: on_retention_run resets both triggers.
MaintenanceRecord ==
  /\ mpc = "record"
  /\ warnings' = IF failed THEN warnings \cup {"image_save_failed"} ELSE warnings
  /\ committed_captures' = 0
  /\ interval_over' = FALSE
  /\ listing' = {}
  /\ overdue' = {}
  /\ mpc' = "idle"
  /\ UNCHANGED <<disk, request, failed, removed>>

MaintenanceExit ==
  /\ mpc = "idle" /\ maintenance_stop
  /\ mpc' = "exited"
  /\ UNCHANGED <<disk, scheduler, request, listing, overdue, failed, removed, warnings>>

\* ~Impl: stop the thread and drop the request it has not taken.
StopMaintenance ==
  /\ ~maintenance_stop
  /\ maintenance_stop' = TRUE
  /\ maintenance_requested' = FALSE
  /\ UNCHANGED <<disk, scheduler, run, warnings>>

\* The clock: 60 s since the last run, and max_age since a capture was written.
IntervalPasses ==
  /\ ~interval_over /\ interval_over' = TRUE
  /\ UNCHANGED <<disk, committed_captures, request, run, warnings>>

CaptureAges(f) ==
  /\ Cardinality(aged) < MaxAged
  /\ Oldest(f, published \ aged)
  /\ aged' = aged \cup {f}
  /\ UNCHANGED <<published, size, scheduler, request, run, warnings>>

MaintenanceNext ==
  \/ MaintenanceBegin \/ ScanEnd \/ ScanFails
  \/ \E f \in Captures : DeleteCapture(f)
  \/ DeleteEnd \/ MaintenanceRecord \/ MaintenanceExit

ClockNext == IntervalPasses \/ \E f \in Captures : CaptureAges(f)
=============================================================================
