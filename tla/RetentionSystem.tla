--------------------------- MODULE RetentionSystem ---------------------------
(***************************************************************************)
(* Retention with inspections that publish captures and report them, one   *)
(* inspection at a time, and a context that may be destroyed.  What an     *)
(* inspection does in detail is PostFrame.                                 *)
(***************************************************************************)
EXTENDS Retention

VARIABLE
  reporting   \* the capture published by the inspection that runs, if any

systemVars == <<vars, reporting>>

SystemTypeOK == TypeOK /\ reporting \in SUBSET published

SystemInit == Init /\ reporting = {}

\* The save worker renames the temporary file of an inspection's capture.
Publish ==
  /\ ~maintenance_stop /\ reporting = {}
  /\ \E f \in Captures :
       /\ Oldest(f, Captures \ published)
       /\ published' = published \cup {f}
       /\ reporting' = {f}
  /\ UNCHANGED <<size, aged, scheduler, request, run, warnings>>

\* An inspection ends, with or without a capture.
Report ==
  /\ ~maintenance_stop
  /\ ScheduleRetention(reporting # {})
  /\ committed_captures' <= Cardinality(Captures)   \* bound, never reached
  /\ reporting' = {}
  /\ UNCHANGED <<disk, warnings>>

\* The caller quiesces inspections before it destroys the context.
Close == reporting = {} /\ StopMaintenance /\ UNCHANGED reporting

SystemNext ==
  \/ Publish \/ Report \/ Close
  \/ (MaintenanceNext \/ ClockNext) /\ UNCHANGED reporting

\* The maintenance thread runs and the clock goes on.
SystemFairness ==
  /\ WF_systemVars(MaintenanceNext /\ UNCHANGED reporting)
  /\ WF_systemVars(IntervalPasses /\ UNCHANGED reporting)

SystemSpec == SystemInit /\ [][SystemNext]_systemVars /\ SystemFairness

-----------------------------------------------------------------------------
(***************************************************************************)
(* Properties.                                                             *)
(***************************************************************************)

\* A capture within max_age is only deleted when it and the newer ones on disk
\* together exceed the quota, whatever is published during the run.
NoNeedlessDeletion ==
  [][\A f \in removed' \ removed :
       f \in aged \/ TotalBytes({g \in OnDisk : g >= f}) > MaxTotal]_systemVars

\* A run that ends without an error leaves what it has seen of the directory
\* within the quota and without overdue captures.
RunEstablishesQuota ==
  mpc = "record" /\ ~failed =>
    TotalBytes(listing) <= MaxTotal /\ listing \cap overdue = {}

\* A scan or a deletion fails and ends the run.
RunFails == mpc # "record" /\ mpc' = "record" /\ failed'

\* A directory over its quota is brought within it, even by captures that were
\* published during a run, whose count on_retention_run forgets, and after runs
\* that a failed scan or deletion ended early with the same reset: all it takes
\* is that runs do not go on failing for ever.
QuotaIsRestored ==
  <>[][~RunFails]_systemVars =>
    (TotalBytes(OnDisk) > MaxTotal
       ~> TotalBytes(OnDisk) <= MaxTotal \/ maintenance_stop)

\* The maintenance thread can be joined at any time.
MaintenanceStops == maintenance_stop ~> mpc = "exited"
=============================================================================
