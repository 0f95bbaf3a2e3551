---------------------------- MODULE ArtifactSave ----------------------------
(***************************************************************************)
(* What the capture-save service promises, whatever threads and locks it   *)
(* uses (save_worker.h: "never publishes a final file after cancellation"; *)
(* a caller is "never told `cancelled' for a job that published").         *)
(*                                                                         *)
(* A submitted job is open until it is either published or withdrawn, once *)
(* and for ever, and the caller is told which only after it is settled.    *)
(***************************************************************************)
EXTENDS Naturals

CONSTANT Jobs

VARIABLES
  fate,   \* fate[j]: where job j stands
  told    \* told[j]: what the caller was told of it, "none" before

vars == <<fate, told>>

Fates == {"new", "open", "published", "withdrawn"}
Answers == {"none", "idle", "completed", "cancelled", "failed"}

Init ==
  /\ fate = [j \in Jobs |-> "new"]
  /\ told = [j \in Jobs |-> "none"]

Submit(j) ==
  /\ fate[j] = "new"
  /\ fate' = [fate EXCEPT ![j] = "open"]
  /\ UNCHANGED told

Publish(j) ==
  /\ fate[j] = "open"
  /\ fate' = [fate EXCEPT ![j] = "published"]
  /\ UNCHANGED told

Withdraw(j) ==
  /\ fate[j] = "open"
  /\ fate' = [fate EXCEPT ![j] = "withdrawn"]
  /\ UNCHANGED told

Tell(j, answer) ==
  /\ told[j] = "none"
  /\ \/ fate[j] = "published" /\ answer = "completed"
     \/ fate[j] = "withdrawn" /\ answer \in {"idle", "cancelled", "failed"}
  /\ told' = [told EXCEPT ![j] = answer]
  /\ UNCHANGED fate

Next ==
  \E j \in Jobs :
    \/ Submit(j) \/ Publish(j) \/ Withdraw(j)
    \/ \E answer \in Answers : Tell(j, answer)

Spec == Init /\ [][Next]_vars
=============================================================================
