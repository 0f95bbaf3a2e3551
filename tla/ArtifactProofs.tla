---------------------------- MODULE ArtifactProofs ----------------------------
(***************************************************************************)
(* Theorems about the save worker, for every bound MaxJobs, its promise    *)
(* ArtifactSave, the finalization of a frame, and their composition        *)
(* PostFrame, in this order.                                               *)
(***************************************************************************)
EXTENDS PostFrame, TLAPS

(***************************************************************************)
(* The save worker.  PublicationAgreement is not inductive: that nothing   *)
(* is published after a cancellation rests on who holds which lock at      *)
(* which step, on what the decision slot holds between execute and         *)
(* worker_loop, and on the client waiting for the newest job only.  Inv    *)
(* collects those facts.                                                   *)
(***************************************************************************)

\* Each lock is held exactly in its critical sections.
LockInv ==
  /\ mutex = "client" <=> cpc \in {"arm", "cancel", "recheck"}
  /\ publish_mutex = "worker" <=> wpc \in {"commit", "discard", "record"}

SlotInv ==
  /\ executing_id <= next_id /\ queued_id <= next_id
  /\ NoStrandedJob
  /\ stopping => queued_id = 0
  /\ wpc \in {"write", "gate", "commit", "discard", "record", "finish"}
       => executing_id # 0
  /\ wpc \in {"parked", "exited"} => executing_id = 0
  /\ wpc = "exited" => stopping

\* The temporary, the final file and execute's outcome agree with its step.
FileInv ==
  /\ NoOrphanTemporary
  /\ wpc \in {"commit", "discard"} => executing_id \in temps
  /\ wpc = "commit" => executing_id \notin cancelled_ids
  /\ wpc \in {"parked", "ready", "write", "commit", "exited"} => outcome = "none"
  /\ wpc = "gate" => outcome = IF executing_id \in temps THEN "none" ELSE "failed"
  /\ wpc = "discard" => outcome \in {"cancelled", "failed"}
  /\ wpc \in {"record", "finish"}
       => outcome # "none" /\ (outcome = "completed" <=> executing_id \in final)
  /\ \A j \in final :
       /\ j <= next_id /\ j # queued_id
       /\ j = executing_id => wpc \in {"record", "finish"}

\* decided_id and decided_outcome carry the outcome from WorkerRecord to
\* WorkerFinish, unless the client took it in between.
DecisionInv ==
  /\ decided_id = 0 => decided_outcome = "none"
  /\ decided_id # 0 => /\ wpc = "finish" /\ decided_id = executing_id
                       /\ decided_outcome = outcome
  /\ wpc = "finish" /\ decided_id = 0 => told[executing_id] # "none"
  /\ NoStaleCancellation
  /\ wpc = "finish" => cancelled_ids = {}

\* Outcomes kept or told are those of settled jobs, and the truth.
OutcomeInv ==
  /\ \A j \in Jobs : completed[j] # "none"
       => /\ j <= next_id /\ j # executing_id /\ j # queued_id
          /\ completed[j] = "completed" <=> j \in final
  /\ PublicationAgreement
  /\ \A j \in Jobs : told[j] # "none" => j <= next_id /\ ~Live(j)
  /\ next_id \in final /\ told[next_id] = "none" /\ next_id # executing_id
       => completed[next_id] # "none"

\* What the client knows of its target while it waits.
WaitInv ==
  /\ cpc \in {"arm", "waiting", "cancel", "recheck"}
       => target = next_id /\ target # 0 /\ told[target] = "none"
  /\ cpc = "cancel" => executing_id = target
  /\ cpc \in {"cancel", "recheck"} => completed[target] = "none"
  /\ cpc = "recheck" => ~Live(target)

Inv ==
  /\ TypeOK
  /\ LockInv
  /\ SlotInv
  /\ FileInv
  /\ DecisionInv
  /\ OutcomeInv
  /\ WaitInv

-----------------------------------------------------------------------------
(***************************************************************************)
(* Init establishes Inv and every step keeps it.                           *)
(***************************************************************************)
LEMMA InvInit == Init => Inv
<1> SUFFICES ASSUME Init PROVE Inv
  OBVIOUS
<1> USE MaxJobsAssumption DEF Init, Jobs
<1>1. TypeOK
  <2>1. 0 \in SlotId
    BY DEF SlotId
  <2>2. completed \in [Jobs -> Outcomes \cup {"none"}]
    OBVIOUS
  <2>3. told \in [Jobs -> Outcomes \cup {"none", "idle"}]
    OBVIOUS
  <2>4. QED
    BY <2>1, <2>2, <2>3 DEF TypeOK
<1>2. LockInv /\ SlotInv /\ WaitInv
  BY DEF LockInv, SlotInv, NoStrandedJob, WaitInv
<1>3. FileInv /\ DecisionInv
  BY DEF FileInv, NoOrphanTemporary, DecisionInv, NoStaleCancellation
<1>4. OutcomeInv
  BY DEF OutcomeInv, PublicationAgreement
<1>5. QED
  BY <1>1, <1>2, <1>3, <1>4 DEF Inv

LEMMA InvStep == Inv /\ [Next]_vars => Inv'
<1> SUFFICES ASSUME Inv, [Next]_vars PROVE Inv'
  OBVIOUS
<1> USE MaxJobsAssumption DEF Inv, slots, gateVars, locks, client, worker, files
<1>1. CASE TrySubmitExecuting
  <2>1. TypeOK'
    BY <1>1 DEF TrySubmitExecuting, NotifyWork, TypeOK, SlotId
  <2>2. LockInv'
    BY <1>1 DEF TrySubmitExecuting, NotifyWork, LockInv
  <2>3. SlotInv'
    BY <1>1 DEF TrySubmitExecuting, NotifyWork, SlotInv, NoStrandedJob,
         TypeOK
  <2>4. FileInv'
    BY <1>1 DEF TrySubmitExecuting, NotifyWork, FileInv, SlotInv,
         NoOrphanTemporary, DecisionInv, NoStaleCancellation, TypeOK
  <2>5. DecisionInv'
    BY <1>1 DEF TrySubmitExecuting, NotifyWork, DecisionInv, SlotInv,
         NoStaleCancellation
  <2>6. OutcomeInv'
    BY <1>1 DEF TrySubmitExecuting, OutcomeInv, DecisionInv,
         NoStaleCancellation, PublicationAgreement, Live, TypeOK
  <2>7. WaitInv'
    BY <1>1 DEF TrySubmitExecuting, WaitInv
  <2>8. QED
    BY <2>1, <2>2, <2>3, <2>4, <2>5, <2>6, <2>7
<1>2. CASE TrySubmitQueued
  <2>1. TypeOK'
    BY <1>2 DEF TrySubmitQueued, TypeOK, SlotId
  <2>2. LockInv'
    BY <1>2 DEF TrySubmitQueued, LockInv
  <2>3. SlotInv'
    BY <1>2 DEF TrySubmitQueued, SlotInv, NoStrandedJob, TypeOK
  <2>4. FileInv'
    BY <1>2 DEF TrySubmitQueued, FileInv, NoOrphanTemporary, DecisionInv,
         NoStaleCancellation, TypeOK
  <2>5. DecisionInv'
    BY <1>2 DEF TrySubmitQueued, DecisionInv, NoStaleCancellation
  <2>6. OutcomeInv'
    BY <1>2 DEF TrySubmitQueued, OutcomeInv, FileInv, DecisionInv,
         NoStaleCancellation, PublicationAgreement, Live, TypeOK
  <2>7. WaitInv'
    BY <1>2 DEF TrySubmitQueued, WaitInv
  <2>8. QED
    BY <2>1, <2>2, <2>3, <2>4, <2>5, <2>6, <2>7
<1>3. CASE TrySubmitRefused
  <2>1. TypeOK'
    BY <1>3 DEF TrySubmitRefused, TypeOK
  <2>2. LockInv'
    BY <1>3 DEF TrySubmitRefused, LockInv
  <2>3. SlotInv'
    BY <1>3 DEF TrySubmitRefused, SlotInv, NoStrandedJob
  <2>4. FileInv'
    BY <1>3 DEF TrySubmitRefused, FileInv, NoOrphanTemporary
  <2>5. DecisionInv'
    BY <1>3 DEF TrySubmitRefused, DecisionInv, NoStaleCancellation
  <2>6. OutcomeInv'
    BY <1>3 DEF TrySubmitRefused, OutcomeInv, PublicationAgreement, Live
  <2>7. WaitInv'
    BY <1>3 DEF TrySubmitRefused, WaitInv
  <2>8. QED
    BY <2>1, <2>2, <2>3, <2>4, <2>5, <2>6, <2>7
<1>4. CASE WaitFound
  <2>1. TypeOK'
    BY ZenonT(60), <1>4 DEF WaitFound, Take, TypeOK
  <2>2. LockInv'
    BY <1>4 DEF WaitFound, LockInv
  <2>3. SlotInv'
    BY <1>4 DEF WaitFound, SlotInv, NoStrandedJob
  <2>4. FileInv'
    BY <1>4 DEF WaitFound, FileInv, NoOrphanTemporary
  <2>5. DecisionInv'
    BY <1>4 DEF WaitFound, Take, DecisionInv, NoStaleCancellation
  <2>6. OutcomeInv'
    BY <1>4 DEF WaitFound, Take, OutcomeInv, PublicationAgreement, Live,
         TypeOK
  <2>7. WaitInv'
    BY <1>4 DEF WaitFound, WaitInv
  <2>8. QED
    BY <2>1, <2>2, <2>3, <2>4, <2>5, <2>6, <2>7
<1>5. CASE WaitIdle
  <2>1. TypeOK'
    BY ZenonT(60), <1>5 DEF WaitIdle, TypeOK
  <2>2. LockInv'
    BY <1>5 DEF WaitIdle, LockInv
  <2>3. SlotInv'
    BY <1>5 DEF WaitIdle, SlotInv, NoStrandedJob
  <2>4. FileInv'
    BY <1>5 DEF WaitIdle, FileInv, NoOrphanTemporary
  <2>5. DecisionInv'
    BY <1>5 DEF WaitIdle, DecisionInv, NoStaleCancellation
  <2>6. OutcomeInv'
    BY <1>5 DEF WaitIdle, MayWait, OutcomeInv, PublicationAgreement, Live,
         TypeOK
  <2>7. WaitInv'
    BY <1>5 DEF WaitIdle, WaitInv
  <2>8. QED
    BY <2>1, <2>2, <2>3, <2>4, <2>5, <2>6, <2>7
<1>6. CASE WaitBegin
  <2>1. TypeOK'
    BY <1>6 DEF WaitBegin, TypeOK
  <2>2. LockInv'
    BY <1>6 DEF WaitBegin, LockInv
  <2>3. SlotInv'
    BY <1>6 DEF WaitBegin, SlotInv, NoStrandedJob
  <2>4. FileInv'
    BY <1>6 DEF WaitBegin, FileInv, NoOrphanTemporary
  <2>5. DecisionInv'
    BY <1>6 DEF WaitBegin, DecisionInv, NoStaleCancellation
  <2>6. OutcomeInv'
    BY <1>6 DEF WaitBegin, OutcomeInv, PublicationAgreement, Live
  <2>7. WaitInv'
    BY <1>6 DEF WaitBegin, MayWait, WaitInv
  <2>8. QED
    BY <2>1, <2>2, <2>3, <2>4, <2>5, <2>6, <2>7
<1>7. CASE WaitArm
  <2>1. TypeOK'
    BY <1>7 DEF WaitArm, TypeOK
  <2>2. LockInv'
    BY <1>7 DEF WaitArm, LockInv
  <2>3. SlotInv'
    BY <1>7 DEF WaitArm, SlotInv, NoStrandedJob
  <2>4. FileInv'
    BY <1>7 DEF WaitArm, FileInv, NoOrphanTemporary
  <2>5. DecisionInv'
    BY <1>7 DEF WaitArm, DecisionInv, NoStaleCancellation
  <2>6. OutcomeInv'
    BY <1>7 DEF WaitArm, OutcomeInv, PublicationAgreement, Live
  <2>7. WaitInv'
    BY <1>7 DEF WaitArm, WaitInv
  <2>8. QED
    BY <2>1, <2>2, <2>3, <2>4, <2>5, <2>6, <2>7
<1>8. CASE WaitDone
  <2>1. TypeOK'
    BY ZenonT(60), <1>8 DEF WaitDone, Take, TypeOK
  <2>2. LockInv'
    BY <1>8 DEF WaitDone, LockInv
  <2>3. SlotInv'
    BY <1>8 DEF WaitDone, SlotInv, NoStrandedJob
  <2>4. FileInv'
    BY <1>8 DEF WaitDone, FileInv, NoOrphanTemporary
  <2>5. DecisionInv'
    BY <1>8 DEF WaitDone, Take, DecisionInv, NoStaleCancellation
  <2>6. OutcomeInv'
    BY <1>8 DEF WaitDone, Take, OutcomeInv, PublicationAgreement, WaitInv,
         Live, TypeOK
  <2>7. WaitInv'
    BY <1>8 DEF WaitDone, WaitInv
  <2>8. QED
    BY <2>1, <2>2, <2>3, <2>4, <2>5, <2>6, <2>7
<1>9. CASE WaitTimeout
  <2>1. TypeOK'
    BY <1>9 DEF WaitTimeout, TypeOK, SlotId
  <2>2. LockInv'
    BY <1>9 DEF WaitTimeout, LockInv
  <2>3. SlotInv'
    BY <1>9 DEF WaitTimeout, SlotInv, NoStrandedJob, TypeOK, SlotId
  <2>4. FileInv'
    BY <1>9 DEF WaitTimeout, FileInv, NoOrphanTemporary, TypeOK, Jobs
  <2>5. DecisionInv'
    BY <1>9 DEF WaitTimeout, DecisionInv, NoStaleCancellation
  <2>6. OutcomeInv'
    BY <1>9 DEF WaitTimeout, OutcomeInv, PublicationAgreement, Live, Jobs
  <2>7. WaitInv'
    BY <1>9 DEF WaitTimeout, WaitInv, SlotInv, NoStrandedJob, DecisionInv,
         NoStaleCancellation, Live, TypeOK, Jobs
  <2>8. QED
    BY <2>1, <2>2, <2>3, <2>4, <2>5, <2>6, <2>7
<1>10. CASE WaitCancel
  <2>1. TypeOK'
    BY <1>10 DEF WaitCancel, TypeOK, WaitInv, Jobs, SlotId
  <2>2. LockInv'
    BY <1>10 DEF WaitCancel, LockInv
  <2>3. SlotInv'
    BY <1>10 DEF WaitCancel, SlotInv, NoStrandedJob
  <2>4. FileInv'
    BY <1>10 DEF WaitCancel, FileInv, LockInv, NoOrphanTemporary
  <2>5. DecisionInv'
    BY <1>10 DEF WaitCancel, DecisionInv, NoStaleCancellation, WaitInv
  <2>6. OutcomeInv'
    BY <1>10 DEF WaitCancel, OutcomeInv, PublicationAgreement, Live
  <2>7. WaitInv'
    BY <1>10 DEF WaitCancel, WaitInv, SlotInv, NoStrandedJob, FileInv,
         DecisionInv, NoStaleCancellation, Live, TypeOK, Jobs
  <2>8. QED
    BY <2>1, <2>2, <2>3, <2>4, <2>5, <2>6, <2>7
<1>11. CASE WaitRecheck
  <2>1. TypeOK'
    BY <1>11 DEF WaitRecheck, TypeOK, WaitInv, Jobs, SlotId, Outcomes
  <2>2. LockInv'
    BY <1>11 DEF WaitRecheck, LockInv
  <2>3. SlotInv'
    BY <1>11 DEF WaitRecheck, SlotInv, NoStrandedJob
  <2>4. FileInv'
    BY <1>11 DEF WaitRecheck, FileInv, NoOrphanTemporary
  <2>5. DecisionInv'
    BY <1>11 DEF WaitRecheck, Won, DecisionInv, NoStaleCancellation, TypeOK,
         Jobs, SlotId
  <2>6. OutcomeInv'
    BY <1>11 DEF WaitRecheck, Won, OutcomeInv, LockInv, FileInv,
         DecisionInv, PublicationAgreement, WaitInv, Live, Jobs
  <2>7. WaitInv'
    BY <1>11 DEF WaitRecheck, WaitInv
  <2>8. QED
    BY <2>1, <2>2, <2>3, <2>4, <2>5, <2>6, <2>7
<1>12. CASE CancelPending
  <2>1. TypeOK'
    BY <1>12 DEF CancelPending, TypeOK, SlotId
  <2>2. LockInv'
    BY <1>12 DEF CancelPending, LockInv
  <2>3. SlotInv'
    BY <1>12 DEF CancelPending, SlotInv, NoStrandedJob, TypeOK, SlotId
  <2>4. FileInv'
    BY <1>12 DEF CancelPending, FileInv, NoOrphanTemporary, TypeOK, Jobs
  <2>5. DecisionInv'
    BY <1>12 DEF CancelPending, DecisionInv, NoStaleCancellation
  <2>6. OutcomeInv'
    BY <1>12 DEF CancelPending, OutcomeInv, PublicationAgreement, Live, Jobs
  <2>7. WaitInv'
    BY <1>12 DEF CancelPending, WaitInv
  <2>8. QED
    BY <2>1, <2>2, <2>3, <2>4, <2>5, <2>6, <2>7
<1>13. CASE Drain
  <2>1. TypeOK'
    BY <1>13 DEF Drain, NotifyWork, TypeOK, SlotId
  <2>2. LockInv'
    BY <1>13 DEF Drain, NotifyWork, LockInv
  <2>3. SlotInv'
    BY <1>13 DEF Drain, NotifyWork, SlotInv, NoStrandedJob, TypeOK, SlotId
  <2>4. FileInv'
    BY <1>13 DEF Drain, NotifyWork, FileInv, NoOrphanTemporary, TypeOK, Jobs
  <2>5. DecisionInv'
    BY <1>13 DEF Drain, NotifyWork, DecisionInv, NoStaleCancellation
  <2>6. OutcomeInv'
    BY <1>13 DEF Drain, OutcomeInv, PublicationAgreement, Live, Jobs
  <2>7. WaitInv'
    BY <1>13 DEF Drain, WaitInv
  <2>8. QED
    BY <2>1, <2>2, <2>3, <2>4, <2>5, <2>6, <2>7
<1>14. CASE Drained
  <2>1. TypeOK'
    BY <1>14 DEF Drained, TypeOK
  <2>2. LockInv'
    BY <1>14 DEF Drained, LockInv
  <2>3. SlotInv'
    BY <1>14 DEF Drained, SlotInv, NoStrandedJob
  <2>4. FileInv'
    BY <1>14 DEF Drained, FileInv, NoOrphanTemporary
  <2>5. DecisionInv'
    BY <1>14 DEF Drained, DecisionInv, NoStaleCancellation
  <2>6. OutcomeInv'
    BY <1>14 DEF Drained, OutcomeInv, PublicationAgreement, Live
  <2>7. WaitInv'
    BY <1>14 DEF Drained, WaitInv
  <2>8. QED
    BY <2>1, <2>2, <2>3, <2>4, <2>5, <2>6, <2>7
<1>15. CASE WorkerPark
  <2>1. TypeOK'
    BY <1>15 DEF WorkerPark, TypeOK
  <2>2. LockInv'
    BY <1>15 DEF WorkerPark, LockInv
  <2>3. SlotInv'
    BY <1>15 DEF WorkerPark, SlotInv, NoStrandedJob
  <2>4. FileInv'
    BY <1>15 DEF WorkerPark, FileInv, NoOrphanTemporary
  <2>5. DecisionInv'
    BY <1>15 DEF WorkerPark, DecisionInv, NoStaleCancellation
  <2>6. OutcomeInv'
    BY <1>15 DEF WorkerPark, OutcomeInv, PublicationAgreement, Live
  <2>7. WaitInv'
    BY <1>15 DEF WorkerPark, WaitInv, LockInv
  <2>8. QED
    BY <2>1, <2>2, <2>3, <2>4, <2>5, <2>6, <2>7
<1>16. CASE WorkerExit
  <2>1. TypeOK'
    BY <1>16 DEF WorkerExit, TypeOK
  <2>2. LockInv'
    BY <1>16 DEF WorkerExit, LockInv
  <2>3. SlotInv'
    BY <1>16 DEF WorkerExit, SlotInv, NoStrandedJob
  <2>4. FileInv'
    BY <1>16 DEF WorkerExit, FileInv, NoOrphanTemporary
  <2>5. DecisionInv'
    BY <1>16 DEF WorkerExit, DecisionInv, NoStaleCancellation
  <2>6. OutcomeInv'
    BY <1>16 DEF WorkerExit, OutcomeInv, PublicationAgreement, Live
  <2>7. WaitInv'
    BY <1>16 DEF WorkerExit, WaitInv, LockInv
  <2>8. QED
    BY <2>1, <2>2, <2>3, <2>4, <2>5, <2>6, <2>7
<1>17. CASE WorkerStart
  <2>1. TypeOK'
    BY <1>17 DEF WorkerStart, TypeOK
  <2>2. LockInv'
    BY <1>17 DEF WorkerStart, LockInv
  <2>3. SlotInv'
    BY <1>17 DEF WorkerStart, SlotInv, NoStrandedJob
  <2>4. FileInv'
    BY <1>17 DEF WorkerStart, FileInv, NoOrphanTemporary
  <2>5. DecisionInv'
    BY <1>17 DEF WorkerStart, DecisionInv, NoStaleCancellation
  <2>6. OutcomeInv'
    BY <1>17 DEF WorkerStart, OutcomeInv, PublicationAgreement, Live
  <2>7. WaitInv'
    BY <1>17 DEF WorkerStart, WaitInv, LockInv
  <2>8. QED
    BY <2>1, <2>2, <2>3, <2>4, <2>5, <2>6, <2>7
<1>18. CASE WorkerWriteTemp
  <2>1. TypeOK'
    <3>1. executing_id \in Jobs
      BY <1>18 DEF WorkerWriteTemp, SlotInv, TypeOK, Jobs, SlotId
    <3>2. temps' \in SUBSET Jobs
      BY <1>18, <3>1 DEF WorkerWriteTemp, TypeOK
    <3>3. leaked' \in BOOLEAN
      BY <1>18, Zenon DEF WorkerWriteTemp, RemoveTemporary, TypeOK
    <3>4. QED
      BY <1>18, <3>2, <3>3 DEF WorkerWriteTemp, TypeOK, Outcomes
  <2>2. LockInv'
    BY <1>18 DEF WorkerWriteTemp, LockInv
  <2>3. SlotInv'
    BY <1>18 DEF WorkerWriteTemp, SlotInv, NoStrandedJob
  <2>4. FileInv'
    BY <1>18 DEF WorkerWriteTemp, FileInv, NoOrphanTemporary
  <2>5. DecisionInv'
    BY <1>18 DEF WorkerWriteTemp, DecisionInv, NoStaleCancellation
  <2>6. OutcomeInv'
    BY <1>18 DEF WorkerWriteTemp, OutcomeInv, PublicationAgreement, Live
  <2>7. WaitInv'
    BY <1>18 DEF WorkerWriteTemp, WaitInv, Live
  <2>8. QED
    BY <2>1, <2>2, <2>3, <2>4, <2>5, <2>6, <2>7
<1>19. CASE WorkerGate
  <2>1. TypeOK'
    BY <1>19 DEF WorkerGate, TypeOK, Outcomes
  <2>2. LockInv'
    BY <1>19 DEF WorkerGate, LockInv
  <2>3. SlotInv'
    BY <1>19 DEF WorkerGate, SlotInv, NoStrandedJob
  <2>4. FileInv'
    BY <1>19 DEF WorkerGate, GivenUp, FileInv, NoOrphanTemporary
  <2>5. DecisionInv'
    BY <1>19 DEF WorkerGate, DecisionInv, NoStaleCancellation
  <2>6. OutcomeInv'
    BY <1>19 DEF WorkerGate, OutcomeInv, PublicationAgreement, Live
  <2>7. WaitInv'
    BY <1>19 DEF WorkerGate, WaitInv, Live
  <2>8. QED
    BY <2>1, <2>2, <2>3, <2>4, <2>5, <2>6, <2>7
<1>20. CASE WorkerCommit
  <2>1. TypeOK'
    BY <1>20 DEF WorkerCommit, TypeOK, FileInv, Outcomes
  <2>2. LockInv'
    BY <1>20 DEF WorkerCommit, LockInv
  <2>3. SlotInv'
    BY <1>20 DEF WorkerCommit, SlotInv, NoStrandedJob
  <2>4. FileInv'
    <3>1. CASE wpc' = "record"
      <4>1. wpc = "commit" /\ final' = final \cup {executing_id}
            /\ temps' = temps \ {executing_id} /\ outcome' = "completed"
        BY <1>20, <3>1 DEF WorkerCommit
      <4>2. temps' = {}
        BY <4>1 DEF FileInv, NoOrphanTemporary
      <4>3. \A j \in final' : /\ j <= next_id' /\ j # queued_id'
                              /\ j = executing_id' => wpc' \in {"record", "finish"}
        BY <1>20, <3>1, <4>1 DEF WorkerCommit, FileInv, SlotInv,
             NoStrandedJob, TypeOK, SlotId
      <4>4. QED
        BY <1>20, <3>1, <4>1, <4>2, <4>3 DEF WorkerCommit, FileInv,
             NoOrphanTemporary
    <3>2. CASE wpc' = "discard"
      BY <1>20, <3>2 DEF WorkerCommit, FileInv, NoOrphanTemporary
    <3>3. QED
      BY <1>20, <3>1, <3>2 DEF WorkerCommit
  <2>5. DecisionInv'
    BY <1>20 DEF WorkerCommit, DecisionInv, NoStaleCancellation
  <2>6. OutcomeInv'
    BY <1>20 DEF WorkerCommit, OutcomeInv, FileInv, PublicationAgreement,
         Live
  <2>7. WaitInv'
    BY <1>20 DEF WorkerCommit, WaitInv, Live
  <2>8. QED
    BY <2>1, <2>2, <2>3, <2>4, <2>5, <2>6, <2>7
<1>21. CASE WorkerDiscard
  <2>1. TypeOK'
    BY ZenonT(60), <1>21 DEF WorkerDiscard, RemoveTemporary, TypeOK
  <2>2. LockInv'
    BY <1>21 DEF WorkerDiscard, LockInv
  <2>3. SlotInv'
    BY <1>21 DEF WorkerDiscard, SlotInv, NoStrandedJob
  <2>4. FileInv'
    BY <1>21 DEF WorkerDiscard, FileInv, NoOrphanTemporary
  <2>5. DecisionInv'
    BY <1>21 DEF WorkerDiscard, DecisionInv, NoStaleCancellation
  <2>6. OutcomeInv'
    BY <1>21 DEF WorkerDiscard, OutcomeInv, PublicationAgreement, Live
  <2>7. WaitInv'
    BY <1>21 DEF WorkerDiscard, WaitInv, Live
  <2>8. QED
    BY <2>1, <2>2, <2>3, <2>4, <2>5, <2>6, <2>7
<1>22. CASE WorkerRecord
  <2>1. TypeOK'
    BY <1>22 DEF WorkerRecord, ForgetMarks, TypeOK, DecisionInv
  <2>2. LockInv'
    BY <1>22 DEF WorkerRecord, LockInv
  <2>3. SlotInv'
    BY <1>22 DEF WorkerRecord, SlotInv, NoStrandedJob
  <2>4. FileInv'
    BY <1>22 DEF WorkerRecord, FileInv, NoOrphanTemporary
  <2>5. DecisionInv'
    BY <1>22 DEF WorkerRecord, ForgetMarks, DecisionInv, SlotInv,
         NoStaleCancellation
  <2>6. OutcomeInv'
    BY <1>22 DEF WorkerRecord, OutcomeInv, FileInv, PublicationAgreement,
         Live
  <2>7. WaitInv'
    BY <1>22 DEF WorkerRecord, WaitInv, FileInv, Live
  <2>8. QED
    BY <2>1, <2>2, <2>3, <2>4, <2>5, <2>6, <2>7
<1>23. CASE WorkerFinish
  <2>1. TypeOK'
    <3>1. executing_id \in Jobs
      BY <1>23 DEF WorkerFinish, SlotInv, TypeOK, Jobs, SlotId
    <3>2. completed' \in [Jobs -> Outcomes \cup {"none"}]
      BY <1>23, <3>1 DEF WorkerFinish, TypeOK
    <3>3. cancelled_ids' \in SUBSET Jobs /\ awaited_id' \in SlotId
      BY <1>23 DEF WorkerFinish, ForgetMarks, TypeOK, SlotId
    <3>4. expired' \in BOOLEAN
      BY <1>23, Zenon DEF WorkerFinish, ForgetMarks, TypeOK
    <3>5. QED
      BY <1>23, <3>2, <3>3, <3>4 DEF WorkerFinish, Promote, TypeOK, SlotId
  <2>2. LockInv'
    BY <1>23 DEF WorkerFinish, LockInv
  <2>3. SlotInv'
    BY <1>23 DEF WorkerFinish, Promote, SlotInv, NoStrandedJob, TypeOK,
         SlotId
  <2>4. FileInv'
    BY <1>23 DEF WorkerFinish, Promote, FileInv, NoOrphanTemporary, TypeOK,
         Jobs
  <2>5. DecisionInv'
    BY <1>23 DEF WorkerFinish, ForgetMarks, DecisionInv, NoStaleCancellation
  <2>6. OutcomeInv'
    BY <1>23 DEF WorkerFinish, Promote, OutcomeInv, SlotInv, NoStrandedJob,
         FileInv, DecisionInv, NoStaleCancellation, PublicationAgreement,
         Live, TypeOK, Jobs
  <2>7. WaitInv'
    BY <1>23 DEF WorkerFinish, WaitInv, LockInv
  <2>8. QED
    BY <2>1, <2>2, <2>3, <2>4, <2>5, <2>6, <2>7
<1>24. CASE ExpireDeadline
  <2>1. TypeOK'
    BY <1>24 DEF ExpireDeadline, TypeOK
  <2>2. LockInv'
    BY <1>24 DEF ExpireDeadline, LockInv
  <2>3. SlotInv'
    BY <1>24 DEF ExpireDeadline, SlotInv, NoStrandedJob
  <2>4. FileInv'
    BY <1>24 DEF ExpireDeadline, FileInv, NoOrphanTemporary
  <2>5. DecisionInv'
    BY <1>24 DEF ExpireDeadline, DecisionInv, NoStaleCancellation
  <2>6. OutcomeInv'
    BY <1>24 DEF ExpireDeadline, OutcomeInv, PublicationAgreement, Live
  <2>7. WaitInv'
    BY <1>24 DEF ExpireDeadline, WaitInv, Live
  <2>8. QED
    BY <2>1, <2>2, <2>3, <2>4, <2>5, <2>6, <2>7
<1>25. CASE UNCHANGED vars
  BY <1>25 DEF vars, LockInv, SlotInv, NoStrandedJob, FileInv,
       NoOrphanTemporary, DecisionInv, NoStaleCancellation, OutcomeInv,
       PublicationAgreement, WaitInv, Live, TypeOK
<1>26. QED
  BY <1>1, <1>2, <1>3, <1>4, <1>5, <1>6, <1>7, <1>8, <1>9, <1>10, <1>11, <1>12,
     <1>13, <1>14, <1>15, <1>16, <1>17, <1>18, <1>19, <1>20, <1>21, <1>22, <1>23,
     <1>24, <1>25
  DEF Next, ClientNext, WorkerNext, WaitReturn

\* In every reachable state Inv holds, for every bound on the jobs.
THEOREM Invariance == Spec => []Inv
<1>1. QED
  BY InvInit, InvStep, PTL DEF Spec

\* Every variable keeps its type.
THEOREM TypeCorrect == Spec => []TypeOK
<1>1. Inv => TypeOK
  BY DEF Inv
<1>2. QED
  BY Invariance, <1>1, PTL

\* wait_until's answer agrees with the disk: "completed" exactly for a
\* published file, so nothing is published after a cancellation was reported.
THEOREM AnswersAreTrue == Spec => []PublicationAgreement
<1>1. Inv => PublicationAgreement
  BY DEF Inv, OutcomeInv
<1>2. QED
  BY Invariance, <1>1, PTL

\* No temporary file outlives the execution of its job.
THEOREM TemporariesAreRemoved == Spec => []NoOrphanTemporary
<1>1. Inv => NoOrphanTemporary
  BY DEF Inv, FileInv
<1>2. QED
  BY Invariance, <1>1, PTL

\* The queue never holds a job behind an empty executing slot.
THEOREM QueueIsPromoted == Spec => []NoStrandedJob
<1>1. Inv => NoStrandedJob
  BY DEF Inv, SlotInv
<1>2. QED
  BY Invariance, <1>1, PTL

\* Cancellation marks are only for the undecided executing job.
THEOREM MarksAreForgotten == Spec => []NoStaleCancellation
<1>1. Inv => NoStaleCancellation
  BY DEF Inv, DecisionInv
<1>2. QED
  BY Invariance, <1>1, PTL

-----------------------------------------------------------------------------
(***************************************************************************)
(* SaveWorker implements ArtifactSave: every step settles at most one open *)
(* job, or reports one settled job, or changes nothing the promise speaks  *)
(* of.                                                                     *)
(***************************************************************************)

SameFate(S) == \A j \in S : Fate(j)' = Fate(j)

\* A step that changes no fate and tells nothing is a stutter of the promise.
LEMMA StutterStep ==
  ASSUME SameFate(Jobs), told' = told
  PROVE  [Promise!Next]_(Promise!vars)
<1>1. [j \in Jobs |-> Fate(j)]' = [j \in Jobs |-> Fate(j)]
  BY DEF SameFate, Jobs
<1>2. QED
  BY <1>1 DEF Promise!vars

\* A step that opens one new job.
LEMMA SubmitStep ==
  ASSUME NEW k \in Jobs, SameFate(Jobs \ {k}), told' = told,
         Fate(k) = "new", Fate(k)' = "open"
  PROVE  [Promise!Next]_(Promise!vars)
<1>1. [j \in Jobs |-> Fate(j)]' = [[j \in Jobs |-> Fate(j)] EXCEPT ![k] = "open"]
  BY DEF SameFate, Jobs
<1>2. Promise!Submit(k)
  BY <1>1 DEF Promise!Submit
<1>3. QED
  BY <1>2 DEF Promise!Next

\* A step that settles one open job.
LEMMA SettleStep ==
  ASSUME NEW k \in Jobs, SameFate(Jobs \ {k}), told' = told,
         Fate(k) = "open", Fate(k)' \in {"published", "withdrawn"}
  PROVE  [Promise!Next]_(Promise!vars)
<1>1. CASE Fate(k)' = "published"
  <2>1. [j \in Jobs |-> Fate(j)]'
          = [[j \in Jobs |-> Fate(j)] EXCEPT ![k] = "published"]
    BY <1>1 DEF SameFate, Jobs
  <2>2. Promise!Publish(k)
    BY <2>1 DEF Promise!Publish
  <2>3. QED
    BY <2>2 DEF Promise!Next
<1>2. CASE Fate(k)' = "withdrawn"
  <2>1. [j \in Jobs |-> Fate(j)]'
          = [[j \in Jobs |-> Fate(j)] EXCEPT ![k] = "withdrawn"]
    BY <1>2 DEF SameFate, Jobs
  <2>2. Promise!Withdraw(k)
    BY <2>1 DEF Promise!Withdraw
  <2>3. QED
    BY <2>2 DEF Promise!Next
<1>3. QED
  BY <1>1, <1>2

\* A step that tells the client about one settled job.
LEMMA TellStep ==
  ASSUME NEW k \in Jobs, NEW answer \in Outcomes \cup {"idle"},
         SameFate(Jobs), told' = [told EXCEPT ![k] = answer], told[k] = "none",
         Fate(k) = IF answer = "completed" THEN "published" ELSE "withdrawn"
  PROVE  [Promise!Next]_(Promise!vars)
<1>1. [j \in Jobs |-> Fate(j)]' = [j \in Jobs |-> Fate(j)]
  BY DEF SameFate, Jobs
<1>2. Promise!Tell(k, answer)
  BY <1>1 DEF Promise!Tell, Outcomes
<1>3. answer \in Promise!Answers
  BY DEF Promise!Answers, Outcomes
<1>4. QED
  BY <1>2, <1>3 DEF Promise!Next

-----------------------------------------------------------------------------
LEMMA RefinementInit == Init => Promise!Init
<1> SUFFICES ASSUME Init PROVE Promise!Init
  OBVIOUS
<1>1. \A j \in Jobs : Fate(j) = "new"
  BY MaxJobsAssumption DEF Init, Fate, Jobs
<1>2. QED
  BY <1>1 DEF Init, Promise!Init

\* Every step of SaveWorker is a step or a stutter of the promise.
LEMMA RefinementStep ==
  Inv /\ [Next]_vars => [Promise!Next]_(Promise!vars)
<1> SUFFICES ASSUME Inv, [Next]_vars PROVE [Promise!Next]_(Promise!vars)
  OBVIOUS
<1> USE MaxJobsAssumption
    DEF Inv, TypeOK, SlotId, slots, gateVars, locks, client, worker, files
<1>1. CASE TrySubmitExecuting
  <2>1. PICK k \in Jobs : k = next_id + 1
    BY <1>1 DEF TrySubmitExecuting, Jobs
  <2>2. SameFate(Jobs \ {k}) /\ told' = told
    BY <1>1, <2>1 DEF TrySubmitExecuting, SlotInv, NoStrandedJob, Fate,
         Live, SameFate
  <2>3. Fate(k) = "new" /\ Fate(k)' = "open"
    BY <1>1, <2>1 DEF TrySubmitExecuting, SlotInv, FileInv, DecisionInv,
         NoStaleCancellation, Fate, Live
  <2>4. QED
    BY <2>2, <2>3, SubmitStep
<1>2. CASE TrySubmitQueued
  <2>1. PICK k \in Jobs : k = next_id + 1
    BY <1>2 DEF TrySubmitQueued, Jobs
  <2>2. SameFate(Jobs \ {k}) /\ told' = told
    BY <1>2, <2>1 DEF TrySubmitQueued, Jobs, Fate, Live, SameFate
  <2>3. Fate(k) = "new" /\ Fate(k)' = "open"
    BY <1>2, <2>1 DEF TrySubmitQueued, FileInv, Fate, Live
  <2>4. QED
    BY <2>2, <2>3, SubmitStep
<1>3. CASE TrySubmitRefused
  <2>1. SameFate(Jobs) /\ told' = told
    BY <1>3 DEF TrySubmitRefused, Fate, Live, SameFate
  <2>2. QED
    BY <2>1, StutterStep
<1>4. CASE WaitFound
  <2>1. PICK k \in Jobs : k = next_id
    BY <1>4 DEF WaitFound, MayWait, Jobs
  <2>2. PICK answer \in Outcomes \cup {"idle"} :
          told' = [told EXCEPT ![k] = answer]
          /\ answer = completed[next_id]
    BY <1>4, <2>1 DEF WaitFound, Take
  <2>3. SameFate(Jobs) /\ told[k] = "none"
    BY <1>4, <2>1 DEF WaitFound, MayWait, Fate, Live, SameFate
  <2>4. Fate(k) = IF answer = "completed" THEN "published" ELSE "withdrawn"
    BY <1>4, <2>1, <2>2 DEF WaitFound, OutcomeInv, Fate, Live
  <2>5. QED
    BY <2>2, <2>3, <2>4, TellStep
<1>5. CASE WaitIdle
  <2>1. PICK k \in Jobs : k = next_id
    BY <1>5 DEF WaitIdle, MayWait, Jobs
  <2>2. PICK answer \in Outcomes \cup {"idle"} :
          told' = [told EXCEPT ![k] = answer]
          /\ answer = "idle"
    BY <1>5, <2>1 DEF WaitIdle
  <2>3. SameFate(Jobs) /\ told[k] = "none"
    BY <1>5, <2>1 DEF WaitIdle, MayWait, Fate, Live, SameFate
  <2>4. Fate(k) = IF answer = "completed" THEN "published" ELSE "withdrawn"
    BY <1>5, <2>1, <2>2 DEF WaitIdle, MayWait, OutcomeInv, Fate, Live
  <2>5. QED
    BY <2>2, <2>3, <2>4, TellStep
<1>6. CASE WaitBegin
  <2>1. SameFate(Jobs) /\ told' = told
    BY <1>6 DEF WaitBegin, Fate, Live, SameFate
  <2>2. QED
    BY <2>1, StutterStep
<1>7. CASE WaitArm
  <2>1. SameFate(Jobs) /\ told' = told
    BY <1>7 DEF WaitArm, Fate, Live, SameFate
  <2>2. QED
    BY <2>1, StutterStep
<1>8. CASE WaitDone
  <2>1. PICK k \in Jobs : k = target
    BY <1>8 DEF WaitDone, WaitInv, Jobs
  <2>2. PICK answer \in Outcomes \cup {"idle"} :
          told' = [told EXCEPT ![k] = answer]
          /\ answer = completed[target]
    BY <1>8, <2>1 DEF WaitDone, Take
  <2>3. SameFate(Jobs) /\ told[k] = "none"
    BY <1>8, <2>1 DEF WaitDone, WaitInv, Fate, Live, SameFate
  <2>4. Fate(k) = IF answer = "completed" THEN "published" ELSE "withdrawn"
    BY <1>8, <2>1, <2>2 DEF WaitDone, OutcomeInv, Fate, Live
  <2>5. QED
    BY <2>2, <2>3, <2>4, TellStep
<1>9. CASE WaitTimeout
  <2>1. PICK k \in SlotId : k = target
    OBVIOUS
  <2>2. told' = told
    BY <1>9 DEF WaitTimeout
  <2>3. \/ SameFate(Jobs)
        \/ /\ k \in Jobs /\ SameFate(Jobs \ {k})
           /\ Fate(k) = "open" /\ Fate(k)' \in {"published", "withdrawn"}
    BY <1>9, <2>1 DEF WaitTimeout, Jobs, Fate, Live, SameFate
  <2>4. QED
    BY <2>2, <2>3, StutterStep, SettleStep
<1>10. CASE WaitCancel
  <2>1. PICK k \in SlotId : k = target
    OBVIOUS
  <2>2. told' = told
    BY <1>10 DEF WaitCancel
  <2>3. \/ SameFate(Jobs)
        \/ /\ k \in Jobs /\ SameFate(Jobs \ {k})
           /\ Fate(k) = "open" /\ Fate(k)' \in {"published", "withdrawn"}
    BY <1>10, <2>1 DEF WaitCancel, Fate, Live, SameFate
  <2>4. QED
    BY <2>2, <2>3, StutterStep, SettleStep
<1>11. CASE WaitRecheck
  <2>1. PICK k \in Jobs : k = target
    BY <1>11 DEF WaitRecheck, Won, WaitInv, Jobs
  <2>2. PICK answer \in Outcomes \cup {"idle"} :
          told' = [told EXCEPT ![k] = answer]
          /\ answer = IF decided_id = target /\ decided_outcome # "none"
                       THEN decided_outcome ELSE "cancelled"
    BY <1>11, <2>1 DEF WaitRecheck, Won, Outcomes
  <2>3. SameFate(Jobs) /\ told[k] = "none"
    BY <1>11, <2>1 DEF WaitRecheck, Won, WaitInv, Fate, Live, SameFate
  <2>4. Fate(k) = IF answer = "completed" THEN "published" ELSE "withdrawn"
    BY <1>11, <2>1, <2>2 DEF WaitRecheck, Won, FileInv, DecisionInv, LockInv,
         OutcomeInv, WaitInv, Fate
  <2>5. QED
    BY <2>2, <2>3, <2>4, TellStep
<1>12. CASE CancelPending
  <2>1. PICK k \in SlotId : k = queued_id
    OBVIOUS
  <2>2. told' = told
    BY <1>12 DEF CancelPending
  <2>3. \/ SameFate(Jobs)
        \/ /\ k \in Jobs /\ SameFate(Jobs \ {k})
           /\ Fate(k) = "open" /\ Fate(k)' \in {"published", "withdrawn"}
    BY <1>12, <2>1 DEF CancelPending, Jobs, Fate, Live, SameFate
  <2>4. QED
    BY <2>2, <2>3, StutterStep, SettleStep
<1>13. CASE Drain
  <2>1. PICK k \in SlotId : k = queued_id
    OBVIOUS
  <2>2. told' = told
    BY <1>13 DEF Drain
  <2>3. \/ SameFate(Jobs)
        \/ /\ k \in Jobs /\ SameFate(Jobs \ {k})
           /\ Fate(k) = "open" /\ Fate(k)' \in {"published", "withdrawn"}
    BY <1>13, <2>1 DEF Drain, Jobs, Fate, Live, SameFate
  <2>4. QED
    BY <2>2, <2>3, StutterStep, SettleStep
<1>14. CASE Drained
  <2>1. SameFate(Jobs) /\ told' = told
    BY <1>14 DEF Drained, Fate, Live, SameFate
  <2>2. QED
    BY <2>1, StutterStep
<1>15. CASE WorkerPark
  <2>1. SameFate(Jobs) /\ told' = told
    BY <1>15 DEF WorkerPark, Fate, Live, SameFate
  <2>2. QED
    BY <2>1, StutterStep
<1>16. CASE WorkerExit
  <2>1. SameFate(Jobs) /\ told' = told
    BY <1>16 DEF WorkerExit, Fate, Live, SameFate
  <2>2. QED
    BY <2>1, StutterStep
<1>17. CASE WorkerStart
  <2>1. SameFate(Jobs) /\ told' = told
    BY <1>17 DEF WorkerStart, Fate, Live, SameFate
  <2>2. QED
    BY <2>1, StutterStep
<1>18. CASE WorkerWriteTemp
  <2>1. PICK k \in SlotId : k = executing_id
    OBVIOUS
  <2>2. told' = told
    BY <1>18 DEF WorkerWriteTemp
  <2>3. \/ SameFate(Jobs)
        \/ /\ k \in Jobs /\ SameFate(Jobs \ {k})
           /\ Fate(k) = "open" /\ Fate(k)' \in {"published", "withdrawn"}
    BY <1>18, <2>1 DEF WorkerWriteTemp, Fate, Live, SameFate
  <2>4. QED
    BY <2>2, <2>3, StutterStep, SettleStep
<1>19. CASE WorkerGate
  <2>1. PICK k \in SlotId : k = executing_id
    OBVIOUS
  <2>2. told' = told
    BY <1>19 DEF WorkerGate
  <2>3. \/ SameFate(Jobs)
        \/ /\ k \in Jobs /\ SameFate(Jobs \ {k})
           /\ Fate(k) = "open" /\ Fate(k)' \in {"published", "withdrawn"}
    BY <1>19, <2>1 DEF WorkerGate, Fate, Live, SameFate
  <2>4. QED
    BY <2>2, <2>3, StutterStep, SettleStep
<1>20. CASE WorkerCommit
  <2>1. PICK k \in SlotId : k = executing_id
    OBVIOUS
  <2>2. told' = told
    BY <1>20 DEF WorkerCommit
  <2>3. \/ SameFate(Jobs)
        \/ /\ k \in Jobs /\ SameFate(Jobs \ {k})
           /\ Fate(k) = "open" /\ Fate(k)' \in {"published", "withdrawn"}
    BY <1>20, <2>1 DEF WorkerCommit, FileInv, Fate, Live, SameFate
  <2>4. QED
    BY <2>2, <2>3, StutterStep, SettleStep
<1>21. CASE WorkerDiscard
  <2>1. SameFate(Jobs) /\ told' = told
    BY <1>21 DEF WorkerDiscard, Fate, Live, SameFate
  <2>2. QED
    BY <2>1, StutterStep
<1>22. CASE WorkerRecord
  <2>1. SameFate(Jobs) /\ told' = told
    BY <1>22 DEF WorkerRecord, FileInv, Fate, Live, SameFate
  <2>2. QED
    BY <2>1, StutterStep
<1>23. CASE WorkerFinish
  <2>1. SameFate(Jobs) /\ told' = told
    BY <1>23 DEF WorkerFinish, Promote, ForgetMarks, FileInv, DecisionInv, Jobs,
         Fate, Live, SameFate
  <2>2. QED
    BY <2>1, StutterStep
<1>24. CASE ExpireDeadline
  <2>1. SameFate(Jobs) /\ told' = told
    BY <1>24 DEF ExpireDeadline, Fate, Live, SameFate
  <2>2. QED
    BY <2>1, StutterStep
<1>25. CASE UNCHANGED vars
  <2>1. SameFate(Jobs) /\ told' = told
    BY <1>25 DEF vars, SameFate, Fate, Live
  <2>2. QED
    BY <2>1, StutterStep
<1>26. QED
  BY <1>1, <1>2, <1>3, <1>4, <1>5, <1>6, <1>7, <1>8, <1>9, <1>10, <1>11, <1>12, <1>13,
     <1>14, <1>15, <1>16, <1>17, <1>18, <1>19, <1>20, <1>21, <1>22, <1>23, <1>24, <1>25
  DEF Next, ClientNext, WorkerNext, WaitReturn

\* SaveWorker keeps the promise of ArtifactSave, for every bound on the jobs.
THEOREM Refinement == Spec => ImplementsArtifactSave
<1>1. QED
  BY RefinementInit, RefinementStep, Invariance, PTL DEF Spec,
       ImplementsArtifactSave, Promise!Spec

-----------------------------------------------------------------------------
(***************************************************************************)
(* What finalize_after_frame guarantees for every request it can be given. *)
(***************************************************************************)

\* An inspection that is not OK has no verdict: a technical error is never
\* reported as PASS or FAIL.
THEOREM ErrorsAreNotEvaluated ==
  ASSUME NEW r \in Requests, NEW w \in SUBSET Warnings,
         FinalizeAfterFrame(r, w).status # "ok"
  PROVE  FinalizeAfterFrame(r, w).verdict = "not_evaluated"
<1>1. FinalizeAfterFrame(r, w).status = DecisionStatus(r)
  BY DEF FinalizeAfterFrame
<1>2. CASE r.frame_valid /\ ~RequiredIncomplete(r) /\ r.execution_ok
  BY <1>1, <1>2 DEF DecisionStatus
<1>3. CASE ~(r.frame_valid /\ ~RequiredIncomplete(r) /\ r.execution_ok)
  BY <1>3 DEF FinalizeAfterFrame
<1>4. QED
  BY <1>2, <1>3

\* A frame whose required capture is not committed is never OK.
THEOREM RequiredOkIsCommitted ==
  ASSUME NEW r \in Requests, NEW w \in SUBSET Warnings,
         r.frame_valid, r.requirement = "required",
         FinalizeAfterFrame(r, w).status = "ok"
  PROVE  r.save_committed
<1>1. DecisionStatus(r) = "ok"
  BY DEF FinalizeAfterFrame
<1>2. SUFFICES ASSUME RequiredIncomplete(r) PROVE FALSE
  BY DEF RequiredIncomplete
<1>3. DecisionStatus(r) \in {"timeout", "required_artifact_error"}
  BY <1>2 DEF DecisionStatus
<1>4. QED
  BY <1>1, <1>3

\* With a frame and an executed algorithm, a save that is not required leaves
\* the status OK and the verdict as it is; a failed one adds the warning.
THEOREM OptionalSaveKeepsVerdict ==
  ASSUME NEW r \in Requests, NEW w \in SUBSET Warnings,
         r.frame_valid, r.execution_ok, r.requirement # "required"
  PROVE  LET d == FinalizeAfterFrame(r, w) IN
         /\ d.status = "ok" /\ d.verdict = r.verdict
         /\ OptionalIncomplete(r) => "image_save_failed" \in d.warning_flags
<1>1. ~RequiredIncomplete(r)
  BY DEF RequiredIncomplete
<1>2. DecisionStatus(r) = "ok"
  BY <1>1 DEF DecisionStatus
<1>3. QED
  BY <1>1, <1>2 DEF FinalizeAfterFrame, WithOptionalWarning

-----------------------------------------------------------------------------
(***************************************************************************)
(* The composition.  Every step of PostFrame is a step or a stutter of     *)
(* SaveWorker, so Inv holds here too; with it, PostInv says what each      *)
(* phase knows of its job, and that every job but the running inspection's *)
(* has been answered and reported.                                         *)
(***************************************************************************)

\* What the phase says of the job and of the client's place in SaveWorker.
PhaseInv ==
  /\ job # 0 => job = next_id
  /\ phase \in {"idle", "policy"} => job = 0
  /\ phase \in {"await", "settle"} => job # 0
  /\ phase = "await" => told[job] = "none"
  /\ phase \in {"settle", "decide"} /\ job # 0 => told[job] # "none"
  /\ cpc \in {"arm", "waiting", "cancel", "recheck"} => phase = "await"

\* Only the awaited job can be in the queue.
QueueInv == queued_id # 0 => phase = "await" /\ queued_id = job

\* Jobs of earlier inspections are answered, and reported when published.
AnswerInv ==
  /\ reported \subseteq final
  /\ \A j \in Jobs : j <= next_id /\ j # job
       => told[j] # "none" /\ (told[j] = "completed" => j \in reported)

\* The context is destroyed in order, and not during an inspection.
StopInv ==
  /\ stopping \/ mpc = "exited" => maintenance_stop
  /\ maintenance_stop => phase = "idle"

PostInv ==
  /\ phase \in {"idle", "policy", "await", "settle", "decide"}
  /\ job \in SlotId
  /\ PhaseInv
  /\ QueueInv
  /\ AnswerInv
  /\ StopInv

-----------------------------------------------------------------------------
(***************************************************************************)
(* SaveWorker's steps are all that happens to SaveWorker's variables.      *)
(***************************************************************************)
LEMMA PostFrameRefinesInit == PostFrameInit => Init
<1>1. QED
  BY DEF PostFrameInit

LEMMA PostFrameRefinesStep == [PostFrameNext]_allVars => [Next]_vars
<1> SUFFICES ASSUME [PostFrameNext]_allVars PROVE [Next]_vars
  OBVIOUS
<1> USE DEF Next, ClientNext
<1>1. CASE Arrive
  BY <1>1 DEF Arrive
<1>2. CASE SkipSave
  BY <1>2 DEF SkipSave
<1>3. CASE SubmitSave
  BY <1>3 DEF SubmitSave
<1>4. CASE AwaitSave
  BY <1>4 DEF AwaitSave
<1>5. CASE SettleSave
  BY <1>5 DEF SettleSave
<1>6. CASE Decide
  BY <1>6 DEF Decide
<1>7. CASE PassDeadline
  BY <1>7 DEF PassDeadline
<1>8. CASE PassEarlierDeadline
  BY <1>8 DEF PassEarlierDeadline
<1>9. CASE RunWorker
  BY <1>9 DEF RunWorker
<1>10. CASE RunMaintenance
  BY <1>10 DEF RunMaintenance
<1>11. CASE Destroy
  BY <1>11 DEF Destroy
<1>12. CASE UNCHANGED allVars
  BY <1>12 DEF allVars
<1>13. QED
  BY <1>1, <1>2, <1>3, <1>4, <1>5, <1>6, <1>7, <1>8, <1>9, <1>10, <1>11, <1>12
  DEF PostFrameNext

\* What SaveWorker guarantees, it guarantees to the inspections.
THEOREM WorkerInvariance == PostFrameSpec => []Inv
<1>1. QED
  BY PostFrameRefinesInit, PostFrameRefinesStep, InvInit, InvStep, PTL
  DEF PostFrameSpec

-----------------------------------------------------------------------------
LEMMA PostInvInit == PostFrameInit => PostInv
<1> SUFFICES ASSUME PostFrameInit PROVE PostInv
  OBVIOUS
<1>1. PhaseInv /\ QueueInv /\ AnswerInv
  BY DEF PostFrameInit, Init, PhaseInv, QueueInv, AnswerInv, Jobs
<1>2. StopInv
  BY DEF PostFrameInit, Init, Maintenance!MaintenanceInit, StopInv
<1>3. QED
  BY <1>1, <1>2, MaxJobsAssumption DEF PostFrameInit, PostInv, SlotId

\* What the steps of the two background threads leave alone.
LEMMA WorkerFrame ==
  ASSUME WorkerNext
  PROVE  /\ UNCHANGED <<next_id, stopping, client>>
         /\ queued_id' \in {0, queued_id}
         /\ final \subseteq final'
<1> USE DEF slots, gateVars, locks, client, worker, files
<1>1. CASE WorkerPark
  BY <1>1 DEF WorkerPark
<1>2. CASE WorkerExit
  BY <1>2 DEF WorkerExit
<1>3. CASE WorkerStart
  BY <1>3 DEF WorkerStart
<1>4. CASE WorkerWriteTemp
  BY <1>4 DEF WorkerWriteTemp
<1>5. CASE WorkerGate
  BY <1>5 DEF WorkerGate
<1>6. CASE WorkerCommit
  BY <1>6 DEF WorkerCommit
<1>7. CASE WorkerDiscard
  BY <1>7 DEF WorkerDiscard
<1>8. CASE WorkerRecord
  BY <1>8 DEF WorkerRecord
<1>9. CASE WorkerFinish
  BY <1>9 DEF WorkerFinish, Promote
<1>10. QED
  BY <1>1, <1>2, <1>3, <1>4, <1>5, <1>6, <1>7, <1>8, <1>9 DEF WorkerNext

LEMMA MaintenanceFrame ==
  ASSUME Maintenance!MaintenanceNext \/ Maintenance!ClockNext
  PROVE  /\ UNCHANGED maintenance_stop
         /\ mpc' = "exited" => mpc = "exited" \/ maintenance_stop
<1> USE DEF Maintenance!disk, Maintenance!scheduler, Maintenance!request,
            Maintenance!run
<1>1. CASE Maintenance!MaintenanceBegin
  BY <1>1 DEF Maintenance!MaintenanceBegin
<1>2. CASE Maintenance!ScanEnd
  BY <1>2 DEF Maintenance!ScanEnd
<1>3. CASE Maintenance!ScanFails
  BY <1>3 DEF Maintenance!ScanFails, Maintenance!Abort
<1>4. ASSUME NEW f \in Jobs, Maintenance!DeleteCapture(f)
      PROVE  /\ UNCHANGED maintenance_stop
             /\ mpc' = "exited" => mpc = "exited" \/ maintenance_stop
  BY <1>4 DEF Maintenance!DeleteCapture, Maintenance!Abort
<1>5. CASE Maintenance!DeleteEnd
  BY <1>5 DEF Maintenance!DeleteEnd
<1>6. CASE Maintenance!MaintenanceRecord
  BY <1>6 DEF Maintenance!MaintenanceRecord
<1>7. CASE Maintenance!MaintenanceExit
  BY <1>7 DEF Maintenance!MaintenanceExit
<1>8. CASE Maintenance!IntervalPasses
  BY <1>8 DEF Maintenance!IntervalPasses
<1>9. ASSUME NEW f \in Jobs, Maintenance!CaptureAges(f)
      PROVE  /\ UNCHANGED maintenance_stop
             /\ mpc' = "exited" => mpc = "exited" \/ maintenance_stop
  BY <1>9 DEF Maintenance!CaptureAges
<1>10. QED
  BY <1>1, <1>2, <1>3, <1>4, <1>5, <1>6, <1>7, <1>8, <1>9
  DEF Maintenance!MaintenanceNext, Maintenance!ClockNext

LEMMA PostInvStep ==
  Inv /\ Inv' /\ PostInv /\ [PostFrameNext]_allVars => PostInv'
<1> SUFFICES ASSUME Inv, Inv', PostInv, [PostFrameNext]_allVars PROVE PostInv'
  OBVIOUS
<1> USE MaxJobsAssumption
    DEF PostInv, PhaseInv, QueueInv, AnswerInv, StopInv, Inv, TypeOK, SlotId, Jobs,
        inspectionVars, outputVars, runtimeVars, maintenanceVars,
        slots, gateVars, locks, client, worker, files, Outcomes
<1>1. CASE Arrive
  BY <1>1 DEF Arrive, vars
<1>2. CASE SkipSave
  BY <1>2 DEF SkipSave, vars
<1>3. CASE SubmitSave
  <2>1. /\ phase = "policy" /\ phase' = "await" /\ job' = next_id'
        /\ UNCHANGED <<reported, maintenanceVars>>
    BY <1>3 DEF SubmitSave
  <2>2. /\ next_id' = next_id + 1 /\ next_id < MaxJobs
        /\ queued_id' \in {queued_id, next_id'}
        /\ UNCHANGED <<cpc, told, stopping, final>>
    BY <1>3 DEF SubmitSave, TrySubmitExecuting, TrySubmitQueued
  <2>3. told[next_id'] = "none"
    BY <2>2 DEF OutcomeInv
  <2>4. AnswerInv'
    BY <2>1, <2>2
  <2>5. PhaseInv' /\ QueueInv' /\ StopInv'
    BY <2>1, <2>2, <2>3
  <2>6. QED
    BY <2>1, <2>2, <2>4, <2>5
<1>4. CASE AwaitSave
  <2>1. /\ phase = "await" /\ UNCHANGED <<inspectionVars, maintenanceVars, reported>>
        /\ phase' = IF told'[job] = "none" THEN "await" ELSE "settle"
    BY <1>4 DEF AwaitSave
  <2>2. /\ UNCHANGED <<next_id, stopping, final>>
        /\ queued_id' \in {0, queued_id}
        /\ cpc' \in {"idle", "arm", "waiting", "cancel", "recheck"}
        /\ \A j \in Jobs : j # job => told'[j] = told[j]
        /\ told'[job] # "none" => cpc' = "idle"
    <3>1. CASE WaitFound
      BY <3>1, <2>1 DEF WaitFound, Take, MayWait
    <3>2. CASE WaitIdle
      BY <3>2, <2>1 DEF WaitIdle, MayWait
    <3>3. CASE WaitBegin
      BY <3>3, <2>1 DEF WaitBegin, MayWait
    <3>4. CASE WaitArm
      BY <3>4, <2>1 DEF WaitArm
    <3>5. CASE WaitDone
      BY <3>5, <2>1 DEF WaitDone, Take, WaitInv
    <3>6. CASE WaitTimeout
      BY <3>6, <2>1 DEF WaitTimeout
    <3>7. CASE WaitCancel
      BY <3>7, <2>1 DEF WaitCancel
    <3>8. CASE WaitRecheck
      BY <3>8, <2>1 DEF WaitRecheck, WaitInv
    <3>9. QED
      BY <1>4, <3>1, <3>2, <3>3, <3>4, <3>5, <3>6, <3>7, <3>8
      DEF AwaitSave, WaitReturn
  <2>3. PhaseInv'
    BY <2>1, <2>2
  <2>4. QueueInv'
    <3>1. told'[job] # "none" => job # queued_id'
      BY <2>1, <2>2 DEF OutcomeInv, Live
    <3>2. QED
      BY <2>1, <2>2, <3>1
  <2>5. AnswerInv'
    BY <2>1, <2>2
  <2>6. StopInv'
    BY <2>1, <2>2
  <2>7. QED
    BY <2>1, <2>3, <2>4, <2>5, <2>6
<1>5. CASE SettleSave
  BY <1>5 DEF SettleSave, CancelPending, vars
<1>6. CASE Decide
  <2>1. Decision.publish_image_path <=> Committed
    BY DEF Decision, FinalizeRequest, FinalizeAfterFrame
  <2>2. Committed => job \in final
    BY DEF Committed, OutcomeInv, PublicationAgreement
  <2>3. /\ phase = "decide" /\ phase' = "idle" /\ job' = 0
        /\ reported' = IF Committed THEN reported \cup {job} ELSE reported
        /\ UNCHANGED <<vars, mpc, maintenance_stop>>
    BY <1>6, <2>1 DEF Decide, Maintenance!ScheduleRetention, Maintenance!run
  <2>4. AnswerInv'
    BY <2>2, <2>3 DEF Committed, vars
  <2>5. PhaseInv' /\ QueueInv' /\ StopInv'
    BY <2>3 DEF vars
  <2>6. QED
    BY <2>3, <2>4, <2>5
<1>7. CASE PassDeadline
  BY <1>7 DEF PassDeadline, ExpireDeadline, vars
<1>8. CASE PassEarlierDeadline
  BY <1>8 DEF PassEarlierDeadline, ExpireDeadline
<1>9. CASE RunWorker
  BY <1>9, WorkerFrame DEF RunWorker
<1>10. CASE RunMaintenance
  BY <1>10, MaintenanceFrame DEF RunMaintenance, vars
<1>11. CASE Destroy
  <2>1. CASE Maintenance!StopMaintenance /\ UNCHANGED vars
    BY <1>11, <2>1 DEF Destroy, Maintenance!StopMaintenance, Maintenance!run, vars
  <2>2. CASE mpc = "exited" /\ ~stopping /\ Drain /\ UNCHANGED maintenanceVars
    BY <1>11, <2>2 DEF Destroy, Drain
  <2>3. CASE Drained /\ UNCHANGED maintenanceVars
    BY <1>11, <2>3 DEF Destroy, Drained
  <2>4. QED
    BY <1>11, <2>1, <2>2, <2>3 DEF Destroy
<1>12. CASE UNCHANGED allVars
  BY <1>12 DEF allVars, vars
<1>13. QED
  BY <1>1, <1>2, <1>3, <1>4, <1>5, <1>6, <1>7, <1>8, <1>9, <1>10, <1>11, <1>12
  DEF PostFrameNext

LEMMA PostInvariance == PostFrameSpec => [](Inv /\ PostInv)
<1>1. PostFrameInit => Inv /\ PostInv
  BY PostFrameRefinesInit, InvInit, PostInvInit
<1>2. Inv /\ PostInv /\ [PostFrameNext]_allVars => (Inv /\ PostInv)'
  BY PostFrameRefinesStep, InvStep, PostInvStep
<1>3. QED
  BY <1>1, <1>2, PTL DEF PostFrameSpec

\* Image paths and published files agree at the end of every inspection: none
\* is invented, and no file is published behind the caller's back.
THEOREM PathsAreTrue == PostFrameSpec => []PublishedIffReported
<1>1. Inv /\ PostInv => PublishedIffReported
  BY DEF Inv, FileInv, TypeOK, OutcomeInv, PublicationAgreement, PostInv,
         AnswerInv, PublishedIffReported
<1>2. QED
  BY <1>1, PostInvariance, PTL

\* The queue slot is free when an inspection comes to save, so the refusal of
\* try_submit, and the code behind it, cannot be reached.
THEOREM SavesAreAccepted == PostFrameSpec => []SaveNeverRefused
<1>1. PostInv => SaveNeverRefused
  BY DEF PostInv, QueueInv, StopInv, SaveNeverRefused
<1>2. QED
  BY <1>1, PostInvariance, PTL

\* An inspection that requires its capture is only OK when the file was
\* published.
THEOREM RequiredIsPublished == PostFrameSpec => RequiredMeansSaved
<1>1. ASSUME Inv, PostInv, Decide, Requirement = "required", Decision.status = "ok"
      PROVE  job \in final
  <2>1. FinalizeRequest.save_committed = Committed
        /\ FinalizeRequest.frame_valid = TRUE
        /\ FinalizeRequest.requirement = "required"
    BY <1>1 DEF FinalizeRequest
  <2>2. DecisionStatus(FinalizeRequest) = "ok"
    BY <1>1 DEF Decision, FinalizeAfterFrame
  <2>3. Committed
    BY <2>1, <2>2 DEF DecisionStatus, RequiredIncomplete
  <2>4. QED
    BY <1>1, <2>3, MaxJobsAssumption DEF Committed, PostInv, Inv, OutcomeInv,
       PublicationAgreement, SlotId, Jobs
<1>2. Inv /\ PostInv
        => [Decide /\ Requirement = "required" /\ Decision.status = "ok"
              => job \in final]_allVars
  BY <1>1
<1>3. QED
  BY <1>2, PostInvariance, PTL DEF RequiredMeansSaved

\* An optional save changes neither the status nor the verdict of an inspection
\* that executed, and a warning goes with the result whose file is not there.
THEOREM OptionalKeeps == PostFrameSpec => OptionalKeepsVerdict
<1> DEFINE r == FinalizeRequest
<1>1. ASSUME Inv, PostInv, Decide, ExecutionOk, Requirement # "required"
      PROVE  /\ Decision.status = "ok" /\ Decision.verdict = inspection.verdict
             /\ Requirement = "optional" /\ job \notin final
                  => "image_save_failed" \in Decision.warning_flags
  <2>1. /\ r.frame_valid = TRUE /\ r.execution_ok = ExecutionOk
        /\ r.verdict = inspection.verdict /\ r.requirement = Requirement
        /\ r.save_attempted = SaveDecided /\ r.save_committed = Committed
    BY <1>1 DEF FinalizeRequest, Verdict
  <2>2. ~RequiredIncomplete(r)
    BY <1>1, <2>1 DEF RequiredIncomplete
  <2>3. DecisionStatus(r) = "ok"
    BY <1>1, <2>1, <2>2 DEF DecisionStatus
  <2>4. Decision.status = "ok" /\ Decision.verdict = inspection.verdict
    BY <1>1, <2>1, <2>2, <2>3 DEF Decision, FinalizeAfterFrame
  <2>5. ASSUME Requirement = "optional", job \notin final
        PROVE  "image_save_failed" \in Decision.warning_flags
    <3>1. ~Committed
      BY <1>1, <2>5, MaxJobsAssumption DEF Committed, PostInv, Inv, OutcomeInv,
         PublicationAgreement, SlotId, Jobs
    <3>2. SaveDecided
      BY <2>5 DEF Requirement
    <3>3. OptionalIncomplete(r)
      BY <2>1, <2>5, <3>1, <3>2 DEF OptionalIncomplete
    <3>4. Decision.warning_flags = WithOptionalWarning(r, warnings)
      BY <2>1, <2>2 DEF Decision, FinalizeAfterFrame
    <3>5. QED
      BY <3>3, <3>4 DEF WithOptionalWarning
  <2>6. QED
    BY <2>4, <2>5
<1>2. Inv /\ PostInv
        => [Decide /\ ExecutionOk /\ Requirement # "required"
              => /\ Decision.status = "ok"
                 /\ Decision.verdict = inspection.verdict
                 /\ Requirement = "optional" /\ job \notin final
                      => "image_save_failed" \in Decision.warning_flags]_allVars
  BY <1>1
<1>3. QED
  BY <1>2, PostInvariance, PTL DEF OptionalKeepsVerdict

\* What finalize_post_frame does with the save worker keeps the promise of
\* ArtifactSave: the outcome an inspection is told is the fate of its capture,
\* decided once, whatever the deadlines and the maintenance thread do.
THEOREM PromiseIsKept == PostFrameSpec => ImplementsArtifactSave
<1>1. PostFrameInit => Promise!Init
  BY PostFrameRefinesInit, RefinementInit
<1>2. Inv /\ [PostFrameNext]_allVars => [Promise!Next]_(Promise!vars)
  BY PostFrameRefinesStep, RefinementStep
<1>3. QED
  BY <1>1, <1>2, WorkerInvariance, PTL DEF PostFrameSpec, ImplementsArtifactSave, Promise!Spec

-----------------------------------------------------------------------------
(***************************************************************************)
(* The types of the composition: those of the two workers, and of what an  *)
(* inspection brings along.                                                *)
(***************************************************************************)
RestTypes ==
  /\ Maintenance!TypeOK
  /\ inspection \in Inspections
  /\ late \in BOOLEAN

LEMMA RestTypesInit == PostFrameInit => RestTypes
<1> SUFFICES ASSUME PostFrameInit PROVE RestTypes
  OBVIOUS
<1>1. Maintenance!TypeOK
  BY DEF PostFrameInit, Init, Maintenance!MaintenanceInit, Maintenance!TypeOK
<1>2. inspection \in Inspections
  BY DEF PostFrameInit, NoInspection, Inspections, Policies
<1>3. QED
  BY <1>1, <1>2 DEF PostFrameInit, RestTypes

\* No step takes a capture back: retention's types see a directory that grows.
LEMMA FinalGrows ==
  ASSUME [PostFrameNext]_allVars
  PROVE  final \subseteq final'
<1> USE DEF slots, gateVars, locks, client, worker, files
<1>1. CASE SubmitSave
  BY <1>1 DEF SubmitSave, TrySubmitExecuting, TrySubmitQueued
<1>2. CASE AwaitSave
  BY <1>2 DEF AwaitSave, WaitFound, WaitIdle, WaitBegin, WaitArm, WaitReturn, WaitDone,
     WaitTimeout, WaitCancel, WaitRecheck
<1>3. CASE SettleSave
  BY <1>3 DEF SettleSave, CancelPending, vars
<1>4. CASE RunWorker
  BY <1>4, WorkerFrame DEF RunWorker
<1>5. CASE PassDeadline \/ PassEarlierDeadline
  BY <1>5 DEF PassDeadline, PassEarlierDeadline, ExpireDeadline, vars
<1>6. CASE Destroy
  BY <1>6 DEF Destroy, Drain, Drained, vars
<1>7. CASE Arrive \/ SkipSave \/ Decide \/ RunMaintenance \/ UNCHANGED allVars
  BY <1>7 DEF Arrive, SkipSave, Decide, RunMaintenance, allVars, vars
<1>8. QED
  BY <1>1, <1>2, <1>3, <1>4, <1>5, <1>6, <1>7 DEF PostFrameNext

\* Captures that only the save worker adds keep the types of maintenance.
LEMMA MaintenanceTypesKept ==
  ASSUME Maintenance!TypeOK, final \subseteq final', final' \in SUBSET Jobs,
         UNCHANGED <<maintenanceVars, warnings>>
  PROVE  Maintenance!TypeOK'
BY DEF Maintenance!TypeOK, maintenanceVars

LEMMA MaintenanceTypesStep ==
  ASSUME Maintenance!TypeOK, Maintenance!MaintenanceNext \/ Maintenance!ClockNext
  PROVE  Maintenance!TypeOK'
<1> USE DEF Maintenance!TypeOK, Maintenance!disk, Maintenance!scheduler,
            Maintenance!request, Maintenance!run, Maintenance!OnDisk
<1>1. CASE Maintenance!MaintenanceBegin
  BY <1>1 DEF Maintenance!MaintenanceBegin
<1>2. CASE Maintenance!ScanEnd
  BY <1>2 DEF Maintenance!ScanEnd, Maintenance!Listable
<1>3. CASE Maintenance!ScanFails
  BY <1>3 DEF Maintenance!ScanFails, Maintenance!Abort
<1>4. ASSUME NEW f \in Jobs, Maintenance!DeleteCapture(f) PROVE Maintenance!TypeOK'
  <2>1. f \in listing
    BY <1>4 DEF Maintenance!DeleteCapture, Maintenance!Doomed, Maintenance!Oldest
  <2>2. QED
    BY <1>4, <2>1 DEF Maintenance!DeleteCapture, Maintenance!Abort
<1>5. CASE Maintenance!DeleteEnd
  BY <1>5 DEF Maintenance!DeleteEnd
<1>6. CASE Maintenance!MaintenanceRecord
  BY <1>6 DEF Maintenance!MaintenanceRecord
<1>7. CASE Maintenance!MaintenanceExit
  BY <1>7 DEF Maintenance!MaintenanceExit
<1>8. CASE Maintenance!IntervalPasses
  BY <1>8 DEF Maintenance!IntervalPasses
<1>9. ASSUME NEW f \in Jobs, Maintenance!CaptureAges(f) PROVE Maintenance!TypeOK'
  BY <1>9 DEF Maintenance!CaptureAges, Maintenance!Oldest
<1>10. QED
  BY <1>1, <1>2, <1>3, <1>4, <1>5, <1>6, <1>7, <1>8, <1>9
  DEF Maintenance!MaintenanceNext, Maintenance!ClockNext

LEMMA RestTypesStep ==
  Inv' /\ RestTypes /\ [PostFrameNext]_allVars => RestTypes'
<1> SUFFICES ASSUME Inv', RestTypes, [PostFrameNext]_allVars PROVE RestTypes'
  OBVIOUS
<1>1. final \subseteq final' /\ final' \in SUBSET Jobs
  BY FinalGrows DEF Inv, TypeOK
<1> USE DEF inspectionVars, outputVars, runtimeVars
<1>2. CASE Decide
  <2>1. /\ UNCHANGED <<size, aged, final, interval_over, maintenance_stop,
                       mpc, listing, overdue, failed, removed>>
        /\ committed_captures' = committed_captures + IF Committed THEN 1 ELSE 0
        /\ maintenance_requested' \in BOOLEAN
    BY <1>2 DEF Decide, Maintenance!ScheduleRetention, Maintenance!run, vars, files
  <2>2. warnings' \in SUBSET {"log_sink_failed", "image_save_failed"}
    BY <1>2 DEF Decide, RestTypes, Maintenance!TypeOK
  <2>3. committed_captures' \in Nat
    BY <2>1 DEF RestTypes, Maintenance!TypeOK
  <2>4. Maintenance!TypeOK'
    BY <2>1, <2>2, <2>3 DEF RestTypes, Maintenance!TypeOK
  <2>5. inspection' \in Inspections /\ late' \in BOOLEAN
    BY <1>2 DEF Decide, NoInspection, Inspections, Policies
  <2>6. QED
    BY <2>4, <2>5 DEF RestTypes
<1>3. CASE RunMaintenance
  BY <1>3, MaintenanceTypesStep DEF RunMaintenance, RestTypes
<1>4. CASE Destroy
  <2>1. CASE Maintenance!StopMaintenance
    <3>1. Maintenance!TypeOK'
      BY <1>1, <2>1 DEF Maintenance!StopMaintenance, Maintenance!disk, Maintenance!scheduler,
         Maintenance!run, RestTypes, Maintenance!TypeOK
    <3>2. QED
      BY <1>4, <3>1 DEF Destroy, RestTypes
  <2>2. CASE UNCHANGED maintenanceVars
    BY <1>1, <1>4, <2>2, MaintenanceTypesKept DEF Destroy, RestTypes
  <2>3. QED
    BY <1>4, <2>1, <2>2 DEF Destroy
<1>5. CASE /\ UNCHANGED <<maintenanceVars, warnings>>
           /\ inspection' \in Inspections /\ late' \in BOOLEAN
  BY <1>1, <1>5, MaintenanceTypesKept DEF RestTypes
<1>6. QED
  BY <1>2, <1>3, <1>4, <1>5 DEF PostFrameNext, Arrive, SkipSave, SubmitSave, AwaitSave,
     SettleSave, PassDeadline, PassEarlierDeadline, RunWorker, RestTypes, allVars

\* Every variable of the composition keeps its type: among them, retention
\* lists and deletes nothing but published captures.
THEOREM PostFrameTypes == PostFrameSpec => []PostFrameTypeOK
<1>1. PostFrameInit => Inv /\ PostInv /\ RestTypes
  BY PostFrameRefinesInit, InvInit, PostInvInit, RestTypesInit
<1>2. Inv /\ PostInv /\ RestTypes /\ [PostFrameNext]_allVars
        => (Inv /\ PostInv /\ RestTypes)'
  BY PostFrameRefinesStep, InvStep, PostInvStep, RestTypesStep
<1>3. Inv /\ PostInv /\ RestTypes => PostFrameTypeOK
  BY DEF Inv, TypeOK, PostInv, AnswerInv, RestTypes, PostFrameTypeOK,
     Maintenance!TypeOK, Warnings
<1>4. QED
  BY <1>1, <1>2, <1>3, PTL DEF PostFrameSpec
=============================================================================
