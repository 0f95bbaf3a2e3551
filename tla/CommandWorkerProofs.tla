------------------------ MODULE CommandWorkerProofs ------------------------
(***************************************************************************)
(* Theorems about CommandWorker, for any number of callers, commands and   *)
(* threads spawned.                                                        *)
(*                                                                         *)
(* LifecycleSettled only speaks of the moments between two operations:     *)
(* HolderInv says what holds at each place of the one that runs, and       *)
(* StateInv what each place of the worker says of state_ and running_.     *)
(* The answers of submit rest on the numbering: since the last spawn the   *)
(* commands are numbered without a gap (NumberInv), the worker takes them  *)
(* in that order until it is told to stop (OrderInv), and those it has     *)
(* completed are those executed (ExecutedInv).                             *)
(***************************************************************************)
EXTENDS CommandWorker, SequenceTheorems, TLAPS

\* The caller inside start or stop_and_join, and no other, holds lifecycle_.
HeldInv ==
  \A c \in Callers :
    lifecycle = c <=> pc[c] \in {"start_wait", "start_join", "stop_join"}

\* What the place of the worker says of state_ and running_.
StateInv ==
  /\ wpc \in {"none", "done"} => state = "stopped"
  /\ wpc = "startup" => state = "starting"
  /\ wpc \in {"loop", "run", "complete"} => state = "running"
  /\ wpc \in {"leave", "teardown", "end"} => state \in {"running", "failed"}
  /\ running <=> \/ wpc \in {"loop", "run", "complete"}
                 \/ wpc = "leave" /\ state = "running"

\* What the place of the caller that holds lifecycle_ says of the thread.
HolderInv ==
  /\ lifecycle = "free" =>
       /\ wpc \in {"none", "loop", "run", "complete"}
       /\ thread <=> wpc # "none"
       /\ wpc # "none" => ~stop_requested
  /\ \A c \in Callers :
       /\ pc[c] = "start_wait" =>
            /\ thread /\ wpc # "none" /\ ~stop_requested
            /\ wpc \in {"leave", "teardown", "end"} => state = "failed"
       /\ pc[c] = "start_join" =>
            /\ thread /\ wpc # "none"
            /\ wpc \in {"startup", "loop", "run", "complete"} => stop_requested
       /\ pc[c] = "stop_join" => ~thread /\ stop_requested /\ wpc # "startup"

LifecycleInv ==
  /\ HeldInv
  /\ StateInv
  /\ HolderInv
  /\ TeardownBalances

-----------------------------------------------------------------------------
\* Commands submitted before the last spawn.
Base == issued - submitted_sequence

\* 1 while the worker has taken a command that is not completed.
Taken == IF wpc \in {"run", "complete"} THEN 1 ELSE 0

\* A command and its sequence number, in the numbering since the last spawn.
Numbered(entry) ==
  /\ entry.sequence \in 1 .. submitted_sequence
  /\ entry.command = Base + entry.sequence

\* Commands are issued in order; those since the last spawn have its epoch.
NumberInv ==
  /\ submitted_sequence <= issued
  /\ completed_sequence + Taken <= submitted_sequence
  /\ \A k \in Commands :
       /\ k > issued => told[k] = "none" /\ k \notin executed /\ epoch[k] = 0
       /\ k <= issued => (epoch[k] = starts <=> k > Base)
       /\ epoch[k] <= starts

\* A caller that waits for a command is the only one to, and has no answer yet.
WaiterInv ==
  \A c \in Callers : pc[c] = "submit_wait" =>
    /\ mine[c].command \in 1 .. issued
    /\ told[mine[c].command] = "none"
    /\ epoch[mine[c].command] = starts => Numbered(mine[c])
    /\ \A d \in Callers :
         pc[d] = "submit_wait" /\ mine[d].command = mine[c].command => d = c

\* The worker takes the commands in the order of their numbers.
OrderInv ==
  /\ wpc \in {"run", "complete"} =>
       Numbered(current) /\ current.sequence = completed_sequence + 1
  /\ wpc = "startup" => queue = <<>> /\ submitted_sequence = 0
  /\ wpc \in {"startup", "loop", "run", "complete"} /\ ~stop_requested =>
       /\ Len(queue) = submitted_sequence - completed_sequence - Taken
       /\ \A i \in 1 .. Len(queue) :
            /\ Numbered(queue[i])
            /\ queue[i].sequence = completed_sequence + Taken + i

\* Since the last spawn the commands completed are those executed, but for the
\* one that has just returned.
ExecutedInv ==
  \A k \in Commands : Base < k /\ k <= issued =>
    (k \in executed <=>
       k <= Base + completed_sequence + IF wpc = "complete" THEN 1 ELSE 0)

\* What the worker has or can still take was not called unavailable.
RefusedInv ==
  /\ wpc \in {"run", "complete"} => told[current.command] # "unavailable"
  /\ wpc \in {"loop", "run", "complete"} /\ ~stop_requested =>
       \A i \in 1 .. Len(queue) : told[queue[i].command] # "unavailable"

CommandInv ==
  /\ NumberInv
  /\ WaiterInv
  /\ OrderInv
  /\ ExecutedInv
  /\ RefusedInv

CWInv == TypeOK /\ LifecycleInv /\ CommandInv

-----------------------------------------------------------------------------
LEMMA CWInvInit == Init => CWInv
<1> SUFFICES ASSUME Init PROVE CWInv
  OBVIOUS
<1>1. TypeOK
  <2>1. NoEntry \in Entries
    BY CommandBounds DEF NoEntry, Entries
  <2>2. queue \in Seq(Entries)
    BY EmptySeq DEF Init
  <2>3. 0 \in 0 .. MaxCommands /\ 0 \in 0 .. MaxStarts
    BY CommandBounds
  <2>4. mine \in [Callers -> Entries] /\ current \in Entries
    BY <2>1 DEF Init
  <2>5. /\ told \in [Commands -> {"none", "completed", "timeout", "unavailable"}]
        /\ epoch \in [Commands -> 0 .. MaxStarts]
    BY <2>3 DEF Init
  <2>6. QED
    BY <2>2, <2>3, <2>4, <2>5 DEF Init, TypeOK
<1>2. LifecycleInv
  BY NoCallerIsFree DEF Init, LifecycleInv, HeldInv, StateInv, HolderInv, TeardownBalances
<1>3. CommandInv
  BY CommandBounds DEF Init, CommandInv, NumberInv, WaiterInv, OrderInv, ExecutedInv,
     RefusedInv, Base, Taken, Commands
<1>4. QED
  BY <1>1, <1>2, <1>3 DEF CWInv

LEMMA TypeStep == CWInv /\ [Next]_vars => TypeOK'
<1> SUFFICES ASSUME CWInv, [Next]_vars PROVE TypeOK'
  OBVIOUS
<1> USE CommandBounds DEF CWInv, TypeOK, shared, callers, worker, history
<1>1. ASSUME NEW c \in Callers, StartSpawn(c) PROVE TypeOK'
  <2>1. queue' \in Seq(Entries)
    BY <1>1, EmptySeq DEF StartSpawn
  <2>2. starts' \in 0 .. MaxStarts
    BY <1>1 DEF StartSpawn
  <2>3. 0 \in 0 .. MaxCommands
    OBVIOUS
  <2>4. pc' \in [Callers -> {"idle", "start_wait", "start_join", "submit_wait", "stop_join"}]
    BY <1>1 DEF StartSpawn
  <2>5. QED
    BY <1>1, <2>1, <2>2, <2>3, <2>4 DEF StartSpawn
<1>2. ASSUME NEW c \in Callers, StartResolved(c) PROVE TypeOK'
  BY <1>2 DEF StartResolved
<1>3. ASSUME NEW c \in Callers, StartTimeout(c) PROVE TypeOK'
  BY <1>3 DEF StartTimeout
<1>4. ASSUME NEW c \in Callers, StartJoin(c) PROVE TypeOK'
  BY <1>4 DEF StartJoin
<1>5. ASSUME NEW c \in Callers, SubmitQueued(c) PROVE TypeOK'
  <2> DEFINE entry == [sequence |-> submitted_sequence + 1, command |-> issued + 1]
  <2>1. submitted_sequence + 1 \in 0 .. MaxCommands /\ issued + 1 \in Commands
    BY <1>5 DEF SubmitQueued, CommandInv, NumberInv, Commands
  <2>2. entry \in Entries
    BY <2>1 DEF Entries, Commands
  <2>3. queue' \in Seq(Entries)
    BY <1>5, <2>2, AppendProperties DEF SubmitQueued
  <2>4. mine' \in [Callers -> Entries]
    BY <1>5, <2>2 DEF SubmitQueued
  <2>5. epoch' \in [Commands -> 0 .. MaxStarts]
    BY <1>5, <2>1 DEF SubmitQueued
  <2>6. QED
    BY <1>5, <2>1, <2>3, <2>4, <2>5 DEF SubmitQueued, Commands
<1>6. ASSUME NEW c \in Callers, SubmitReturns(c) PROVE TypeOK'
  <2>1. Answer(c) \in {"completed", "timeout", "unavailable"}
    BY DEF Answer
  <2>2. NoEntry \in Entries
    BY DEF NoEntry, Entries
  <2>3. QED
    BY ZenonT(60), <1>6, <2>1, <2>2 DEF SubmitReturns
<1>7. ASSUME NEW c \in Callers, StopSignal(c) PROVE TypeOK'
  <2>1. queue' \in Seq(Entries)
    BY <1>7, EmptySeq DEF StopSignal
  <2>2. QED
    BY <1>7, <2>1 DEF StopSignal
<1>8. ASSUME NEW c \in Callers, StopJoin(c) PROVE TypeOK'
  BY <1>8 DEF StopJoin
<1>9. ASSUME NEW ok \in BOOLEAN, WorkerStartup(ok) PROVE TypeOK'
  BY <1>9 DEF WorkerStartup
<1>10. CASE WorkerTake
  BY <1>10 DEF WorkerTake
<1>11. CASE WorkerStop
  BY <1>11 DEF WorkerStop
<1>12. CASE WorkerRun
  <2>1. current.command \in Commands
    BY <1>12 DEF WorkerRun, CommandInv, OrderInv, NumberInv, Numbered, Base, Taken,
       Entries, Commands
  <2>2. QED
    BY <1>12, <2>1 DEF WorkerRun
<1>13. CASE WorkerComplete
  <2>1. current.sequence \in 0 .. MaxCommands
    BY DEF Entries
  <2>2. NoEntry \in Entries
    BY DEF NoEntry, Entries
  <2>3. QED
    BY <1>13, <2>1, <2>2 DEF WorkerComplete
<1>14. CASE WorkerLeave
  BY <1>14 DEF WorkerLeave
<1>15. CASE WorkerTeardown
  <2>1. teardowns + 1 \in 0 .. MaxStarts
    BY <1>15 DEF WorkerTeardown, LifecycleInv, TeardownBalances
  <2>2. QED
    BY <1>15, <2>1 DEF WorkerTeardown
<1>16. CASE WorkerEnd
  BY <1>16 DEF WorkerEnd
<1>17. CASE UNCHANGED vars
  BY <1>17 DEF vars
<1>18. QED
  BY <1>1, <1>2, <1>3, <1>4, <1>5, <1>6, <1>7, <1>8, <1>9, <1>10, <1>11, <1>12, <1>13, <1>14, <1>15, <1>16, <1>17
  DEF Next, CallerNext, CallerReturn, WorkerNext, StartAgain, SubmitRefused

LEMMA LifecycleStep == CWInv /\ [Next]_vars => LifecycleInv'
<1> SUFFICES ASSUME CWInv, [Next]_vars PROVE LifecycleInv'
  OBVIOUS
<1> USE CommandBounds, NoCallerIsFree
    DEF CWInv, TypeOK, LifecycleInv, HeldInv, StateInv, HolderInv, TeardownBalances,
        shared, callers, worker, history
<1>1. ASSUME NEW c \in Callers, StartSpawn(c) PROVE LifecycleInv'
  BY <1>1 DEF StartSpawn
<1>2. ASSUME NEW c \in Callers, StartResolved(c) PROVE LifecycleInv'
  BY <1>2 DEF StartResolved
<1>3. ASSUME NEW c \in Callers, StartTimeout(c) PROVE LifecycleInv'
  BY <1>3 DEF StartTimeout
<1>4. ASSUME NEW c \in Callers, StartJoin(c) PROVE LifecycleInv'
  BY <1>4 DEF StartJoin
<1>5. ASSUME NEW c \in Callers, SubmitQueued(c) PROVE LifecycleInv'
  BY <1>5 DEF SubmitQueued
<1>6. ASSUME NEW c \in Callers, SubmitReturns(c) PROVE LifecycleInv'
  BY <1>6 DEF SubmitReturns
<1>7. ASSUME NEW c \in Callers, StopSignal(c) PROVE LifecycleInv'
  BY <1>7 DEF StopSignal
<1>8. ASSUME NEW c \in Callers, StopJoin(c) PROVE LifecycleInv'
  BY <1>8 DEF StopJoin
<1>9. ASSUME NEW ok \in BOOLEAN, WorkerStartup(ok) PROVE LifecycleInv'
  BY <1>9 DEF WorkerStartup
<1>10. CASE WorkerTake
  BY <1>10 DEF WorkerTake
<1>11. CASE WorkerStop
  BY <1>11 DEF WorkerStop
<1>12. CASE WorkerRun
  BY <1>12 DEF WorkerRun
<1>13. CASE WorkerComplete
  BY <1>13 DEF WorkerComplete
<1>14. CASE WorkerLeave
  BY <1>14 DEF WorkerLeave
<1>15. CASE WorkerTeardown
  BY <1>15 DEF WorkerTeardown
<1>16. CASE WorkerEnd
  BY <1>16 DEF WorkerEnd
<1>17. CASE UNCHANGED vars
  BY <1>17 DEF vars
<1>18. QED
  BY <1>1, <1>2, <1>3, <1>4, <1>5, <1>6, <1>7, <1>8, <1>9, <1>10, <1>11, <1>12, <1>13, <1>14, <1>15, <1>16, <1>17
  DEF Next, CallerNext, CallerReturn, WorkerNext, StartAgain, SubmitRefused

-----------------------------------------------------------------------------
(***************************************************************************)
(* The numbering of the commands.                                          *)
(***************************************************************************)
numbering == <<submitted_sequence, completed_sequence, issued, starts, executed,
               told, epoch>>

\* The worker is there and nobody told it to stop.
Takes == wpc \in {"startup", "loop", "run", "complete"} /\ ~stop_requested

\* A step that leaves the commands alone.
Quiet ==
  /\ UNCHANGED <<numbering, mine, current>>
  /\ wpc' \in {"run", "complete"} <=> wpc \in {"run", "complete"}
  /\ wpc' = "complete" <=> wpc = "complete"
  /\ \A c \in Callers : pc'[c] = "submit_wait" <=> pc[c] = "submit_wait"
  /\ Takes' => Takes /\ queue' = queue
  /\ wpc' = "startup" => wpc = "startup" /\ queue' = queue

LEMMA QuietStep ==
  ASSUME CWInv,
         \/ \E c \in Callers : \/ StartResolved(c) \/ StartTimeout(c) \/ StartJoin(c)
                               \/ StopSignal(c) \/ StopJoin(c)
         \/ \E ok \in BOOLEAN : WorkerStartup(ok)
         \/ WorkerStop \/ WorkerLeave \/ WorkerTeardown \/ WorkerEnd
         \/ UNCHANGED vars
  PROVE  Quiet
<1> USE DEF Quiet, Takes, numbering, shared, callers, worker, history, CWInv, TypeOK
<1>1. ASSUME NEW c \in Callers,
             StartResolved(c) \/ StartTimeout(c) \/ StartJoin(c) \/ StopJoin(c)
      PROVE  Quiet
  BY <1>1 DEF StartResolved, StartTimeout, StartJoin, StopJoin
<1>2. ASSUME NEW c \in Callers, StopSignal(c) PROVE Quiet
  BY <1>2 DEF StopSignal, LifecycleInv, HolderInv
<1>3. ASSUME NEW ok \in BOOLEAN, WorkerStartup(ok) PROVE Quiet
  BY <1>3 DEF WorkerStartup
<1>4. CASE WorkerStop \/ WorkerLeave \/ WorkerTeardown \/ WorkerEnd
  BY <1>4 DEF WorkerStop, WorkerLeave, WorkerTeardown, WorkerEnd
<1>5. CASE UNCHANGED vars
  BY <1>5 DEF vars
<1>6. QED
  BY <1>1, <1>2, <1>3, <1>4, <1>5

LEMMA QuietKeepsCommands == ASSUME CWInv, Quiet PROVE CommandInv'
<1> USE DEF CWInv, CommandInv, Quiet, numbering
<1>1. Base' = Base /\ Taken' = Taken
  BY DEF Base, Taken
<1>2. NumberInv'
  BY <1>1 DEF NumberInv
<1>3. \A e : Numbered(e)' <=> Numbered(e)
  BY <1>1 DEF Numbered
<1>4. WaiterInv'
  BY <1>3 DEF WaiterInv, Numbered, Base
<1>5. OrderInv'
  BY <1>1 DEF OrderInv, Numbered, Takes
<1>6. ExecutedInv'
  BY <1>1 DEF ExecutedInv
<1>7. RefusedInv'
  BY DEF RefusedInv, OrderInv, Takes
<1>8. QED
  BY <1>2, <1>4, <1>5, <1>6, <1>7

LEMMA CommandStep == CWInv /\ [Next]_vars => CommandInv'
<1> SUFFICES ASSUME CWInv, [Next]_vars PROVE CommandInv'
  OBVIOUS
<1> USE CommandBounds DEF CWInv, TypeOK, CommandInv, shared, callers, worker, history,
        Commands, Base, Taken, Numbered, Entries
<1>1. ASSUME NEW c \in Callers, StartSpawn(c) PROVE CommandInv'
  <2>1. NumberInv'
    BY <1>1 DEF StartSpawn, NumberInv
  <2>2. WaiterInv'
    BY SMTT(60), <1>1 DEF StartSpawn, NumberInv, WaiterInv
  <2>3. OrderInv'
    <3>1. Len(queue') = 0
      BY <1>1, EmptySeq DEF StartSpawn
    <3>2. /\ queue' = <<>> /\ wpc' = "startup"
          /\ submitted_sequence' = 0 /\ completed_sequence' = 0
      BY <1>1 DEF StartSpawn
    <3>3. \A i \in 1 .. Len(queue') : FALSE
      BY <3>1
    <3>4. Taken' = 0
      BY <3>2
    <3> HIDE DEF Base, Taken, Numbered
    <3>5. QED
      BY <3>1, <3>2, <3>3, <3>4 DEF OrderInv
  <2>4. ExecutedInv'
    BY <1>1 DEF StartSpawn, NumberInv, ExecutedInv
  <2>5. RefusedInv'
    BY <1>1 DEF StartSpawn, NumberInv, RefusedInv
  <2>6. QED
    BY <2>1, <2>2, <2>3, <2>4, <2>5
<1>2. ASSUME NEW c \in Callers, SubmitQueued(c) PROVE CommandInv'
  <2>1. NumberInv'
    BY SMTT(60), <1>2 DEF SubmitQueued, NumberInv
  <2>2. WaiterInv'
    BY SMTT(60), <1>2 DEF SubmitQueued, NumberInv, WaiterInv
  <2>3. OrderInv'
    <3>1. [sequence |-> submitted_sequence + 1, command |-> issued + 1] \in Entries
      BY <1>2 DEF SubmitQueued, NumberInv
    <3>2. PICK entry \in Entries :
            entry = [sequence |-> submitted_sequence + 1, command |-> issued + 1]
      BY <3>1
    <3>3. /\ Len(queue') = Len(queue) + 1 /\ queue'[Len(queue) + 1] = entry
          /\ \A i \in 1 .. Len(queue) : queue'[i] = queue[i]
      BY <1>2, <3>2, AppendProperties DEF SubmitQueued
    <3>4. /\ Base' = Base /\ Base \in Int /\ Taken' = Taken /\ Taken \in {0, 1}
          /\ Len(queue) \in Nat
          /\ submitted_sequence' = submitted_sequence + 1
          /\ submitted_sequence \in Nat /\ completed_sequence \in Nat
          /\ Base + (submitted_sequence + 1) = issued + 1
          /\ UNCHANGED <<wpc, current, completed_sequence, stop_requested>>
      BY <1>2, LenProperties DEF SubmitQueued
    <3>5. wpc # "startup"
      BY <1>2 DEF SubmitQueued, LifecycleInv, StateInv
    <3> HIDE DEF Base, Taken, Numbered
    <3>6. Numbered(entry)'
      BY <3>2, <3>4 DEF Numbered
    <3>7. ASSUME NEW e, Numbered(e) PROVE Numbered(e)'
      BY <3>4, <3>7 DEF Numbered
    <3>8. ASSUME wpc \in {"loop", "run", "complete"}, ~stop_requested
          PROVE  /\ Len(queue') = submitted_sequence' - completed_sequence' - Taken'
                 /\ \A i \in 1 .. Len(queue') :
                      /\ Numbered(queue[i])'
                      /\ queue'[i].sequence = completed_sequence' + Taken' + i
      <4>1. /\ Len(queue) = submitted_sequence - completed_sequence - Taken
            /\ \A i \in 1 .. Len(queue) :
                 /\ Numbered(queue[i])
                 /\ queue[i].sequence = completed_sequence + Taken + i
        BY <3>8 DEF OrderInv
      <4>2. Len(queue') = submitted_sequence' - completed_sequence' - Taken'
        BY <3>3, <3>4, <4>1
      <4>3. ASSUME NEW i \in 1 .. Len(queue')
            PROVE  /\ Numbered(queue[i])'
                   /\ queue'[i].sequence = completed_sequence' + Taken' + i
        <5>1. CASE i \in 1 .. Len(queue)
          <6>1. queue'[i] = queue[i]
            BY <3>3, <5>1
          <6>2. queue'[i].sequence = completed_sequence' + Taken' + i
            BY <3>4, <4>1, <5>1, <6>1
          <6>3. /\ queue[i].sequence \in 1 .. submitted_sequence
                /\ queue[i].command = Base + queue[i].sequence
            BY <4>1, <5>1 DEF Numbered
          <6>4. /\ queue'[i].sequence \in 1 .. submitted_sequence'
                /\ queue'[i].command = Base' + queue'[i].sequence
            <7>1. 1 .. submitted_sequence \subseteq 1 .. submitted_sequence'
              BY <3>4
            <7>2. QED
              BY <3>4, <6>1, <6>3, <7>1
          <6>5. Numbered(queue[i])'
            BY <6>4 DEF Numbered
          <6>6. QED
            BY <6>2, <6>5
        <5>2. CASE i = Len(queue) + 1
          <6>1. queue'[i] = entry
            BY <3>3, <5>2
          <6>2. Numbered(queue[i])'
            BY <3>6, <6>1 DEF Numbered
          <6>3. entry.sequence = completed_sequence' + Taken' + i
            <7>1. entry.sequence = submitted_sequence + 1
              BY ONLY <3>2
            <7>2. Len(queue) = submitted_sequence - completed_sequence - Taken
              BY ONLY <4>1
            <7>3. /\ completed_sequence' = completed_sequence /\ Taken' = Taken
                  /\ submitted_sequence \in Nat /\ completed_sequence \in Nat /\ Taken \in {0, 1}
              BY ONLY <3>4
            <7>4. QED
              BY ONLY <5>2, <7>1, <7>2, <7>3
          <6>4. QED
            BY <6>1, <6>2, <6>3
        <5>3. i \in 1 .. Len(queue) \/ i = Len(queue) + 1
          BY <3>3, <3>4, <4>3
        <5>4. QED
          BY <5>1, <5>2, <5>3
      <4>4. QED
        BY <4>2, <4>3
    <3>9. QED
      BY <3>4, <3>5, <3>7, <3>8 DEF OrderInv
  <2>4. ExecutedInv'
    BY <1>2 DEF SubmitQueued, NumberInv, ExecutedInv
  <2>5. RefusedInv'
    BY <1>2 DEF SubmitQueued, NumberInv, RefusedInv
  <2>6. QED
    BY <2>1, <2>2, <2>3, <2>4, <2>5
<1>3. ASSUME NEW c \in Callers, SubmitReturns(c) PROVE CommandInv'
  <2>1. NumberInv'
    BY <1>3 DEF SubmitReturns, NumberInv, WaiterInv
  <2>2. WaiterInv'
    BY <1>3 DEF SubmitReturns, NumberInv, WaiterInv
  <2>3. OrderInv'
    BY <1>3 DEF SubmitReturns, NumberInv, OrderInv
  <2>4. ExecutedInv'
    BY <1>3 DEF SubmitReturns, NumberInv, ExecutedInv
  <2>5. RefusedInv'
    <3>1. wpc \in {"loop", "run", "complete"} => Answer(c) # "unavailable"
      BY DEF Answer, LifecycleInv, StateInv
    <3>2. ASSUME NEW k \in Commands, wpc \in {"loop", "run", "complete"},
                 told'[k] = "unavailable"
          PROVE  told[k] = "unavailable"
      BY <1>3, <3>1, <3>2 DEF SubmitReturns
    <3>3. wpc \in {"run", "complete"} => current.command \in Commands
      BY DEF NumberInv, OrderInv
    <3>4. ASSUME NEW i \in 1 .. Len(queue), wpc \in {"loop", "run", "complete"},
                 ~stop_requested
          PROVE  queue[i].command \in Commands
      <4>1. Numbered(queue[i])
        BY <3>4 DEF OrderInv
      <4>2. /\ queue[i].sequence \in 1 .. submitted_sequence
            /\ queue[i].command = Base + queue[i].sequence
        BY <4>1
      <4>3. submitted_sequence <= issued
        BY DEF NumberInv
      <4>4. QED
        BY ONLY <4>2, <4>3, CommandBounds, submitted_sequence \in 0 .. MaxCommands,
           issued \in 0 .. MaxCommands
    <3>5. UNCHANGED <<wpc, current, queue, stop_requested>>
      BY <1>3 DEF SubmitReturns
    <3>6. QED
      BY ONLY RefusedInv, <3>2, <3>3, <3>4, <3>5 DEF RefusedInv
  <2>6. QED
    BY <2>1, <2>2, <2>3, <2>4, <2>5
<1>4. CASE WorkerTake
  <2> DEFINE n == Len(queue)
  <2>a. /\ n \in Nat \ {0} /\ current' = queue[1] /\ Len(queue') = n - 1
        /\ \A i \in 1 .. n - 1 : queue'[i] = queue[i + 1]
        /\ 1 \in 1 .. n
    BY <1>4, EmptySeq, HeadTailProperties DEF WorkerTake
  <2>b. /\ n = submitted_sequence - completed_sequence /\ wpc' = "run" /\ wpc = "loop"
        /\ \A i \in 1 .. n : /\ Numbered(queue[i])
                              /\ queue[i].sequence = completed_sequence + i
    BY <1>4 DEF WorkerTake, OrderInv
  <2> HIDE DEF n
  <2>1. NumberInv'
    BY <1>4, <2>a, <2>b DEF WorkerTake, NumberInv
  <2>2. WaiterInv'
    BY <1>4 DEF WorkerTake, NumberInv, WaiterInv
  <2>3. OrderInv'
    <3>1. Numbered(current)' /\ current'.sequence = completed_sequence + 1
      BY <1>4, <2>a, <2>b DEF WorkerTake
    <3>2. ASSUME NEW i \in 1 .. n - 1
          PROVE  /\ Numbered(queue[i + 1])
                 /\ queue[i + 1].sequence = completed_sequence + 1 + i
      <4>1. i + 1 \in 1 .. n /\ i \in Nat
        BY SMTT(60), <2>a
      <4> HIDE DEF Numbered
      <4>2. Numbered(queue[i + 1]) /\ queue[i + 1].sequence = completed_sequence + (i + 1)
        BY <2>b, <4>1
      <4>3. QED
        BY <4>1, <4>2
    <3>3. QED
      BY <1>4, <2>a, <2>b, <3>1, <3>2 DEF WorkerTake, OrderInv
  <2>4. ExecutedInv'
    BY <1>4 DEF WorkerTake, NumberInv, ExecutedInv
  <2>5. RefusedInv'
    BY SMTT(60), <1>4, <2>a DEF WorkerTake, NumberInv, RefusedInv, n
  <2>6. QED
    BY <2>1, <2>2, <2>3, <2>4, <2>5
<1>5. CASE WorkerRun
  <2>1. NumberInv'
    BY SMTT(60), <1>5 DEF WorkerRun, OrderInv, NumberInv
  <2>2. WaiterInv'
    BY <1>5 DEF WorkerRun, NumberInv, WaiterInv
  <2>3. OrderInv'
    BY <1>5 DEF WorkerRun, NumberInv, OrderInv
  <2>4. ExecutedInv'
    BY SMTT(60), <1>5 DEF WorkerRun, OrderInv, NumberInv, ExecutedInv
  <2>5. RefusedInv'
    BY <1>5 DEF WorkerRun, NumberInv, RefusedInv
  <2>6. QED
    BY <2>1, <2>2, <2>3, <2>4, <2>5
<1>6. CASE WorkerComplete
  <2>1. NumberInv'
    BY <1>6 DEF WorkerComplete, OrderInv, NumberInv
  <2>2. WaiterInv'
    BY <1>6 DEF WorkerComplete, NumberInv, WaiterInv
  <2>3. OrderInv'
    <3>1. Taken' = 0 /\ Taken = 1 /\ completed_sequence' = completed_sequence + 1
      BY <1>6 DEF WorkerComplete, OrderInv
    <3>2. \A e : Numbered(e) => Numbered(e)'
      BY <1>6 DEF WorkerComplete
    <3>3. QED
      BY <1>6, <3>1, <3>2 DEF WorkerComplete, NumberInv, OrderInv
  <2>4. ExecutedInv'
    BY SMTT(60), <1>6 DEF WorkerComplete, OrderInv, NumberInv, ExecutedInv
  <2>5. RefusedInv'
    BY <1>6 DEF WorkerComplete, NumberInv, RefusedInv
  <2>6. QED
    BY <2>1, <2>2, <2>3, <2>4, <2>5
<1>7. CASE \/ \E c \in Callers : \/ StartResolved(c) \/ StartTimeout(c) \/ StartJoin(c)
                                 \/ StopSignal(c) \/ StopJoin(c)
           \/ \E ok \in BOOLEAN : WorkerStartup(ok)
           \/ WorkerStop \/ WorkerLeave \/ WorkerTeardown \/ WorkerEnd
           \/ UNCHANGED vars
  BY <1>7, QuietStep, QuietKeepsCommands
<1>8. QED
  BY <1>1, <1>2, <1>3, <1>4, <1>5, <1>6, <1>7
  DEF Next, CallerNext, CallerReturn, WorkerNext, StartAgain, SubmitRefused

LEMMA CommandInvariance == Spec => []CWInv
<1>1. CWInv /\ [Next]_vars => CWInv'
  BY TypeStep, LifecycleStep, CommandStep DEF CWInv
<1>2. QED
  BY CWInvInit, <1>1, PTL DEF Spec

-----------------------------------------------------------------------------
(***************************************************************************)
(* What callers of start, submit and stop_and_join can rely on.            *)
(***************************************************************************)

\* Every variable keeps its type.
THEOREM WorkerTypes == Spec => []TypeOK
<1>1. CWInv => TypeOK
  BY DEF CWInv
<1>2. QED
  BY <1>1, CommandInvariance, PTL

\* Between two lifecycle operations the thread runs and is owned, or is gone.
THEOREM SettledBetweenCalls == Spec => []LifecycleSettled
<1>1. CWInv => LifecycleSettled
  BY DEF CWInv, TypeOK, LifecycleInv, StateInv, HolderInv, LifecycleSettled
<1>2. QED
  BY <1>1, CommandInvariance, PTL

\* Every thread spawned runs its teardown hook exactly once.
THEOREM OneTeardownEach == Spec => []TeardownBalances
<1>1. CWInv => TeardownBalances
  BY DEF CWInv, LifecycleInv
<1>2. QED
  BY <1>1, CommandInvariance, PTL

\* A command of the running thread that was answered "completed" has run, one
\* that was answered "unavailable" has not.
THEOREM SubmitIsTruthful == Spec => AnswersAreTrue
<1> DEFINE True ==
      \A k \in Commands : told[k] = "none" /\ epoch[k] = starts =>
        /\ told'[k] = "completed" => k \in executed
        /\ told'[k] = "unavailable" => k \notin executed
<1>1. ASSUME CWInv, [Next]_vars, NEW k \in Commands, told[k] = "none",
             epoch[k] = starts, told'[k] # "none"
      PROVE  /\ told'[k] = "completed" => k \in executed
             /\ told'[k] = "unavailable" => k \notin executed
  <2>1. \E c \in Callers : SubmitReturns(c)
    BY <1>1 DEF Next, CallerNext, CallerReturn, WorkerNext, StartAgain, SubmitRefused,
       StartSpawn, StartResolved, StartTimeout, StartJoin, SubmitQueued, StopSignal,
       StopJoin, WorkerStartup, WorkerTake, WorkerStop, WorkerRun, WorkerComplete,
       WorkerLeave, WorkerTeardown, WorkerEnd, vars, history
  <2>2. PICK c \in Callers : SubmitReturns(c)
    BY <2>1
  <2>3. k = mine[c].command /\ told'[k] = Answer(c)
    BY <1>1, <2>2 DEF SubmitReturns, CWInv, TypeOK
  <2>4. /\ mine[c].sequence \in 1 .. submitted_sequence
        /\ k = Base + mine[c].sequence
    BY <1>1, <2>2, <2>3 DEF SubmitReturns, CWInv, CommandInv, WaiterInv, Numbered
  <2>5. /\ submitted_sequence \in Nat /\ issued \in Nat /\ completed_sequence \in Nat
        /\ submitted_sequence <= issued
    BY <1>1, CommandBounds DEF CWInv, TypeOK, CommandInv, NumberInv
  <2>6. k \in executed <=>
          mine[c].sequence <= completed_sequence + IF wpc = "complete" THEN 1 ELSE 0
    BY <1>1, <2>4, <2>5 DEF CWInv, CommandInv, ExecutedInv, Base
  <2>7. wpc = "complete" => state = "running"
    BY <1>1 DEF CWInv, LifecycleInv, StateInv
  <2>8. QED
    BY <2>3, <2>4, <2>5, <2>6, <2>7 DEF Answer
<1>2. CWInv /\ [Next]_vars => True
  BY <1>1
<1>3. CWInv /\ [Next]_vars => [True]_vars
  BY <1>2
<1>4. QED
  BY <1>3, CommandInvariance, PTL DEF AnswersAreTrue, Spec

\* What submit gave up as unavailable is never run later.
THEOREM RefusedNeverRuns == Spec => UnavailableNeverRuns
<1>1. ASSUME CWInv, [Next]_vars, NEW k \in executed' \ executed
      PROVE  told[k] # "unavailable"
  <2>1. WorkerRun
    BY <1>1 DEF Next, CallerNext, CallerReturn, WorkerNext, StartAgain, SubmitRefused,
       StartSpawn, StartResolved, StartTimeout, StartJoin, SubmitQueued, SubmitReturns,
       StopSignal, StopJoin, WorkerStartup, WorkerTake, WorkerStop, WorkerComplete,
       WorkerLeave, WorkerTeardown, WorkerEnd, vars, history
  <2>2. k = current.command
    BY <1>1, <2>1 DEF WorkerRun
  <2>3. QED
    BY <1>1, <2>1, <2>2 DEF WorkerRun, CWInv, CommandInv, RefusedInv
<1>2. CWInv /\ [Next]_vars => [\A k \in executed' \ executed : told[k] # "unavailable"]_vars
  BY <1>1
<1>3. QED
  BY <1>2, CommandInvariance, PTL DEF UnavailableNeverRuns, Spec
=============================================================================
