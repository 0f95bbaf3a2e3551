--------------------------- MODULE RuntimeProofs ---------------------------
(***************************************************************************)
(* Theorems about Runtime, for any number of threads, contexts and recipe  *)
(* versions.                                                               *)
(*                                                                         *)
(* That one camera is open rests on who holds the lifecycle mutex, and     *)
(* that one inspection runs on who holds the gate: RuntimeInv relates both *)
(* to the places of the threads.                                           *)
(***************************************************************************)
EXTENDS Runtime, TLAPS

\* The lifecycle mutex is held exactly while a context is made or destroyed.
MutexInv ==
  \A t \in Threads : context_mutex = t <=> pc[t] \in {"create", "open", "destroy"}

\* A context is only made while there is none.
SlotInv == \A t \in Threads : pc[t] \in {"create", "open"} => slot = 0 /\ created # 0

\* The gate is held exactly by the inspection past it.
GateInv == \A t \in Threads : gate = t <=> pc[t] \in Cycle

\* A candidate that can be published is a version; the algorithm runs last.
LocalsInv ==
  \A t \in Threads :
    /\ pc[t] \in {"open", "publish"} => call[t].candidate # 0
    /\ pc[t] \in Inspecting \ {"finish"} => call[t].prepared = 0

RuntimeInv ==
  /\ TypeOK
  /\ MutexInv
  /\ SlotInv
  /\ GateInv
  /\ LocalsInv
  /\ OneCameraSession
  /\ OneSnapshotPerInspection

\* A process starts without a context, a call or a lock.
LEMMA RuntimeInvInit == Init => RuntimeInv
  BY RuntimeBounds, NoThreadIsFree
     DEF Init, RuntimeInv, TypeOK, MutexInv, SlotInv, GateInv, LocalsInv,
         OneCameraSession, OneSnapshotPerInspection, Contexts, Versions, Recipes,
         Locals, NoCall, Cycle, Inspecting, Calls, Reloading

\* An assignment to one local of a call keeps the type of the calls.
LEMMA CallsTyped ==
  ASSUME call \in [Threads -> Locals], NEW t \in Threads
  PROVE  /\ [call EXCEPT ![t] = NoCall] \in [Threads -> Locals]
         /\ \A c \in Contexts : [call EXCEPT ![t].ctx = c] \in [Threads -> Locals]
         /\ \A c \in Contexts, r \in Recipes :
              [call EXCEPT ![t] = [NoCall EXCEPT !.ctx = c, !.recipe = r]]
                \in [Threads -> Locals]
         /\ \A v \in Versions \cup {0} :
              /\ [call EXCEPT ![t].snapshot = v] \in [Threads -> Locals]
              /\ [call EXCEPT ![t].candidate = v] \in [Threads -> Locals]
              /\ [call EXCEPT ![t].prepared = v] \in [Threads -> Locals]
         /\ \A s \in {"base", "tuned"} :
              [call EXCEPT ![t].taken = s] \in [Threads -> Locals]
         /\ \A l \in {"ms", "sub", "none"} :
              [call EXCEPT ![t].left = l] \in [Threads -> Locals]
<1>1. /\ NoCall \in Locals
      /\ \A c \in Contexts, r \in Recipes :
           [NoCall EXCEPT !.ctx = c, !.recipe = r] \in Locals
  BY DEF Locals, NoCall, Recipes
<1>2. call[t] \in Locals
  OBVIOUS
<1>3. /\ \A c \in Contexts : [call[t] EXCEPT !.ctx = c] \in Locals
      /\ \A v \in Versions \cup {0} :
           /\ [call[t] EXCEPT !.snapshot = v] \in Locals
           /\ [call[t] EXCEPT !.candidate = v] \in Locals
           /\ [call[t] EXCEPT !.prepared = v] \in Locals
      /\ \A s \in {"base", "tuned"} : [call[t] EXCEPT !.taken = s] \in Locals
      /\ \A l \in {"ms", "sub", "none"} : [call[t] EXCEPT !.left = l] \in Locals
  BY <1>2 DEF Locals
<1>4. QED
  BY <1>1, <1>3

\* Every step of a call leaves the locals of all calls well typed.
LEMMA LocalsStep ==
  ASSUME RuntimeInv, NEW t \in Threads, Proceed(t) \/ CallApi(t) \/ Tick(t)
  PROVE  call' \in [Threads -> Locals]
<1> USE DEF RuntimeInv, TypeOK
<1>1. CASE call' = [call EXCEPT ![t] = NoCall]
  BY <1>1, CallsTyped
<1>2. CASE UNCHANGED call
  BY <1>2
<1>3. CASE call' = [call EXCEPT ![t].candidate = disk]
  BY <1>3, CallsTyped
<1>4. CASE Shutdown(t)
  <2>1. slot \in Contexts /\ call' = [call EXCEPT ![t].ctx = slot]
    BY <1>4 DEF Shutdown
  <2>2. QED
    BY <2>1, CallsTyped
<1>5. ASSUME NEW c \in Contexts, ReloadBegin(t, c) PROVE call' \in [Threads -> Locals]
  <2>1. call' = [call EXCEPT ![t].ctx = c]
    BY <1>5 DEF ReloadBegin
  <2>2. QED
    BY <2>1, CallsTyped
<1>6. ASSUME NEW c \in Contexts, NEW r \in Recipes, InspectBegin(t, c, r)
      PROVE  call' \in [Threads -> Locals]
  <2>1. call' = [call EXCEPT ![t] = [NoCall EXCEPT !.ctx = c, !.recipe = r]]
    BY <1>6 DEF InspectBegin
  <2>2. QED
    BY <2>1, CallsTyped
<1>7. CASE call' = [call EXCEPT ![t].snapshot = active]
  BY <1>7, CallsTyped
<1>8. CASE call' = [call EXCEPT ![t].taken = settings]
  BY <1>8, CallsTyped
<1>9. CASE Dispatch(t)
  <2>1. call[t].snapshot \in Versions \cup {0}
    BY DEF Locals
  <2>2. QED
    BY <1>9, <2>1, CallsTyped DEF Dispatch
<1>10. CASE Tick(t)
  BY <1>10, CallsTyped DEF Tick
<1>11. QED
  BY <1>1, <1>2, <1>3, <1>4, <1>5, <1>6, <1>7, <1>8, <1>9, <1>10
     DEF Proceed, CallApi, InitializeBegin, InitializeLimited, CallRefused,
         CreateLoad, ReloadLoad, Capture, SettleFrame,
         CreateOpen, CreateFails, ShutdownDestroy, GateTaken, GateTimeout,
         Lookup, CaptureRetried, Reconnect, CaptureFails, SettleFails, SettleDone,
         InspectFinish, ReloadRejected, ReloadPublish, Return, Leave, vars

\* The lifecycle calls, under the lifecycle mutex, keep the invariant.
LEMMA CreateStep ==
  ASSUME RuntimeInv, NEW t \in Threads,
         InitializeBegin(t) \/ CreateLoad(t) \/ CreateOpen(t) \/
         CreateFails(t) \/ Shutdown(t) \/ ShutdownDestroy(t)
  PROVE  RuntimeInv'
<1>1. call' \in [Threads -> Locals]
  BY LocalsStep DEF Proceed, CallApi
<1> USE RuntimeBounds, NoThreadIsFree
    DEF RuntimeInv, TypeOK, MutexInv, SlotInv, GateInv, LocalsInv,
        OneCameraSession, OneSnapshotPerInspection, Contexts, Versions,
        Cycle, Inspecting, Calls, Reloading, lifecycleVars, recipeVars, Goto
<1>2. CASE InitializeBegin(t)
  BY <1>1, <1>2 DEF InitializeBegin
<1>3. CASE CreateLoad(t)
  BY <1>1, <1>3 DEF CreateLoad, Locals
<1>4. CASE CreateOpen(t)
  <2>1. call[t].candidate \in Versions
    BY <1>4 DEF CreateOpen, Locals
  <2>2. QED
    BY <1>1, <1>4, <2>1 DEF CreateOpen, Leave, NoCall
<1>5. CASE CreateFails(t)
  BY <1>1, <1>5 DEF CreateFails, Leave, NoCall
<1>6. CASE Shutdown(t)
  BY <1>1, <1>6 DEF Shutdown, Locals
<1>7. CASE ShutdownDestroy(t)
  <2>1. OneCameraSession'
    BY <1>1, <1>7 DEF ShutdownDestroy, Leave, NoCall
  <2>2. TypeOK'
    BY <1>1, <1>7 DEF ShutdownDestroy, Leave
  <2>3. MutexInv'
    BY <1>7 DEF ShutdownDestroy, Leave
  <2>4. SlotInv'
    BY <1>7 DEF ShutdownDestroy, Leave
  <2>5. GateInv'
    BY <1>7 DEF ShutdownDestroy, Leave
  <2>6. LocalsInv' /\ OneSnapshotPerInspection'
    BY <1>1, <1>7 DEF ShutdownDestroy, Leave, NoCall
  <2>7. QED
    BY <2>1, <2>2, <2>3, <2>4, <2>5, <2>6
<1>8. QED
  BY <1>2, <1>3, <1>4, <1>5, <1>6, <1>7

\* Every step of an inspection keeps the invariant.
LEMMA InspectStep ==
  ASSUME RuntimeInv, NEW t \in Threads,
         GateTaken(t) \/ GateTimeout(t) \/ Lookup(t) \/ Capture(t) \/
         CaptureRetried(t) \/ Reconnect(t) \/ CaptureFails(t) \/
         SettleFrame(t) \/ SettleFails(t) \/ SettleDone(t) \/ Dispatch(t)
         \/ InspectFinish(t) \/ Tick(t)
  PROVE  RuntimeInv'
<1>1. call' \in [Threads -> Locals]
  BY LocalsStep DEF Proceed, CallApi
<1> USE RuntimeBounds, NoThreadIsFree
    DEF RuntimeInv, TypeOK, MutexInv, SlotInv, GateInv, LocalsInv,
        OneCameraSession, OneSnapshotPerInspection, Contexts, Versions,
        Cycle, Inspecting, Calls, Reloading, lifecycleVars, recipeVars, Goto
<1>2. CASE GateTaken(t)
  BY <1>1, <1>2 DEF GateTaken
<1>3. CASE GateTimeout(t)
  BY <1>1, <1>3 DEF GateTimeout, Leave, NoCall
<1>4. CASE Lookup(t)
  <2>1. CASE Return(t)
    BY <1>1, <1>4, <2>1 DEF Lookup, Return, Leave, NoCall
  <2>2. CASE /\ call' = [call EXCEPT ![t].snapshot = active]
             /\ Goto(t, "first") /\ UNCHANGED gate
    BY <1>1, <1>4, <2>2 DEF Lookup, Locals
  <2>3. QED
    BY <1>4, <2>1, <2>2 DEF Lookup
<1>5. CASE Capture(t)
  BY <1>1, <1>5 DEF Capture, Locals
<1>6. CASE CaptureRetried(t)
  BY <1>1, <1>6 DEF CaptureRetried
<1>7. CASE Reconnect(t)
  BY <1>1, <1>7 DEF Reconnect, SettingsOf
<1>8. CASE CaptureFails(t)
  BY <1>1, <1>8 DEF CaptureFails, Return, Leave, NoCall
<1>9. CASE SettleFrame(t)
  BY <1>1, <1>9 DEF SettleFrame, Locals
<1>10. CASE SettleFails(t)
  BY <1>1, <1>10 DEF SettleFails
<1>11. CASE SettleDone(t)
  BY <1>1, <1>11 DEF SettleDone
<1>12. CASE Dispatch(t)
  BY SMTT(60), <1>1, <1>12 DEF Dispatch, Locals
<1>13. CASE InspectFinish(t)
  BY <1>1, <1>13 DEF InspectFinish, Return, Leave, NoCall
<1>14. CASE Tick(t)
  BY <1>1, <1>14 DEF Tick, Locals
<1>15. QED
  BY <1>2, <1>3, <1>4, <1>5, <1>6, <1>7, <1>8, <1>9, <1>10, <1>11, <1>12,
     <1>13, <1>14

\* The steps of a reload, which takes no lock, keep the invariant.
LEMMA ReloadStep ==
  ASSUME RuntimeInv, NEW t \in Threads,
         ReloadLoad(t) \/ ReloadRejected(t) \/ ReloadPublish(t)
  PROVE  RuntimeInv'
<1>1. call' \in [Threads -> Locals]
  BY LocalsStep DEF Proceed, CallApi
<1> USE RuntimeBounds, NoThreadIsFree
    DEF RuntimeInv, TypeOK, MutexInv, SlotInv, GateInv, LocalsInv,
        OneCameraSession, OneSnapshotPerInspection, Contexts, Versions,
        Cycle, Inspecting, Calls, Reloading, lifecycleVars, recipeVars, Goto
<1>2. CASE ReloadLoad(t)
  BY <1>1, <1>2 DEF ReloadLoad, Locals
<1>3. CASE ReloadRejected(t)
  BY <1>1, <1>3 DEF ReloadRejected, Leave, NoCall
<1>4. CASE ReloadPublish(t)
  <2>1. call[t].candidate \in Versions
    BY <1>4 DEF ReloadPublish, Locals
  <2>2. TypeOK'
    BY <1>1, <1>4, <2>1 DEF ReloadPublish, Leave
  <2>3. MutexInv' /\ SlotInv' /\ GateInv' /\ OneCameraSession'
    BY <1>4 DEF ReloadPublish, Leave
  <2>4. LocalsInv' /\ OneSnapshotPerInspection'
    BY <1>1, <1>4 DEF ReloadPublish, Leave, NoCall
  <2>5. QED
    BY <2>2, <2>3, <2>4
<1>5. QED
  BY <1>2, <1>3, <1>4

\* A step that changes nothing keeps the invariant.
LEMMA StutterStep ==
  ASSUME RuntimeInv, UNCHANGED vars
  PROVE  RuntimeInv'
  BY DEF vars, lifecycleVars, recipeVars, RuntimeInv, TypeOK, MutexInv, SlotInv,
         GateInv, LocalsInv, OneCameraSession, OneSnapshotPerInspection

\* A call that enters the library keeps the invariant, one that is refused too.
LEMMA CallStep ==
  ASSUME RuntimeInv, NEW t \in Threads, CallApi(t)
  PROVE  RuntimeInv'
<1>1. call' \in [Threads -> Locals]
  BY LocalsStep
<1>2. CASE InitializeBegin(t) \/ Shutdown(t)
  BY <1>2, CreateStep
<1> USE RuntimeBounds, NoThreadIsFree
    DEF RuntimeInv, TypeOK, MutexInv, SlotInv, GateInv, LocalsInv,
        OneCameraSession, OneSnapshotPerInspection, Contexts, Versions,
        Cycle, Inspecting, Calls, Reloading, lifecycleVars, recipeVars, Goto
<1>3. ASSUME NEW c \in Contexts, ReloadBegin(t, c) PROVE RuntimeInv'
  BY SMTT(60), <1>1, <1>3 DEF ReloadBegin, IsLive, Locals
<1>4. ASSUME NEW c \in Contexts, NEW r \in Recipes, InspectBegin(t, c, r)
      PROVE  RuntimeInv'
  BY <1>1, <1>4 DEF InspectBegin, IsLive, Locals, NoCall
<1>5. CASE InitializeLimited(t) \/ CallRefused(t)
  BY <1>5, StutterStep DEF InitializeLimited, CallRefused
<1>6. QED
  BY <1>2, <1>3, <1>4, <1>5 DEF CallApi

\* The recipes directory changes under the running library.
LEMMA EditStep ==
  ASSUME RuntimeInv, EditRecipes
  PROVE  RuntimeInv'
<1> USE RuntimeBounds, NoThreadIsFree
    DEF RuntimeInv, TypeOK, MutexInv, SlotInv, GateInv, LocalsInv,
        OneCameraSession, OneSnapshotPerInspection, Contexts, Versions,
        Cycle, Inspecting, Calls, Reloading, lifecycleVars, recipeVars, Goto
<1>1. disk' \in Versions /\ valid' \in SUBSET Versions
  <2>1. disk + 1 \in Versions
    BY DEF EditRecipes
  <2>2. CASE valid' = valid \cup {disk + 1}
    BY <2>1, <2>2 DEF EditRecipes
  <2>3. CASE UNCHANGED valid
    BY <2>1, <2>3 DEF EditRecipes
  <2>4. QED
    BY <2>2, <2>3 DEF EditRecipes
<1>2. QED
  BY <1>1 DEF EditRecipes

\* Every step keeps the invariant.
LEMMA RuntimeInvStep == RuntimeInv /\ [Next]_vars => RuntimeInv'
<1> SUFFICES ASSUME RuntimeInv, [Next]_vars PROVE RuntimeInv'
  OBVIOUS
<1>1. ASSUME NEW t \in Threads, Proceed(t) PROVE RuntimeInv'
  BY <1>1, CreateStep, InspectStep, ReloadStep DEF Proceed
<1>2. ASSUME NEW t \in Threads, CallApi(t) PROVE RuntimeInv'
  BY <1>2, CallStep
<1>3. ASSUME NEW t \in Threads, Tick(t) PROVE RuntimeInv'
  BY <1>3, InspectStep
<1>4. CASE UNCHANGED vars
  BY <1>4, StutterStep
<1>5. QED
  BY <1>1, <1>2, <1>3, <1>4, EditStep DEF Next

\* So it holds always.
LEMMA RuntimeSafe == Spec => []RuntimeInv
  BY RuntimeInvInit, RuntimeInvStep, PTL DEF Spec

-----------------------------------------------------------------------------
\* The variables of the runtime keep their types, however many threads call it.
THEOREM TypeCorrect == Spec => []TypeOK
<1>1. RuntimeInv => TypeOK
  BY DEF RuntimeInv
<1>2. QED
  BY <1>1, RuntimeSafe, PTL

\* One camera session at most is open in the process, however cvf_initialize and
\* cvf_shutdown are interleaved by the threads of the host.
THEOREM OneCamera == Spec => []OneCameraSession
<1>1. RuntimeInv => OneCameraSession
  BY DEF RuntimeInv
<1>2. QED
  BY <1>1, RuntimeSafe, PTL

\* Two inspections are never past the gate together, a timed out wait included:
\* the gate is held exactly by the inspection that is past it.
THEOREM OneInspection == Spec => []ExclusiveCycle
<1>1. RuntimeInv => ExclusiveCycle
  BY DEF RuntimeInv, GateInv, ExclusiveCycle
<1>2. QED
  BY <1>1, RuntimeSafe, PTL

\* An inspection runs the algorithm of the snapshot it read, for any number of
\* reloads between its lookup and its dispatch.
THEOREM OneSnapshot == Spec => []OneSnapshotPerInspection
<1>1. RuntimeInv => OneSnapshotPerInspection
  BY DEF RuntimeInv
<1>2. QED
  BY <1>1, RuntimeSafe, PTL
=============================================================================
