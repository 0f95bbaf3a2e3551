------------------------------ MODULE Runtime ------------------------------
(***************************************************************************)
(* The C API and the runtime behind it: cvf_initialize, cvf_inspect,       *)
(* cvf_reload_recipes and cvf_shutdown (src/src/c_api) with Context::create,*)
(* inspect, reload_recipes and ~Context (src/src/runtime/context.cpp), as  *)
(* called by the threads of a host while someone edits the recipes.        *)
(*                                                                         *)
(* context_mutex guards the slot of the one live context, gate serialises  *)
(* the inspections, the recipe snapshot is one atomic pointer.  The host   *)
(* quiesces its calls before cvf_shutdown, as cvf_api.h asks, and never    *)
(* sees closed_ set.  A context is its number, so an address is not used   *)
(* again.  The save that follows a frame is PostFrame's subject, the       *)
(* camera's threads are UvcBackend's.                                      *)
(***************************************************************************)
EXTENDS Naturals, FiniteSets

CONSTANTS
  Threads,      \* threads of the host
  MaxContexts,  \* bound on the contexts created
  MaxVersions   \* bound on the versions of the recipes directory

ASSUME RuntimeBounds == MaxContexts \in Nat /\ MaxVersions \in Nat \ {0}
ASSUME NoThreadIsFree == "free" \notin Threads

VARIABLES
  context_mutex,  \* who holds g_context_mutex, or "free"
  slot,           \* g_live_context, 0 if there is none
  created,        \* contexts created so far
  camera,         \* camera[c]: the camera session of context c
  settings,       \* the capture settings the session was activated with
  gate,           \* who holds gate_, or "free"
  active,         \* recipes_: the version of the published snapshot
  disk,           \* the version in the recipes directory
  valid,          \* versions a complete candidate can be built from
  pc,             \* pc[t]: where thread t is
  call            \* call[t]: the locals of its call

lifecycleVars == <<context_mutex, slot, created, camera>>
recipeVars == <<active, disk, valid>>
vars == <<lifecycleVars, settings, gate, recipeVars, pc, call>>

Contexts == 1 .. MaxContexts
Versions == 1 .. MaxVersions
\* "tuned" overrides the base capture settings, "missing" is in no version.
Recipes == {"plain", "tuned", "missing"}
SettingsOf(r) == IF r = "tuned" THEN "tuned" ELSE "base"

Cycle == {"lookup", "first", "reconnect", "second", "settle", "dispatch", "finish"}
Inspecting == Cycle \cup {"gate"}
Reloading == {"load", "publish"}
Calls == Inspecting \cup Reloading

\* The context of the call, its recipe and what is left of its deadline; the
\* snapshot it read, the candidate it loaded and the version of the algorithm it
\* ran (0: none); the settings its frame was taken with.
Locals == [ctx : Contexts \cup {0}, recipe : Recipes,
           left : {"ms", "sub", "none"},
           snapshot : Versions \cup {0}, candidate : Versions \cup {0},
           prepared : Versions \cup {0}, taken : {"base", "tuned"}]
NoCall == [ctx |-> 0, recipe |-> "plain", left |-> "ms", snapshot |-> 0,
           candidate |-> 0, prepared |-> 0, taken |-> "base"]

TypeOK ==
  /\ context_mutex \in Threads \cup {"free"}
  /\ slot \in Contexts \cup {0}
  /\ created \in Contexts \cup {0}
  /\ camera \in [Contexts -> {"none", "open", "closed"}]
  /\ settings \in {"base", "tuned"}
  /\ gate \in Threads \cup {"free"}
  /\ active \in Versions \cup {0} /\ (slot # 0 => active # 0)
  /\ disk \in Versions
  /\ valid \in SUBSET Versions
  /\ pc \in [Threads -> Calls \cup {"idle", "create", "open", "destroy"}]
  /\ call \in [Threads -> Locals]

Init ==
  /\ context_mutex = "free"
  /\ slot = 0 /\ created = 0
  /\ camera = [c \in Contexts |-> "none"]
  /\ settings = "base"
  /\ gate = "free"
  /\ active = 0 /\ disk = 1 /\ valid \in SUBSET {1}
  /\ pc = [t \in Threads |-> "idle"]
  /\ call = [t \in Threads |-> NoCall]

Goto(t, label) == pc' = [pc EXCEPT ![t] = label]

\* The API call of t returns and its locals are gone.
Leave(t) ==
  /\ Goto(t, "idle")
  /\ call' = [call EXCEPT ![t] = NoCall]

-----------------------------------------------------------------------------
(***************************************************************************)
(* cvf_initialize and Context::create, all of it under context_mutex.      *)
(***************************************************************************)

\* A live context exists: CONTEXT_LIMIT.
InitializeLimited(t) ==
  /\ pc[t] = "idle" /\ context_mutex = "free" /\ slot # 0
  /\ UNCHANGED vars

InitializeBegin(t) ==
  /\ pc[t] = "idle" /\ context_mutex = "free" /\ slot = 0
  /\ created < MaxContexts
  /\ context_mutex' = t
  /\ created' = created + 1
  /\ Goto(t, "create")
  /\ UNCHANGED <<slot, camera, settings, gate, recipeVars, call>>

\* The configuration, the catalog, the diagnostics and the capture store.
CreateLoad(t) ==
  /\ pc[t] = "create" /\ disk \in valid
  /\ call' = [call EXCEPT ![t].candidate = disk]
  /\ Goto(t, "open")
  /\ UNCHANGED <<lifecycleVars, settings, gate, recipeVars>>

\* The camera opens with the base settings and the context is published.
CreateOpen(t) ==
  /\ pc[t] = "open"
  /\ camera' = [camera EXCEPT ![created] = "open"]
  /\ settings' = "base"
  /\ active' = call[t].candidate
  /\ slot' = created
  /\ context_mutex' = "free"
  /\ Leave(t)
  /\ UNCHANGED <<created, gate, disk, valid>>

\* Any stage fails: what was created is destroyed again.
CreateFails(t) ==
  /\ pc[t] \in {"create", "open"}
  /\ context_mutex' = "free"
  /\ Leave(t)
  /\ UNCHANGED <<slot, created, camera, settings, gate, recipeVars>>

-----------------------------------------------------------------------------
(***************************************************************************)
(* cvf_shutdown and ~Context.                                              *)
(***************************************************************************)

\* Mutant: the lifecycle mutex is released before the context is destroyed.
ShutdownUnlocked(t) ==
  /\ pc[t] = "idle" /\ context_mutex = "free" /\ slot # 0
  /\ \A u \in Threads : pc[u] \notin Calls
  /\ call' = [call EXCEPT ![t].ctx = slot]
  /\ slot' = 0
  /\ Goto(t, "destroy")
  /\ UNCHANGED <<context_mutex, created, camera, settings, gate, recipeVars>>

\* The host has quiesced; the slot is emptied and the mutex kept.
Shutdown(t) ==
  /\ pc[t] = "idle" /\ context_mutex = "free" /\ slot # 0
  /\ \A u \in Threads : pc[u] \notin Calls
  /\ call' = [call EXCEPT ![t].ctx = slot]
  /\ slot' = 0
  /\ context_mutex' = t
  /\ Goto(t, "destroy")
  /\ UNCHANGED <<created, camera, settings, gate, recipeVars>>

\* ~Context stops its threads and closes the camera.
ShutdownDestroy(t) ==
  /\ pc[t] = "destroy"
  /\ camera' = [camera EXCEPT ![call[t].ctx] = "closed"]
  /\ context_mutex' = "free"
  /\ Leave(t)
  /\ UNCHANGED <<slot, created, settings, gate, recipeVars>>

-----------------------------------------------------------------------------
(***************************************************************************)
(* cvf_inspect and Context::inspect.                                       *)
(***************************************************************************)

\* is_live_context.
IsLive(c) == c # 0 /\ slot = c

\* The handle is dead, or the request or the result is malformed.
CallRefused(t) ==
  /\ pc[t] = "idle" /\ context_mutex = "free"
  /\ UNCHANGED vars

\* The deadline starts with the call; then the timed wait for the gate.
InspectBegin(t, c, r) ==
  /\ pc[t] = "idle" /\ context_mutex = "free" /\ IsLive(c)
  /\ call' = [call EXCEPT ![t] = [NoCall EXCEPT !.ctx = c, !.recipe = r]]
  /\ Goto(t, "gate")
  /\ UNCHANGED <<lifecycleVars, settings, gate, recipeVars>>

GateTaken(t) ==
  /\ pc[t] = "gate" /\ gate = "free"
  /\ gate' = t
  /\ Goto(t, "lookup")
  /\ UNCHANGED <<lifecycleVars, settings, recipeVars, call>>

\* Mutant: the result of try_lock_for is ignored.
GateTimeoutIgnored(t) ==
  /\ pc[t] = "gate" /\ call[t].left # "ms"
  /\ Goto(t, "lookup")
  /\ UNCHANGED <<lifecycleVars, settings, gate, recipeVars, call>>

\* Mutant: the gate is waited for without a deadline.
GateWaitsForever(t) == FALSE

\* try_lock_for gives up once the milliseconds are used up.
GateTimeout(t) ==
  /\ pc[t] = "gate" /\ call[t].left # "ms"
  /\ Leave(t)
  /\ UNCHANGED <<lifecycleVars, settings, gate, recipeVars>>

\* The inspection returns and releases the gate.
Return(t) ==
  /\ gate' = "free"
  /\ Leave(t)

\* One read of the snapshot pointer; the recipe is found in it or not.
Lookup(t) ==
  /\ pc[t] = "lookup"
  /\ \/ /\ call[t].recipe # "missing"
        /\ call' = [call EXCEPT ![t].snapshot = active]
        /\ Goto(t, "first")
        /\ UNCHANGED gate
     \/ call[t].recipe = "missing" /\ Return(t)
  /\ UNCHANGED <<lifecycleVars, settings, recipeVars>>

\* capture_with_one_retry: a capture gives a frame of the session's settings ...
Capture(t) ==
  /\ pc[t] \in {"first", "second"} /\ call[t].left # "none"
  /\ call' = [call EXCEPT ![t].taken = settings]
  /\ Goto(t, "settle")
  /\ UNCHANGED <<lifecycleVars, settings, gate, recipeVars>>

\* ... a camera error of the first one leads to a reconnect ...
CaptureRetried(t) ==
  /\ pc[t] = "first" /\ call[t].left # "none"
  /\ Goto(t, "reconnect")
  /\ UNCHANGED <<lifecycleVars, settings, gate, recipeVars, call>>

\* ... with the settings of the recipe ...
Reconnect(t) ==
  /\ pc[t] = "reconnect" /\ call[t].left # "none"
  /\ settings' = SettingsOf(call[t].recipe)
  /\ Goto(t, "second")
  /\ UNCHANGED <<lifecycleVars, gate, recipeVars, call>>

\* ... and anything else, a passed deadline too, ends without a frame.
CaptureFails(t) ==
  /\ pc[t] \in {"first", "reconnect", "second"}
  /\ Return(t)
  /\ UNCHANGED <<lifecycleVars, settings, recipeVars>>

\* A settle frame replaces the frame.
SettleFrame(t) ==
  /\ pc[t] = "settle" /\ call[t].left # "none"
  /\ call' = [call EXCEPT ![t].taken = settings]
  /\ UNCHANGED <<lifecycleVars, settings, gate, recipeVars, pc>>

\* Settling fails, by the camera or the deadline: straight to the finalization.
SettleFails(t) ==
  /\ pc[t] = "settle"
  /\ Goto(t, "finish")
  /\ UNCHANGED <<lifecycleVars, settings, gate, recipeVars, call>>

SettleDone(t) ==
  /\ pc[t] = "settle"
  /\ Goto(t, "dispatch")
  /\ UNCHANGED <<lifecycleVars, settings, gate, recipeVars, call>>

\* Mutant: the prepared algorithm is looked up in the newest snapshot.
DispatchNewest(t) ==
  /\ pc[t] = "dispatch"
  /\ call' = [call EXCEPT ![t].prepared = active]
  /\ Goto(t, "finish")
  /\ UNCHANGED <<lifecycleVars, settings, gate, recipeVars>>

\* The prepared algorithm of the same snapshot runs, or is refused for lack of
\* time, and its result is serialised, or cannot be.
Dispatch(t) ==
  /\ pc[t] = "dispatch"
  /\ call' = [call EXCEPT ![t].prepared = call[t].snapshot]
  /\ Goto(t, "finish")
  /\ UNCHANGED <<lifecycleVars, settings, gate, recipeVars>>

\* finalize_post_frame returns; so does the call.
InspectFinish(t) ==
  /\ pc[t] = "finish"
  /\ Return(t)
  /\ UNCHANGED <<lifecycleVars, settings, recipeVars>>

-----------------------------------------------------------------------------
(***************************************************************************)
(* cvf_reload_recipes and Context::reload_recipes, without the gate.       *)
(***************************************************************************)
ReloadBegin(t, c) ==
  /\ pc[t] = "idle" /\ context_mutex = "free" /\ IsLive(c)
  /\ call' = [call EXCEPT ![t].ctx = c]
  /\ Goto(t, "load")
  /\ UNCHANGED <<lifecycleVars, settings, gate, recipeVars>>

\* RecipeCatalog::load builds a complete candidate or none.
ReloadLoad(t) ==
  /\ pc[t] = "load" /\ disk \in valid
  /\ call' = [call EXCEPT ![t].candidate = disk]
  /\ Goto(t, "publish")
  /\ UNCHANGED <<lifecycleVars, settings, gate, recipeVars>>

ReloadRejected(t) ==
  /\ pc[t] = "load" /\ disk \notin valid
  /\ Leave(t)
  /\ UNCHANGED <<lifecycleVars, settings, gate, recipeVars>>

\* RecipeHolder::publish: one atomic store.
ReloadPublish(t) ==
  /\ pc[t] = "publish"
  /\ active' = call[t].candidate
  /\ Leave(t)
  /\ UNCHANGED <<lifecycleVars, settings, gate, disk, valid>>

-----------------------------------------------------------------------------
\* Someone edits the recipes directory.
EditRecipes ==
  /\ disk < MaxVersions
  /\ disk' = disk + 1
  /\ \/ valid' = valid \cup {disk + 1}
     \/ UNCHANGED valid
  /\ UNCHANGED <<lifecycleVars, settings, gate, active, pc, call>>

\* The clock of an inspection: whole milliseconds left, less than one, none.
Tick(t) ==
  /\ pc[t] \in Inspecting /\ call[t].left # "none"
  /\ call' = [call EXCEPT ![t].left = IF @ = "ms" THEN "sub" ELSE "none"]
  /\ UNCHANGED <<lifecycleVars, settings, gate, recipeVars, pc>>

\* What a thread does inside the library.
Proceed(t) ==
  \/ CreateLoad(t) \/ CreateOpen(t) \/ CreateFails(t) \/ ShutdownDestroy(t)
  \/ GateTaken(t) \/ GateTimeout(t) \/ Lookup(t)
  \/ Capture(t) \/ CaptureRetried(t) \/ Reconnect(t) \/ CaptureFails(t)
  \/ SettleFrame(t) \/ SettleFails(t) \/ SettleDone(t)
  \/ Dispatch(t) \/ InspectFinish(t)
  \/ ReloadLoad(t) \/ ReloadRejected(t) \/ ReloadPublish(t)

\* What the host calls.
CallApi(t) ==
  \/ InitializeBegin(t) \/ InitializeLimited(t) \/ Shutdown(t) \/ CallRefused(t)
  \/ \E c \in Contexts :
       ReloadBegin(t, c) \/ \E r \in Recipes : InspectBegin(t, c, r)

Next ==
  \/ \E t \in Threads : Proceed(t) \/ CallApi(t) \/ Tick(t)
  \/ EditRecipes

\* Calls into the camera, the algorithm and the file system return, settle
\* frames are bounded by the deadline and the clock goes on.  A waiter for the
\* gate may be overtaken for ever.
Fairness ==
  \A t \in Threads :
    /\ WF_vars(Proceed(t))
    /\ WF_vars(Tick(t))
    /\ SF_vars(SettleDone(t) \/ SettleFails(t))

Spec == Init /\ [][Next]_vars /\ Fairness

-----------------------------------------------------------------------------
(***************************************************************************)
(* Properties.                                                             *)
(***************************************************************************)

\* At most one camera session is open in the process, that of the live context
\* or of one that is being destroyed under the lifecycle mutex.
OneCameraSession ==
  \A c \in Contexts : camera[c] = "open" =>
    \/ slot = c
    \/ \E t \in Threads :
         context_mutex = t /\ pc[t] = "destroy" /\ call[t].ctx = c

\* At most one inspection is past the gate, so camera, algorithm and save
\* worker are used by one thread at a time.
ExclusiveCycle ==
  \A t, u \in Threads : pc[t] \in Cycle /\ pc[u] \in Cycle => t = u

\* An inspection runs the prepared algorithm of the snapshot it found its
\* recipe in, whatever is reloaded meanwhile.
OneSnapshotPerInspection ==
  \A t \in Threads : pc[t] = "finish" => call[t].prepared \in {0, call[t].snapshot}

\* An inspection that waits for the gate gets it or gives up: every call returns.
CallsReturn == \A t \in Threads : pc[t] \in Inspecting ~> pc[t] = "idle"

\* Finding: "calls are serialized inside the context" (usage guide) and reload
\* "atomically replaces the active snapshot" (cvf_api.h): of two overlapping
\* reloads the one that read the older files may publish last.
ReloadNeverGoesBack ==
  [][slot # 0 /\ slot' = slot => active' >= active]_vars

\* Finding: recipes have "optional bounded capture overrides" (usage guide):
\* they are only applied by a reconnect, and then to every later recipe too.
FramesUseRecipeSettings ==
  \A t \in Threads : pc[t] = "dispatch" => call[t].taken = SettingsOf(call[t].recipe)
=============================================================================
