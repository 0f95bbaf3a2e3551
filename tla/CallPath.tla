------------------------------- MODULE CallPath -------------------------------
(***************************************************************************)
(* One thread of a host and what the C API makes of its calls: the         *)
(* validation of the structures it passes, the loading of the files behind *)
(* cvf_initialize and cvf_reload_recipes, and what is written into         *)
(* cvf_error_info_v1 and cvf_inspection_result_v1 (cvf_entry_points.cpp,   *)
(* abi_validation.cpp, Context::create and the files of RecipeFiles).      *)
(*                                                                         *)
(* A structure is its shape: what the validation tells apart.  Its output  *)
(* fields hold "earlier" until the call writes them, as a host that uses   *)
(* one structure for all its calls finds them.  Threads are Runtime's      *)
(* subject, the cycle of an inspection is PostFrame's and Inspection's.    *)
(***************************************************************************)
EXTENDS RecipeFiles

VARIABLES
  pc,        \* where the call is
  call,      \* its arguments
  live,      \* a context is published in live_context_slot
  handle,    \* the host's cvf_context*
  out,       \* the pointer cvf_initialize is given the address of
  snapshot,  \* the published RecipeCatalog
  before,    \* the catalog when the call began
  result,    \* output fields of the host's cvf_inspection_result_v1
  error,     \* output fields of the host's cvf_error_info_v1
  configured, \* the selector of the configuration that was loaded
  enumerated, \* the candidates for it
  opened,    \* the device that was opened, a singleton
  returned   \* the status the call returned

cameraVars == <<configured, enumerated, opened>>
apiVars == <<call, live, handle, out, snapshot, before, result, error, cameraVars, returned>>
vars == <<filesVars, pc, apiVars>>

Buffers == {"sound", "null", "small"}

(* The message buffer is optional: "absent" is NULL with capacity 0. *)
IntactResults ==
  [memory : {"intact"}, json : Buffers, path : Buffers,
   message : Buffers \cup {"absent"}]
ResultShapes == IntactResults \cup
  [memory : {"null", "truncated", "reserved"}, json : {"sound"},
   path : {"sound"}, message : {"sound"}]
ErrorShapes == {"null", "truncated", "reserved", "buffer", "intact"}
OptionShapes == {"null", "invalid", "abi", "sound"}
RequestShapes == {"null", "invalid", "abi", "sound"}

(* warning_flags and elapsed_ms are only written with an InspectionOutcome. *)
Counters == {"warnings", "elapsed"}
Fields == {"status", "verdict", "code", "json", "path", "message"} \cup Counters
EarlierResult == [field \in Fields |-> "earlier"]
EarlierError == [code |-> "earlier", message |-> "earlier"]
NoCall == [name |-> "none"]

-------------------------------------------------------------------------------
(* Writes into the host's structures. *)

(* result_is_writable *)
Writable(shape) == shape.memory = "intact"

(* result_capacity_problem: the status, and which buffer falls short. *)
CapacityProblem(shape) ==
  IF shape.json = "null" THEN <<"invalid_argument", "none">>
  ELSE IF shape.json = "small" THEN <<"buffer_too_small", "json">>
  ELSE IF shape.path = "null" THEN <<"invalid_argument", "none">>
  ELSE IF shape.path = "small" THEN <<"buffer_too_small", "path">>
  ELSE IF shape.message = "null" THEN <<"invalid_argument", "none">>
  ELSE IF shape.message = "small" THEN <<"buffer_too_small", "message">>
  ELSE <<"ok", "none">>

Text(field, shortfall) == IF shortfall = field THEN "required" ELSE "cleared"

(* Mutant: the path of the last inspection is not cleared. *)
FailureKeepingPath(shape, status, shortfall) ==
  IF ~Writable(shape) THEN result
  ELSE [result EXCEPT !["status"] = status, !["verdict"] = "not_evaluated",
          !["code"] = "this", !["json"] = Text("json", shortfall),
          !["message"] = IF shortfall # "message" /\ shape.message \in {"sound", "small"}
                         THEN "this" ELSE Text("message", shortfall)]

(* Mutant: the size of the structure is not looked at again. *)
FailureUnguarded(shape, status, shortfall) ==
  [result EXCEPT !["status"] = status, !["verdict"] = "not_evaluated",
     !["code"] = "this", !["json"] = Text("json", shortfall),
     !["path"] = Text("path", shortfall),
     !["message"] = IF shortfall # "message" /\ shape.message \in {"sound", "small"}
                    THEN "this" ELSE Text("message", shortfall)]

(* publish_result_failure: the counters keep what they held. *)
Failure(shape, status, shortfall) ==
  IF ~Writable(shape) THEN result
  ELSE [result EXCEPT !["status"] = status, !["verdict"] = "not_evaluated",
          !["code"] = "this", !["json"] = Text("json", shortfall),
          !["path"] = Text("path", shortfall),
          !["message"] = IF shortfall # "message" /\ shape.message \in {"sound", "small"}
                         THEN "this" ELSE Text("message", shortfall)]

(* store_error and clear_error; a call whose error is malformed never gets  *)
(* there.                                                                   *)
StoredError == [code |-> "this", message |-> "this"]
ClearedError == [code |-> "none", message |-> "none"]

-------------------------------------------------------------------------------
Init ==
  /\ FilesInit
  /\ pc = "idle" /\ call = NoCall /\ live = FALSE /\ handle = "null" /\ out = "earlier"
  /\ snapshot = {} /\ before = {} /\ returned = "none"
  /\ result = EarlierResult /\ error = EarlierError
  /\ configured = EmptySelector /\ enumerated = {} /\ opened = NoDevice

(* Files change while a load runs, or between two calls. *)
EditFiles ==
  /\ pc \in {"idle", "initialize: recipes", "reload: recipes"}
  /\ Edit
  /\ UNCHANGED <<pc, apiVars>>

Enter(arguments, next) ==
  /\ pc = "idle" /\ call' = arguments /\ pc' = next
  /\ loader' = NoLoad /\ before' = snapshot
  /\ UNCHANGED <<disk, edits, quiet, live, handle, out, snapshot, result, error, cameraVars,
                 returned>>

Goto(next) == pc' = next /\ UNCHANGED <<filesVars, apiVars>>

Return(status, newError) ==
  /\ pc' = "returned" /\ returned' = status /\ error' = newError
  /\ UNCHANGED <<filesVars, call, live, handle, out, snapshot, before, result, cameraVars>>

(* The host reads what the call left and uses its structures again. *)
Leave ==
  /\ pc = "returned"
  /\ pc' = "idle" /\ call' = NoCall /\ returned' = "none" /\ before' = {}
  /\ out' = "earlier" /\ result' = EarlierResult /\ error' = EarlierError /\ loader' = NoLoad
  /\ configured' = EmptySelector /\ enumerated' = {} /\ opened' = NoDevice
  /\ quiet' = TRUE
  /\ UNCHANGED <<disk, edits, live, handle, snapshot>>

-------------------------------------------------------------------------------
(* cvf_initialize *)

Initialize ==
  \E pointer \in {"null", "given"}, options \in OptionShapes, e \in ErrorShapes :
    Enter([name |-> "initialize", out |-> pointer, options |-> options, error |-> e],
          "initialize: out_context")

(* Whatever is wrong with the rest, out_context is NULL from here on. *)
InitializeOut ==
  /\ pc = "initialize: out_context"
  /\ \/ call.out = "null" /\ Return("invalid_argument", error)
     \/ /\ call.out # "null" /\ out' = "null"
        /\ pc' = "initialize: arguments"
        /\ UNCHANGED <<filesVars, call, live, handle, snapshot, before, result, error,
                       cameraVars, returned>>

InitializeArguments ==
  /\ pc = "initialize: arguments"
  /\ \/ /\ call.options = "null" \/ call.error # "intact"
        /\ Return("invalid_argument", error)
     \/ /\ call.options # "null" /\ call.error = "intact"
        /\ \/ call.options = "abi" /\ Return("abi_mismatch", StoredError)
           \/ call.options = "invalid" /\ Return("invalid_argument", StoredError)
           \/ call.options = "sound" /\ live /\ Return("context_limit", StoredError)
           \/ call.options = "sound" /\ ~live /\ Goto("initialize: config")

(* Context::create: the configuration, then the recipes. *)
LoadConfig ==
  /\ pc = "initialize: config"
  /\ \/ ~ConfigLoads /\ Return("config_error", StoredError)
     \/ /\ ConfigLoads /\ ListFiles
        /\ configured' = LoadedSelector(disk.config.selector)
        /\ pc' = "initialize: recipes"
        /\ UNCHANGED <<call, live, handle, out, snapshot, before, result, error,
                       enumerated, opened, returned>>

LoadRecipes ==
  /\ pc \in {"initialize: recipes", "reload: recipes"}
  /\ LoadStep
  /\ UNCHANGED <<pc, apiVars>>

InitializeLoaded ==
  /\ pc = "initialize: recipes" /\ loader.step = "stopped"
  /\ \/ loader.answer # "sound" /\ Return("config_error", StoredError)
     \/ loader.answer = "sound" /\ Goto("initialize: enumerate")

(* The capture directory cannot be made, or the devices not enumerated.     *)
EnumerateFails ==
  /\ pc = "initialize: enumerate"
  /\ \E status \in {"config_error", "camera_io", "timeout"} : Return(status, StoredError)

Enumerate ==
  /\ pc = "initialize: enumerate"
  /\ \E attached \in SUBSET Devices : enumerated' = Enumerated(attached)
  /\ pc' = "initialize: open"
  /\ UNCHANGED <<filesVars, call, live, handle, out, snapshot, before, result, error,
                 configured, opened, returned>>

Selected == ResolveIdentity(enumerated, configured)

NoSelection ==
  /\ pc = "initialize: open" /\ Selected = NoDevice
  /\ Return("camera_not_found", StoredError)

(* open: the devices are enumerated again, and may be others by now.        *)
OpenFails ==
  /\ pc = "initialize: open" /\ Selected # NoDevice
  /\ \E status \in {"camera_not_found", "camera_io", "timeout"} :
       Return(status, StoredError)

PublishContext ==
  /\ pc = "initialize: open"
  /\ \E attached \in SUBSET Devices, descriptor \in Selected :
       /\ ResolveIdentity(Enumerated(attached), descriptor) # NoDevice
       /\ opened' = ResolveIdentity(Enumerated(attached), descriptor)
  /\ live' = TRUE /\ out' = "live" /\ handle' = "live" /\ snapshot' = loader.loaded
  /\ pc' = "returned" /\ returned' = "ok"
  /\ UNCHANGED <<filesVars, call, before, result, error, configured, enumerated>>

(* An exception leaves initialize_impl or reload_recipes_impl. *)
Contained ==
  /\ pc \in {"initialize: config", "initialize: recipes", "initialize: enumerate",
             "initialize: open", "reload: recipes"}
  /\ Return("internal_error", error)

-------------------------------------------------------------------------------
(* cvf_reload_recipes and cvf_shutdown *)

Handles == {"null", handle}

Reload ==
  \E context \in Handles, e \in ErrorShapes :
    Enter([name |-> "reload", context |-> context, error |-> e], "reload: arguments")

ReloadArguments ==
  /\ pc = "reload: arguments"
  /\ \/ /\ call.error = "null"
        /\ Return(IF call.context = "null" THEN "invalid_context"
                  ELSE "invalid_argument", error)
     \/ call.error \notin {"null", "intact"} /\ Return("invalid_argument", error)
     \/ /\ call.error = "intact"
        /\ \/ call.context # "live" /\ Return("invalid_context", StoredError)
           \/ /\ call.context = "live" /\ ListFiles
              /\ pc' = "reload: recipes" /\ UNCHANGED apiVars

ReloadLoaded ==
  /\ pc = "reload: recipes" /\ loader.step = "stopped"
  /\ \/ loader.answer # "sound" /\ Return("config_error", StoredError)
     \/ /\ loader.answer = "sound"
        /\ snapshot' = loader.loaded
        /\ pc' = "returned" /\ returned' = "ok" /\ error' = ClearedError
        /\ UNCHANGED <<filesVars, call, live, handle, out, before, result, cameraVars>>

Shutdown ==
  \E context \in Handles :
    Enter([name |-> "shutdown", context |-> context], "shutdown")

Destroy ==
  /\ pc = "shutdown"
  /\ \/ call.context # "live" /\ Return("invalid_context", error)
     \/ /\ call.context = "live"
        /\ live' = FALSE /\ handle' = "stale" /\ snapshot' = {}
        /\ pc' = "returned" /\ returned' = "ok"
        /\ UNCHANGED <<filesVars, call, out, before, result, error, cameraVars>>

-------------------------------------------------------------------------------
(* cvf_inspect *)

Inspect ==
  \E context \in Handles, shape \in ResultShapes, request \in RequestShapes :
    Enter([name |-> "inspect", context |-> context, shape |-> shape,
           request |-> request], "inspect: arguments")

Fail(status, shortfall) ==
  /\ result' = Failure(call.shape, status, shortfall)
  /\ pc' = "returned" /\ returned' = status
  /\ UNCHANGED <<filesVars, call, live, handle, out, snapshot, before, error, cameraVars>>

InspectArguments ==
  /\ pc = "inspect: arguments"
  /\ \/ call.context # "live" /\ Fail("invalid_context", "none")
     \/ /\ call.context = "live"
        /\ call.request = "null" \/ call.shape.memory # "intact"
        /\ Fail("invalid_argument", "none")
     \/ /\ call.context = "live" /\ call.request # "null"
        /\ call.shape.memory = "intact"
        /\ LET problem == CapacityProblem(call.shape)
           IN  \/ problem[1] # "ok" /\ Fail(problem[1], problem[2])
               \/ /\ problem[1] = "ok"
                  /\ \/ call.request = "invalid" /\ Fail("invalid_argument", "none")
                     \/ call.request = "abi" /\ Fail("abi_mismatch", "none")
                     \/ call.request = "sound" /\ Goto("inspect: runtime")

(* The fields of an InspectionOutcome, written one after the other. *)
Written(status, verdict, json, path) ==
  [field \in Fields |->
     IF field = "status" THEN status
     ELSE IF field = "verdict" THEN verdict
     ELSE IF field \in {"code"} \cup Counters THEN "this"
     ELSE IF field = "json" THEN json
     ELSE IF field = "path" THEN path
     ELSE IF status = "ok" \/ call.shape.message = "absent" THEN "cleared" ELSE "this"]

Outcome(status, verdict, json, path) ==
  /\ result' = Written(status, verdict, json, path)
  /\ pc' = "returned" /\ returned' = status
  /\ UNCHANGED <<filesVars, call, live, handle, out, snapshot, before, error, cameraVars>>

(* The input is no JSON object, another inspection does not end in time, or *)
(* the recipe is not in the catalog.                                        *)
InspectionRefused ==
  /\ pc = "inspect: runtime"
  /\ \E status \in {"invalid_argument", "timeout", "recipe_not_found"} :
       /\ status = "recipe_not_found" => \E id \in Ids : ~Known(snapshot, id)
       /\ Outcome(status, "not_evaluated", "cleared", "cleared")

(* The camera, the algorithm, the serialisation or a required save fails; a *)
(* capture may have been kept.                                              *)
InspectionFails ==
  /\ pc = "inspect: runtime" /\ snapshot # {}
  /\ \E status \in {"camera_io", "camera_not_found", "timeout", "invalid_argument",
                    "algorithm_error", "internal_error",
                    "required_artifact_error", "buffer_too_small"},
        path \in {"cleared", "this"} :
       Outcome(status, "not_evaluated", "cleared", path)

Inspected ==
  /\ pc = "inspect: runtime" /\ snapshot # {}
  /\ \E verdict \in {"pass", "fail"}, path \in {"cleared", "this"} :
       Outcome("ok", verdict, "this", path)

(* The handler of cvf_inspect. *)
InspectThrows ==
  /\ pc = "inspect: runtime"
  /\ Fail("internal_error", "none")

Next ==
  \/ EditFiles \/ Leave
  \/ Initialize \/ InitializeOut \/ InitializeArguments \/ LoadConfig \/ LoadRecipes
  \/ InitializeLoaded \/ EnumerateFails \/ Enumerate \/ NoSelection
  \/ OpenFails \/ PublishContext \/ Contained
  \/ Reload \/ ReloadArguments \/ ReloadLoaded
  \/ Shutdown \/ Destroy
  \/ Inspect \/ InspectArguments \/ InspectionRefused \/ InspectionFails
  \/ Inspected \/ InspectThrows

CallSpec == Init /\ [][Next]_vars

-------------------------------------------------------------------------------
(* publish_result_failure and inspect_impl: when an inspection returns, an  *)
(* intact result tells what the call returned; its texts, its code and its  *)
(* verdict are of this call on whichever path the call ended, and without   *)
(* an OK there is no verdict and no measurement.  Only after an OK are the  *)
(* counters of this call too: a failure that has no InspectionOutcome       *)
(* leaves what an earlier call put there.  initialize_impl: whatever        *)
(* out_context held, it is NULL after a rejection.                          *)
OutputsAreOfThisCall ==
  /\ (/\ pc = "returned" /\ call.name = "inspect"
      /\ call.shape.memory = "intact")
     => /\ \A field \in Fields \ Counters : result[field] # "earlier"
        /\ result["status"] = returned
        /\ IF returned = "ok" THEN \A field \in Counters : result[field] # "earlier"
           ELSE result["verdict"] = "not_evaluated" /\ result["json"] # "this"
  /\ (pc = "returned" /\ call.name = "initialize" /\ call.out # "null")
     => out = IF returned = "ok" THEN "live" ELSE "null"

(* A structure whose size or reserved words are wrong is never written to,  *)
(* on any path of any call: result_is_writable and validate_error_struct.   *)
MalformedUntouched ==
  /\ call.name = "inspect" /\ call.shape.memory # "intact"
       => result = EarlierResult
  /\ call.name \in {"initialize", "reload"} /\ call.error # "intact"
       => error = EarlierError

(* A load during which nobody edits the files succeeds exactly when all of  *)
(* them are sound, then publishes all the recipes of the directory, and     *)
(* otherwise leaves the published catalog as it was.                        *)
QuietLoadIsExact ==
  (/\ pc = "returned" /\ quiet /\ loader.step = "stopped"
   /\ returned # "internal_error")
  => /\ loader.answer = "sound" <=> DirectorySound
     /\ snapshot = IF returned = "ok" THEN RecipesOfDisk ELSE before

(* Context::create and activate: the camera of a context is the only one of *)
(* those enumerated that the configured selector matches, whatever was      *)
(* plugged in or out while it was opened; no device is guessed.             *)
NoCameraIsGuessed ==
  (pc = "returned" /\ call.name = "initialize" /\ returned = "ok")
  => opened = {d \in enumerated : Matches(d, configured)}
===============================================================================
