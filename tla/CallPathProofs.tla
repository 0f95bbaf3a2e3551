---------------------------- MODULE CallPathProofs ----------------------------
(***************************************************************************)
(* Proofs for CallPath: what a call of the C API writes into the host's    *)
(* structures, and which camera a context gets, for every configuration    *)
(* root, every set of recipes and every bound on the edits.                *)
(***************************************************************************)
EXTENDS CallPath, FiniteSetTheorems, WellFoundedInduction, TLAPS

(* Which call is at which place, and what has been checked there. *)
PlaceInv ==
  /\ pc = "idle" => call = NoCall
  /\ pc = "initialize: out_context" => call.name = "initialize"
  /\ pc = "initialize: arguments" => /\ call.name = "initialize"
                                     /\ call.out # "null" /\ out = "null"
  /\ pc \in {"initialize: config", "initialize: recipes", "initialize: enumerate",
             "initialize: open"} =>
       /\ call.name = "initialize" /\ call.error = "intact"
       /\ call.out # "null" /\ out = "null"
  /\ pc = "reload: arguments" => call.name = "reload"
  /\ pc = "reload: recipes" => call.name = "reload" /\ call.error = "intact"
  /\ pc = "shutdown" => call.name = "shutdown"
  /\ pc = "inspect: arguments" => call.name = "inspect"
  /\ pc = "inspect: runtime" => call.name = "inspect" /\ call.shape.memory = "intact"

(* Nothing is written before the call returns. *)
UntouchedInv ==
  /\ pc # "returned" => result = EarlierResult /\ error = EarlierError

CallInv ==
  PlaceInv /\ UntouchedInv /\ OutputsAreOfThisCall /\ MalformedUntouched

CandidatesInv ==
  pc = "initialize: open" =>
    \E attached \in SUBSET Devices : enumerated = Enumerated(attached)

CameraInv == PlaceInv /\ CandidatesInv /\ NoCameraIsGuessed

-------------------------------------------------------------------------------
(* The record of a failure: no text, code or verdict of an earlier call.    *)
LEMMA FailureIsComplete ==
  ASSUME result = EarlierResult,
         NEW shape, shape.memory = "intact", NEW status, NEW shortfall
  PROVE  /\ \A field \in (Fields \ Counters) \ {"status"} :
              Failure(shape, status, shortfall)[field] # "earlier"
         /\ Failure(shape, status, shortfall)["status"] = status
         /\ Failure(shape, status, shortfall)["verdict"] = "not_evaluated"
         /\ Failure(shape, status, shortfall)["json"] # "this"
  BY DEF Failure, Writable, Fields, Counters, Text, EarlierResult

(* A malformed structure is left alone.                                     *)
LEMMA FailureLeavesMalformed ==
  ASSUME NEW shape, shape.memory # "intact", NEW status, NEW shortfall
  PROVE  Failure(shape, status, shortfall) = result
  BY DEF Failure, Writable

(* A call that ends in publish_result_failure keeps the invariant.          *)
LEMMA FailKeepsInv ==
  ASSUME CallInv, pc # "returned", call.name = "inspect",
         NEW status, status \notin {"ok", "earlier"}, NEW shortfall,
         Fail(status, shortfall)
  PROVE  CallInv'
<1>1. result = EarlierResult /\ error = EarlierError
  BY DEF CallInv, UntouchedInv
<1>2. /\ result' = Failure(call.shape, status, shortfall) /\ pc' = "returned"
      /\ returned' = status /\ call' = call /\ error' = error
  BY DEF Fail
<1>3. PlaceInv' /\ UntouchedInv'
  BY <1>2 DEF PlaceInv, UntouchedInv
<1>4. OutputsAreOfThisCall'
  <2>1. CASE call.shape.memory = "intact"
    BY <1>1, <1>2, <2>1, FailureIsComplete DEF OutputsAreOfThisCall, Fields, Counters
  <2>2. CASE call.shape.memory # "intact"
    BY <1>2, <2>2 DEF OutputsAreOfThisCall
  <2> QED BY <2>1, <2>2
<1>5. MalformedUntouched'
  BY <1>1, <1>2, FailureLeavesMalformed DEF MalformedUntouched
<1> QED BY <1>3, <1>4, <1>5 DEF CallInv

(* So does one that ends with the outcome of the runtime.                   *)
LEMMA OutcomeKeepsInv ==
  ASSUME CallInv, pc = "inspect: runtime",
         NEW status, NEW verdict, NEW json, NEW path,
         status # "earlier", verdict # "earlier", json # "earlier", path # "earlier",
         status # "ok" => verdict = "not_evaluated" /\ json # "this",
         Outcome(status, verdict, json, path)
  PROVE  CallInv'
<1>1. call.name = "inspect" /\ call.shape.memory = "intact"
  BY DEF CallInv, PlaceInv
<1>2. error = EarlierError
  BY DEF CallInv, UntouchedInv
<1>3. /\ result' = Written(status, verdict, json, path) /\ pc' = "returned"
      /\ returned' = status /\ call' = call /\ error' = error
  BY DEF Outcome
<1>4. PlaceInv' /\ UntouchedInv'
  BY <1>3 DEF PlaceInv, UntouchedInv
<1>5. OutputsAreOfThisCall'
  BY <1>1, <1>3 DEF OutputsAreOfThisCall, Written, Fields, Counters
<1>6. MalformedUntouched'
  BY <1>1, <1>2, <1>3 DEF MalformedUntouched
<1> QED BY <1>4, <1>5, <1>6 DEF CallInv

(* A call of the other three that returns: it wrote nothing into a result,  *)
(* and into an error only where the structure was intact; a rejection left  *)
(* NULL in out_context.                                                     *)
LEMMA ReturnKeepsInv ==
  ASSUME CallInv, pc # "returned", pc' = "returned", call' = call,
         call.name \in {"initialize", "reload", "shutdown"},
         result' = result, error' # error => call.error = "intact",
         call.name = "initialize" /\ call.out # "null"
           => out' = IF returned' = "ok" THEN "live" ELSE "null"
  PROVE  CallInv'
<1>1. result = EarlierResult /\ error = EarlierError
  BY DEF CallInv, UntouchedInv
<1> QED
  BY <1>1 DEF CallInv, PlaceInv, UntouchedInv, OutputsAreOfThisCall, MalformedUntouched

(* Where a call begins, and that it wrote nothing.                          *)
LEMMA InitializeBegins ==
  ASSUME Initialize
  PROVE  /\ pc = "idle" /\ pc' = "initialize: out_context" /\ call'.name = "initialize"
         /\ result' = result /\ error' = error
<1>1. PICK pointer \in {"null", "given"}, options \in OptionShapes, e \in ErrorShapes :
        Enter([name |-> "initialize", out |-> pointer, options |-> options, error |-> e],
              "initialize: out_context")
  BY DEF Initialize
<1> QED BY <1>1 DEF Enter

LEMMA ReloadBegins ==
  ASSUME Reload
  PROVE  /\ pc = "idle" /\ pc' = "reload: arguments" /\ call'.name = "reload"
         /\ result' = result /\ error' = error
<1>1. PICK context \in Handles, e \in ErrorShapes :
        Enter([name |-> "reload", context |-> context, error |-> e],
              "reload: arguments")
  BY DEF Reload
<1> QED BY <1>1 DEF Enter

LEMMA ShutdownBegins ==
  ASSUME Shutdown
  PROVE  /\ pc = "idle" /\ pc' = "shutdown" /\ call'.name = "shutdown"
         /\ result' = result /\ error' = error
  BY DEF Shutdown, Enter

LEMMA InspectBegins ==
  ASSUME Inspect
  PROVE  /\ pc = "idle" /\ pc' = "inspect: arguments" /\ call'.name = "inspect"
         /\ result' = result /\ error' = error
<1>1. PICK context \in Handles, shape \in ResultShapes, request \in RequestShapes :
        Enter([name |-> "inspect", context |-> context, shape |-> shape,
               request |-> request],
              "inspect: arguments")
  BY DEF Inspect
<1> QED BY <1>1 DEF Enter

(* A call that begins has written nothing yet.                              *)
LEMMA CallStartKeepsInv ==
  ASSUME CallInv, pc = "idle", result' = result, error' = error,
         \/ pc' = "initialize: out_context" /\ call'.name = "initialize"
         \/ pc' = "reload: arguments" /\ call'.name = "reload"
         \/ pc' = "shutdown" /\ call'.name = "shutdown"
         \/ pc' = "inspect: arguments" /\ call'.name = "inspect"
  PROVE  CallInv'
<1>1. result' = EarlierResult /\ error' = EarlierError
  BY DEF CallInv, UntouchedInv
<1>2. PlaceInv' /\ UntouchedInv'
  BY <1>1 DEF PlaceInv, UntouchedInv
<1>3. OutputsAreOfThisCall' /\ MalformedUntouched'
  BY <1>1 DEF OutputsAreOfThisCall, MalformedUntouched
<1> QED BY <1>2, <1>3 DEF CallInv

-------------------------------------------------------------------------------
LEMMA CallInvInductive ==
  ASSUME CallInv, [Next]_vars
  PROVE  CallInv'
<1> USE DEF NoCall
<1>1. CASE EditFiles \/ LoadRecipes
  <2>1. UNCHANGED <<pc, call, out, result, error, returned>>
    BY <1>1 DEF EditFiles, LoadRecipes, apiVars, cameraVars
  <2> QED BY <2>1
       DEF CallInv, PlaceInv, UntouchedInv, OutputsAreOfThisCall, MalformedUntouched
<1>2. CASE Leave
  BY <1>2 DEF Leave, CallInv, PlaceInv, UntouchedInv, OutputsAreOfThisCall, MalformedUntouched
<1>3. CASE Initialize
  BY <1>3, InitializeBegins, CallStartKeepsInv
<1>4. CASE Reload
  BY <1>4, ReloadBegins, CallStartKeepsInv
<1>5. CASE Shutdown
  BY <1>5, ShutdownBegins, CallStartKeepsInv
<1>6. CASE Inspect
  BY <1>6, InspectBegins, CallStartKeepsInv
<1>7. CASE InitializeOut \/ InitializeArguments
  <2>1. CASE InitializeOut
    <3>1. pc = "initialize: out_context" /\ call.name = "initialize"
      BY <2>1 DEF InitializeOut, CallInv, PlaceInv
    <3>2. CASE call.out = "null"
      <4>1. UNCHANGED <<call, result, error>> /\ pc' = "returned"
        BY <2>1, <3>2 DEF InitializeOut, Return
      <4> QED BY <3>1, <3>2, <4>1, ReturnKeepsInv
    <3>3. CASE call.out # "null"
      <4>1. /\ UNCHANGED <<call, result, error>>
            /\ out' = "null" /\ pc' = "initialize: arguments"
        BY <2>1, <3>3 DEF InitializeOut
      <4> QED BY <3>1, <3>3, <4>1
           DEF CallInv, PlaceInv, UntouchedInv, OutputsAreOfThisCall, MalformedUntouched
    <3> QED BY <3>2, <3>3
  <2>2. CASE InitializeArguments
    <3>1. /\ pc = "initialize: arguments" /\ call.name = "initialize"
          /\ call.out # "null" /\ out = "null"
      BY <2>2 DEF InitializeArguments, CallInv, PlaceInv
    <3>2. UNCHANGED <<call, out, result>>
      BY <2>2 DEF InitializeArguments, Goto, Return, apiVars
    <3>3. CASE pc' = "initialize: config"
      <4>1. error' = error /\ call.error = "intact"
        BY <2>2, <3>3 DEF InitializeArguments, Goto, Return, apiVars
      <4> QED BY <3>1, <3>2, <3>3, <4>1
           DEF CallInv, PlaceInv, UntouchedInv, OutputsAreOfThisCall, MalformedUntouched
    <3>4. CASE pc' # "initialize: config"
      <4>1. /\ pc' = "returned" /\ returned' # "ok"
            /\ error' # error => call.error = "intact"
        BY <2>2, <3>4 DEF InitializeArguments, Goto, Return
      <4> QED BY <3>1, <3>2, <4>1, ReturnKeepsInv
    <3> QED BY <3>3, <3>4
  <2> QED BY <1>7, <2>1, <2>2
<1>8. CASE LoadConfig \/ InitializeLoaded \/ Enumerate
  <2>1. /\ call.name = "initialize" /\ call.error = "intact" /\ pc # "returned"
        /\ call.out # "null" /\ out = "null"
    BY <1>8 DEF LoadConfig, InitializeLoaded, Enumerate, CallInv, PlaceInv
  <2>2. UNCHANGED <<call, out, result>>
    BY <1>8 DEF LoadConfig, InitializeLoaded, Enumerate, Return, Goto, apiVars, cameraVars
  <2>3. CASE pc' = "returned"
    <3>1. returned' # "ok"
      BY <1>8, <2>3 DEF LoadConfig, InitializeLoaded, Enumerate, Return, Goto
    <3> QED BY <2>1, <2>2, <2>3, <3>1, ReturnKeepsInv
  <2>4. CASE pc' # "returned"
    <3>1. /\ pc' \in {"initialize: recipes", "initialize: enumerate", "initialize: open"}
          /\ error' = error
      BY <1>8, <2>4 DEF LoadConfig, InitializeLoaded, Enumerate, Return, Goto, apiVars, cameraVars
    <3> QED BY <2>1, <2>2, <3>1
         DEF CallInv, PlaceInv, UntouchedInv, OutputsAreOfThisCall, MalformedUntouched
  <2> QED BY <2>3, <2>4
<1>9. CASE EnumerateFails \/ NoSelection \/ OpenFails \/ PublishContext
  <2>1. /\ call.name = "initialize" /\ call.error = "intact" /\ pc # "returned"
        /\ out = "null"
    BY <1>9 DEF EnumerateFails, NoSelection, OpenFails, PublishContext, CallInv, PlaceInv
  <2>2. call' = call /\ result' = result /\ pc' = "returned"
    BY <1>9 DEF EnumerateFails, NoSelection, OpenFails, PublishContext, Return
  <2>3. out' = IF returned' = "ok" THEN "live" ELSE "null"
    BY <1>9, <2>1 DEF EnumerateFails, NoSelection, OpenFails, PublishContext, Return
  <2> QED BY <2>1, <2>2, <2>3, ReturnKeepsInv
<1>10. CASE Contained
  <2>1. call.name \in {"initialize", "reload"} /\ call.error = "intact" /\ pc # "returned"
    BY <1>10 DEF Contained, CallInv, PlaceInv
  <2>2. UNCHANGED <<call, out, result>> /\ pc' = "returned" /\ returned' # "ok"
    BY <1>10 DEF Contained, Return
  <2>3. call.name = "initialize" => out = "null"
    BY <1>10 DEF Contained, CallInv, PlaceInv
  <2> QED BY <2>1, <2>2, <2>3, ReturnKeepsInv
<1>11. CASE ReloadArguments
  <2>1. pc = "reload: arguments" /\ call.name = "reload"
    BY <1>11 DEF ReloadArguments, CallInv, PlaceInv
  <2>2. CASE pc' = "reload: recipes"
    BY <1>11, <2>1, <2>2
       DEF ReloadArguments, Return, apiVars, cameraVars, CallInv, PlaceInv, UntouchedInv,
           OutputsAreOfThisCall, MalformedUntouched
  <2>3. CASE pc' # "reload: recipes"
    <3>1. /\ pc' = "returned" /\ call' = call /\ result' = result
          /\ error' # error => call.error = "intact"
      BY <1>11, <2>3 DEF ReloadArguments, Return
    <3> QED BY <2>1, <3>1, ReturnKeepsInv
  <2> QED BY <2>2, <2>3
<1>12. CASE ReloadLoaded
  <2>1. pc = "reload: recipes" /\ call.name = "reload" /\ call.error = "intact"
    BY <1>12 DEF ReloadLoaded, CallInv, PlaceInv
  <2>2. call' = call /\ result' = result /\ pc' = "returned"
    BY <1>12 DEF ReloadLoaded, Return
  <2> QED BY <2>1, <2>2, ReturnKeepsInv
<1>13. CASE Destroy
  <2>1. pc = "shutdown" /\ call.name = "shutdown"
    BY <1>13 DEF Destroy, CallInv, PlaceInv
  <2>2. call' = call /\ result' = result /\ pc' = "returned" /\ error' = error
    BY <1>13 DEF Destroy, Return
  <2> QED BY <2>1, <2>2, ReturnKeepsInv
<1>14. CASE InspectArguments
  <2>1. pc = "inspect: arguments" /\ call.name = "inspect"
    BY <1>14 DEF InspectArguments, CallInv, PlaceInv
  <2>2. CASE Goto("inspect: runtime") /\ call.shape.memory = "intact"
    BY <2>1, <2>2 DEF Goto, apiVars, cameraVars, CallInv, PlaceInv, UntouchedInv, OutputsAreOfThisCall,
                      MalformedUntouched
  <2>3. CASE \E problem \in {CapacityProblem(call.shape)} :
               problem[1] # "ok" /\ Fail(problem[1], problem[2])
    <3>1. CapacityProblem(call.shape)[1] \in {"ok", "invalid_argument", "buffer_too_small"}
      BY DEF CapacityProblem
    <3> QED BY <2>1, <2>3, <3>1, FailKeepsInv
  <2>4. CASE \E status \in {"invalid_context", "invalid_argument", "abi_mismatch"} :
               Fail(status, "none")
    BY <2>1, <2>4, FailKeepsInv
  <2> QED BY <1>14, <2>2, <2>3, <2>4 DEF InspectArguments
<1>15. CASE InspectionRefused
  <2>1. PICK status \in {"invalid_argument", "timeout", "recipe_not_found"} :
          Outcome(status, "not_evaluated", "cleared", "cleared")
    BY <1>15 DEF InspectionRefused
  <2> QED BY <1>15, <2>1, OutcomeKeepsInv DEF InspectionRefused
<1>16. CASE InspectionFails
  <2>1. PICK status \in {"camera_io", "camera_not_found", "timeout", "invalid_argument",
                         "algorithm_error", "internal_error",
                         "required_artifact_error", "buffer_too_small"},
             path \in {"cleared", "this"} :
          Outcome(status, "not_evaluated", "cleared", path)
    BY <1>16 DEF InspectionFails
  <2> QED BY <1>16, <2>1, OutcomeKeepsInv DEF InspectionFails
<1>17. CASE Inspected
  <2>1. PICK verdict \in {"pass", "fail"}, path \in {"cleared", "this"} :
          Outcome("ok", verdict, "this", path)
    BY <1>17 DEF Inspected
  <2> QED BY <1>17, <2>1, OutcomeKeepsInv DEF Inspected
<1>18. CASE InspectThrows
  <2>1. pc = "inspect: runtime" /\ call.name = "inspect"
    BY <1>18 DEF InspectThrows, CallInv, PlaceInv
  <2> QED BY <1>18, <2>1, FailKeepsInv DEF InspectThrows
<1>19. CASE UNCHANGED vars
  BY <1>19 DEF vars, apiVars, cameraVars, CallInv, PlaceInv, UntouchedInv, OutputsAreOfThisCall,
               MalformedUntouched
<1> QED
  BY <1>1, <1>2, <1>3, <1>4, <1>5, <1>6, <1>7, <1>8, <1>9, <1>10, <1>11, <1>12, <1>13,
     <1>14, <1>15, <1>16, <1>17, <1>18, <1>19 DEF Next

LEMMA CallInvHolds == CallSpec => []CallInv
<1>1. Init => CallInv
  BY DEF Init, CallInv, PlaceInv, UntouchedInv, OutputsAreOfThisCall, MalformedUntouched, NoCall
<1>2. CallInv /\ [Next]_vars => CallInv'
  BY CallInvInductive
<1> QED BY <1>1, <1>2, PTL DEF CallSpec

(* However an inspection ends, the texts, the code, the status and the      *)
(* verdict of an intact result are of this call, with a verdict and         *)
(* measurements only after an OK; after an OK the counters are of this call *)
(* too.  Whatever out_context held, a rejected initialisation leaves NULL.  *)
THEOREM OutputsAreOfThisCallHolds == CallSpec => []OutputsAreOfThisCall
<1>1. CallInv => OutputsAreOfThisCall
  BY DEF CallInv
<1> QED BY <1>1, CallInvHolds, PTL

(* No path of any call writes into a structure whose size or reserved words *)
(* are wrong.                                                               *)
THEOREM MalformedUntouchedHolds == CallSpec => []MalformedUntouched
<1>1. CallInv => MalformedUntouched
  BY DEF CallInv
<1> QED BY <1>1, CallInvHolds, PTL

-------------------------------------------------------------------------------
(* The device behind a symbolic link.                                       *)
DeviceOf(link) ==
  CASE link = "left" -> Device("left", "046D", "046d")
    [] link = "right" -> Device("right", "046d", "046d")
    [] link = "other" -> Device("other", "46", "")
    [] link = "" -> Device("", "046d", "046d")

LEMMA LinkIdentifiesDevice ==
  ASSUME NEW device \in Devices
  PROVE  device = DeviceOf(device.link)
<1>1. CASE device = Device("left", "046D", "046d")
  <2>1. device.link = "left"
    BY <1>1 DEF Device
  <2> QED BY <2>1, <1>1 DEF DeviceOf
<1>2. CASE device = Device("right", "046d", "046d")
  <2>1. device.link = "right"
    BY <1>2 DEF Device
  <2> QED BY <2>1, <1>2 DEF DeviceOf
<1>3. CASE device = Device("other", "46", "")
  <2>1. device.link = "other"
    BY <1>3 DEF Device
  <2> QED BY <2>1, <1>3 DEF DeviceOf
<1>4. CASE device = Device("", "046d", "046d")
  <2>1. device.link = ""
    BY <1>4 DEF Device
  <2> QED BY <2>1, <1>4 DEF DeviceOf
<1> QED BY <1>1, <1>2, <1>3, <1>4 DEF Devices

(* Devices have links of their own, so a descriptor whose path is there     *)
(* selects the descriptor itself.                                           *)
LEMMA PathIdentifiesDevice ==
  ASSUME NEW first \in SUBSET Devices, NEW second \in SUBSET Devices,
         NEW d \in Enumerated(first), NEW e \in Enumerated(second), Matches(e, d)
  PROVE  e = d
<1>1. PICK x \in Devices : d = Descriptor(x) /\ x.link # ""
  BY DEF Enumerated
<1>2. PICK y \in Devices : e = Descriptor(y) /\ y.link # ""
  BY DEF Enumerated
<1>3. x.link = y.link
  BY <1>1, <1>2 DEF Matches, Descriptor
<1>4. x = DeviceOf(x.link) /\ y = DeviceOf(y.link)
  BY LinkIdentifiesDevice
<1> QED BY <1>1, <1>2, <1>3, <1>4

(* What is resolved is the one match, or nothing.                           *)
LEMMA ResolvedIsTheMatch ==
  ASSUME NEW candidates, NEW selector, ResolveIdentity(candidates, selector) # NoDevice
  PROVE  /\ ResolveIdentity(candidates, selector) = {d \in candidates : Matches(d, selector)}
         /\ \E e : {d \in candidates : Matches(d, selector)} = {e}
  BY DEF ResolveIdentity, NoDevice

LEMMA PublishKeepsCamera ==
  ASSUME CameraInv, PublishContext
  PROVE  NoCameraIsGuessed'
<1> DEFINE matching == {d \in enumerated : Matches(d, configured)}
<1>1. PICK attached \in SUBSET Devices, descriptor \in Selected :
        /\ ResolveIdentity(Enumerated(attached), descriptor) # NoDevice
        /\ opened' = ResolveIdentity(Enumerated(attached), descriptor)
        /\ enumerated' = enumerated /\ configured' = configured
  BY DEF PublishContext
<1>2. PICK before_ \in SUBSET Devices : enumerated = Enumerated(before_)
  BY DEF CameraInv, CandidatesInv, PublishContext
<1>3. Selected = matching /\ \E x : matching = {x}
  BY <1>1, ResolvedIsTheMatch DEF Selected, NoDevice
<1>4. matching = {descriptor}
  BY <1>1, <1>3
<1>5. descriptor \in Enumerated(before_)
  BY <1>2, <1>4
<1>6. ResolveIdentity(Enumerated(attached), descriptor) = {descriptor}
  <2>1. ResolveIdentity(Enumerated(attached), descriptor)
          = {e \in Enumerated(attached) : Matches(e, descriptor)}
    BY <1>1, ResolvedIsTheMatch
  <2>2. \A e \in Enumerated(attached) : Matches(e, descriptor) => e = descriptor
    BY <1>5, PathIdentifiesDevice
  <2> QED BY <1>1, <2>1, <2>2 DEF NoDevice
<1> QED BY <1>1, <1>4, <1>6 DEF NoCameraIsGuessed

(* No other step makes an initialize return OK.                             *)
LEMMA CameraInvInductive ==
  ASSUME CallInv, CameraInv, [Next]_vars
  PROVE  CameraInv'
<1> PlaceInv'
  BY CallInvInductive DEF CallInv
<1>1. CandidatesInv'
  <2>1. CASE Enumerate
    BY <2>1 DEF Enumerate, CandidatesInv
  <2>2. CASE ~Enumerate /\ pc' = "initialize: open"
    <3>1. CASE \/ Leave \/ LoadConfig \/ InitializeOut \/ InitializeArguments
               \/ InitializeLoaded \/ ReloadArguments
      BY <2>2, <3>1
         DEF Leave, LoadConfig, InitializeOut, InitializeArguments, InitializeLoaded,
             ReloadArguments, Goto, Return
    <3>5. CASE Initialize \/ Reload \/ Shutdown \/ Inspect
      BY <2>2, <3>5, InitializeBegins, ReloadBegins, ShutdownBegins, InspectBegins
    <3>2. CASE UNCHANGED vars \/ EditFiles \/ LoadRecipes
      BY <2>2, <3>2 DEF EditFiles, LoadRecipes, apiVars, cameraVars, vars, CameraInv, CandidatesInv
    <3>3. CASE \/ EnumerateFails \/ NoSelection \/ OpenFails \/ PublishContext
               \/ Contained \/ ReloadLoaded \/ Destroy
      BY <2>2, <3>3
         DEF EnumerateFails, NoSelection, OpenFails, PublishContext, Contained,
             ReloadLoaded, Destroy, Return
    <3>4. CASE \/ InspectArguments \/ InspectionRefused \/ InspectionFails \/ Inspected
               \/ InspectThrows
      BY <2>2, <3>4
         DEF InspectArguments, InspectionRefused, InspectionFails, Inspected,
             InspectThrows, Fail, Outcome, Goto
    <3> QED BY <2>2, <3>1, <3>2, <3>3, <3>4, <3>5 DEF Next
  <2>3. CASE pc' # "initialize: open"
    BY <2>3 DEF CandidatesInv
  <2> QED BY <2>1, <2>2, <2>3
<1>2. NoCameraIsGuessed'
  <2>1. CASE PublishContext
    BY <2>1, PublishKeepsCamera
  <2>2. CASE UNCHANGED vars \/ EditFiles \/ LoadRecipes
    <3>1. pc' = pc /\ call' = call /\ UNCHANGED cameraVars /\ returned' = returned
      BY <2>2 DEF EditFiles, LoadRecipes, apiVars, cameraVars, vars
    <3> QED BY <3>1 DEF CameraInv, NoCameraIsGuessed, cameraVars
  <2>3. CASE \/ pc' # "returned" \/ call'.name # "initialize"
             \/ returned' # "ok"
    BY <2>3 DEF NoCameraIsGuessed
  <2>4. CASE Leave \/ Initialize \/ Reload \/ Shutdown \/ Inspect \/ Enumerate
    <3>1. CASE Leave \/ Enumerate
      BY <2>3, <3>1 DEF Leave, Enumerate
    <3>2. CASE Initialize \/ Reload \/ Shutdown \/ Inspect
      BY <2>3, <3>2, InitializeBegins, ReloadBegins, ShutdownBegins, InspectBegins
    <3> QED BY <2>4, <3>1, <3>2
  <2>5. CASE \/ InitializeOut \/ InitializeArguments \/ LoadConfig \/ InitializeLoaded
             \/ EnumerateFails \/ NoSelection \/ OpenFails \/ Contained
    <3>1. pc' # "returned" \/ returned' # "ok"
      BY <2>5 DEF InitializeOut, InitializeArguments, LoadConfig, InitializeLoaded, EnumerateFails,
           NoSelection, OpenFails, Contained, Return, Goto
    <3> QED BY <2>3, <3>1
  <2>6. CASE ReloadArguments \/ ReloadLoaded \/ Destroy
    <3>1. call.name # "initialize" /\ call' = call
      BY <2>6 DEF ReloadArguments, ReloadLoaded, Destroy, Return, Goto, apiVars, cameraVars,
           CallInv, PlaceInv
    <3> QED BY <2>3, <3>1
  <2>7. CASE \/ InspectArguments \/ InspectionRefused \/ InspectionFails \/ Inspected
             \/ InspectThrows
    <3>1. call.name # "initialize" /\ call' = call
      BY <2>7 DEF InspectArguments, InspectionRefused, InspectionFails, Inspected,
           InspectThrows, Fail, Outcome, Goto, apiVars, cameraVars, CallInv, PlaceInv
    <3> QED BY <2>3, <3>1
  <2> QED BY <2>1, <2>2, <2>4, <2>5, <2>6, <2>7 DEF Next
<1> QED BY <1>1, <1>2 DEF CameraInv

(* The camera of a context is the only enumerated one that its selector     *)
(* matches, whatever was plugged in or out while it was opened.             *)
THEOREM NoCameraIsGuessedHolds == CallSpec => []NoCameraIsGuessed
<1>1. Init => CallInv /\ CameraInv
  BY DEF Init, CallInv, PlaceInv, UntouchedInv, OutputsAreOfThisCall, MalformedUntouched,
     NoCall, CameraInv, CandidatesInv, NoCameraIsGuessed
<1>2. CallInv /\ CameraInv /\ [Next]_vars => (CallInv /\ CameraInv)'
  BY CallInvInductive, CameraInvInductive
<1>3. CallInv /\ CameraInv => NoCameraIsGuessed
  BY DEF CameraInv
<1> QED BY <1>1, <1>2, <1>3, PTL DEF CallSpec
-------------------------------------------------------------------------------
(* Sums of bytes: MapThenSumSet takes the elements in an order of its own,  *)
(* so every fact below is shown of a smallest set for which it fails.       *)

(* The asset the fold takes first.                                          *)
First(S) == CHOOSE x \in S : TRUE

(* F gives the bytes of the subsets of S, w the files of the assets.        *)
SumsUp(w, F, S) ==
  F = [s \in SUBSET S |-> IF s = {} THEN 0
                          ELSE w[First(s)].bytes + F[s \ {First(s)}]]

ByteSums(w, S) == CHOOSE F : SumsUp(w, F, S)

BytesOf(w, S) == ByteSums(w, S)[S]

(* A family of subsets of a finite set has a smallest member.               *)
LEMMA SmallestSubset ==
  ASSUME NEW S, IsFiniteSet(S), NEW T \in SUBSET SUBSET S, T # {}
  PROVE  \E m \in T : \A s \in SUBSET m : s # m => s \notin T
<1>1. T \subseteq FiniteSubsetsOf(S)
  BY FS_FiniteSubsetsOfFinite
<1>2. PICK m \in T : \A s \in T : <<s, m>> \notin StrictSubsetOrdering(S)
  BY <1>1, FS_StrictSubsetOrderingWellFounded, WFMin
<1>3. ASSUME NEW s \in SUBSET m, s # m, s \in T PROVE FALSE
  BY <1>2, <1>3 DEF StrictSubsetOrdering
<1>4. QED
  BY <1>3

LEMMA SumsAgree ==
  ASSUME NEW w, NEW S, NEW U, IsFiniteSet(U), U \subseteq S,
         NEW F, NEW G, SumsUp(w, F, S), SumsUp(w, G, U)
  PROVE  \A s \in SUBSET U : F[s] = G[s]
<1> DEFINE Bad == {s \in SUBSET U : F[s] # G[s]}
<1>1. SUFFICES ASSUME Bad # {} PROVE FALSE
  OBVIOUS
<1>2. PICK m \in Bad : \A s \in SUBSET m : s # m => s \notin Bad
  <2>1. Bad \in SUBSET SUBSET U
    OBVIOUS
  <2> HIDE DEF Bad
  <2>2. QED
    BY <1>1, <2>1, SmallestSubset
<1>3. /\ F[m] = IF m = {} THEN 0 ELSE w[First(m)].bytes + F[m \ {First(m)}]
      /\ G[m] = IF m = {} THEN 0 ELSE w[First(m)].bytes + G[m \ {First(m)}]
  BY <1>2 DEF SumsUp
<1>4. m # {}
  BY <1>2, <1>3
<1>5. First(m) \in m
  BY <1>4 DEF First
<1>6. F[m \ {First(m)}] = G[m \ {First(m)}]
  BY <1>2, <1>5
<1>7. QED
  BY <1>2, <1>3, <1>6

LEMMA SumsExist ==
  ASSUME NEW w, NEW S, IsFiniteSet(S)
  PROVE  SumsUp(w, ByteSums(w, S), S)
<1> DEFINE Bad == {s \in SUBSET S : ~SumsUp(w, ByteSums(w, s), s)}
<1>1. SUFFICES ASSUME Bad # {} PROVE FALSE
  OBVIOUS
<1>2. PICK m \in Bad : \A s \in SUBSET m : s # m => s \notin Bad
  <2>1. Bad \in SUBSET SUBSET S
    OBVIOUS
  <2> HIDE DEF Bad
  <2>2. QED
    BY <1>1, <2>1, SmallestSubset
<1>3. \A s \in SUBSET m : s # m => SumsUp(w, ByteSums(w, s), s)
  BY <1>2
<1> DEFINE Rest(s) == s \ {First(s)}
           F == [s \in SUBSET m |-> IF s = {} THEN 0
                                    ELSE w[First(s)].bytes + ByteSums(w, Rest(s))[Rest(s)]]
<1>4. ASSUME NEW s \in SUBSET m, s # m PROVE F[s] = ByteSums(w, s)[s]
  <2>1. ByteSums(w, s)[s] = IF s = {} THEN 0 ELSE w[First(s)].bytes + ByteSums(w, s)[Rest(s)]
    BY <1>3, <1>4 DEF SumsUp
  <2>2. ByteSums(w, Rest(s))[Rest(s)] = ByteSums(w, s)[Rest(s)]
    <3>1. Rest(s) \in SUBSET m /\ Rest(s) # m /\ Rest(s) \subseteq s
      BY <1>4
    <3>2. SumsUp(w, ByteSums(w, s), s) /\ SumsUp(w, ByteSums(w, Rest(s)), Rest(s))
      BY <1>3, <1>4, <3>1
    <3>3. IsFiniteSet(Rest(s))
      BY <3>1, <1>2, FS_Subset
    <3>4. QED
      BY <3>1, <3>2, <3>3, SumsAgree
  <2>3. QED
    BY <2>1, <2>2
<1>5. \A s \in SUBSET m : s # {} => Rest(s) \in SUBSET m /\ Rest(s) # m
  BY DEF First
<1>6. SumsUp(w, F, m)
  <2>1. ASSUME NEW s \in SUBSET m, s # {}
        PROVE  ByteSums(w, Rest(s))[Rest(s)] = F[Rest(s)]
    BY <1>4, <1>5, <2>1
  <2>2. F = [s \in SUBSET m |-> IF s = {} THEN 0 ELSE w[First(s)].bytes + F[Rest(s)]]
    BY <2>1
  <2>3. QED
    BY <2>2 DEF SumsUp
<1>7. SumsUp(w, ByteSums(w, m), m)
  BY <1>6 DEF ByteSums
<1>8. QED
  BY <1>2, <1>7

(* The definition of the sum, without the fold.                             *)
LEMMA BytesUnfold ==
  ASSUME NEW w, NEW S, IsFiniteSet(S)
  PROVE  /\ BytesOf(w, {}) = 0
         /\ S # {} => /\ First(S) \in S
                     /\ BytesOf(w, S) = w[First(S)].bytes + BytesOf(w, S \ {First(S)})
<1>1. BytesOf(w, {}) = 0
  <2>1. SumsUp(w, ByteSums(w, {}), {})
    BY FS_EmptySet, SumsExist
  <2>2. QED
    BY <2>1 DEF SumsUp, BytesOf
<1>2. ASSUME S # {}
      PROVE  /\ First(S) \in S
             /\ BytesOf(w, S) = w[First(S)].bytes + BytesOf(w, S \ {First(S)})
  <2>1. First(S) \in S
    BY <1>2 DEF First
  <2> DEFINE R == S \ {First(S)}
  <2>2. IsFiniteSet(R) /\ R \subseteq S
    BY FS_Subset
  <2>3. SumsUp(w, ByteSums(w, S), S) /\ SumsUp(w, ByteSums(w, R), R)
    BY <2>2, SumsExist
  <2>4. ByteSums(w, S)[R] = ByteSums(w, R)[R]
    BY <2>2, <2>3, SumsAgree
  <2>5. ByteSums(w, S)[S] = w[First(S)].bytes + ByteSums(w, S)[R]
    BY <1>2, <2>3 DEF SumsUp
  <2>6. QED
    BY <2>1, <2>4, <2>5 DEF BytesOf
<1>3. QED
  BY <1>1, <1>2

SizesKnown(w, S) == IsFiniteSet(S) /\ \A f \in S : w[f].bytes \in Nat

LEMMA BytesAreNat ==
  ASSUME NEW w, NEW S, SizesKnown(w, S)
  PROVE  BytesOf(w, S) \in Nat
<1> DEFINE Bad == {s \in SUBSET S : BytesOf(w, s) \notin Nat}
<1>1. SUFFICES ASSUME Bad # {} PROVE FALSE
  OBVIOUS
<1>2. PICK m \in Bad : \A s \in SUBSET m : s # m => s \notin Bad
  <2>1. Bad \in SUBSET SUBSET S
    OBVIOUS
  <2> HIDE DEF Bad
  <2>2. QED
    BY <1>1, <2>1, SmallestSubset DEF SizesKnown
<1>3. m \in SUBSET S /\ BytesOf(w, m) \notin Nat /\ IsFiniteSet(m)
  BY <1>2, FS_Subset DEF SizesKnown
<1>4. m # {}
  <2>1. BytesOf(w, {}) = 0
    BY FS_EmptySet, BytesUnfold, Zenon
  <2>2. QED
    BY <1>3, <2>1
<1>5. First(m) \in m /\ BytesOf(w, m) = w[First(m)].bytes + BytesOf(w, m \ {First(m)})
  BY <1>3, <1>4, BytesUnfold
<1>6. BytesOf(w, m \ {First(m)}) \in Nat
  BY <1>2, <1>3, <1>5
<1>7. QED
  BY <1>3, <1>5, <1>6 DEF SizesKnown

(* Any element can be taken first.                                          *)
LEMMA BytesSplit ==
  ASSUME NEW w, NEW S, SizesKnown(w, S)
  PROVE  \A x \in S : BytesOf(w, S) = w[x].bytes + BytesOf(w, S \ {x})
<1> DEFINE Splits(s) == \A x \in s : BytesOf(w, s) = w[x].bytes + BytesOf(w, s \ {x})
           Bad == {s \in SUBSET S : ~Splits(s)}
<1>1. SUFFICES ASSUME Bad # {} PROVE FALSE
  OBVIOUS
<1>2. PICK m \in Bad : \A s \in SUBSET m : s # m => s \notin Bad
  <2>1. Bad \in SUBSET SUBSET S
    OBVIOUS
  <2> HIDE DEF Bad
  <2>2. QED
    BY <1>1, <2>1, SmallestSubset DEF SizesKnown
<1>3. m \in SUBSET S /\ IsFiniteSet(m)
  BY <1>2, FS_Subset DEF SizesKnown
<1>4. PICK x \in m : BytesOf(w, m) # w[x].bytes + BytesOf(w, m \ {x})
  BY <1>2
<1> DEFINE c == First(m)
           R == m \ {x, c}
<1>5. c \in m /\ BytesOf(w, m) = w[c].bytes + BytesOf(w, m \ {c})
  BY <1>3, <1>4, BytesUnfold
<1>6. x # c
  BY <1>4, <1>5
<1>7. Splits(m \ {c}) /\ Splits(m \ {x})
  BY <1>2, <1>3, <1>4, <1>5
<1>8. BytesOf(w, m \ {c}) = w[x].bytes + BytesOf(w, R)
  <2>1. x \in m \ {c} /\ (m \ {c}) \ {x} = R
    BY <1>4, <1>6
  <2>2. QED
    BY <1>7, <2>1
<1>9. BytesOf(w, m \ {x}) = w[c].bytes + BytesOf(w, R)
  <2>1. c \in m \ {x} /\ (m \ {x}) \ {c} = R
    BY <1>5, <1>6
  <2>2. QED
    BY <1>7, <2>1
<1>10. BytesOf(w, R) \in Nat /\ w[x].bytes \in Nat /\ w[c].bytes \in Nat
  <2>1. SizesKnown(w, R)
    BY <1>3, FS_Subset DEF SizesKnown
  <2>2. QED
    BY <1>3, <1>4, <1>5, <2>1, BytesAreNat DEF SizesKnown
<1> HIDE DEF c, R
<1>11. QED
  BY <1>4, <1>5, <1>8, <1>9, <1>10

(* More assets have no fewer bytes.                                        *)
LEMMA BytesGrow ==
  ASSUME NEW w, NEW S, NEW A \in SUBSET S, SizesKnown(w, S)
  PROVE  BytesOf(w, A) <= BytesOf(w, S)
<1> DEFINE Bad == {s \in SUBSET S : A \subseteq s /\ ~(BytesOf(w, A) <= BytesOf(w, s))}
<1>1. SUFFICES ASSUME Bad # {} PROVE FALSE
  OBVIOUS
<1>2. PICK m \in Bad : \A s \in SUBSET m : s # m => s \notin Bad
  <2>1. Bad \in SUBSET SUBSET S
    OBVIOUS
  <2> HIDE DEF Bad
  <2>2. QED
    BY <1>1, <2>1, SmallestSubset DEF SizesKnown
<1>3. /\ A \subseteq m /\ ~(BytesOf(w, A) <= BytesOf(w, m))
      /\ SizesKnown(w, m) /\ SizesKnown(w, A)
  BY <1>2, FS_Subset DEF SizesKnown
<1>4. BytesOf(w, A) \in Nat
  BY <1>3, BytesAreNat
<1>5. PICK x \in m : x \notin A
  BY <1>3, <1>4
<1>6. BytesOf(w, A) <= BytesOf(w, m \ {x})
  BY <1>2, <1>3, <1>5
<1>7. BytesOf(w, m) = w[x].bytes + BytesOf(w, m \ {x})
  BY <1>3, <1>5, BytesSplit
<1>8. BytesOf(w, m \ {x}) \in Nat /\ w[x].bytes \in Nat
  <2>1. SizesKnown(w, m \ {x})
    BY <1>3, FS_Subset DEF SizesKnown
  <2>2. QED
    BY <1>3, <1>5, <2>1, BytesAreNat DEF SizesKnown
<1>9. QED
  BY <1>3, <1>4, <1>6, <1>7, <1>8

-------------------------------------------------------------------------------
(* A load of files that nobody edits, told from what is on disk.            *)

Present(d) == {f \in Files : d.recipe[f].present}

BundleOf(d, S) == {[name |-> a, file |-> d.asset[a]] : a \in S}

EntryOf(d, f) == [id |-> d.recipe[f].id, recipe |-> d.recipe[f],
                  bundle |-> BundleOf(d, d.recipe[f].assets)]

Entries(d, P) == {EntryOf(d, f) : f \in P}

AssetsFit(w, S) ==
  /\ \A a \in S : w[a].present /\ w[a].regular /\ w[a].bytes <= MaxAssetBytes
  /\ BytesOf(w, S) <= MaxTotalBytes

FileSound(d, f) ==
  /\ d.recipe[f].defects = {}
  /\ AssetsFit(d.asset, d.recipe[f].assets)
  /\ Prepares(d.recipe[f], BundleOf(d, d.recipe[f].assets))

AllSound(d, P) ==
  /\ \A f \in P : FileSound(d, f)
  /\ \A f, g \in P : f # g => d.recipe[f].id # d.recipe[g].id

(* What the disk may hold after any edit.                                   *)
DiskInv(d) ==
  /\ d = [directory |-> d.directory, config |-> d.config,
          asset |-> d.asset, recipe |-> d.recipe]
  /\ d.asset = [a \in Assets |-> d.asset[a]]
  /\ d.recipe = [f \in Files |-> d.recipe[f]]
  /\ \A a \in Assets : d.asset[a].present => d.asset[a].bytes \in Nat
  /\ \A f \in Files : d.recipe[f].present => d.recipe[f].assets \subseteq Assets

IsLoader(l) ==
  l = [step |-> l.step, todo |-> l.todo, loaded |-> l.loaded, file |-> l.file,
       recipe |-> l.recipe, left |-> l.left, measured |-> l.measured,
       total |-> l.total, bundle |-> l.bundle, answer |-> l.answer]

(* The files that are done are all that was loaded, and they are sound.     *)
Walked(d, l) ==
  /\ d.directory
  /\ l.todo \subseteq Present(d)
  /\ AllSound(d, Present(d) \ l.todo)
  /\ l.loaded = Entries(d, Present(d) \ l.todo)

(* The recipe at hand is the one on disk, its assets are read so far.       *)
Underway(d, l) ==
  LET done == l.recipe.assets \ l.left
  IN  /\ l.file \in l.todo
      /\ l.recipe = d.recipe[l.file] /\ l.recipe.defects = {}
      /\ \A f \in Present(d) \ l.todo : d.recipe[f].id # l.recipe.id
      /\ l.left \subseteq l.recipe.assets
      /\ l.bundle = BundleOf(d, done)
      /\ l.total = BytesOf(d.asset, done)
      /\ AssetsFit(d.asset, done)

Measured(d, l) ==
  /\ l.left # {}
  /\ l.measured = d.asset[Min(l.left)].bytes
  /\ Readable(d.asset[Min(l.left)], l.total)

Judged(d, l) ==
  /\ l.answer = "sound" <=> d.directory /\ AllSound(d, Present(d))
  /\ l.answer = "sound" => l.loaded = Entries(d, Present(d))

LoadInv(d, l) ==
  /\ IsLoader(l)
  /\ l.step \in {"file", "asset", "bytes", "stopped"}
  /\ l.step \in {"file", "asset", "bytes"} => Walked(d, l)
  /\ l.step \in {"asset", "bytes"} => Underway(d, l)
  /\ l.step = "bytes" => Measured(d, l)
  /\ l.step = "stopped" => Judged(d, l)

(* Where a load runs, and what its answer became.                           *)
AnswerInv ==
  /\ pc \in {"idle", "initialize: out_context", "initialize: arguments", "initialize: config",
             "reload: arguments", "shutdown", "inspect: arguments",
             "inspect: runtime"} => loader.step = "idle"
  /\ pc \in {"initialize: enumerate", "initialize: open"} =>
       loader.step = "stopped" /\ loader.answer = "sound"
  /\ pc \notin {"idle", "returned"} => snapshot = before
  /\ pc = "returned" /\ loader.step # "idle" =>
       /\ returned = "ok" => loader.answer = "sound" /\ snapshot = loader.loaded
       /\ returned # "ok" => snapshot = before

QuietInv ==
  /\ DiskInv(disk)
  /\ quiet /\ loader.step # "idle" => LoadInv(disk, loader)
  /\ AnswerInv

(* The fold of AssetsSound is that sum.                                     *)
LEMMA FoldIsSum ==
  ASSUME NEW S
  PROVE  MapThenSumSet(LAMBDA a : disk.asset[a].bytes, S) = BytesOf(disk.asset, S)
<1>1. MapThenSumSet(LAMBDA a : disk.asset[a].bytes, S) =
        (CHOOSE iter : iter = [s \in SUBSET S |->
           IF s = {} THEN 0 ELSE disk.asset[CHOOSE x \in s : TRUE].bytes
                                   + iter[s \ {CHOOSE x \in s : TRUE}]])[S]
  BY Zenon DEF MapThenSumSet, MapThenFoldSet
<1> QED
  BY <1>1, Zenon DEF BytesOf, ByteSums, SumsUp, First

(* The bytes of one asset more.                                             *)
LEMMA BytesOfOneMore ==
  ASSUME NEW w, NEW S, IsFiniteSet(S), NEW a, a \notin S,
         \A x \in S \cup {a} : w[x].bytes \in Nat
  PROVE  /\ BytesOf(w, S \cup {a}) = BytesOf(w, S) + w[a].bytes
         /\ BytesOf(w, S) \in Nat
<1> DEFINE T == S \cup {a}
<1>1. IsFiniteSet(T)
  BY FS_AddElement
<1>2. SizesKnown(w, T) /\ SizesKnown(w, S)
  BY <1>1 DEF SizesKnown
<1>3. a \in T /\ T \ {a} = S
  OBVIOUS
<1>4. BytesOf(w, T) = w[a].bytes + BytesOf(w, T \ {a})
  <2> HIDE DEF T
  <2> QED BY <1>2, <1>3, BytesSplit
<1>5. BytesOf(w, S) \in Nat
  BY <1>2, BytesAreNat
<1>6. BytesOf(w, T) = w[a].bytes + BytesOf(w, S) /\ w[a].bytes \in Nat
  BY <1>3, <1>4
<1> HIDE DEF T
<1>7. BytesOf(w, T) = BytesOf(w, S) + w[a].bytes
  BY <1>5, <1>6
<1> QED
  BY <1>5, <1>7 DEF T

(* Min is in the set whose minimum it is.                                   *)
LEMMA MinExists ==
  ASSUME NEW S \in SUBSET Nat, S # {}
  PROVE  Min(S) \in S
<1>1. IsWellFoundedOn(OpToRel(<, Nat), Nat)
  BY NatLessThanWellFounded
<1>2. PICK m \in S : \A x \in S : <<x, m>> \notin OpToRel(<, Nat)
  BY <1>1, WFMin
<1>3. \A x \in S : ~(x < m)
  BY <1>2, Zenon DEF OpToRel
<1>4. \A x \in S : m <= x
  BY <1>3
<1> QED
  BY <1>4 DEF Min

-------------------------------------------------------------------------------
(* The files on disk, with and without the loader.                          *)

LEMMA SoundDirectory == DirectorySound <=> disk.directory /\ AllSound(disk, Present(disk))
<1>1. ASSUME NEW f \in Present(disk)
      PROVE  RecipeSound(f) <=>
               /\ FileSound(disk, f)
               /\ \A g \in Present(disk) : g # f => disk.recipe[g].id # disk.recipe[f].id
  <2>1. Bundle(disk.recipe[f]) = BundleOf(disk, disk.recipe[f].assets)
    BY DEF Bundle, BundleOf
  <2>2. AssetsSound(disk.recipe[f]) <=> AssetsFit(disk.asset, disk.recipe[f].assets)
    BY FoldIsSum, Zenon DEF AssetsSound, AssetsFit
  <2> QED
    BY <2>1, <2>2 DEF RecipeSound, FileSound, Present
<1> QED
  BY <1>1 DEF DirectorySound, AllSound, Present

LEMMA LoadedDirectory == RecipesOfDisk = Entries(disk, Present(disk))
  BY DEF RecipesOfDisk, Entries, EntryOf, Present, Bundle, BundleOf

(* What the edits leave of the disk.                                        *)
LEMMA DiskStart == FilesInit => DiskInv(disk)
<1> SUFFICES ASSUME FilesInit PROVE DiskInv(disk)
  OBVIOUS
<1>1. PICK ids \in [Files -> Ids], bad \in SUBSET Files, d \in RecipeDefects :
       disk = [directory |-> TRUE,
               config |-> [defects |-> {}, selector |-> SoundSelector],
               asset |-> [a \in Assets |-> SoundAsset],
               recipe |-> [f \in Files |->
                 IF f \in bad THEN [SoundRecipe(ids[f]) EXCEPT !.defects = {d}]
                 ELSE SoundRecipe(ids[f])]]
  BY DEF FilesInit
<1>2. SoundAsset.bytes \in Nat
  <2>1. Min(Sizes \ {0}) \in Sizes \ {0}
    BY FilesAssumption, MinExists
  <2> QED
    BY <2>1, FilesAssumption DEF SoundAsset
<1>3. \A f \in Files : disk.recipe[f].assets = Assets
  BY <1>1 DEF SoundRecipe
<1> QED
  BY <1>1, <1>2, <1>3 DEF DiskInv

LEMMA EditKeepsDisk ==
  ASSUME DiskInv(disk), Edit
  PROVE  DiskInv(disk') /\ loader' = loader /\ quiet' = FALSE
<1> USE DEF Edited
<1>1. CASE \E f \in Files : EditRecipe(f)
  <2>1. PICK f \in Files, file \in RecipeFiles :
          disk' = [disk EXCEPT !.recipe[f] = file] /\ loader' = loader /\ quiet' = FALSE
    BY <1>1 DEF EditRecipe
  <2>2. file.present => file.assets \subseteq Assets
    <3>1. CASE file = Missing
      BY <3>1 DEF Missing
    <3>2. CASE file # Missing
      <4>1. file \in [present : {TRUE}, defects : Defective(RecipeDefects), id : Ids,
                      assets : SUBSET Assets, decodes : Assets \cup {0}]
        BY <3>2 DEF RecipeFiles
      <4> QED
        BY <4>1
    <3> QED
      BY <3>1, <3>2
  <2> QED
    BY <2>1, <2>2 DEF DiskInv
<1>2. CASE \E a \in Assets : EditAsset(a)
  <2>1. PICK a \in Assets, file \in AssetFiles :
          disk' = [disk EXCEPT !.asset[a] = file] /\ loader' = loader /\ quiet' = FALSE
    BY <1>2 DEF EditAsset
  <2>2. file.present => file.bytes \in Nat
    <3>1. CASE file = Missing
      BY <3>1 DEF Missing
    <3>2. CASE file # Missing
      <4>1. file \in [present : {TRUE}, regular : BOOLEAN, bytes : Sizes,
                      template : BOOLEAN]
        BY <3>2 DEF AssetFiles
      <4> QED
        BY <4>1, FilesAssumption
    <3> QED
      BY <3>1, <3>2
  <2> QED
    BY <2>1, <2>2 DEF DiskInv
<1>3. CASE EditConfig
  BY <1>3 DEF EditConfig, DiskInv
<1>4. CASE EditDirectory
  BY <1>4 DEF EditDirectory, DiskInv, Missing
<1> QED
  BY <1>1, <1>2, <1>3, <1>4 DEF Edit

-------------------------------------------------------------------------------
(* One step of the loader.                                                  *)

LEMMA StoppedAnswer ==
  ASSUME IsLoader(loader), NEW answer, Stop(answer)
  PROVE  IsLoader(loader') /\ loader'.step = "stopped" /\ loader'.answer = answer
         /\ loader'.loaded = loader.loaded
  BY DEF IsLoader, Stop

(* A refusal is just when some recipe is at fault.                          *)
LEMMA RefusalIsJust ==
  ASSUME IsLoader(loader), Stop("refused"), NEW d, ~AllSound(d, Present(d))
  PROVE  LoadInv(d, loader')
  BY StoppedAnswer DEF LoadInv, Judged

LEMMA ListFilesStarts ==
  ASSUME ListFiles
  PROVE  LoadInv(disk, loader') /\ disk' = disk /\ quiet' = TRUE
         /\ loader'.step # "idle"
<1>1. CASE disk.directory
  <2>1. loader' = [NoLoad EXCEPT !.step = "file",
                                 !.todo = {f \in Files : disk.recipe[f].present}]
    BY <1>1 DEF ListFiles
  <2>2. /\ IsLoader(loader') /\ loader'.step = "file" /\ loader'.todo = Present(disk)
        /\ loader'.loaded = {}
    BY <2>1 DEF NoLoad, IsLoader, Present
  <2>3. Walked(disk, loader')
    BY <1>1, <2>2 DEF Walked, AllSound, Entries
  <2> QED
    BY <2>2, <2>3 DEF LoadInv, ListFiles
<1>2. CASE ~disk.directory
  <2>1. loader' = [NoLoad EXCEPT !.step = "stopped", !.answer = "refused"]
    BY <1>2 DEF ListFiles
  <2>2. IsLoader(loader') /\ loader'.step = "stopped" /\ loader'.answer = "refused"
    BY <2>1 DEF NoLoad, IsLoader
  <2> QED
    BY <1>2, <2>2 DEF LoadInv, Judged, ListFiles
<1> QED
  BY <1>1, <1>2

LEMMA ReadFileKeepsLoad ==
  ASSUME DiskInv(disk), LoadInv(disk, loader), ReadFile
  PROVE  LoadInv(disk, loader')
<1> DEFINE f == Min(loader.todo)
           recipe == disk.recipe[f]
<1>1. /\ IsLoader(loader) /\ loader.step = "file" /\ loader.todo # {}
      /\ Walked(disk, loader)
  BY DEF ReadFile, LoadInv
<1>2. f \in loader.todo /\ f \in Present(disk)
  <2>1. loader.todo \in SUBSET Nat
    BY <1>1, FilesAssumption DEF Walked, Present
  <2> QED
    BY <1>1, <2>1, MinExists DEF Walked
<1>3. f \in Files /\ recipe.present
  BY <1>2 DEF Present
<1> HIDE DEF f
<1>4. CASE recipe.defects # {} /\ Stop("refused")
  <2>1. ~AllSound(disk, Present(disk))
    BY <1>2, <1>4 DEF AllSound, FileSound
  <2> QED
    BY <1>1, <1>4, <2>1, RefusalIsJust
<1>5. CASE Known(loader.loaded, recipe.id) /\ Stop("refused")
  <2>1. PICK g \in Present(disk) \ loader.todo : disk.recipe[g].id = recipe.id
    BY <1>1, <1>5 DEF Known, Walked, Entries, EntryOf
  <2>2. ~AllSound(disk, Present(disk))
    BY <1>2, <2>1 DEF AllSound
  <2> QED
    BY <1>1, <1>5, <2>2, RefusalIsJust
<1>6. CASE /\ recipe.defects = {} /\ ~Known(loader.loaded, recipe.id)
           /\ loader' = [loader EXCEPT !.step = "asset", !.file = f,
                           !.recipe = recipe, !.left = recipe.assets,
                           !.total = 0, !.bundle = {}]
  <2>1. /\ IsLoader(loader') /\ loader'.step = "asset" /\ loader'.file = f
        /\ loader'.recipe = recipe /\ loader'.left = recipe.assets
        /\ loader'.total = 0 /\ loader'.bundle = {}
        /\ loader'.todo = loader.todo /\ loader'.loaded = loader.loaded
    BY <1>1, <1>6 DEF IsLoader
  <2>2. Walked(disk, loader')
    BY <1>1, <2>1 DEF Walked
  <2>3. \A g \in Present(disk) \ loader.todo : disk.recipe[g].id # recipe.id
    <3> TAKE g \in Present(disk) \ loader.todo
    <3>1. EntryOf(disk, g) \in loader.loaded
      BY <1>1 DEF Walked, Entries
    <3>2. EntryOf(disk, g).id = disk.recipe[g].id
      BY DEF EntryOf
    <3> QED
      BY <1>6, <3>1, <3>2 DEF Known
  <2>4. BytesOf(disk.asset, {}) = 0
    BY FS_EmptySet, BytesUnfold, Zenon
  <2>5. loader'.recipe.assets \ loader'.left = {}
    BY <2>1
  <2>6. AssetsFit(disk.asset, {}) /\ BundleOf(disk, {}) = {}
    BY <2>4, FilesAssumption DEF AssetsFit, BundleOf
  <2>7. Underway(disk, loader')
    BY <1>2, <1>6, <2>1, <2>3, <2>4, <2>5, <2>6 DEF Underway
  <2> QED
    BY <2>1, <2>2, <2>7 DEF LoadInv
<1> QED
  BY <1>3, <1>4, <1>5, <1>6, Zenon DEF ReadFile, f

LEMMA LeftAsset ==
  ASSUME DiskInv(disk), LoadInv(disk, loader), loader.step \in {"asset", "bytes"}
  PROVE  /\ loader.file \in Present(disk)
         /\ loader.recipe.assets \subseteq Assets
         /\ IsFiniteSet(loader.recipe.assets)
         /\ loader.left # {} => Min(loader.left) \in loader.left
<1>1. Walked(disk, loader) /\ Underway(disk, loader)
  BY DEF LoadInv
<1>2. loader.file \in Present(disk) /\ loader.recipe.assets \subseteq Assets
  BY <1>1 DEF Walked, Underway, Present, DiskInv
<1>3. IsFiniteSet(loader.recipe.assets)
  BY <1>2, FilesAssumption, FS_Subset
<1>4. loader.left \in SUBSET Nat
  BY <1>1, <1>2, FilesAssumption DEF Underway
<1> QED
  BY <1>2, <1>3, <1>4, MinExists

LEMMA MeasureAssetKeepsLoad ==
  ASSUME DiskInv(disk), LoadInv(disk, loader), MeasureAsset
  PROVE  LoadInv(disk, loader')
<1> DEFINE a == Min(loader.left)
           file == disk.asset[a]
           w == disk.asset
           done == loader.recipe.assets \ loader.left
           recipe == loader.recipe
<1>1. /\ IsLoader(loader) /\ loader.step = "asset" /\ loader.left # {}
      /\ Walked(disk, loader) /\ Underway(disk, loader)
  BY DEF MeasureAsset, LoadInv
<1>2. /\ a \in loader.left /\ loader.file \in Present(disk)
      /\ recipe.assets \subseteq Assets /\ IsFiniteSet(recipe.assets)
  BY <1>1, LeftAsset
<1>3. recipe = disk.recipe[loader.file] /\ loader.left \subseteq recipe.assets
      /\ loader.total = BytesOf(w, done)
  BY <1>1 DEF Underway
<1> HIDE DEF a
<1>4. CASE ~Readable(file, loader.total) /\ Stop("refused")
  <2>1. ASSUME AssetsFit(w, recipe.assets) PROVE FALSE
    <3>1. \A x \in recipe.assets : w[x].present /\ w[x].bytes \in Nat
      BY <1>2, <2>1 DEF AssetsFit, DiskInv
    <3>2. file.present /\ file.regular /\ file.bytes <= MaxAssetBytes
      BY <1>2, <1>3, <2>1 DEF AssetsFit
    <3>3. BytesOf(w, done \cup {a}) = loader.total + file.bytes
      <4>1. IsFiniteSet(done) /\ a \notin done
        BY <1>2, FS_Subset
      <4>2. \A x \in done \cup {a} : w[x].bytes \in Nat
        BY <1>2, <1>3, <3>1
      <4> HIDE DEF done, w
      <4>3. BytesOf(w, done \cup {a}) = BytesOf(w, done) + w[a].bytes
        BY <4>1, <4>2, BytesOfOneMore
      <4> QED
        BY <1>3, <4>3 DEF w
    <3>4. BytesOf(w, done \cup {a}) <= BytesOf(w, recipe.assets)
      <4>1. done \cup {a} \in SUBSET recipe.assets
        BY <1>2, <1>3
      <4>2. SizesKnown(w, recipe.assets)
        BY <1>2, <3>1 DEF SizesKnown
      <4> HIDE DEF done, w, recipe
      <4> QED
        BY <4>1, <4>2, BytesGrow
    <3>5. BytesOf(w, recipe.assets) <= MaxTotalBytes
      BY <2>1 DEF AssetsFit
    <3>6. BytesOf(w, recipe.assets) \in Nat /\ BytesOf(w, done \cup {a}) \in Nat
      <4>1. SizesKnown(w, recipe.assets)
        BY <1>2, <3>1 DEF SizesKnown
      <4>2. SizesKnown(w, done \cup {a})
        BY <1>2, <1>3, <4>1, FS_Subset DEF SizesKnown
      <4> QED
        BY <4>1, <4>2, BytesAreNat
    <3> HIDE DEF done, w
    <3>7. loader.total + file.bytes <= MaxTotalBytes
      BY <3>3, <3>4, <3>5, <3>6, FilesAssumption
    <3> QED
      BY <1>4, <3>2, <3>7 DEF Readable
  <2>2. ~AllSound(disk, Present(disk))
    BY <1>2, <1>3, <2>1 DEF AllSound, FileSound
  <2> QED
    BY <1>1, <1>4, <2>2, RefusalIsJust
<1>5. CASE /\ Readable(file, loader.total)
           /\ loader' = [loader EXCEPT !.step = "bytes", !.measured = file.bytes]
  <2>1. /\ IsLoader(loader') /\ loader'.step = "bytes" /\ loader'.measured = file.bytes
        /\ loader'.todo = loader.todo /\ loader'.loaded = loader.loaded
        /\ loader'.file = loader.file /\ loader'.recipe = loader.recipe
        /\ loader'.left = loader.left /\ loader'.total = loader.total
        /\ loader'.bundle = loader.bundle
    BY <1>1, <1>5 DEF IsLoader
  <2>2. Walked(disk, loader')
    BY <1>1, <2>1 DEF Walked
  <2>3. Underway(disk, loader')
    BY <1>1, <2>1 DEF Underway
  <2>4. Measured(disk, loader')
    BY <1>1, <1>5, <2>1 DEF Measured, a
  <2> QED
    BY <2>1, <2>2, <2>3, <2>4 DEF LoadInv
<1> QED
  BY <1>4, <1>5, Zenon DEF MeasureAsset, a

LEMMA ReadAssetKeepsLoad ==
  ASSUME DiskInv(disk), LoadInv(disk, loader), ReadAsset
  PROVE  LoadInv(disk, loader')
<1> DEFINE a == Min(loader.left)
           file == disk.asset[a]
           w == disk.asset
           done == loader.recipe.assets \ loader.left
<1>1. /\ IsLoader(loader) /\ loader.step = "bytes"
      /\ Walked(disk, loader) /\ Underway(disk, loader) /\ Measured(disk, loader)
  BY DEF ReadAsset, LoadInv
<1>2. /\ a \in loader.left /\ loader.recipe.assets \subseteq Assets
      /\ IsFiniteSet(loader.recipe.assets)
  BY <1>1, LeftAsset DEF Measured
<1>3. Readable(file, loader.total) /\ AsMeasured(file, loader.measured)
  BY <1>1 DEF Measured, Readable, AsMeasured
<1>4. loader' = [loader EXCEPT !.step = "asset", !.left = @ \ {a},
                   !.total = @ + file.bytes,
                   !.bundle = @ \cup {[name |-> a, file |-> file]}]
  BY <1>3, Zenon DEF ReadAsset
<1> HIDE DEF a
<1>5. /\ IsLoader(loader') /\ loader'.step = "asset"
      /\ loader'.todo = loader.todo /\ loader'.loaded = loader.loaded
      /\ loader'.file = loader.file /\ loader'.recipe = loader.recipe
      /\ loader'.left = loader.left \ {a} /\ loader'.total = loader.total + file.bytes
      /\ loader'.bundle = loader.bundle \cup {[name |-> a, file |-> file]}
  BY <1>1, <1>4 DEF IsLoader
<1>6. Walked(disk, loader')
  BY <1>1, <1>5 DEF Walked
<1>7. loader'.recipe.assets \ loader'.left = done \cup {a}
  BY <1>1, <1>2, <1>5 DEF Underway
<1>8. /\ loader.bundle = BundleOf(disk, done) /\ loader.total = BytesOf(w, done)
      /\ AssetsFit(w, done)
  BY <1>1 DEF Underway
<1>9. BytesOf(w, done \cup {a}) = loader.total + file.bytes
  <2>1. IsFiniteSet(done) /\ a \notin done
    BY <1>2, FS_Subset
  <2>2. \A x \in done \cup {a} : w[x].bytes \in Nat
    <3>1. \A x \in done \cup {a} : x \in Assets /\ w[x].present
      BY <1>1, <1>2, <1>3, <1>8 DEF AssetsFit, Readable, Underway
    <3> QED
      BY <3>1 DEF DiskInv
  <2> HIDE DEF done, w
  <2>3. BytesOf(w, done \cup {a}) = BytesOf(w, done) + w[a].bytes
    BY <2>1, <2>2, BytesOfOneMore
  <2> QED
    BY <1>8, <2>3 DEF w
<1>10. BundleOf(disk, done \cup {a}) = loader'.bundle
  BY <1>5, <1>8 DEF BundleOf
<1>11. AssetsFit(w, done \cup {a})
  BY <1>3, <1>8, <1>9 DEF AssetsFit, Readable
<1>12. Underway(disk, loader')
  <2> HIDE DEF done, w, file
  <2> QED
    BY <1>1, <1>5, <1>7, <1>9, <1>10, <1>11 DEF Underway, w
<1> QED
  BY <1>5, <1>6, <1>12 DEF LoadInv

LEMMA PrepareKeepsLoad ==
  ASSUME DiskInv(disk), LoadInv(disk, loader), PrepareRecipe
  PROVE  LoadInv(disk, loader')
<1> DEFINE f == loader.file
<1>1. /\ IsLoader(loader) /\ loader.step = "asset" /\ loader.left = {}
      /\ Walked(disk, loader) /\ Underway(disk, loader)
  BY DEF PrepareRecipe, LoadInv
<1>2. /\ f \in Present(disk) /\ f \in loader.todo
      /\ loader.recipe = disk.recipe[f] /\ loader.recipe.defects = {}
      /\ loader.bundle = BundleOf(disk, disk.recipe[f].assets)
      /\ AssetsFit(disk.asset, disk.recipe[f].assets)
      /\ \A g \in Present(disk) \ loader.todo : disk.recipe[g].id # disk.recipe[f].id
  <2>1. loader.recipe.assets \ loader.left = loader.recipe.assets
    BY <1>1
  <2> QED
    BY <1>1, <2>1 DEF Underway, Walked
<1>3. FileSound(disk, f) <=> Prepares(loader.recipe, loader.bundle)
  BY <1>2 DEF FileSound
<1>4. CASE ~Prepares(loader.recipe, loader.bundle) /\ Stop("refused")
  <2>1. ~AllSound(disk, Present(disk))
    BY <1>2, <1>3, <1>4 DEF AllSound
  <2> QED
    BY <1>1, <1>4, <2>1, RefusalIsJust
<1>5. CASE /\ Prepares(loader.recipe, loader.bundle)
           /\ loader' = [loader EXCEPT !.step = "file", !.todo = @ \ {loader.file},
                           !.loaded = @ \cup {[id |-> loader.recipe.id,
                                               recipe |-> loader.recipe,
                                               bundle |-> loader.bundle]}]
  <2>1. /\ IsLoader(loader') /\ loader'.step = "file"
        /\ loader'.todo = loader.todo \ {f}
        /\ loader'.loaded = loader.loaded \cup {[id |-> loader.recipe.id,
                                                 recipe |-> loader.recipe,
                                                 bundle |-> loader.bundle]}
    BY <1>1, <1>5 DEF IsLoader
  <2>2. Present(disk) \ loader'.todo = (Present(disk) \ loader.todo) \cup {f}
    BY <1>2, <2>1
  <2>3. AllSound(disk, (Present(disk) \ loader.todo) \cup {f})
    BY <1>1, <1>2, <1>3, <1>5 DEF Walked, AllSound
  <2>4. loader'.loaded = Entries(disk, (Present(disk) \ loader.todo) \cup {f})
    <3>1. loader.loaded = Entries(disk, Present(disk) \ loader.todo)
      BY <1>1 DEF Walked
    <3>2. [id |-> loader.recipe.id, recipe |-> loader.recipe,
           bundle |-> loader.bundle] = EntryOf(disk, f)
      BY <1>2 DEF EntryOf
    <3> QED
      BY <2>1, <3>1, <3>2 DEF Entries
  <2>5. Walked(disk, loader')
    BY <1>1, <2>1, <2>2, <2>3, <2>4 DEF Walked
  <2> QED
    BY <2>1, <2>5 DEF LoadInv
<1> QED
  BY <1>4, <1>5 DEF PrepareRecipe

LEMMA CompleteKeepsLoad ==
  ASSUME LoadInv(disk, loader), CompleteLoad
  PROVE  LoadInv(disk, loader')
<1>1. /\ IsLoader(loader) /\ Stop("sound") /\ Walked(disk, loader) /\ loader.todo = {}
  BY DEF CompleteLoad, LoadInv
<1>2. /\ IsLoader(loader') /\ loader'.step = "stopped" /\ loader'.answer = "sound"
      /\ loader'.loaded = loader.loaded
  BY <1>1, StoppedAnswer
<1>3. Present(disk) \ loader.todo = Present(disk)
  BY <1>1
<1>4. Judged(disk, loader')
  BY <1>1, <1>2, <1>3 DEF Walked, Judged
<1> QED
  BY <1>2, <1>4 DEF LoadInv

LEMMA LoadStepKeepsLoad ==
  ASSUME DiskInv(disk), LoadInv(disk, loader), LoadStep
  PROVE  LoadInv(disk, loader')
  BY ReadFileKeepsLoad, MeasureAssetKeepsLoad, ReadAssetKeepsLoad, PrepareKeepsLoad,
     CompleteKeepsLoad DEF LoadStep

LEMMA LoadStepFrame ==
  ASSUME LoadStep
  PROVE  UNCHANGED <<disk, edits, quiet>> /\ loader.step # "idle"
  BY DEF LoadStep, ReadFile, MeasureAsset, ReadAsset, PrepareRecipe, CompleteLoad

-------------------------------------------------------------------------------
(* The calls around a load.                                                 *)

(* A step that leaves the files and the loader alone, and moves no further  *)
(* than a load allows.                                                      *)
LEMMA FilesUntouched ==
  ASSUME QuietInv, UNCHANGED filesVars, AnswerInv'
  PROVE  QuietInv'
  BY DEF QuietInv, filesVars

LEMMA EnterKeepsQuiet ==
  ASSUME QuietInv, NEW arguments, NEW next, Enter(arguments, next),
         next \in {"initialize: out_context", "reload: arguments", "shutdown",
                   "inspect: arguments"}
  PROVE  QuietInv'
<1>1. /\ pc' = next /\ loader'.step = "idle" /\ disk' = disk /\ quiet' = quiet
      /\ before' = snapshot /\ snapshot' = snapshot
  BY DEF Enter, NoLoad
<1>2. AnswerInv'
  BY <1>1 DEF AnswerInv
<1> QED
  BY <1>1, <1>2 DEF QuietInv

(* A call that ends without OK leaves the catalog as it was.                *)
LEMMA ReturnKeepsQuiet ==
  ASSUME QuietInv, pc \notin {"idle", "returned"}, UNCHANGED <<filesVars, snapshot, before>>,
         pc' = "returned", returned' # "ok" \/ loader.step = "idle"
  PROVE  QuietInv'
<1>1. snapshot' = before' /\ loader' = loader
  BY DEF QuietInv, AnswerInv, filesVars
<1>2. AnswerInv'
  BY <1>1 DEF AnswerInv
<1> QED
  BY <1>2, FilesUntouched

LEMMA QuietInvInductive ==
  ASSUME QuietInv, [Next]_vars
  PROVE  QuietInv'
<1>1. CASE EditFiles
  <2>1. /\ Edit /\ UNCHANGED <<pc, snapshot, before, returned>>
        /\ pc \in {"idle", "initialize: recipes", "reload: recipes"}
    BY <1>1 DEF EditFiles, apiVars
  <2>2. DiskInv(disk') /\ loader' = loader /\ quiet' = FALSE
    BY <2>1, EditKeepsDisk DEF QuietInv
  <2>3. AnswerInv'
    BY <2>1, <2>2 DEF QuietInv, AnswerInv
  <2> QED
    BY <2>2, <2>3 DEF QuietInv
<1>2. CASE Leave
  <2>1. pc' = "idle" /\ loader'.step = "idle" /\ disk' = disk
    BY <1>2 DEF Leave, NoLoad
  <2>2. AnswerInv'
    BY <2>1 DEF AnswerInv
  <2> QED
    BY <2>1, <2>2 DEF QuietInv
<1>3. CASE Initialize \/ Reload \/ Shutdown \/ Inspect
  BY <1>3, EnterKeepsQuiet DEF Initialize, Reload, Shutdown, Inspect
<1>4. CASE InitializeOut \/ InitializeArguments \/ InitializeLoaded
  <2>1. CASE pc' = "returned"
    <3>1. /\ pc \notin {"idle", "returned"} /\ UNCHANGED <<filesVars, snapshot, before>>
          /\ returned' # "ok"
      BY <1>4, <2>1 DEF InitializeOut, InitializeArguments, InitializeLoaded, Return, Goto
    <3> QED
      BY <2>1, <3>1, ReturnKeepsQuiet
  <2>2. CASE pc' # "returned"
    <3>1. UNCHANGED <<filesVars, snapshot, before, returned>>
      BY <1>4, <2>2 DEF InitializeOut, InitializeArguments, InitializeLoaded, Return, Goto,
                        apiVars
    <3>2. \/ pc = "initialize: out_context" /\ pc' = "initialize: arguments"
          \/ pc = "initialize: arguments" /\ pc' = "initialize: config"
          \/ /\ pc = "initialize: recipes" /\ pc' = "initialize: enumerate"
             /\ loader.step = "stopped" /\ loader.answer = "sound"
      BY <1>4, <2>2 DEF InitializeOut, InitializeArguments, InitializeLoaded, Return, Goto
    <3>3. AnswerInv'
      BY <3>1, <3>2 DEF QuietInv, AnswerInv, filesVars
    <3> QED
      BY <3>1, <3>3, FilesUntouched
  <2> QED
    BY <2>1, <2>2
<1>5. CASE LoadConfig \/ ReloadArguments
  <2>1. CASE pc' = "returned"
    <3>1. /\ pc \notin {"idle", "returned"} /\ UNCHANGED <<filesVars, snapshot, before>>
          /\ returned' # "ok"
      BY <1>5, <2>1 DEF LoadConfig, ReloadArguments, Return
    <3> QED
      BY <2>1, <3>1, ReturnKeepsQuiet
  <2>2. CASE pc' # "returned"
    <3>1. /\ ListFiles /\ pc' \in {"initialize: recipes", "reload: recipes"}
          /\ UNCHANGED <<snapshot, before>> /\ pc \notin {"idle", "returned"}
      BY <1>5, <2>2 DEF LoadConfig, ReloadArguments, Return, apiVars
    <3>2. LoadInv(disk, loader') /\ disk' = disk
      BY <3>1, ListFilesStarts
    <3>3. AnswerInv'
      BY <3>1 DEF QuietInv, AnswerInv
    <3> QED
      BY <3>2, <3>3 DEF QuietInv
  <2> QED
    BY <2>1, <2>2
<1>6. CASE LoadRecipes
  <2>1. /\ LoadStep /\ pc \in {"initialize: recipes", "reload: recipes"}
        /\ UNCHANGED <<pc, snapshot, before, returned>>
    BY <1>6 DEF LoadRecipes, apiVars
  <2>2. disk' = disk /\ quiet' = quiet /\ loader.step # "idle"
    BY <2>1, LoadStepFrame
  <2>3. quiet => LoadInv(disk, loader')
    BY <2>1, <2>2, LoadStepKeepsLoad DEF QuietInv
  <2>4. AnswerInv'
    BY <2>1 DEF QuietInv, AnswerInv
  <2> QED
    BY <2>2, <2>3, <2>4 DEF QuietInv
<1>7. CASE EnumerateFails \/ NoSelection \/ OpenFails \/ Contained
  <2>1. /\ pc \notin {"idle", "returned"} /\ UNCHANGED <<filesVars, snapshot, before>>
        /\ pc' = "returned" /\ returned' # "ok"
    BY <1>7 DEF EnumerateFails, NoSelection, OpenFails, Contained, Return
  <2> QED
    BY <2>1, ReturnKeepsQuiet
<1>8. CASE Enumerate
  <2>1. /\ pc = "initialize: enumerate" /\ pc' = "initialize: open"
        /\ UNCHANGED <<filesVars, snapshot, before, returned>>
    BY <1>8 DEF Enumerate
  <2>2. AnswerInv'
    BY <2>1 DEF QuietInv, AnswerInv, filesVars
  <2> QED
    BY <2>1, <2>2, FilesUntouched
<1>9. CASE PublishContext \/ ReloadLoaded
  <2>1. CASE pc' = "returned" /\ returned' = "ok"
    <3>1. /\ UNCHANGED filesVars /\ snapshot' = loader.loaded
          /\ loader.answer = "sound"
      BY <1>9, <2>1 DEF PublishContext, ReloadLoaded, Return, QuietInv, AnswerInv
    <3>2. AnswerInv'
      BY <2>1, <3>1 DEF AnswerInv, filesVars
    <3> QED
      BY <3>1, <3>2, FilesUntouched
  <2>2. CASE ~(pc' = "returned" /\ returned' = "ok")
    <3>1. /\ pc \notin {"idle", "returned"} /\ UNCHANGED <<filesVars, snapshot, before>>
          /\ pc' = "returned" /\ returned' # "ok"
      BY <1>9, <2>2 DEF PublishContext, ReloadLoaded, Return
    <3> QED
      BY <3>1, ReturnKeepsQuiet
  <2> QED
    BY <2>1, <2>2
<1>10. CASE Destroy
  <2>1. pc = "shutdown" /\ pc' = "returned" /\ UNCHANGED filesVars
    BY <1>10 DEF Destroy, Return
  <2>2. loader' = loader /\ loader.step = "idle"
    BY <2>1 DEF QuietInv, AnswerInv, filesVars
  <2>3. AnswerInv'
    BY <2>1, <2>2 DEF AnswerInv
  <2> QED
    BY <2>1, <2>3, FilesUntouched
<1>11. CASE \/ InspectArguments \/ InspectionRefused \/ InspectionFails \/ Inspected
            \/ InspectThrows
  <2>1. /\ pc \in {"inspect: arguments", "inspect: runtime"}
        /\ pc' \in {"returned", "inspect: runtime"}
        /\ UNCHANGED <<filesVars, snapshot, before>>
    BY <1>11 DEF InspectArguments, InspectionRefused, InspectionFails, Inspected,
                 InspectThrows, Fail, Outcome, Goto, apiVars
  <2>2. loader' = loader /\ loader.step = "idle" /\ snapshot = before
    BY <2>1 DEF QuietInv, AnswerInv, filesVars
  <2>3. AnswerInv'
    BY <2>1, <2>2 DEF AnswerInv
  <2> QED
    BY <2>1, <2>3, FilesUntouched
<1>12. CASE UNCHANGED vars
  <2>1. UNCHANGED <<filesVars, pc, snapshot, before, returned>>
    BY <1>12 DEF vars, apiVars
  <2>2. AnswerInv'
    BY <2>1 DEF QuietInv, AnswerInv, filesVars
  <2> QED
    BY <2>1, <2>2, FilesUntouched
<1> QED
  BY <1>1, <1>2, <1>3, <1>4, <1>5, <1>6, <1>7, <1>8, <1>9, <1>10, <1>11, <1>12 DEF Next

(* A load that nobody disturbs succeeds exactly when every file is sound,   *)
(* publishes all recipes of the directory, or leaves the catalog as it was. *)
THEOREM QuietLoadIsExactHolds == CallSpec => []QuietLoadIsExact
<1>1. Init => QuietInv
  <2> SUFFICES ASSUME Init PROVE QuietInv
    OBVIOUS
  <2>1. DiskInv(disk)
    BY DiskStart DEF Init
  <2>2. loader.step = "idle" /\ pc = "idle"
    BY DEF Init, FilesInit, NoLoad
  <2> QED
    BY <2>1, <2>2 DEF QuietInv, AnswerInv
<1>2. QuietInv /\ [Next]_vars => QuietInv'
  BY QuietInvInductive
<1>3. QuietInv => QuietLoadIsExact
  <2> SUFFICES ASSUME QuietInv, pc = "returned", quiet, loader.step = "stopped"
               PROVE  /\ loader.answer = "sound" <=> DirectorySound
                      /\ snapshot = IF returned = "ok" THEN RecipesOfDisk ELSE before
    BY DEF QuietLoadIsExact
  <2>1. Judged(disk, loader)
    BY DEF QuietInv, LoadInv
  <2> QED
    BY <2>1, SoundDirectory, LoadedDirectory DEF Judged, QuietInv, AnswerInv
<1> QED
  BY <1>1, <1>2, <1>3, PTL DEF CallSpec
===============================================================================
