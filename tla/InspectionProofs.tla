--------------------------- MODULE InspectionProofs ---------------------------
(***************************************************************************)
(* Proofs for Inspection: what prepare establishes is all that inspect     *)
(* relies on, for every width of an int, every bound on a roi and every    *)
(* recipe, template and frame.                                             *)
(***************************************************************************)
EXTENDS Inspection, TLAPS

(* What the prepare step of each algorithm leaves behind. *)
PreparedInv ==
  /\ prepared.algorithm = "template.match"
       => ~prepared.flat /\ Holds(prepared.roi, prepared)
  /\ prepared.algorithm = "example.threshold" => ThresholdParses(prepared)

(* One axis of a window that was tested without an overflow. *)
AxisInside(first, extent, limit) ==
  first + extent <= IntMax => first + extent <= limit

WindowInv ==
  /\ prepared.algorithm = "template.match"
  /\ pc = "judge" \/ outcome \in {"pass", "fail"}
  => /\ AxisInside(prepared.roi.x, prepared.roi.width, frame.cols)
     /\ AxisInside(prepared.roi.y, prepared.roi.height, frame.rows)

InspectionInv == PreparedInv /\ RecipeNeverToBlame /\ WindowInv

-------------------------------------------------------------------------------
(* A test of the window that may succeed says that each axis whose end is   *)
(* an int ends inside the frame.                                            *)
LEMMA TestedWindow ==
  ASSUME WindowMayFit
  PROVE  /\ AxisInside(prepared.roi.x, prepared.roi.width, frame.cols)
         /\ AxisInside(prepared.roi.y, prepared.roi.height, frame.rows)
<1>1. PICK right \in Sums(prepared.roi.x, prepared.roi.width),
           bottom \in Sums(prepared.roi.y, prepared.roi.height) :
             Fits(right, bottom)
  BY DEF WindowMayFit
<1>2. right <= frame.cols /\ bottom <= frame.rows
  BY <1>1 DEF Fits
<1>3. ASSUME prepared.roi.x + prepared.roi.width <= IntMax
      PROVE  prepared.roi.x + prepared.roi.width <= frame.cols
  BY <1>2, <1>3, right \in Sums(prepared.roi.x, prepared.roi.width) DEF Sums
<1>4. ASSUME prepared.roi.y + prepared.roi.height <= IntMax
      PROVE  prepared.roi.y + prepared.roi.height <= frame.rows
  BY <1>2, <1>4, bottom \in Sums(prepared.roi.y, prepared.roi.height) DEF Sums
<1> QED BY <1>3, <1>4 DEF AxisInside

(* prepare refuses every template that inspect could not use.               *)
LEMMA PreparedTemplateIsUsable ==
  ASSUME NEW recipe, TemplatePrepares(recipe)
  PROVE  /\ PreparedTemplate(recipe).algorithm = "template.match"
         /\ ~PreparedTemplate(recipe).flat
         /\ Holds(PreparedTemplate(recipe).roi, PreparedTemplate(recipe))
  BY DEF TemplatePrepares, PreparedTemplate, Holds

(* The parameters that prepare validated are those that inspect parses.     *)
LEMMA ForwardedParametersParse ==
  ASSUME NEW recipe, ThresholdPrepares(recipe)
  PROVE  /\ Forwarding(recipe).algorithm = "example.threshold"
         /\ ThresholdParses(Forwarding(recipe))
  BY DEF ThresholdPrepares, Forwarding, ThresholdParses

(* A step that keeps the prepared object and the frame, and ends with an    *)
(* answer that is no verdict and does not blame the recipe.                 *)
LEMMA HarmlessAnswer ==
  ASSUME InspectionInv, NEW result, Answer(result),
         result \notin {"pass", "fail", "parameters_invalid", "roi_too_small"}
  PROVE  InspectionInv'
  BY DEF InspectionInv, PreparedInv, RecipeNeverToBlame, WindowInv, Answer,
         ThresholdParses, Holds

(* A step to a control point where no score was measured yet. *)
LEMMA HarmlessStep ==
  ASSUME InspectionInv, NEW next, Step(next), next # "judge"
  PROVE  InspectionInv'
  BY DEF InspectionInv, PreparedInv, RecipeNeverToBlame, WindowInv, Step,
         ThresholdParses, Holds

-------------------------------------------------------------------------------
LEMMA InspectionInvInit == Init => InspectionInv
  BY DEF Init, InspectionInv, PreparedInv, RecipeNeverToBlame, WindowInv, NoPrepared

LEMMA InspectionInvNext == InspectionInv /\ [Next]_vars => InspectionInv'
<1> SUFFICES ASSUME InspectionInv, [Next]_vars PROVE InspectionInv'
  OBVIOUS
<1>1. CASE PrepareTemplate
  <2>1. PICK recipe \in TemplateRecipes :
          \/ TemplatePrepares(recipe) /\ Publish(PreparedTemplate(recipe))
          \/ ~TemplatePrepares(recipe) /\ Refuse
    BY <1>1 DEF PrepareTemplate
  <2>2. CASE TemplatePrepares(recipe) /\ Publish(PreparedTemplate(recipe))
    <3>1. prepared' = PreparedTemplate(recipe) /\ outcome' = "none" /\ pc' = "ready"
      BY <2>2 DEF Publish
    <3> QED BY <2>2, <3>1, PreparedTemplateIsUsable
         DEF InspectionInv, PreparedInv, RecipeNeverToBlame, WindowInv, Holds
  <2>3. CASE Refuse
    BY <2>3, <1>1 DEF PrepareTemplate, Refuse, InspectionInv, PreparedInv,
       RecipeNeverToBlame, WindowInv, ThresholdParses, Holds
  <2> QED BY <2>1, <2>2, <2>3
<1>2. CASE PrepareThreshold
  <2>1. PICK recipe \in ThresholdRecipes :
          \/ ThresholdPrepares(recipe) /\ Publish(Forwarding(recipe))
          \/ ~ThresholdPrepares(recipe) /\ Refuse
    BY <1>2 DEF PrepareThreshold
  <2>2. CASE ThresholdPrepares(recipe) /\ Publish(Forwarding(recipe))
    <3>1. prepared' = Forwarding(recipe) /\ outcome' = "none" /\ pc' = "ready"
      BY <2>2 DEF Publish
    <3> QED BY <2>2, <3>1, ForwardedParametersParse
         DEF InspectionInv, PreparedInv, RecipeNeverToBlame, WindowInv, ThresholdParses
  <2>3. CASE Refuse
    BY <2>3, <1>2 DEF PrepareThreshold, Refuse, InspectionInv, PreparedInv,
       RecipeNeverToBlame, WindowInv, ThresholdParses, Holds
  <2> QED BY <2>1, <2>2, <2>3
<1>3. CASE Capture
  BY <1>3 DEF Capture, InspectionInv, PreparedInv, RecipeNeverToBlame, WindowInv,
     ThresholdParses, Holds
<1>4. CASE Expire
  BY <1>4 DEF Expire, InspectionInv, PreparedInv, RecipeNeverToBlame, WindowInv,
     ThresholdParses, Holds
<1>5. CASE Dispatch
  BY <1>5, HarmlessAnswer, HarmlessStep DEF Dispatch
<1>6. CASE Throw
  BY <1>6, HarmlessAnswer DEF Throw
<1>7. CASE CheckTemplate
  <2>1. Holds(prepared.roi, prepared)
    BY <1>7 DEF CheckTemplate, InspectionInv, PreparedInv
  <2> QED BY <1>7, <2>1, HarmlessAnswer, HarmlessStep DEF CheckTemplate
<1>8. CASE Match
  <2>1. CASE Answer("deadline_exceeded") \/ Answer("algorithm_exception")
    BY <2>1, HarmlessAnswer
  <2>2. CASE /\ WindowMayFit
             /\ UNCHANGED <<prepared, frame, input, expired, outcome>>
    BY <2>2, TestedWindow
    DEF InspectionInv, PreparedInv, RecipeNeverToBlame, WindowInv, AxisInside,
        ThresholdParses, Holds
  <2> QED BY <1>8, <2>1, <2>2 DEF Match
<1>9. CASE Judge
  <2>1. CASE Answer("deadline_exceeded")
    BY <2>1, HarmlessAnswer
  <2>2. CASE pc = "judge" /\ (Answer("pass") \/ Answer("fail"))
    BY <2>2 DEF Answer, InspectionInv, PreparedInv, RecipeNeverToBlame, WindowInv,
       AxisInside, ThresholdParses, Holds
  <2> QED BY <1>9, <2>1, <2>2 DEF Judge
<1>10. CASE ApplyThreshold
  <2>1. prepared.algorithm = "example.threshold" /\ ThresholdParses(prepared)
    BY <1>10 DEF ApplyThreshold, InspectionInv, PreparedInv
  <2>2. CASE \/ Answer("deadline_exceeded") \/ Answer("input_invalid")
             \/ Answer("frame_invalid")
    BY <2>2, HarmlessAnswer
  <2>3. CASE Answer("pass") \/ Answer("fail")
    BY <2>1, <2>3 DEF Answer, InspectionInv, PreparedInv, RecipeNeverToBlame,
       WindowInv, ThresholdParses
  <2> QED BY <1>10, <2>1, <2>2, <2>3 DEF ApplyThreshold
<1>11. CASE UNCHANGED vars
  BY <1>11 DEF vars, InspectionInv, PreparedInv, RecipeNeverToBlame, WindowInv,
     AxisInside, ThresholdParses, Holds
<1> QED BY <1>1, <1>2, <1>3, <1>4, <1>5, <1>6, <1>7, <1>8, <1>9, <1>10, <1>11 DEF Next

LEMMA InspectionInvHolds == InspectionSpec => []InspectionInv
  BY InspectionInvInit, InspectionInvNext, PTL DEF InspectionSpec

-------------------------------------------------------------------------------
(* PreparedTemplateMatch and ForwardingPreparedAlgorithm: no inspection of  *)
(* a prepared recipe is turned down for what the recipe says.               *)
THEOREM RecipeNeverToBlameHolds == InspectionSpec => []RecipeNeverToBlame
<1>1. InspectionInv => RecipeNeverToBlame
  BY DEF InspectionInv
<1> QED BY <1>1, InspectionInvHolds, PTL

(* PreparedTemplateMatch::inspect: a verdict is that of a varied template   *)
(* in a window that holds it and that lies, unless an end of it overflows,  *)
(* inside the frame.                                                        *)
THEOREM VerdictOfTheWindowHolds == InspectionSpec => []VerdictOfTheWindow
<1>1. InspectionInv => VerdictOfTheWindow
  BY DEF InspectionInv, PreparedInv, WindowInv, AxisInside, VerdictOfTheWindow
<1> QED BY <1>1, InspectionInvHolds, PTL
===============================================================================
