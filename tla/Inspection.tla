------------------------------ MODULE Inspection ------------------------------
(***************************************************************************)
(* What the runtime does with a frame: the compiled algorithms, their      *)
(* prepare step at the load of a recipe and their dispatch at an           *)
(* inspection (template_match.cpp, example_threshold.cpp, algorithm.cpp    *)
(* and registry.cpp).                                                      *)
(*                                                                         *)
(* A recipe is what its file says: the numbers of its roi are JSON         *)
(* integers, which value.get<int>() narrows to a C++ int.  Pixels are left *)
(* out: a template is its size and whether its pixels vary, a match is the *)
(* score that cv::matchTemplate may report for it.                         *)
(***************************************************************************)
EXTENDS Integers

CONSTANTS
  IntMax,       \* the largest int; an int has 2 * (IntMax + 1) values
  MaxRoi,       \* k_max_roi_extent
  Unit,         \* a score or a ratio of 1.0
  JsonInts,     \* magnitudes of the integers a roi may hold
  Extents,      \* widths and heights of frames and templates
  PixelTypes    \* "bgr8", "mono8", or a type no algorithm takes

ASSUME InspectionAssumption ==
  /\ IntMax \in Nat /\ MaxRoi \in Nat /\ Unit \in Nat \ {0}
  /\ MaxRoi <= IntMax
  /\ JsonInts \subseteq Nat /\ Extents \subseteq 0 .. IntMax

VARIABLES
  pc,        \* where the load or the inspection is
  prepared,  \* the IPreparedAlgorithm of the published recipe
  frame,     \* the captured frame
  input,     \* the input_json of the request
  expired,   \* the deadline of the inspection has passed
  score,     \* what the match reported
  outcome    \* a verdict, or the error code of the failure

vars == <<pc, prepared, frame, input, expired, score, outcome>>

Modulus == 2 * (IntMax + 1)

(* static_cast<int> of a JSON integer. *)
Narrow(n) == ((n + IntMax + 1) % Modulus) - (IntMax + 1)

Entries == JsonInts \cup {-n : n \in JsonInts}
Rois == [x : Entries, y : Entries, width : Entries, height : Entries]

(* A template file that imdecode refuses, or an image; "flat" has no variance. *)
NoImage == [decodes |-> FALSE, cols |-> 0, rows |-> 0, flat |-> FALSE]
Images == {NoImage} \cup
  [decodes : {TRUE}, cols : Extents \ {0}, rows : Extents \ {0}, flat : BOOLEAN]

(* All keys known and present, and of the right JSON types, or not. *)
TemplateRecipes ==
  [algorithm : {"template.match"}, keysSound : BOOLEAN, roi : Rois,
   threshold : -1 .. Unit + 1, declared : BOOLEAN, image : Images]

ThresholdRecipes ==
  [algorithm : {"example.threshold"}, keysSound : BOOLEAN,
   threshold : {-1, 0, 255, 256}, ratio : -1 .. Unit + 1, assets : BOOLEAN]

Inputs == {"absent", "plain", "inverted", "unknown"}
Frames == [cols : Extents, rows : Extents, type : PixelTypes]

NoPrepared == [algorithm |-> "none"]
NoFrame == [cols |-> 0, rows |-> 0, type |-> "bgr8"]

-------------------------------------------------------------------------------
(* prepare *)

Parsed(roi) == [x |-> Narrow(roi.x), y |-> Narrow(roi.y),
                width |-> Narrow(roi.width), height |-> Narrow(roi.height)]

(* parse_parameters of template.match accepts. *)
TemplateParses(recipe) ==
  LET roi == Parsed(recipe.roi)
  IN  /\ recipe.keysSound
      /\ recipe.threshold \in 0 .. Unit
      /\ 0 <= roi.x /\ 0 <= roi.y
      /\ roi.width \in 1 .. MaxRoi /\ roi.height \in 1 .. MaxRoi

Holds(roi, image) == image.cols <= roi.width /\ image.rows <= roi.height

(* Mutant: a template of one grey value is accepted. *)
TemplatePreparesFlat(recipe) ==
  /\ TemplateParses(recipe)
  /\ recipe.declared
  /\ recipe.image.decodes
  /\ Holds(Parsed(recipe.roi), recipe.image)

(* Mutant: a template may exceed the roi in one direction. *)
TemplatePreparesOneWay(recipe) ==
  /\ TemplateParses(recipe)
  /\ recipe.declared
  /\ recipe.image.decodes
  /\ \/ recipe.image.cols <= Narrow(recipe.roi.width)
     \/ recipe.image.rows <= Narrow(recipe.roi.height)
  /\ ~recipe.image.flat

TemplatePrepares(recipe) ==
  /\ TemplateParses(recipe)
  /\ recipe.declared
  /\ recipe.image.decodes
  /\ Holds(Parsed(recipe.roi), recipe.image)
  /\ ~recipe.image.flat

PreparedTemplate(recipe) ==
  [algorithm |-> "template.match", roi |-> Parsed(recipe.roi),
   threshold |-> recipe.threshold, cols |-> recipe.image.cols,
   rows |-> recipe.image.rows, flat |-> recipe.image.flat]

ThresholdParses(parameters) ==
  /\ parameters.keysSound
  /\ parameters.threshold \in 0 .. 255
  /\ parameters.ratio \in 0 .. Unit

(* IInspectionAlgorithm::prepare: parameters are kept in the recipe. *)
ThresholdPrepares(recipe) == ThresholdParses(recipe) /\ ~recipe.assets

Forwarding(recipe) ==
  [algorithm |-> "example.threshold", keysSound |-> recipe.keysSound,
   threshold |-> recipe.threshold, ratio |-> recipe.ratio]

-------------------------------------------------------------------------------
(* inspect of a prepared template.match *)

(* An int addition that overflows is undefined: it wraps, or is done wide. *)
Sums(a, b) == IF a + b <= IntMax THEN {a + b} ELSE {a + b, a + b - Modulus}

Fits(right, bottom) == right <= frame.cols /\ bottom <= frame.rows

(* The test of the window against the frame may succeed; it may fail. *)
WindowMayFit ==
  \E right \in Sums(prepared.roi.x, prepared.roi.width),
     bottom \in Sums(prepared.roi.y, prepared.roi.height) : Fits(right, bottom)

WindowMayMiss ==
  \E right \in Sums(prepared.roi.x, prepared.roi.width),
     bottom \in Sums(prepared.roi.y, prepared.roi.height) : ~Fits(right, bottom)

(* external: matchTemplate with TM_CCOEFF_NORMED finds a template without   *)
(* variance everywhere; 0 is also the score that is not finite.             *)
Scores == IF prepared.flat THEN {Unit} ELSE -Unit .. Unit

-------------------------------------------------------------------------------
Init ==
  /\ pc = "load" /\ prepared = NoPrepared /\ frame = NoFrame
  /\ input = "absent" /\ expired = FALSE /\ score = 0 /\ outcome = "none"

Publish(p) ==
  /\ prepared' = p /\ pc' = "ready" /\ outcome' = "none"
  /\ UNCHANGED <<frame, input, expired, score>>

Refuse ==
  /\ outcome' = "refused"
  /\ UNCHANGED <<pc, prepared, frame, input, expired, score>>

PrepareTemplate ==
  /\ pc = "load"
  /\ \E recipe \in TemplateRecipes :
       \/ TemplatePrepares(recipe) /\ Publish(PreparedTemplate(recipe))
       \/ ~TemplatePrepares(recipe) /\ Refuse

PrepareThreshold ==
  /\ pc = "load"
  /\ \E recipe \in ThresholdRecipes :
       \/ ThresholdPrepares(recipe) /\ Publish(Forwarding(recipe))
       \/ ~ThresholdPrepares(recipe) /\ Refuse

(* The runtime has a frame and calls dispatch. *)
Capture ==
  /\ pc = "ready"
  /\ frame' \in Frames /\ input' \in Inputs /\ expired' \in BOOLEAN
  /\ pc' = "dispatch" /\ outcome' = "none" /\ score' = 0
  /\ UNCHANGED prepared

Expire ==
  /\ pc \notin {"load", "ready"} /\ ~expired
  /\ expired' = TRUE
  /\ UNCHANGED <<pc, prepared, frame, input, score, outcome>>

Step(next) ==
  /\ pc' = next
  /\ UNCHANGED <<prepared, frame, input, expired, score, outcome>>

Answer(result) ==
  /\ outcome' = result /\ pc' = "ready"
  /\ UNCHANGED <<prepared, frame, input, expired, score>>

Empty == frame.cols = 0 \/ frame.rows = 0

Dispatch ==
  /\ pc = "dispatch"
  /\ \/ expired /\ Answer("deadline_exceeded")
     \/ ~expired /\ Empty /\ Answer("frame_invalid")
     \/ ~expired /\ ~Empty /\ Step("inspect")

(* OpenCV or an allocation throws, dispatch contains it. *)
Throw ==
  /\ pc \in {"inspect", "match", "judge"}
  /\ Answer("algorithm_exception")

Greyable == frame.type \in {"bgr8", "mono8"}

(* PreparedTemplateMatch::inspect up to the second look at the deadline. *)
CheckTemplate ==
  /\ pc = "inspect" /\ prepared.algorithm = "template.match"
  /\ \/ expired /\ Answer("deadline_exceeded")
     \/ ~expired /\ ~Greyable /\ Answer("frame_invalid")
     \/ /\ ~expired /\ Greyable
        /\ \/ WindowMayMiss /\ Answer("frame_invalid")
           \/ /\ WindowMayFit
              /\ \/ ~Holds(prepared.roi, prepared) /\ Answer("roi_too_small")
                 \/ Holds(prepared.roi, prepared) /\ Step("match")

(* gray(roi) repeats the test of the window with the same arithmetic. *)
Match ==
  /\ pc = "match"
  /\ \/ expired /\ Answer("deadline_exceeded")
     \/ ~expired /\ WindowMayMiss /\ Answer("algorithm_exception")
     \/ /\ ~expired /\ WindowMayFit
        /\ score' \in Scores /\ pc' = "judge"
        /\ UNCHANGED <<prepared, frame, input, expired, outcome>>

Judge ==
  /\ pc = "judge"
  /\ \/ expired /\ Answer("deadline_exceeded")
     \/ ~expired /\ score >= prepared.threshold /\ Answer("pass")
     \/ ~expired /\ score < prepared.threshold /\ Answer("fail")

(* Pixels above the threshold, and after an inversion. *)
White(above) == IF input = "inverted" THEN frame.cols * frame.rows - above ELSE above

ApplyThreshold ==
  /\ pc = "inspect" /\ prepared.algorithm = "example.threshold"
  /\ \/ expired /\ Answer("deadline_exceeded")
     \/ ~expired /\ ~ThresholdParses(prepared) /\ Answer("parameters_invalid")
     \/ /\ ~expired /\ ThresholdParses(prepared)
        /\ \/ input = "unknown" /\ Answer("input_invalid")
           \/ input # "unknown" /\ ~Greyable /\ Answer("frame_invalid")
           \/ /\ input # "unknown" /\ Greyable
              /\ \E above \in 0 .. frame.cols * frame.rows :
                   \/ /\ White(above) * Unit
                            >= prepared.ratio * frame.cols * frame.rows
                      /\ Answer("pass")
                   \/ /\ White(above) * Unit
                            < prepared.ratio * frame.cols * frame.rows
                      /\ Answer("fail")

Next ==
  \/ PrepareTemplate \/ PrepareThreshold
  \/ Capture \/ Expire
  \/ Dispatch \/ Throw \/ CheckTemplate \/ Match \/ Judge \/ ApplyThreshold

InspectionSpec == Init /\ [][Next]_vars

-------------------------------------------------------------------------------
(* Once a recipe was prepared, no inspection fails for a reason that lies   *)
(* in the recipe: what prepare accepted, inspect never turns down, whatever *)
(* the frame, the input and the time of the deadline.                       *)
RecipeNeverToBlame == outcome \notin {"parameters_invalid", "roi_too_small"}

(* A verdict of template.match comes from a template with variance, that    *)
(* fits in its window, and the window lies inside the frame whenever its    *)
(* right and bottom ends are ints.                                          *)
VerdictOfTheWindow ==
  /\ prepared.algorithm = "template.match"
  /\ pc = "judge" \/ outcome \in {"pass", "fail"}
  => /\ ~prepared.flat
     /\ Holds(prepared.roi, prepared)
     /\ prepared.roi.x + prepared.roi.width <= IntMax
          => prepared.roi.x + prepared.roi.width <= frame.cols
     /\ prepared.roi.y + prepared.roi.height <= IntMax
          => prepared.roi.y + prepared.roi.height <= frame.rows

(* docs/development.md:451-452: int ROI arithmetic can overflow, "so        *)
(* bounds-check as the reference algorithm does": the window of a verdict   *)
(* lies inside the captured frame.                                          *)
RoiInsideFrame ==
  pc = "judge" => Fits(prepared.roi.x + prepared.roi.width,
                       prepared.roi.y + prepared.roi.height)
===============================================================================
