CONSTANTS
  IntMax = 5
  MaxRoi = 3
  Unit = 2
  JsonInts = {0, 1, 5, 14}
  Extents = {0, 1, 2}
  PixelTypes = {"bgr8", "mono8", "bgra8"}
SPECIFICATION InspectionSpec
INVARIANTS RecipeNeverToBlame VerdictOfTheWindow
