CONSTANTS
  Files = {1, 2}
  Assets = {1, 2}
  Ids = {"left", "right"}
  RecipeDefects = {"syntax"}
  ConfigDefects = {"retention"}
  Sizes = {0, 2, 3, 4}
  MaxAssetBytes = 3
  MaxTotalBytes = 4
  MaxEdits = 1
SPECIFICATION CallSpec
INVARIANTS OutputsAreOfThisCall MalformedUntouched QuietLoadIsExact NoCameraIsGuessed
