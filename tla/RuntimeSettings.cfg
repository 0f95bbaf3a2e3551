CONSTANTS
  Threads = {t1, t2}
  MaxContexts = 1
  MaxVersions = 1
SPECIFICATION Spec
INVARIANT FramesUseRecipeSettings
