CONSTANTS
  Threads = {t1, t2}
  MaxContexts = 1
  MaxVersions = 2
SPECIFICATION Spec
PROPERTY ReloadNeverGoesBack
