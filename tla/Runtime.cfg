CONSTANTS
  Threads = {t1, t2}
  MaxContexts = 2
  MaxVersions = 2
SPECIFICATION Spec
INVARIANTS OneCameraSession ExclusiveCycle OneSnapshotPerInspection
PROPERTY CallsReturn
