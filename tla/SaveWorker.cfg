CONSTANTS
  MaxJobs = 4
  RemoveMayFail = TRUE
SPECIFICATION Spec
INVARIANTS PublicationAgreement NoOrphanTemporary NoStrandedJob NoStaleCancellation
PROPERTIES ImplementsArtifactSave WaitReturns DrainReturns
