CONSTANTS
  Captures = {1, 2, 3, 4}
  Sizes = {1, 3}
  MaxAged = 2
  MaxTotal = 2
  Trigger = 2
SPECIFICATION SystemSpec
INVARIANT RunEstablishesQuota
PROPERTIES NoNeedlessDeletion QuotaIsRestored MaintenanceStops
CHECK_DEADLOCK FALSE
