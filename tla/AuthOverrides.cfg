CONSTANTS
    MaxConfig = 2
    MaxIds = 2
    MaxTries = 2
SPECIFICATION Spec
INVARIANT SuppliedOverrides
CHECK_DEADLOCK FALSE
