CONSTANTS
    MaxConfig = 2
    MaxIds = 2
    MaxTries = 2
SPECIFICATION Spec
INVARIANTS TypeOK SuppliedOffered ErrorAccounts
CHECK_DEADLOCK FALSE
