CONSTANTS
    Instance = {i1, i2, i3}
    None = None
SPECIFICATION FairSpec
INVARIANTS TypeOK ForwardsToOwner OneRegistry OwnerReachable
PROPERTY ElectionEnds
CHECK_DEADLOCK FALSE
