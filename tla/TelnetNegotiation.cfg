CONSTANTS
    MaxAsks = 2
    MaxSent = 2
SPECIFICATION FairSpec
INVARIANTS TypeOK DataIntact ViewsAgree
PROPERTY NegotiationSettles
CHECK_DEADLOCK FALSE
