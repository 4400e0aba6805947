CONSTANTS
    MaxPages = 1
    Cap = 2
    Looks = {"prompt"}
    MaxText = 1
    MaxCalls = 2
SPECIFICATION FairSpec
INVARIANTS
    TypeOK
    InStep
    OutputIsAnswer
    RepliesFit
    BatchAccounted
    RejectionsSeen
PROPERTY CallsEnd
CHECK_DEADLOCK FALSE
