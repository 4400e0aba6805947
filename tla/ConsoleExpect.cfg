CONSTANTS
    MaxPages = 1
    Cap = 2
    Looks = {}
    MaxText = 1
    MaxCalls = 2
SPECIFICATION Spec
INVARIANT ExpectAnswers
CHECK_DEADLOCK FALSE
