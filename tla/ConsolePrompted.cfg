CONSTANTS
    MaxPages = 1
    Cap = 2
    Looks = {"prompt"}
    MaxText = 1
    MaxCalls = 2
SPECIFICATION Spec
INVARIANT PromptedIsWhole
CHECK_DEADLOCK FALSE
