CONSTANTS
    Instance = {i1, i2}
    None = None
SPECIFICATION Spec
INVARIANT ElectsCorrectly
CHECK_DEADLOCK FALSE
