CONSTANTS
    Instance = {i1, i2, i3}
    None = None
SPECIFICATION Spec
INVARIANT PipeElectsCorrectly
CHECK_DEADLOCK FALSE
