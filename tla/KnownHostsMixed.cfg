CONSTANTS
    Conn = {c1, c2}
    Host = {h1, h2}
    Key = {k1, k2}
    Opaque = {}
    None = None
    Garbled = Garbled
    MaxRekeys = 0
SPECIFICATION Spec
INVARIANT FirstKeyRecorded
CHECK_DEADLOCK FALSE
