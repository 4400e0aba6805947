CONSTANTS
    Conn = {c1, c2}
    Host = {h1}
    Key = {k1, k2}
    Opaque = {}
    None = None
    Garbled = Garbled
    MaxRekeys = 1
SPECIFICATION Spec
INVARIANT MismatchRefused
CHECK_DEADLOCK FALSE
