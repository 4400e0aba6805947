CONSTANTS
    Conn = {c1, c2, c3}
    Host = {h1, h2}
    Key = {k1, k2, k3}
    Opaque = {k3}
    None = None
    Garbled = Garbled
    MaxRekeys = 1
SYMMETRY Symmetric
SPECIFICATION Spec
INVARIANTS TypeOK AcceptedIsPinned NotRefusedInVain
CHECK_DEADLOCK FALSE
