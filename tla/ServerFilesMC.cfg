CONSTANTS
    Call = {c1, c2}
    Conn = {k1, k2}
    Site = {s1, s2}
    None = None
    Old = Old
SPECIFICATION Spec
SYMMETRY Symmetry
INVARIANTS TypeOK EntriesKept BrokenIsAccounted
PROPERTY OkMeansDone
CHECK_DEADLOCK FALSE
