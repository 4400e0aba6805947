CONSTANTS
    Call = {c1, c2}
    Conn = {k1}
    Site = {s1}
    None = None
    Old = Old
SPECIFICATION Spec
INVARIANT BrokenIsTold
CHECK_DEADLOCK FALSE
