CONSTANTS
    Task = {t1, t2}
    Name = {n1}
    Sid = {s1}
    Port = {p1}
    None = None
    MaxSent = 1
SPECIFICATION Spec
INVARIANT ClosedIsSilent
