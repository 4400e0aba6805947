CONSTANTS
    Task = {t1, t2, t3}
    Name = {n1, n2}
    Sid = {s1, s2}
    Port = {p1}
    None = None
    MaxSent = 1
SPECIFICATION FairSpec
INVARIANTS TypeOK Ownership CallsNotInterleaved ListIsSnapshot FleetWaits
PROPERTIES ImplementsDirectory CallReturns
