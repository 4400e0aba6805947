CONSTANTS
    Task = {t1, t2}
    Id = {i1}
    Conn = {c1, c2}
    None = None
    MaxProbes = 2
SPECIFICATION FairSpec
INVARIANTS TypeOK OneCallPerConnection
PROPERTIES StepsDoNotOverlap CallsReturn
