SPECIFICATION Spec
CONSTANTS
    Users = {u1, u2}
    Tasks = {t1, t2}
    None = None
    MaxQueueSeq = 25974
    MaxFileLimit = 1
    Lifetime = 1
    MaxDrafts = 2
    MaxFiles = 2
    MaxNow = 0
    MaxRestarts = 0
SYMMETRY Symmetry
INVARIANT OrderNumbersDistinct
