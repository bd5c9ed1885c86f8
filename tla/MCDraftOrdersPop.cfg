SPECIFICATION Spec
CONSTANTS
    Users = {u1}
    Tasks = {t1}
    None = None
    MaxQueueSeq = 2
    MaxFileLimit = 2
    Lifetime = 1
    MaxDrafts = 1
    MaxFiles = 2
    MaxNow = 0
    MaxRestarts = 0
INVARIANT InfalliblePop
