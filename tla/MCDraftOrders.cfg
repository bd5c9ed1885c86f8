SPECIFICATION Spec
CONSTANTS
    Users = {u1, u2}
    Tasks = {t1, t2}
    None = None
    MaxQueueSeq = 1
    MaxFileLimit = 2
    Lifetime = 1
    MaxDrafts = 2
    MaxFiles = 2
    MaxNow = 0
    MaxRestarts = 1
SYMMETRY Symmetry
INVARIANTS TypeOK LocksHeldByTasks NoFileShared BuildPlacesNamed
PROPERTIES ImplementsBook NoEditWhileHeld
