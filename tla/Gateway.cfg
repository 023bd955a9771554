SPECIFICATION Spec
CONSTANTS
    Threads = {t1, t2}
    NoThread = NoThread
    MaxEdits = 1
    MaxReloads = 2
    MaxCounted = 1
    MaxBatch = 2
INVARIANTS ReloadVisible ClosedWhenUnused CountedOnce
PROPERTIES Progress
