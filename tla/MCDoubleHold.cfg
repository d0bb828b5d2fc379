CONSTANTS
    Procs = {p1, p2}
    Nobody = nobody
    MaxDead = 0
SPECIFICATION MutexSpec
INVARIANTS
    Exclusive
