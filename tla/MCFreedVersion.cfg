SPECIFICATION RSpec
CONSTANTS
    Candidates = {w1, w2}
    MaxVersion = 3
    MaxAllocations = 4
    MaxDirectCommits = 0
    MaxReleaseDeaths = 0
INVARIANT AllocationIsFresh
CHECK_DEADLOCK FALSE
