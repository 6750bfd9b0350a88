\* Two workers, one kill, exception or overrun.
SPECIFICATION FairSpec
CHECK_DEADLOCK FALSE   \* an import that has ended stays as it is
CONSTANTS
    Worker = {p1, p2}
    MaxFaults = 1
    MaxChunks = 3
INVARIANTS TypeOK DoneMeansAllChunksDone
PROPERTIES OutcomeStands Settles
