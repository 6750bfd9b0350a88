\* Two workers, one kill, exception or overrun, the table changing once.
SPECIFICATION FairSpec
CHECK_DEADLOCK FALSE   \* an export that has ended stays as it is
CONSTANTS
    Worker = {p1, p2}
    MaxFaults = 1
    MaxChunks = 3
    MaxRowChanges = 1
INVARIANTS TypeOK FinalizingHasAllParts SoleFinalizerCompletes
PROPERTIES NeverRestarts Settles
