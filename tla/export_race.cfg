\* Two workers and nothing failing: two chunks finish together.
SPECIFICATION Spec
CHECK_DEADLOCK FALSE   \* an export that has ended stays as it is
CONSTANTS
    Worker = {p1, p2}
    MaxFaults = 0
    MaxChunks = 2
    MaxRowChanges = 0
INVARIANTS CompleteArchive
