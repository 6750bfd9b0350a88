\* One worker and nothing failing but the rows of a chunk.
SPECIFICATION Spec
CHECK_DEADLOCK FALSE   \* an import that has ended stays as it is
CONSTANTS
    Worker = {p1}
    MaxFaults = 0
    MaxChunks = 2
INVARIANTS CompletedMeansImported
