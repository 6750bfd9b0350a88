\* One request at a time: role changes, a bypass user, a killed request, a second run.
SPECIFICATION Spec
CONSTANTS
    u1 = u1  u2 = u2  u3 = u3
    r1 = r1  r2 = r2
    e1 = e1
    p1 = p1  p2 = p2
    User = {u1, u2}
    Role = {r1, r2}
    Entity = {e1}
    Worker = {p1}
    MaxRuns = 2
    Steps <- TiersThenNone
    Initiators <- ByRole2
    Contextual = {r1}
    Bypass = {u1}
    Assignments <- SmallAssignment
    MaxRoleChanges = 1
    MaxCrashes = 1
INVARIANTS TypeOK ApprovedEntityIsBacked
PROPERTIES ImplementsLifecycle
CHECK_DEADLOCK FALSE
