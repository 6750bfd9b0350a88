\* Two requests at a time on the workflows of one entity, static roles.
SPECIFICATION Spec
CONSTANTS
    u1 = u1  u2 = u2  u3 = u3
    r1 = r1  r2 = r2
    e1 = e1
    p1 = p1  p2 = p2
    User = {u1, u2, u3}
    Role = {r1, r2}
    Entity = {e1}
    Worker = {p1, p2}
    MaxRuns = 1
    Steps <- ThreeTiers
    Initiators <- NoInitiators
    Contextual = {}
    Bypass = {}
    Assignments <- TwoAuthorizers
    MaxRoleChanges = 0
    MaxCrashes = 0
INVARIANTS TiersInOrder EveryDecisionLogged AllModeComplete LastApprovalCloses
CHECK_DEADLOCK FALSE
