SPECIFICATION Spec
CONSTANTS
    First = i1
    Offered = s1
    Role = {s1, s2}
    Offer <- FirstOffersRole
    DefaultRole = s2
    None = none
    Lists <- AllOrNobody
    Invitation = {i1, i2}
    Email = {e1}
    Company = {i1, i2}
    To <- OneEmail
    For <- OwnCompany
    Sent <- NoneOrFirst
    Web = {w1, w2}
    Cron = cron
    Lifetime = 1
    Window = 1
    MaxTime = 3
    MaxRequests = 2
    MaxFaults = 1
    Report = {r1}
    Recipient = {d1, d2}
    Repeating = {r1}
    Day = 3
    Hour = 1
    QueueWorker = {q1}
    MaxJobs = 2
    MaxDeaths = 1
INVARIANTS
    InvitationTypeOK
    AcceptedHasAccess
    AccessIsTraceable
    PendingWasMailed
    RemindedOnce
    ReportTypeOK
    ToldOnce
PROPERTIES
    ClosedStaysClosed
    OverdueIsClosed
    RunMeansAllTold
    DueReportsAreSettled
CHECK_DEADLOCK FALSE
