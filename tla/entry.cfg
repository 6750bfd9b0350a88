SPECIFICATION Spec
CONSTANTS
    Page = {p1, p2}
    Steps = 3
    Layouts <- FormsThenReview
    Review <- LastStep
    MaxClicks = 5
    MaxFaults = 1
    Caller = {c1, c2, c3}
    MaxValues = 4
INVARIANTS
    WizardTypeOK
    OneLivePrimary
    CompletionMeansSubmitted
    NoStepSkipped
    WorkflowMatchesRecord
PROPERTIES
    LaterIsLarger
    ClicksAreAnswered
CHECK_DEADLOCK FALSE
