SPECIFICATION Spec
CONSTANTS
    a1 = a1
    a2 = a2
    u1 = u1
    u2 = u2
    u3 = u3
    all = all
    some = some
    zero = zero
    Items = 3
    Text = {all, some}
    Empty = all
    Found <- FoundItems
    Window = {p1, p2}
    Main = p1
    Url = {u1, u2, u3}
    UrlOf <- Addresses
    MaxTabs = 2
    MaxClosed = 2
    MaxEvents = 4
    NoUrl = NoUrl
    NoAction = NoAction
    Action = {a1, a2}
    Rankings <- TwoRankings
    Query = {all, some, zero}
    Blank = {all, zero}
    NoQuery = all
    Matching <- FoundActions
    MaxResults = 1
    MaxWaiting = 2
INVARIANTS
    SidebarAgrees
    TabsWellFormed
    ActiveIsOpen
    RefreshKeepsTabs
    ChosenIsExecuted
    PaletteAgrees
CHECK_DEADLOCK FALSE
