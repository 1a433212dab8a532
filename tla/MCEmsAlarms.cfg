SPECIFICATION Spec
CONSTANTS
    r1 = r1
    r2 = r2
    Names = {r1, r2}
    RuleList <- TwoRules
    Handlers = {h1, h2}
    Feed = Feed
    Other = Other
    Day = 6
    ClockReadings = {0, 5}
    Interval = 2
    FeedTimeout = 1
    MaxAlerts = 6
INVARIANTS
    TypeOK
    ListTellsColor
    NotRaisedAgain
    OthersUntouched
PROPERTIES
    PanelSpec
    SilenceIsShown
