CONSTANTS
    None = None
    Failed = Failed
    ToASCII <- MCToASCII
    Stars <- MCStars
    Kinds = {"records", "zones", "audit"}
    Items <- MCItems
    InitialLists <- MCInitialLists
    RuleSets <- MCRuleSets
    Zone = "z1"
    Me = "me"
    MaxPerPage = 2
    UpstreamPerPage = 2
    Pages <- MCPages
    PerPages <- MCPerPages
    MaxChanges = 2
SPECIFICATION Spec
INVARIANTS
    TypeOK
    AnswerIsSound
    QuietWalkIsComplete
    CountsHideTheRest
    AuditWalkSkipsNothing
PROPERTY WalkEnds
CHECK_DEADLOCK FALSE
