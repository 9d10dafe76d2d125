CONSTANTS
    Study = 1
    ShortBreak = 1
    LongerBreak = 1
    Sessions = 2
    SkipBack = 1
    Second = 1
    WiggleTime = 1
    WakeTime = 1
    SleepAfter = 2
    EffectTime = 3
    BallMin = 5
    BallMax = 5
    BowlOffset = 2
    PostOffset = 3
    SayTime = 2
    GoodbyeTime = 1
    Home = 6
    Corner = 10
    HasCorner = TRUE
    BaseSpeed = 2
    BaseIdle = 1
    SlowestFocus = 1
    BallStop = 2
    RegionSlack = 3
    RegionHalf = 6
    ClickRadius = 9
    Behavior = "cursor_chase"
    ShowNotifications = TRUE
    MaxAge = 2
    MaxCompleted = 2
    CursorPlaces = {2}
    Answers = {TRUE}
    Requests = {"start", "pause", "resume", "skip", "stop"}
    Draws = {}
    Axes = {"horizontal"}
    Line = {}
    Manifests = {}
SPECIFICATION FairSpec
INVARIANTS
    QuietInFocus
PROPERTIES
    SleepsInBasket
    ChasesOutsideFocus
    LastingPhaseAnnounced
