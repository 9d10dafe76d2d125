CONSTANTS
    Study = 1
    ShortBreak = 1
    LongerBreak = 1
    Sessions = 2
    SkipBack = 1
    Second = 1
    WiggleTime = 1
    WakeTime = 1
    SleepAfter = 1
    EffectTime = 5
    BallMin = 6
    BallMax = 6
    BowlOffset = 2
    PostOffset = 3
    SayTime = 1
    GoodbyeTime = 1
    Home = 6
    Corner = 10
    HasCorner = TRUE
    BaseSpeed = 2
    BaseIdle = 1
    SlowestFocus = 1
    BallStop = 3
    RegionSlack = 3
    RegionHalf = 6
    ClickRadius = 9
    Behavior = "cursor_chase"
    ShowNotifications = FALSE
    MaxAge = 1
    MaxCompleted = 1
    CursorPlaces = {2}
    Answers = {TRUE, FALSE}
    Requests = {}
    Draws = {"Food", "Purr"}
    Axes = {"horizontal"}
    Line = {0, 12}
    Manifests = {}
SPECIFICATION Spec
INVARIANTS
    SitsToEat
