CONSTANTS
    Outputs = {"left", "right"}
    Origin <- SideBySide
    Width <- Widths
    Half = 3
    Slack = 1
    Speed = 1
    Desktop <- BothScreens
    Spots = {4, 8}
    Reach = 4
    MaxWire = 3
SPECIFICATION Spec
INVARIANTS
    TypeOK
    ClicksNearCat
    CatTakesClicks
    ClickWhereItWas
    ClickOnCatCounts
