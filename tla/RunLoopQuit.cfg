CONSTANTS
    Clients = {c1, c2}
    Requests = {"pet:quit", "pomodoro:skip"}
    Backlog = 2
    PollHz = 30
SPECIFICATION FairSpec
PROPERTIES
    QuitExits
CHECK_DEADLOCK FALSE
