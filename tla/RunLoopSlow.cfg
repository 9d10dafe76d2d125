CONSTANTS
    Clients = {c1}
    Requests = {"pet:quit", "pomodoro:skip"}
    Backlog = 2
    PollHz = 1
SPECIFICATION FairSpec
PROPERTIES
    TicksAtPollHz
CHECK_DEADLOCK FALSE
