CONSTANTS
    Budget = 1
    HangLimit = 2
    MinPause = 1
    MaxPause = 2
    MaxLines = 3
    MaxFaults = 4
    None = None

SPECIFICATION LiveSpec

INVARIANTS
    TypeOK
    PostsAreCurrent
    OneQuestion
    EventsTellSkips
PROPERTIES
    Heals
