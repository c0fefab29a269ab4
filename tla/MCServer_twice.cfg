SPECIFICATION TwiceSpec
CONSTANTS
    NONE = NONE
    NOTHING = NOTHING
    FILE = FILE
    Clients = {1, 2}
    MaxRequests = 2
    MaxNews = 2
    EventCap = 1
    Ring = 1
    OutCap = 1
    MaxStarts = 2
    OneAtATime = TRUE
    MayGoDeaf = {1}
PROPERTIES RemovesOnlyItsOwn
CHECK_DEADLOCK FALSE
