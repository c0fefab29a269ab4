SPECIFICATION PartSpec
CONSTANTS
    NONE = NONE
    NOTHING = NOTHING
    FILE = FILE
    Clients = {1, 2}
    MaxRequests = 2
    MaxNews = 2
    EventCap = 1
    Ring = 1
    OutCap = 1
    MaxStarts = 4
    OneAtATime = TRUE
    MayGoDeaf = {4}
INVARIANTS AnswersItsOwn Reachable
PROPERTIES EveryRequestIsAnswered SubscribersCatchUp
CHECK_DEADLOCK FALSE
