SPECIFICATION FairFeedSpec
CONSTANTS
    MaxEvents = 4
    Ids = {1,2,3,4}
    TurnIds = {0,1}
    MaxFlying = 2
    MaxStops = 1
    MaxFiles = 2
    TimeOf <- Times
    NoEvent = NoEvent
INVARIANTS EventsAreKept 
PROPERTIES StartupEnds GoneIsNoticed
CHECK_DEADLOCK FALSE
