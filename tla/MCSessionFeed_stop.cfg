SPECIFICATION FeedSpec
CONSTANTS
    MaxEvents = 6
    Ids = {1,2,3,4,5,6}
    TurnIds = {0,1}
    MaxFlying = 1
    MaxStops = 0
    MaxFiles = 1
    TimeOf <- Times
    NoEvent = NoEvent
INVARIANT StopIsShown
CHECK_DEADLOCK FALSE
