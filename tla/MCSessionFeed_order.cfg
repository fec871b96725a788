SPECIFICATION FeedSpec
CONSTANTS
    MaxEvents = 5
    Ids = {1,2,3,4,5}
    TurnIds = {0,1,2}
    MaxFlying = 2
    MaxStops = 0
    MaxFiles = 2
    TimeOf <- Times
    NoEvent = NoEvent
INVARIANTS FeedTypeOK IntervalFitsState OneTurnOpen SheetIsOpen  
PROPERTY NewerEvidenceWins
CHECK_DEADLOCK FALSE
