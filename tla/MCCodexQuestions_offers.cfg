SPECIFICATION QuestionSpec
CONSTANTS
    c1 = c1
    Questions = {1, 2}
    Requested = {1}
    TextOf <- MCSameText
    OwnItem = {1}
    Clients = {c1}
    MaxEntries = 3
    Ttl = 2
    MaxTime = 2
    MaxTurns = 1
INVARIANTS
    AnsweredOnce
    SentIsTaken
    AnswerableIsOpen
    OpenIsOffered
CHECK_DEADLOCK FALSE
