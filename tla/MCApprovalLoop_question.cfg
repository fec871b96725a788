SPECIFICATION LoopSafety
CONSTANTS
    ra = ra
    rb = rb
    question = question
    s1 = s1
    bash = bash
    toolEvent = toolEvent
    stopEvent = stopEvent
    Requests = {ra, question}
    Commands = {c1}
    Sessions = {s1}
    Tools = {bash}
    Envelope <- MCEnvelope
    Times <- MCTimes
    Delays = {1}
    None = None
    ByAgent = {}
    CorrelationOf <- MCOwnKey
    Handlers = {h1, h2}
    Events = {}
    EventOf <- MCEventOf
    MaxTime = 2
    MaxRestarts = 0
SYMMETRY Symmetry
INVARIANTS
    AnsweredIsClosed
CHECK_DEADLOCK FALSE
