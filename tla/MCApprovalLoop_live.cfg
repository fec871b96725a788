SPECIFICATION LoopSpec
CONSTANTS
    ra = ra
    rb = rb
    question = question
    s1 = s1
    bash = bash
    toolEvent = toolEvent
    stopEvent = stopEvent
    Requests = {ra}
    Commands = {c1}
    Sessions = {s1}
    Tools = {bash}
    Envelope <- MCEnvelope
    Times <- MCTimes
    Delays = {0, 1}
    None = None
    ByAgent = {}
    CorrelationOf <- MCOwnKey
    Handlers = {h1, h2}
    Events = {stopEvent}
    EventOf <- MCEventOf
    MaxTime = 2
    MaxRestarts = 1
PROPERTIES
    HookReleased
    ClaimSettles
CHECK_DEADLOCK FALSE
