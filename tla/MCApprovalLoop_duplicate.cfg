SPECIFICATION LoopSafety
CONSTANTS
    ra = ra
    rb = rb
    question = question
    s1 = s1
    bash = bash
    toolEvent = toolEvent
    stopEvent = stopEvent
    Requests = {ra, rb}
    Commands = {c1}
    Sessions = {s1}
    Tools = {bash}
    Envelope <- MCEnvelope
    Times <- MCTimes
    Delays = {1}
    None = None
    ByAgent = {ra, rb}
    CorrelationOf <- MCSameKey
    Handlers = {h1}
    Events = {}
    EventOf <- MCEventOf
    MaxTime = 1
    MaxRestarts = 0
SYMMETRY Symmetry
INVARIANTS
    WaitersAreServed
    AgentHearsOrFails
CHECK_DEADLOCK FALSE
