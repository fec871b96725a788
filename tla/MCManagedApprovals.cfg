SPECIFICATION ManagedSpec
CONSTANTS
    ra = ra
    s1 = s1
    bash = bash
    stopEvent = stopEvent
    Requests = {ra}
    Commands = {c1, c2}
    Sessions = {s1}
    Tools = {bash}
    Envelope <- MCEnvelope
    Times <- MCTimes
    Delays = {0, 1}
    None = None
    ByAgent = {}
    CorrelationOf <- MCSameKey
    Handlers = {h1}
    Events = {stopEvent}
    EventOf <- MCEventOf
    MaxTime = 1
    MaxRestarts = 1
PROPERTY ImplementsContract
INVARIANTS
    SentIsHeard
    ResolvedIsClosed
SYMMETRY Symmetry
CHECK_DEADLOCK FALSE
