SPECIFICATION HandshakeSpec
CONSTANTS
    api = api
    quota = quota
    hook = hook
    Callers = {api, quota}
    ApiCallers = {api}
    Hooks = {hook}
    NoRequest = NoRequest
INVARIANTS
    HandshakeTypeOK
    RefusedIsNotAccepted
    OkMeansRestart
PROPERTIES
    CallerReturns
    RestartHappens
CHECK_DEADLOCK FALSE
