SPECIFICATION RegistrySpec
CONSTANTS
    Requests = {r1, r2, r3}
    Correlations = {k1, k2}
    Tickets = {t1, t2, t3, t4}
    Responses = {pass, allow}
    PassThrough = pass
    Times <- MCTimes
    None = None
INVARIANTS
    RegistryTypeOK
    MapsAgree
    TicketsAnsweredOnce
CHECK_DEADLOCK FALSE
