SPECIFICATION StoreSpec
CONSTANTS
    ra = ra
    rb = rb
    question = question
    s1 = s1
    bash = bash
    edit = edit
    Requests = {ra, rb, question}
    Commands = {c1, c2}
    Sessions = {s1}
    Tools = {bash, edit}
    Envelope <- MCEnvelope
    Times <- MCTimes
    Delays = {1}
    None = None
SYMMETRY Symmetry
INVARIANTS
    StoreTypeOK
    OneDecisionUnderWay
    CountedOnce
PROPERTY EndedStaysEnded
CHECK_DEADLOCK FALSE
