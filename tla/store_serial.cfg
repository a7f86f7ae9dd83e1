SPECIFICATION ServerSpec
CONSTANTS
    w1 = w1
    w2 = w2
    r1 = r1
    p1 = p1
    p2 = p2
    Request = {w1, w2, r1}
    Writer = {w1, w2}
    Process = {p1, p2}
    home <- MCHome
    Session = {s1, s2}
    None = None
CHECK_DEADLOCK FALSE
INVARIANTS
    PoolIsClean
    WritesAreLocked
    AnswersAreCurrent
PROPERTIES
    IsSerial
    LockIsFreed
