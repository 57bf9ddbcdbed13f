SPECIFICATION Spec
CONSTANTS
    t1 = t1
    t2 = t2
    Miss = Miss
    OtherAdmin = TRUE
    User = {u1}
    Currency = {c1}
    Req = {q1, q2}
    Token = {t1, t2}
    ShortLife = 1
    LongLife = 2
    MaxTime = 2
SYMMETRY Symmetry
INVARIANT CachedHashesIntact
