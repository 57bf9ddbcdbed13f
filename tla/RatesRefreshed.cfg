SPECIFICATION Spec
CONSTANTS
    p1 = p1
    p2 = p2
    i1 = i1
    i2 = i2
    q1 = q1
    q2 = q2
    v1 = v1
    w1 = w1
    on = on
    off = off
    fine = fine
    Miss = Miss
    Fresh = Fresh
    Gone = Gone
    Pair = {p1}
    Id = {i1}
    PairOf <- OneRow
    Rate = {1, 2}
    Terms = {on, off}
    ActiveTerms = {on}
    StoredTerms <- RoundedTerms
    StoredRate <- RoundedRate
    Quoted = {p1}
    Req = {q1}
    Viewer = {}
    Worker = {w1}
INVARIANT BatchRefreshesCache
