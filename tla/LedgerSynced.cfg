SPECIFICATION Spec
CONSTANTS
    u1 = u1
    wa = wa
    wb = wb
    q1 = q1
    q2 = q2
    q3 = q3
    v1 = v1
    Miss = Miss
    User = {u1}
    Wallet = {wa}
    Owner <- OneWallet
    Opening <- OneOpening
    Req = {q1, q2}
    Reader = {}
    Job <- Deposits
INVARIANT CacheSynced
