SPECIFICATION Spec
CONSTANTS
    u1 = u1
    wa = wa
    wb = wb
    q1 = q1
    q2 = q2
    q3 = q3
    v1 = v1
    Miss = Miss
    User = {u1}
    Wallet = {wa}
    Owner <- OneWallet
    Opening <- OneOpening
    Req = {q1, q2, q3}
    Reader = {v1}
    Job <- TransferJobs
SYMMETRY Symmetry
INVARIANTS
    TypeOK
    OverdraftExplained
    CacheTrueWithoutOverlap
    PendingRowsExplainBalance
    ListTrueUnlessOld
PROPERTIES
    LostUpdateNeedsOverlap
    WriteAheadJournal
