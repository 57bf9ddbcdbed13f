SPECIFICATION FairSpec
CONSTANTS
    eur = eur
    kzt = kzt
    usdt = usdt
    Code = {eur, kzt, usdt}
    Crypto = {usdt}
    Usdt = usdt
    Pair <- MCPair
    Value <- MCValue
    MaxRetries = 2
    Probe = {p1}
CHECK_DEADLOCK FALSE
INVARIANTS
    TypeOK
    DatabaseOutlivesWorker
    RatesAreRatios
    MixedAnswerNeedsCause
    DownOnlyInShutdown
PROPERTIES
    SkipsOnlyForProbe
    ProbesAnswer
    ShutdownCompletes
    RoundsEnd
