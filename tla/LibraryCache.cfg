SPECIFICATION CacheSpec
CONSTANTS
    Torn = Torn
    NoEntry = NoEntry
    Ids = {a, b}
    Threads = {t1, t2}
    Ops = {"create", "overwrite", "delete", "get", "list"}
    MaxWrites = 2
    MaxRestarts = 1
CHECK_DEADLOCK FALSE
INVARIANTS CacheFresh ListingFresh
