SPECIFICATION FairSpec
CONSTANTS
    old = old  new = new  twin = twin
    Processes = {old, new, twin}
    Nobody = Nobody
    Latest <- Releases
    Written = 0
    MaxKills = 2
CHECK_DEADLOCK FALSE
INVARIANTS MigratedOnce
PROPERTIES OpensOwnSchema MigrateReturns
