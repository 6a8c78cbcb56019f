SPECIFICATION FairSpec
CONSTANTS
    j1 = j1  j2 = j2  j3 = j3
    c1 = c1
    Jobs = {j1, j2, j3}
    Clients = {c1}
    NoJob = NoJob
    Vanishing = {j3}
    MaxJobs = 1
    MaxEvents = 2
    MaxYield <- MCYield
    Limits = {0, 2}
CHECK_DEADLOCK FALSE
INVARIANTS LogsSound
PROPERTIES RunningNeverEvicted EvictionKeepsTheCap EveryLogIsAStream CallersAreServed
