SPECIFICATION BenchSpec
CONSTANTS
    LoraParts <- MCParts
    LoraBoards <- MCLoraBoards
    Designs <- MCDesigns
    Base = 4
    Slots = {s1, s2}
    Boards = {b1}
    Calls = {c1, c2}
    None = None
    MaxFaults = 1
    MaxNonce = 2
    Rosters <- MCRosters
    LibBoards <- MCLibBoards
    Places = {"s1", "s2"}
    Units = {"u1", "u2"}
    Plugged <- MCPlugged
    MaxUpsets = 1
    MaxMisses = 1
CHECK_DEADLOCK FALSE
INVARIANTS BenchSound
PROPERTIES AloneIsServed GateSound BenchAnswers
