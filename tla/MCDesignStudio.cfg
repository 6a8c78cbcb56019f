SPECIFICATION Spec
CONSTANTS
    a = a  b = b  c1 = c1  c2 = c2  c3 = c3
    NoId = NoId
    EmptyId = EmptyId
    Ids = {a, b}
    Callers = {c1, c2}
    Backends = {"file", "sqlite"}
    Ops = {"post", "edit", "apply", "create", "overwrite", "delete", "put", "setactive"}
    MaxCalls = 4
    MaxCrashes = 1
SYMMETRY StudioSymmetry
CHECK_DEADLOCK FALSE
INVARIANTS StoreSound NoSilentWrite LastSaveStands
