SPECIFICATION Spec
CONSTANTS
    Builders = {b1, b2}
    Keys = {k1, k2}
    None = None
    MaxStarts = 2
    MaxCrashes = 1
CHECK_DEADLOCK FALSE
INVARIANTS SlotsSound
PROPERTIES BuildsEnd
