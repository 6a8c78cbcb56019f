SPECIFICATION CheckSpec
CONSTANTS
    None = None  c1 = c1  c2 = c2
    Keys = {"a", "b", "c", "r", "hat"}
    Callers = {c1, c2}
    Ops = {"set", "remove", "import"}
    MaxCalls = 3
    Batches = {{"a", "b"}, {"c", "r"}}
    MaxCrashes = 1
    Placed <- MCPlaced
    Passives <- MCPassives
    Components <- MCComponents
    KeyOrder <- MCKeyOrder
    Held <- MCHeld
    Magnitude <- MCMagnitude
SYMMETRY DrawerSymmetry
CHECK_DEADLOCK FALSE
INVARIANTS DrawerSound
PROPERTIES SubstitutesFit
