SPECIFICATION DialogSpec
CONSTANTS
    Pushes = {1, 2, 3, 4}
    Builders = {1, 2, 3}
    Own = {1, 2}
    Names = {kitchen}
    None = None
    LogSize = 1
    Outcomes = {"success", "timed_out"}
    MaxPushes = 2
    MaxFaults = 1
    MaxWire = 1
CHECK_DEADLOCK FALSE
INVARIANTS ScreenSound NeverOlder
PROPERTIES StreamEnds
