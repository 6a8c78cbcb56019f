SPECIFICATION MCSpec
CONSTANTS
    f1 = f1  f2 = f2  f3 = f3
    None = None
    Slots = {f1, f2}
    InOrder = TRUE
    MaxDocs = 3
    MaxDue = 2
    MaxFlashes = 2
    MaxMounts = 2
    MaxPushes = 2
    MaxFaults = 1
    Choices = {"bare"}
    MaxDialogs = 2
    MaxWrites = 2
    MaxPosts = 2
    MaxTroubles = 1
SYMMETRY SlotSymmetry
CHECK_DEADLOCK FALSE
INVARIANTS TabSound ShowsTheStore FlashSound DialogsSound
PROPERTIES NeverRekeys
