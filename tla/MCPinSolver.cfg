SPECIFICATION StudioSpec
CONSTANTS
    None = None
    MaxPin = 6
    MaxActs = 2
    MaxSends = 2
    MaxIterations = 2
    Pins <- MCPins
    Boards <- MCBoards
    Parts <- MCParts
    Inputs <- MCInputs
    Integrations <- MCIntegrations
    Examples <- MCExamples
    Stored <- MCStored
    Fresh <- MCFresh
    Addable = {"light"}
    Bundles <- MCBundles
    Retargets = {"bus"}
    NewNames <- MCNewNames
    BusTypes = {"i2c", "spi"}
    Answers <- MCAnswers
CHECK_DEADLOCK FALSE
INVARIANTS SolverPinsExclusive SolverSound EditorSound
PROPERTIES EditsSound
