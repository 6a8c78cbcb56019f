SPECIFICATION Spec
CONSTANTS
    None = None
    MaxPin = 5
    MaxCalls = 3
    MaxParts = 3
    Pins <- MCPins
    Boards <- MCBoards
    Parts <- MCParts
    Integrations <- MCIntegrations
    Documents <- MCDocuments
    Legacies <- MCLegacies
    Stocked <- MCStocked
    Offered <- MCOffered
    Onboard <- MCOnboard
    CheckBoard = "devkit"
    Radios <- MCRadios
    Hints <- MCHints
    Aims <- MCAims
    GivenPins <- MCGivenPins
    Modules <- MCModules
    Strays <- MCStrays
    Chips <- MCChips
    Blocks <- MCBlocks
    Cards <- MCCards
    BoardCards <- MCBoardCards
    Symbols <- MCSymbols
    NetNames <- MCNetNames
CHECK_DEADLOCK FALSE
INVARIANTS DocumentSound LoadSettles DroppedIsWarned ArtifactsAgree
PROPERTIES ToolsKeepTheDesign
