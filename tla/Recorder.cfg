\* Three commands of two clients, and four blocks of the click with two count-ins.
SPECIFICATION RecorderSpec

CONSTANTS
    Clients = {c1, c2}
    Commands = 3
    Settings <- SomeSettings
    BlockLength = 2
    BarsAsked = {1}
    Blocks = 4
    CountIns = 2
    Presses = 1

SYMMETRY Interchangeable

INVARIANTS
    RecorderTypeOK
    OneHostRuns
    ArmedIsBacked
    InTurnClickIsRight
    ClickKeepsTime
