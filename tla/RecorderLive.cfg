\* What must come to an end around the recorder.
SPECIFICATION LiveSpec

CONSTANTS
    Clients = {c1, c2}
    Commands = 2
    Presets = {"band"}
    Grace = 2
    MeasuringWait = 1
    Waits <- SomeWaits
    Takers = {"recorder", "session"}
    Closer = "session"
    Taps = 3
    Fields = 4
    Changes = 3

INVARIANTS
    LiveTypeOK
    TakenIsAlone
    NeverTorn

PROPERTIES
    BegunEnds
    NeverTight
    FollowsTheInterfaces
