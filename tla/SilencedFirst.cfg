\* A plan some of whose commands cannot be rendered.
SPECIFICATION RecallSpec

CONSTANTS
    InterfaceCount = 1
    Quadros = {1}
    Differences = 2
    Outages = 1

INVARIANTS
    SilencedFirst
