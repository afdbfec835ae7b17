\* What the page is told while a take starts, ends and drains.
SPECIFICATION StatusSpec

CONSTANTS
    Slots = 2
    Preroll = 1
    BlocksAStep = 1
    Horizon = 3
    Commands = 3
    CountIns = {TRUE, FALSE}
    Failures = 0

INVARIANTS
    HeldIsOfTheTake
