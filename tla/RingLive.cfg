\* Takes, count-ins and Disarm to their end, under fairness.
SPECIFICATION FairSpec

CONSTANTS
    Slots = 2
    Preroll = 1
    BlocksAStep = 1
    Horizon = 3
    Commands = 3
    CountIns = {TRUE, FALSE}
    Failures = 0

INVARIANTS
    RingIsClosedAlone
    NothingLeftWhenOff

PROPERTIES
    EndedTakesAreFinished
    RecordStarts
    DisarmAnswers
