\* The aggregate driver, part by part.
SPECIFICATION AggregateFairSpec

CONSTANTS
    Parts = {"record", "ring", "stream", "phase", "reload", "rate", "store", "suite"}
    Drivers = {"daw", "own"}
    Attempts = 2
    Writes = 2
    Kills = 1
    Slots = 3
    Settling = 2
    Offers = 5
    Looks = 3
    RingBlocks = 3
    StallAfter = 2
    RecoverAfter = 3
    Followers = {"quadro", "studio"}
    Paths <- SomePaths
    MasterPath = 1
    Limit = 1
    Uses = {"line up", "no reference", "measure only"}
    Saves = 3
    Refused = {2}
    DeviceCount = 2
    Rates = {44, 48}
    Savers = {"page"}
    Edits = 2
    Turns = 2
    Mishaps = 1
    Boxes = {"b1", "b2"}
    SetupCount = 2
    Runs = 2
    Rounds = 2
    Figures = {1, 2}
    Faults = 1
    Visits = 2

INVARIANTS
    AggregateTypeOK
    ReadsAreWhole
    NothingOldComesBack
    LinedUp
    AllMoveOrNone
    SuiteKeepsItsWord

PROPERTIES
    RingIsAQueue
    SetupIsSafe
    SetupSettles
CHECK_DEADLOCK FALSE
