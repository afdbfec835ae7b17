\* Every meeting of callback, writer and take over a lap and more of three
\* slots, with a disk that fails once: the ring and its files, the invariant of
\* the proofs, and the timeline of takes.
SPECIFICATION Spec

CONSTANTS
    Slots = 3
    Preroll = 2
    BlocksAStep = 2
    Horizon = 4
    Commands = 3
    CountIns = {FALSE}
    Failures = 1

INVARIANTS
    TypeOK
    WaitingIsHeld
    CallbackAndWriterApart
    FilesAreFaithful
    TakesInOrder
    IInv
    FinishedTakesAreWhole

PROPERTIES
    TimelineSpec
