\* One block in the files of two takes.
SPECIFICATION Spec

CONSTANTS
    Slots = 3
    Preroll = 2
    BlocksAStep = 2
    Horizon = 5
    Commands = 3
    CountIns = {FALSE}
    Failures = 0

INVARIANTS
    FilesDoNotOverlap
