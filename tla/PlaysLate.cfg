\* The two callbacks the driver asks for by itself before it trusts a device again.
SPECIFICATION StreamSpec

CONSTANTS
    RingBlocks = 3
    StallAfter = 2
    RecoverAfter = 2

INVARIANTS
    NeverPlaysLate
CHECK_DEADLOCK FALSE
