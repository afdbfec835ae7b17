\* A check under way when another caller's download is staged.
SPECIFICATION UpdatesSpec

CONSTANTS
    Callers = {"background", "page"}
    Releases = 2
    Failures = 0
    Starts = 0

PROPERTIES
    StagedIsTheEnd
CHECK_DEADLOCK FALSE
