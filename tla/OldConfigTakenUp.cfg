\* A configuration queued for a DAW that went away, and a newer one adopted.
SPECIFICATION ReloadSpec

CONSTANTS
    Saves = 2
    Refused = {}

PROPERTIES
    AdoptedStays

CHECK_DEADLOCK FALSE
