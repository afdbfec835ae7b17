\* The server, part by part.
SPECIFICATION ServerSpec

CONSTANTS
    Parts = {"table", "requests", "packets", "updates", "recall", "calls", "phones"}
    Devices = {d1}
    Requests = {r1}
    Troubles = 2
    Cmds = {"a"}
    Selectors = {0, 1}
    MaxRequests = 2
    MaxReports = 2
    Lengths = {1, 2, 3}
    Messages = 3
    Callers = {"background", "page"}
    Releases = 3
    Failures = 2
    Starts = 1
    InterfaceCount = 2
    Quadros = {1}
    Differences = 2
    Outages = 1
    Keys = {"fader"}
    Calls = 3
    Phones = {"phone"}
    Threads = {"page", "tray"}
    Errands = 2
    Mischances = 1
    Retries = 1

INVARIANTS
    ServerTypeOK
    WhatIsToldIsSo
    AnswersAreTheirOwn
    UpdatesAreWhole
    RecallIsSafe

PROPERTIES
    ServerSettles
CHECK_DEADLOCK FALSE
