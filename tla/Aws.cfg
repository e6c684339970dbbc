SPECIFICATION Spec
CONSTANTS
    i1 = i1
    i2 = i2
    p1 = p1
    Handlers = {h1, h2}
    Timer = Timer
    Pairs <- WithOtherInstance
    Asked <- OnePair
    Actions = {"execute"}
    Durations = {0, 1, 3}
    MaxMinutes = 2
    MaxTime = 1
    NoPolicy = NoPolicy
    NoPair = NoPair
    NoRequest = NoRequest
SYMMETRY Symmetry
INVARIANTS TypeOK AccessWithinLimit
PROPERTIES GrantsOnlyExtend DoneMeansAccess
