SPECIFICATION Spec
CONSTANTS
    Handlers = {h1, h2}
    Members = {m1}
    Others = {o1}
    Actions = {"plan", "execute"}
    LoginRoles = {"user"}
    Durations = {1, 2}
    MaxMinutes = 1
    MaxTime = 1
    Overlap = TRUE
    NoRequest = NoRequest
SYMMETRY Symmetry
INVARIANTS TypeOK AccessWithinLimit
PROPERTIES GrantsOnlyExtend UnmanagedUntouched
