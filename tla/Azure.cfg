SPECIFICATION Spec
CONSTANTS
    v1 = v1
    v2 = v2
    Handlers = {h1, h2}
    VMs = {v1}
    Scopes <- OneScope
    Principals = {p1}
    Roles = {"user", "admin"}
    Actions = {"plan", "execute"}
    Asked <- Every
    Durations = {0, 1}
    Names = {1, 2, 3, 4, 5, 6}
    MaxMinutes = 1
    MaxTime = 1
    Working = {}
    Overlaps = {TRUE}
    NoRequest = NoRequest
SYMMETRY Symmetry
INVARIANTS TypeOK AccessWithinLimit
PROPERTY PermanentUntouched
