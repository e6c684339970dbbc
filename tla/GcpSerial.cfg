SPECIFICATION Spec
CONSTANTS
    Handlers = {h1, h2}
    Members = {m1, m2}
    Others = {}
    Actions = {"execute"}
    LoginRoles = {"user", "admin"}
    Durations = {1}
    MaxMinutes = 1
    MaxTime = 2
    Overlap = FALSE
    NoRequest = NoRequest
SYMMETRY Symmetry
INVARIANT LoginNeedsTunnel
PROPERTY DoneMeansAccess
