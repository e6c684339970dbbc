SPECIFICATION Spec
CONSTANTS
    v1 = v1
    v2 = v2
    Handlers = {h1}
    VMs = {v1}
    Scopes <- OneScope
    Principals = {p1}
    Roles = {"user"}
    Actions = {"execute"}
    Asked <- Every
    Durations = {1, 2}
    Names = {1, 2, 3, 4, 5, 6}
    MaxMinutes = 2
    MaxTime = 2
    Working = {}
    Overlaps = {TRUE}
    NoRequest = NoRequest
PROPERTY RemovesExpiredOnly
