SPECIFICATION FairSpec
CONSTANTS
    v1 = v1
    v2 = v2
    Handlers = {h1}
    VMs = {v1, v2}
    Scopes <- TwoScopes
    Principals = {p1}
    Roles = {"user", "admin"}
    Actions = {"execute"}
    Asked <- EveryInV2
    Durations = {1, 2}
    Names = {1, 2, 3, 4, 5, 6}
    MaxMinutes = 2
    MaxTime = 1
    Working = {v2}
    Overlaps = {TRUE, FALSE}
    NoRequest = NoRequest
PROPERTIES GrantsOnlyExtend DoneMeansAccess ExpiredGoes
