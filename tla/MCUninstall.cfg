SPECIFICATION MCSpec
CONSTANTS
    mode = mode
    version = version
    custom = custom
    project = project
    Plain <- MCPlain
    Members <- MCMembers
    Required = version
    Untyped <- MCUntyped
    Projects <- MCProjects
    Absent = Absent
    Omm = Omm
    Mine = Mine
    Later = Later
    NoFile = NoFile
    NoLedger = NoLedger
    None = None
    Seeded = Seeded
    MaxFaults = 1
    MaxKills = 1
    MaxEdits = 1
    Forces = {TRUE, FALSE}
CHECK_DEADLOCK FALSE

PROPERTY EndsAsBefore
INVARIANT NothingForgotten
