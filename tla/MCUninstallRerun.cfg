SPECIFICATION MCSpec
CONSTANTS
    mode = mode
    version = version
    custom = custom
    project = project
    Plain <- MCPlain
    Members <- MCMembers
    Required = version
    Untyped <- MCUntyped
    Projects <- MCProjects
    Absent = Absent
    Omm = Omm
    Mine = Mine
    Later = Later
    NoFile = NoFile
    NoLedger = NoLedger
    None = None
    Seeded = Seeded
    MaxFaults = 1
    MaxKills = 0
    MaxEdits = 0
    Forces = {FALSE}
CHECK_DEADLOCK FALSE
PROPERTY RerunContinues
