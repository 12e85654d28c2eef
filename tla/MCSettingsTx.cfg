\* Two tuning commands and an install; one write of the user, one kill.
SPECIFICATION Spec
CONSTANTS
    theme = theme
    legacy = legacy
    dark = dark
    light = light
    Absent = Absent
    NoFile = NoFile
    NoReg = NoReg
    NoProc = NoProc
    Tuners = {t1, t2}
    Installers = {i1}
    TypedKeys <- MCTypedKeys
    UntypedKeys <- MCUntypedKeys
    Values <- MCValues
    TunerPatches <- MCTunerPatches
    ProfilePatch <- MCProfilePatch
    InitialFiles <- MCInitialFiles
    UserFiles <- MCUserFiles
    MaxRuns = 1
    MaxEdits = 1
    MaxFaults = 1
INVARIANTS
    LedgerExact
    OriginalIsPreOmm
PROPERTIES
    NoLostUpdate
CHECK_DEADLOCK FALSE
