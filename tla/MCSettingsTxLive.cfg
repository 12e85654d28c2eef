\* A tuner and two installers.
SPECIFICATION Spec
CONSTANTS
    theme = theme
    legacy = legacy
    dark = dark
    light = light
    Absent = Absent
    NoFile = NoFile
    NoReg = NoReg
    NoProc = NoProc
    Tuners = {t1}
    Installers = {i1, i2}
    TypedKeys <- MCTypedKeys
    UntypedKeys <- MCUntypedKeys
    Values <- MCValues
    TunerPatches <- MCTunerPatches
    ProfilePatch <- MCProfilePatch
    InitialFiles <- MCInitialFiles
    UserFiles <- MCUserFiles
    MaxRuns = 1
    MaxEdits = 0
    MaxFaults = 0
PROPERTIES
    CommandsEnd
CHECK_DEADLOCK FALSE
