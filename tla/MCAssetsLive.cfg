\* Two themes; one user who goes on running omm update.
CONSTANTS
    p1 = p1
    p2 = p2
    dark = dark
    light = light
    dark1 = dark1
    dark2 = dark2
    light1 = light1
    i1 = i1
    i2 = i2
    i3 = i3
    Procs = {p1}
    Files = {dark, light}
    Digests = {dark1, dark2, light1}
    LastRelease = 2
    Ships <- Both
    Mine = Mine
    Odd = Odd
    Missing = Missing
    None = None
    NoLedger = NoLedger
    Inodes = {i1}
    NoInode = NoInode
    Commands = {"install", "update", "uninstall"}
    FoundContents <- FoundInPlace
    UserContents <- EditedTo
    MaxEdits = 2
    MaxKills = 1
SPECIFICATION Spec
PROPERTY Converges
