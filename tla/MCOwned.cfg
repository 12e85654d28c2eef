\* One theme, and two processes that run install, update and uninstall; or two
\* files and their paths under a config root the user moves about (two scenes).
CONSTANTS
    p1 = p1
    p2 = p2
    dark = dark
    light = light
    dark1 = dark1
    dark2 = dark2
    light1 = light1
    i1 = i1
    i2 = i2
    i3 = i3
    Procs = {p1, p2}
    Files = {dark}
    Digests = {dark1, dark2, light1}
    LastRelease = 2
    Ships <- DarkOnly
    Mine = Mine
    Odd = Odd
    Missing = Missing
    None = None
    NoLedger = NoLedger
    Inodes = {i1, i2, i3}
    NoInode = NoInode
    Commands = {"install", "update", "uninstall"}
    FoundContents <- EditedTo
    UserContents <- EditedTo
    MaxEdits = 2
    MaxKills = 1
    Places <- MCPlaces
    ConfigRoot <- MCConfigRoot
    Home <- MCHome
    OmmRoot <- MCOmmRoot
    Wanted <- MCWanted
    Asked <- MCAsked
    Movable <- MCMovable
    Targets <- MCTargets
    MaxMoves = 2
SPECIFICATION MCSpec
SYMMETRY Symmetry
INVARIANTS OneSession LedgerDescribesDisk
INVARIANTS WrittenIsFound ReadersAgree
PROPERTIES NeverOverwritesUserEdit OwnPlacesOnly
