SPECIFICATION Spec
SYMMETRY MCSymmetry
CONSTANTS
    w1 = w1
    w2 = w2
    words = words
    p1 = p1
    p2 = p2
    Workspaces = {w1, w2}
    Procs = {p1, p2}
    Written = {words}
    Seed = Seed
    None = None
    Absent = Absent
    Keep = 1
    Seconds = 1
    MaxEdits = 1
    MaxCommands = 2
    Versions = {"m1", "m2"}
    Originals <- MCOriginals
    MaxTextEdits = 2
    MaxRuns = 3
    ref = ref
    main = main
    notes = notes
    SkillFiles = {main, ref}
    Main = main
    Extra = notes
    Shipped <- MCShipped
    UserText = "mine"
    NoContent = NoContent
    MaxStoreEdits = 2
    MaxJobs = 4
    MaxFaults = 3
    MaxEvents = 2
    Ids = {"a", "b", "c", "fast"}
    Catalogs <- MCCatalogs
    MaxOverlayEdits = 2
INVARIANT MemoriesKept FixHeals CleanInstalls BuildSettles
INVARIANT ListedOnce UsedAsListed
PROPERTIES WordsKept RoundTrip SkillKept UninstallTakesAll
CHECK_DEADLOCK FALSE
