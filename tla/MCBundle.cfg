SPECIFICATION Spec
CONSTANTS
    A = A
    B = B
    Git = Git
    d1 = d1
    d2 = d2
    dx = dx
    c1 = c1
    c2 = c2
    Dirs = {A, B}
    Digests = {d1, d2, dx}
    Foreign = {dx}
    Caps = {c1, c2}
    Off <- MCOff
    None = None
    NoLedger = NoLedger
    Commands <- MCAll
    FoundContents <- MCContents
    FoundMarkets <- MCMarkets
    MaxFaults = 1
    MaxKills = 1
    MaxEdits = 1
INVARIANT LedgerKnowsBundle
PROPERTIES NeverStranded UninstallLeavesNothing KeepsPromise Converges
