\* Two testers with two security levels and two sessions, and two plugins.
SPECIFICATION DispatchSpec
CONSTANTS
    t1 = t1
    t2 = t2
    open = open
    locked = locked
    routine = routine
    Testers = {t1, t2}
    Dids = {open, locked}
    Routines = {routine}
    Levels = {1, 2}
    Sessions = {"default", "extended"}
    Default = "default"
    Security <- MCSecurity
    Allowed <- MCAllowed
    ClearWrites = TRUE
    S3Enabled = TRUE
    MaxAttempts = 2
    None = None
    Plugins <- MCPlugins
    Setups <- MCSetups
SYMMETRY Symmetry
INVARIANTS UdsInv S3Exact FirstClaimWins
PROPERTIES LevelRises ProtectedWrites
