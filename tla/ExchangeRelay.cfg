\* Four setups: three requests, an added frame, a stray frame, a replay.
SPECIFICATION LoopSpec
CONSTANTS
    t1 = t1
    t2 = t2
    l1 = l1
    Targets = {t1, t2}
    Routed = {t1}
    Legs = {l1}
    NoLeg = NoLeg
    MaxRequests = 3
    Strict = TRUE
    Setups <- MCSetups
INVARIANTS LegsInv NoLateAnswer SingleVerdict CleanupReleasesLegs
PROPERTIES CleanupEnds ExchangeEnds
