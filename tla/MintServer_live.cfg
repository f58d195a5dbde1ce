SPECIFICATION FairSpec
CONSTANTS
    t1 = t1
    t2 = t2
    t3 = t3
    Tasks = {t1, t2, t3}
    Size <- MixedSize
    Method <- MixedMethod
    Nonce <- MixedNonce
    Coins = {k1}
    MaxAttempts = 2
    MaxNonce = 0
    MaxCrashes = 1
INVARIANTS
    TheLineMoves
PROPERTIES
    EveryRequestEnds
    WorkIsBounded
