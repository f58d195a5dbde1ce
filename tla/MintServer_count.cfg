SPECIFICATION Spec
CONSTANTS
    t1 = t1
    t2 = t2
    t3 = t3
    Tasks = {t1, t2, t3}
    Size <- CountSize
    Method <- CountMethod
    Nonce <- CountNonce
    Coins = {k1}
    MaxAttempts = 1
    MaxNonce = 1
    MaxCrashes = 0
PROPERTIES
    CountNeverGoesBack
    CountIsFirstFree
