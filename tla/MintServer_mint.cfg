SPECIFICATION Spec
CONSTANTS
    t1 = t1
    t2 = t2
    t3 = t3
    Tasks = {t1, t2}
    Size <- MintSize
    Method <- MintMethod
    Nonce <- MintNonce
    Coins = {k1, k2}
    MaxAttempts = 2
    MaxNonce = 0
    MaxCrashes = 1
INVARIANTS
    TypeOK
    OneHolder
    TestIsNotStale
    ErrMeansUntouched
    OkMeansRecorded
    RecordedSurvives
    StrandedOnlyByFailure
    IInv
PROPERTIES
    KeepsMintPromise
