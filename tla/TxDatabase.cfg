SPECIFICATION Spec
CONSTANTS
    Accounts = {a1, a2}
    IMax = 3
    MaxRows = 4
INVARIANTS
    TypeOK
    CountIsFirstUnused
    PanicOnlyAtTheEdge
