SPECIFICATION Spec
CONSTANTS
    GasPerByte = 3
    Largest = 31
    Undecodable = Undecodable
    Rates = {1, 4, 5, 14, 15, 30, 200}
    Prices = {0, 1, 2, 5}
    GasLimits = {0, 1, 2, 3, 11, 12, 13, 14, 15, 16, 29, 30, 31}
    Texts = {2, 5, 6, Undecodable}
    Limits = {4, 5, 6, 11}
INVARIANTS
    TypeOK
    MintedFits
    RefusalIsNecessary
    OwnPriceIsAccepted
