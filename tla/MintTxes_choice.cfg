SPECIFICATION Spec
CONSTANTS
    Coins = {k1, k2, k3, k4}
    Values = {50, 100, 294, 330, 500, 700, 1000, 4000}
    Rates = {5, 10, 13, 25, 70}
    Lengths = {200, 1040}
INVARIANTS
    TypeOK
    InsufficientIsTrue
    FewestInputs
    EachPaysTheRate
    NothingIsGivenAway
