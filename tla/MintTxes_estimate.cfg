SPECIFICATION Spec
CONSTANTS
    Coins = {dummy}
    Values = {100000}
    Rates = {10}
    Lengths = {200, 10000, 395412, 397217}
INVARIANTS
    EstimateAnswers
