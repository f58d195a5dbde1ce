SPECIFICATION Spec
CONSTANTS
    p1 = p1
    p2 = p2
    p3 = p3
    d0 = d0
    d1 = d1
    m1 = m1
    m2 = m2
    Unset = Unset
    Blank = Blank
    None = None
    Processes = {p1, p2, p3}
    Environments <- FileEnvironments
    Tokens = {}
    Databases = {d0, d1}
    Default = d0
    Mints = {m1, m2}
SYMMETRY Symmetry
INVARIANTS
    AnsweredSurvive
    TableMissingOnlyAfterReset
