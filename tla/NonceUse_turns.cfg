SPECIFICATION Spec
CONSTANTS
    c1 = c1
    m1 = m1
    m2 = m2
    m3 = m3
    Clients = {c1}
    Resenders = {}
    Mints = {m1, m2, m3}
    MaxRestarts = 1
    MaxLine = 4
    Nobody = Nobody
INVARIANTS
    TypeOK
    RowsAreDistinct
SYMMETRY Symmetry
