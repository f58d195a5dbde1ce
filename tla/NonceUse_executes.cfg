SPECIFICATION FairSpec
CONSTANTS
    c1 = c1
    c2 = c2
    m1 = m1
    m2 = m2
    Clients = {c1, c2}
    Resenders = {c2}
    Mints = {m1, m2}
    MaxRestarts = 2
    MaxLine = 3
    Nobody = Nobody
INVARIANTS
    NoHoles
    NeverStuck
PROPERTY RecordedIsExecuted
