SPECIFICATION Spec
CONSTANTS
    p1 = p1
    d0 = d0
    d1 = d1
    m1 = m1
    s1 = s1
    s2 = s2
    Unset = Unset
    Blank = Blank
    None = None
    Processes = {p1}
    Environments <- AccessEnvironments
    Tokens = {s1, s2}
    Databases = {d0, d1}
    Default = d0
    Mints = {m1}
SYMMETRY Symmetry
INVARIANTS
    TypeOK
    EveryCallIsAllowed
