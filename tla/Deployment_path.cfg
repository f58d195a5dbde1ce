SPECIFICATION Spec
CONSTANTS
    p1 = p1
    d0 = d0
    d1 = d1
    m1 = m1
    Unset = Unset
    Blank = Blank
    None = None
    Processes = {p1}
    Environments <- PathEnvironments
    Tokens = {}
    Databases = {d0, d1}
    Default = d0
    Mints = {m1}
SYMMETRY Symmetry
INVARIANTS
    ResetIsForTheNamedFile
