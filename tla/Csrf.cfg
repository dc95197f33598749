SPECIFICATION Spec
CONSTANTS
    Tabs = {tab1, tab2}
    Secrets = {old, new}
INVARIANTS
    TypeOK
    CalmPagesAreAccepted
PROPERTIES
    CookieSettles
    RotationRefuses
SYMMETRY TabSymmetry
