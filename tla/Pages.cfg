SPECIFICATION Spec
CONSTANTS
    fire = fire
    club = club
    committee = committee
    Slots = {s1, s2}
    HomePage = home
    UnitPage = unit_placeholder
    Files <- MCFiles
    Component = toast
    None = None
    UserGroups = {committee}
    UnitIds = {1, 2}
    UnitContents <- MCUnitContents
INVARIANTS
    TypeOK
    SettledMapIsComplete
    LogMatchesAnswer
PROPERTIES
    MissingPageHasACause
    RedirectsLead
SYMMETRY SlotSymmetry
