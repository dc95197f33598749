SPECIFICATION AccessSpec
CONSTANTS
    fire = fire
    club = club
    committee = committee
    brigade = brigade
    blank = blank
    Users = {u1}
    NoUser = NoUser
    Requests = {r1, r2}
    Groups <- MCGroups
    AdminGroup = committee
    Blank = blank
    Headers <- MCHeaders
    UnitIds = {1, 2}
    UnitContents <- MCUnitContents
    CalendarIds = {1}
    CalendarContents <- MCCalendarContents
    None = None
INVARIANTS
    TablesAgree
    ListedIsPresented
    StoredGroupsAgree
SYMMETRY SlotSymmetry
VIEW AccessView
