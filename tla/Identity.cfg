SPECIFICATION Spec
CONSTANTS
    u1 = u1
    r1 = r1
    r2 = r2
    committee = committee
    brigade = brigade
    blank = blank
    Users = {u1}
    Requests = {r1, r2}
    Groups <- MCGroups
    AdminGroup = committee
    Blank = blank
    NoUser = NoUser
    Headers <- MCHeaders
INVARIANTS
    TypeOK
    OverlapConverges
    RevokedGroupsGo
    ConflictHasACause
PROPERTIES
    EveryRequestAnswered
