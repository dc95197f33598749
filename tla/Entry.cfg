SPECIFICATION Spec
CONSTANTS
    early = early
    late = late
    Slots = {s1, s2}
    MaxEntries = 2
    Keys = {early, late}
    Forms <- MCForms
    None = None
INVARIANTS
    TypeOK
    BareShiftsAreGone
    WritersReturnTheirEntry
PROPERTIES
    EveryCallReturns
