SPECIFICATION Spec
CONSTANTS
    fire = fire
    club = club
    Slots = {s1, s2}
    Units = {fire, club}
    MaxCalendars = 2
    Visibilities = {"unit", "custom"}
    ViewerLists <- MCViewerLists
    None = None
INVARIANTS
    TypeOK
    CirclesNeedUnitDeletion
PROPERTIES
    ImplementsRegistry
    EveryCallReturns
