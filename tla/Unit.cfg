SPECIFICATION Spec
CONSTANTS
    t1 = t1
    t2 = t2
    d1 = d1
    fire = fire
    club = club
    a = a
    b = b
    c = c
    blank = blank
    old = old
    new = new
    Slots = {t1, t2}
    Readers = {d1}
    MaxUnits = 2
    Slugs = {fire, club}
    Groups = {a, b, c}
    Blank = blank
    Forms <- MCForms
    None = None
INVARIANTS
    TypeOK
    PagesShowWholeForms
PROPERTIES
    FailuresAreRaces
    ImplementsRegistry
    EveryRequestAnswered
