SPECIFICATION Spec
CONSTANTS
    ann = ann
    bob = bob
    Entries = {shift}
    Users = {ann, bob}
    UserLists <- MCUserLists
    Batches = {b1}
    Statuses = {"pending", "accepted", "declined"}
    Absentees = {ann}
    None = None
INVARIANT
    RespondedWhenLeavingPending
