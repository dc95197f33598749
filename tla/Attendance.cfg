SPECIFICATION Spec
CONSTANTS
    ann = ann
    bob = bob
    Entries = {shift}
    Users = {ann, bob}
    UserLists <- MCUserLists
    Batches = {b1, b2}
    Statuses = {"pending", "accepted"}
    Absentees = {ann}
    None = None
INVARIANT
    TypeOK
PROPERTIES
    BatchKeepsAnswers
    EveryoneInvited
    EveryBatchReturns
