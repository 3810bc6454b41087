CONSTANTS
    Procs = {p1, p2}
    Ids = {i1, i2}
    Names = {n1, n2}
    Files = {f1, f2}
    None = None
    CommandBudget = 2
    MishapBudget = 2
SPECIFICATION Spec
SYMMETRY Interchangeable
CHECK_DEADLOCK FALSE
INVARIANT TypeOK
INVARIANT PendingIsRecoverable
INVARIANT EntriesFollowRecords
PROPERTY RenameKeepsTheFile
PROPERTY NothingIsOverwritten
