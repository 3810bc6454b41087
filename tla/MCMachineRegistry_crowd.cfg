CONSTANTS
    Launchers = {l1, l2}
    d1 = d1
    d2 = d2
    d3 = d3
    n1 = n1
    n2 = n2
    Directories = {d1, d2}
    Names = {n1, n2}
    Identities = {i1, i2}
    BaseName <- TwoBaseNames
    Nothing = Nothing
    CommandBudget = 5
    UserBudget = 2
SPECIFICATION Spec
SYMMETRY InterchangeableLaunchers
CHECK_DEADLOCK FALSE
INVARIANT TypeOK
INVARIANT IndexIsValid
PROPERTY NothingIsReplaced
PROPERTY CommittedIsRegistered
