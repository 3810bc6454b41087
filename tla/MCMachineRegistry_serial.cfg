CONSTANTS
    Launchers = {l1}
    d1 = d1
    d2 = d2
    d3 = d3
    n1 = n1
    n2 = n2
    Directories = {d1, d2, d3}
    Names = {n1, n2}
    Identities = {i1, i2}
    BaseName <- ThreeBaseNames
    Nothing = Nothing
    CommandBudget = 6
    UserBudget = 3
SPECIFICATION Spec
SYMMETRY InterchangeableIdentities
CHECK_DEADLOCK FALSE
PROPERTY RegistrationsStay
PROPERTY NoSecondCopy
PROPERTY IndexFollowsMachines
