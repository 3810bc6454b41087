CONSTANTS
    ClickBound = 2
    ChangeBudget = 3
    MishapBudget = 2
SPECIFICATION FairSpec
CHECK_DEADLOCK FALSE
INVARIANT TypeOK
INVARIANT SingleFlight
PROPERTY OldAnswersAreDropped
PROPERTY NothingSentAfterStop
PROPERTY DoneMeansThere
PROPERTY TransfersServedSingly
PROPERTY ClicksAreAnswered
