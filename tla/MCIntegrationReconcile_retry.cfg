CONSTANTS
    a = a
    b = b
    e1 = e1
    e2 = e2
    mic = mic
    cam = cam
    t1 = t1
    t2 = t2
    Ids = {a, b}
    Ends = {e1, e2}
    Media = {mic, cam}
    Microphone = mic
    Targets = {t1, t2}
    None = None
    Settings <- ThreeSettings
    ChangeBudget = 2
    MishapBudget = 2
SPECIFICATION FairSpec
CHECK_DEADLOCK FALSE
INVARIANT TypeOK
INVARIANT ReadyMeansServed
INVARIANT CaptureFollowsControl
INVARIANT RoutesAreOwned
PROPERTY Converges
