SPECIFICATION FairSpec
CONSTANTS
    Place = {in}
    InScope = {in}
    Reader = {t1}
    EventLoop = EventLoop
    Package = {k1, k2}
    MaxRecords = 3
    None = None
INVARIANTS
    AnswersStay
PROPERTIES
    PendingEnds
