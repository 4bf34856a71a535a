SPECIFICATION FairSpec
CONSTANTS
    t1 = t1
    t2 = t2
    t3 = t3
    None = None
    Train = {t1, t2, t3}
    Road <- Roads
    Capacity = 2
    Cars <- Rakes
    Spare = 2
    MaxRebuilds = 1
INVARIANTS
    TypeOK
    SparesStandWhereRemembered
    OneMover
PROPERTIES
    EntersEmptyRoad
    OnlyMisledCrossesThroat
    EveryVisitorIsReleased
CHECK_DEADLOCK FALSE
