SPECIFICATION FairSpec
CONSTANTS
    t1 = t1
    t2 = t2
    a = a
    b = b
    d = d
    None = None
    Train = {t1, t2}
    Place = {a, b, d}
    Way <- Rails
    Home <- FirstPut
    Terminus <- DeadEnd
    Confirm = 2
    Room = 2
    MaxMishaps = 1
INVARIANTS
    TypeOK
    LearnedIsTravelled
    NobodyExploresUnwatched
    RetainedIsKnown
PROPERTIES
    LearningEnds
