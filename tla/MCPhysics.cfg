SPECIFICATION FairPhysicsSpec
CONSTANTS
    Threads = {t1, t2}
    Ids = {i1}
    MaxObjects = 3
    MaxInits = 2
    None = None
INVARIANTS
    PhysicsTypeOK
    LookupIsLive
    NothingLeaks
    ReleasedOnceWhileUp
PROPERTY
    CallsReturn
CHECK_DEADLOCK FALSE
