SPECIFICATION FairSpec
CONSTANTS
    Workers = {w1, w2, w3}
    Caller = caller
    NoTask = noTask
    FrameCount = 5
    SlotCount = 3
    None = none
INVARIANTS
    TypeOK ImagesTrue
PROPERTIES
    ImplementsForkJoin LoadEnds
