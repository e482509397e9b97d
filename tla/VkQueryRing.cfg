CONSTANTS
    t1 = t1
    t2 = t2
    QueryCount = 4
    Threads = {t1, t2}
    Collector = t1
    MaxZones = 3
    MaxDepth = 2
SPECIFICATION FairSpec
INVARIANTS TypeOK ServerAccepts TimelineIsReal
PROPERTIES ImplementsTimestampQueue EveryZoneTimed
