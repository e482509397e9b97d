CONSTANTS
    Queries = {0, 1, 2, 3}
SPECIFICATION Spec
INVARIANTS
    TypeOK NoOrphans HandlesLive InFlightObjectsLive CommandBuffersLegal QueriesResetFirst
    ZoneReported NothingLeaks
PROPERTIES ImplementsJob Ends
