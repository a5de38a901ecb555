CONSTANTS
    initialize = initialize
    shutdown = shutdown
    hover = hover
    None = None
    Requests = {initialize, shutdown, hover}
    Initialize = initialize
    Shutdown = shutdown
    Sync <- SyncOnes
    Calls = {"register", "watch"}
SPECIFICATION Spec
INVARIANTS AnsweredOnce NothingMislaid
CHECK_DEADLOCK FALSE
PROPERTIES EveryoneAnswered RunReturns
