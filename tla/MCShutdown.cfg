SPECIFICATION FairSpec
CONSTANTS
    Callers = {"main", "other"}
    Requests = {"h1", "h2"}
INVARIANTS UsedIsAlive AcceptedPublishIsHeard TrueMeansGone
PROPERTIES ShutdownReturns
CHECK_DEADLOCK FALSE
