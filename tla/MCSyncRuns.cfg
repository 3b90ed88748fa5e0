SPECIFICATION SyncSpec
CONSTANTS
    t1 = t1
    t2 = t2
    SyncRunIds = {1, 2}
    Issues = {t1, t2}
    Returned <- BacklogThenNothing
    TicketAttempts = 1
    MaxFaults = 2
INVARIANTS SyncTypeOK OneRunInFlight ConcludedMeansSettled
PROPERTY EverySyncRunEnds
CHECK_DEADLOCK FALSE
