\* Two connections, four calls: transactions can wait for one another, and
\* three heavy queries for one permit.
SPECIFICATION FairPoolSpec
CONSTANTS
  Calls <- FourCalls
  PoolMax = 2
INVARIANTS PoolTypeOK PermitsCounted
PROPERTIES ArrivalOrder EveryCallEnds
