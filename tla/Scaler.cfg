\* One call at a time, among the first fetch, one by a tick, a ping or a restart,
\* and two changes of the routing table, whose callbacks fetch too.
CONSTANTS
  h1 = h1
  h2 = h2
  Host <- MCHost
  Sizes = {1}
  Call = {c1}
  Refs <- MCRefs
  Tables <- MCTables
  Interceptor = interceptor
  MaxFetches = 1
  MaxUpdates = 2
SPECIFICATION FairSpec
INVARIANT TypeOK
PROPERTIES AnswerWithinSnapshots RoutedNeverFails EveryCallReturns ScalerStops StreamActivates
\* An interceptor may never answer, and the bound on fetches is reached.
CHECK_DEADLOCK FALSE
