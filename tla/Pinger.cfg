\* Two fetches of two interceptors that have counted some of two hosts.
CONSTANTS
  Endpoint = {e1, e2}
  Host = {h1, h2}
  MaxDeficit = 1
  MaxCount = 1
  MaxFetches = 2
SPECIFICATION FairSpec
INVARIANTS TypeOK SavedIsSum SuccessLeavesNoGoroutine
PROPERTIES FailureKeepsCounts ImplementsSavedCounts AnsweredFetchReturns
\* An interceptor may never answer, and the bound on fetches is reached.
CHECK_DEADLOCK FALSE
