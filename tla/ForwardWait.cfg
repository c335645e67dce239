\* Two requests that share the broadcaster, two deployments, two updates: a
\* deployment becomes ready and unready, and a filter drops events.  No symmetry.
CONSTANTS
  Request = {q1, q2}
  Deployment = {d1, d2}
  MaxReady = 1
  MaxUpdates = 2
SPECIFICATION FairSpec
INVARIANTS TypeOK WakeupOnItsWay
PROPERTY EveryWaitEnds
\* The process is idle when no client sends anything.
CHECK_DEADLOCK FALSE
