\* The cooldown enabled, safety and liveness; no symmetry.  A request can come
\* again, so two are enough to overlap the cooldown an earlier one started.
CONSTANTS
  Host = {h1, h2}
  Request = {r1, r2}
  ShouldPostpone = TRUE
SPECIFICATION FairSpec
INVARIANTS TypeOK ErrorBounded SurplusHasDeadline
PROPERTY IdleHostDrains
