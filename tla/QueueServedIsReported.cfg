CONSTANTS
  Host = {h1}
  Request = {r1, r2}
  ShouldPostpone = TRUE
SPECIFICATION Spec
INVARIANT ServedIsReported
