\* The default deployment: no cooldown, with GET /queue beside the middleware.  Three
\* requests on two hosts, so that entries of an answer can come from different moments.
CONSTANTS
  Host = {h1, h2}
  Request = {r1, r2, r3}
  ShouldPostpone = FALSE
SPECIFICATION SpecRead
SYMMETRY Symmetry
INVARIANTS CountExact SteadyRequestReported
PROPERTY ImplementsPendingRequests
