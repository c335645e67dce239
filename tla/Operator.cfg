\* Five user operations on two objects, two failed calls, one restart.
CONSTANTS
  n1 = n1
  n2 = n2
  h1 = h1
  h2 = h2
  h3 = h3
  t1 = t1
  t2 = t2
  Name <- MCName
  Host <- MCHost
  Target <- MCTarget
  Replicas <- MCReplicas
  Unset = Unset
  Choices <- PlainChoices
  MaxEdits = 5
  MaxFailures = 2
  MaxRestarts = 1
SPECIFICATION FairSpec
INVARIANTS TypeOK DeletedLeavesNothing
PROPERTY ConvergesAfterKeda
\* Nothing happens while the objects stay as they are.
CHECK_DEADLOCK FALSE
