\* One failed call while the resources of an object are made.
CONSTANTS
  n1 = n1
  n2 = n2
  h1 = h1
  h2 = h2
  h3 = h3
  t1 = t1
  t2 = t2
  Name <- MCName
  Host <- MCHost
  Target <- MCTarget
  Replicas <- MCReplicas
  Unset = Unset
  Choices <- PlainChoices
  MaxEdits = 1
  MaxFailures = 1
  MaxRestarts = 0
SPECIFICATION FairSpec
PROPERTY Converges
\* Nothing happens while the objects stay as they are.
CHECK_DEADLOCK FALSE
