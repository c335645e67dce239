\* An object is created and deleted, and nothing fails.
CONSTANTS
  n1 = n1
  n2 = n2
  h1 = h1
  h2 = h2
  h3 = h3
  t1 = t1
  t2 = t2
  Name <- MCName
  Host <- MCHost
  Target <- MCTarget
  Replicas <- MCReplicas
  Unset = Unset
  Choices <- RenamedChoices
  MaxEdits = 2
  MaxFailures = 0
  MaxRestarts = 0
SPECIFICATION Spec
INVARIANT DeletedLeavesNothing
\* Nothing happens while the objects stay as they are.
CHECK_DEADLOCK FALSE
