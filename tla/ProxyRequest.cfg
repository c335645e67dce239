SPECIFICATION FairSpec
CONSTANTS
  UserNamespaces <- MCUserNamespaces
  Names <- MCNames
  Headers <- MCHeaders
  Targets <- MCTargets
  MaxTries = 2
  MaxRetries = 2
INVARIANTS
  TypeOK
  CountedIsRouted
  LatestAnswerSent
  SleepBounded
PROPERTIES
  AbandonedRequestEnds
