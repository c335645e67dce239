\* Four versions of the ConfigMap, one of which cannot be decoded, two pings at a
\* time, two restarts.
CONSTANTS
  h1 = h1
  h2 = h2
  Ping = {p1, p2}
  Host <- MCHost
  Tables <- DamagedTables
  Undecodable = Undecodable
  Room = 2
  MaxRestarts = 2
SPECIFICATION FairSpec
INVARIANT TypeOK
PROPERTIES TableFollowsConfigMap UpdaterEnds
\* The process may be down with its restarts used up.
CHECK_DEADLOCK FALSE
