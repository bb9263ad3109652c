\* One worker, a cascade of two dependent secrets, failures everywhere.
\* The system rests when no message is left.
SPECIFICATION FairSpec
CONSTANTS
  w1 = w1
  key = key
  login = login
  app = app
  Secrets = {key, login, app}
  Tokens <- Cascade
  Workers = {w1}
  None = None
  MaxVersion = 2
  MaxFaults = 2
INVARIANTS
  NoLostUpdate
PROPERTIES
  NoRegression
  Converges
  CascadeEnds
CHECK_DEADLOCK FALSE
