\* One host, with failed calls, crashes and requests delivered twice.
\* The system rests when every request is settled.
SPECIFICATION FairSpec
CONSTANTS
  r1 = r1
  q1 = q1
  q2 = q2
  q3 = q3
  Requests = {q1, q2, q3}
  Rotators = {r1}
  None = None
  MaxNumberProcessingAttempts = 1
  MaxFaults = 3
INVARIANTS
  AgreedIsLive
  NoOutageWithoutFault
  GracePeriod
  LatestEnabled
PROPERTIES
  OutageEnds
CHECK_DEADLOCK FALSE
