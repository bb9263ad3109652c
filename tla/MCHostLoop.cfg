\* Events that arrive again and again at any time, requests that feed one another
\* for ever, two deliveries of each message, one failed call of the queue, and a
\* cancellation at any time.
SPECIFICATION FairSpec
CONSTANTS
  nearExpiry = nearExpiry
  newVersion = newVersion
  rotate = rotate
  schedule = schedule
  update = update
  Messages = {nearExpiry, newVersion, rotate, schedule, update}
  Events = {nearExpiry, newVersion}
  Sends <- MCSends
  MaxDeliveries = 2
  MaxFaults = 1
INVARIANTS
  OneDrainPerQueue
PROPERTIES
  EventsNotStarved
  StopsWhenCancelled
CHECK_DEADLOCK FALSE
