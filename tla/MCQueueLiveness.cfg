\* Liveness, with an event nobody acts on and a message whose handling throws
\* past the handler: it must not keep the others from being settled.
SPECIFICATION FairSpec
CONSTANTS
  good = good
  text = text
  poison = poison
  event = event
  w1 = w1
  w2 = w2
  Messages = {good, event, poison}
  Workers = {w1, w2}
  None = None
  DoNothing = {event}
  Unreadable = {}
  Poison = {poison}
  MaxNumberProcessingAttempts = 1
  MaxFaults = 1
  DequeueCap = 2
PROPERTIES
  EventuallyRemoved
