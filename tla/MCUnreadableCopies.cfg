\* One worker, no faults: a text that is no request is archived on every attempt.
SPECIFICATION Spec
CONSTANTS
  good = good
  text = text
  poison = poison
  event = event
  w1 = w1
  w2 = w2
  Messages = {text}
  Workers = {w1}
  None = None
  DoNothing = {}
  Unreadable = {text}
  Poison = {}
  MaxNumberProcessingAttempts = 2
  MaxFaults = 0
  DequeueCap = 4
INVARIANTS
  UnreadableArchivedOnce
