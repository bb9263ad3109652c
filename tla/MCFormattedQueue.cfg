\* The formatted queue: requests that are carried out or fail, a text that is
\* no request, and a message whose handling throws past the handler.
SPECIFICATION Spec
CONSTANTS
  good = good
  text = text
  poison = poison
  event = event
  w1 = w1
  w2 = w2
  Messages = {good, text}
  Workers = {w1, w2}
  None = None
  DoNothing = {}
  Unreadable = {text}
  Poison = {}
  MaxNumberProcessingAttempts = 2
  MaxFaults = 3
  DequeueCap = 7
INVARIANTS
  TypeOK
  NeverLost
  ArchivedOnlyWhenExhausted
  AttemptsBounded
  SettledOncePerFault
PROPERTIES
  NoRemovalUnderway
  ImplementsDisposal
