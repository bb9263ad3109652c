\* Two drains at a time, two requests that are delivered again and again, also
\* at the same time; failed calls and crashes.
SPECIFICATION Spec
CONSTANTS
  w1 = w1
  w2 = w2
  m1 = m1
  m2 = m2
  Workers = {w1, w2}
  Messages = {m1, m2}
  MaxDeliveries = 3
  MaxFaults = 2
INVARIANTS
  EndsAttributed
  DamageConfined
  OutcomeShown
SYMMETRY Names
