SPECIFICATION Spec
CONSTANTS
  Kinds = {"service", "tracking"}
  MaxCalls = 4
  MaxVersion = 2
  Addresses <- MCAddresses
  NoItem = NoItem
  Null = Null
  Templates = {menu, body, loader}
  Placeholders = {menu, body}
  Roots = {menu, body}
  NoDuration = NoDuration
  DefaultDuration = week
  Durations = {week, month}
INVARIANTS
  PageConsistent
PROPERTIES
  NeverOlder
  ListsComeUp
CHECK_DEADLOCK FALSE
