SPECIFICATION WidgetsSpec
CONSTANTS
  Modals = {policy, secret}
  NoModal = NoModal
  MaxLists = 2
  Toggles = {menu, durations}
  MenuItems = 2
INVARIANTS
  DialogsConsistent
  MenusConsistent
PROPERTY
  DialogsSettle
