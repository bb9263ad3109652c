\* All four lists are loaded, and two of them (or one twice) refreshed; every
\* load may fail, and answers come in any order.
SPECIFICATION DashboardSpec
CONSTANTS
  none = none
  NoParent = none
  Answers <- SomeAnswers
  PageSize = 2
  MaxLoads = 7
INVARIANTS
  LinkedToLoaded
  PagesShowItems
PROPERTIES
  LinksOnlyRenewed
CHECK_DEADLOCK FALSE
