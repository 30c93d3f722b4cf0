SPECIFICATION FairSpec
CONSTANTS
  tab1 = tab1
  tab2 = tab2
  c1 = c1
  c2 = c2
  NoTab = NoTab
  NoToken = NoToken
  Tabs = {tab1, tab2}
  Calls = {c1, c2}
  MaxPairs = 3
  MaxFaults = 1
CHECK_DEADLOCK FALSE
INVARIANTS
  LogoutRevokes
  SessionSurvives
PROPERTIES
  CallsSettle
