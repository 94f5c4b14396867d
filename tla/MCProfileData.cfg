SPECIFICATION ProfileSpec
CONSTANTS
  t1 = t1
  t2 = t2
  p = p
  default = default
  work = work
  dark = dark
  light = light
  PublicTabs = {t1, t2}
  FirstTab = t1
  PrivateTab = p
  WorkspaceOf <- MCWorkspaceOf
  Urls = {u1, u2}
  NewTabPage = NewTabPage
  Empty = Empty
  DefaultSearch = duck
  Searches = {other}
  Directories = {d1}
  DefaultDir = d0
  Looks <- MCLooks
  HistoryLimit = 1
  MaxTurns = 6
  MaxPresses = 2
  MaxRuns = 2
  MaxFaults = 1
INVARIANTS ViewsAreCurrent
PROPERTIES PrivateModeKeepsData RestartKeepsData 
CHECK_DEADLOCK FALSE
