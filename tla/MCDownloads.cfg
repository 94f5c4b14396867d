CONSTANTS
  d1 = d1
  d2 = d2
  home = home
  other = other
  doc = doc
  Ids = {d1, d2}
  Dirs = {home, other}
  Names = {doc}
  MaxCopy = 2
  SubDirs <- MCSubDirs
  NoPath = NoPath
  Picks <- MCPicks
  Present <- MCPresent
  IdOrder <- MCIdOrder
  Handled = {d1}
  Size = 0
  MaxPosted = 1
  MaxCommands = 2
  EarlyPress = FALSE
  Simultaneous = FALSE
SPECIFICATION DownloadsSpec
INVARIANTS
  DownloadsAgree
PROPERTIES
  FinishedFilesAreKept
  CancelStopsDownload
CHECK_DEADLOCK FALSE
