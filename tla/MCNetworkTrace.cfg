CONSTANTS
  r1 = r1
  r2 = r2
  plain = plain
  tracker = tracker
  excused = excused
  denied = denied
  PublicTab = PublicTab
  PrivateTab = PrivateTab
  Capabilities = {"PageNetwork"}
  NoName = NoName
  NoStatus = 0
  NoError = "none"
  NoId = NoId
  MaxEvents = 2
  LogCapacity = 2
  Requests = {r1, r2}
  MainFrame = {r1}
  TabOfRequest <- MCTabOf
  UrlsOf <- MCUrlsOf
  Statuses = {404}
  Pressed = {"Scope", "Status", "Select", "Deselect", "Apply", "Clear", "Close", "Requests", "Decisions"}
  Trackers <- MCTrackers
  Excused <- MCExcused
  Policy <- MCPolicy
  Queries <- MCQueries
  MaxRows = 1
  MaxTasks = 2
  MaxGestures = 4
  ReportsCancelled = TRUE
SPECIFICATION TraceSpec
INVARIANTS
  RowsTellFate
  ViewIsCurrent
PROPERTIES
  RecordingIsWhole
CHECK_DEADLOCK FALSE
