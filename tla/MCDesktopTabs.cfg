SPECIFICATION FairSpec
CONSTANTS
  initial = initial
  t2 = t2
  r1 = r1
  u = u
  ntp = ntp
  blank = blank
  example = example
  NoTabId = NoTabId
  NoUrl = NoUrl
  NoAddress = NoUrl
  TabIds = {initial, t2, r1}
  InitialId = initial
  NumberedId <- OneNumberedId
  Urls = {u, ntp, blank, example}
  PageUrls = {u}
  NewTabUrl = ntp
  PrivateNewTabUrl = blank
  LegacyUrl = example
  MaxClosed = 1
  MaxActivations = 4
  HastyReuse = FALSE
  RestoredId <- MCRestoredId
  EngineCreate <- CefCreate
  EngineClose <- CefClose
  EngineActivate <- CefActivate
  EngineSuspend <- CefSuspend
  EngineResume <- CefResume
  EngineNavigate <- CefNavigate
INVARIANTS  BrowsersAreCounted
PROPERTIES ImplementsCore  WindowCloseQuits
CHECK_DEADLOCK FALSE
