SPECIFICATION Spec
CONSTANTS
  initial = initial
  t1 = t1
  t2 = t2
  p1 = p1
  p2 = p2
  r1 = r1
  u = u
  secret = secret
  ntp = ntp
  blank = blank
  example = example
  NoTabId = NoTabId
  NoUrl = NoUrl
  NoAddress = NoUrl
  TabIds = {initial, t1, t2, p1, p2, r1}
  InitialId = initial
  NumberedId <- MCNumberedId
  PrivateId <- MCPrivateId
  Urls = {u, secret, ntp, blank, example}
  PublicUrls = {u}
  SecretUrls = {secret}
  NewTabUrl = ntp
  PrivateNewTabUrl = blank
  LegacyUrl = example
  MaxClosed = 1
  HastyReuse = FALSE
  MaxActivations = 5
  RestoredId <- MCRestoredId
  EngineCreate <- CefCreate
  EngineClose <- CefClose
  EngineActivate <- CefActivate
  EngineSuspend <- CefSuspend
  EngineResume <- CefResume
  EngineNavigate <- CefNavigate
INVARIANTS ModesAreSeparate NoPrivateTrace SavedSessionIsCurrent
PROPERTIES PersistentTabsAreKept
CHECK_DEADLOCK FALSE
