SPECIFICATION Spec
CONSTANTS
  a = a
  b = b
  r1 = r1
  u = u
  v = v
  ntp = ntp
  blank = blank
  example = example
  NoTabId = NoTabId
  NoUrl = NoUrl
  TabIds = {a, b, r1}
  CallerIds = {a, b}
  Urls = {u, v, ntp, blank, example}
  PageUrls = {u, v}
  NewTabUrl = ntp
  PrivateNewTabUrl = blank
  LegacyUrl = example
  PageTitles = {"page"}
  PrivacyModes = {FALSE}
  MaxClosed = 2
  MaxActivations = 3
  RestoredId <- MCRestoredId
  EngineInit <- MCEngineInit
  EngineCreate <- ContractCreate
  EngineClose <- ContractClose
  EngineActivate <- ContractActivate
  EngineSuspend <- ContractSuspend
  EngineResume <- ContractResume
  EngineNavigate <- ContractNavigate
INVARIANTS SessionIsSound EngineInSync
PROPERTIES CloseHandsOver DiscardedIsFrozen ReopenUndoesLastClose
SYMMETRY MCSymmetry
CONSTRAINT MCFewBusyTabs
CHECK_DEADLOCK FALSE
