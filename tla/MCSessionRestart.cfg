SPECIFICATION Spec
CONSTANTS
  initial = initial
  tnew = tnew
  r1 = r1
  u = u
  ntp = ntp
  blank = blank
  example = example
  NoTabId = NoTabId
  NoUrl = NoUrl
  NoSnapshot = NoSnapshot
  TabIds <- MCTabIds
  ItemIds <- MCItemIds
  ItemId <- MCItemId
  FocusTabId <- MCFocusTabId
  RestoredId <- MCRestoredId
  Urls = {u, ntp, blank, example}
  NewTabUrl = ntp
  PrivateNewTabUrl = blank
  LegacyUrl = example
  PageUrls = {u}
  Marks = {"Next"}
  InitialId = initial
  NewIds = {tnew}
  MaxClosed = 1
  MaxTabs = 3
  MaxItems = 2
  MaxActivations = 3
  MaxLaunches = 2
  EngineCreate <- ContractCreate
  EngineClose <- ContractClose
  EngineActivate <- ContractActivate
  EngineSuspend <- ContractSuspend
  EngineResume <- ContractResume
  EngineNavigate <- ContractNavigate
INVARIANTS RestartIsSound
PROPERTIES  QueueSurvivesQuit ActivationShowsItem
CHECK_DEADLOCK FALSE
