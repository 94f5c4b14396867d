CONSTANTS
  home = home
  work = work
  workSlash = workSlash
  Capabilities = {"Camera", "Microphone"}
  NoName = NoName
  Persistent = {t1, t2}
  Ephemeral = {e1}
  NoTab = NoTab
  Origins = {home, work}
  Spelled <- MCSpelled
  PromptIds = {1}
  MediaIds = {8}
  NoPrompt = 0
  LateRequests = FALSE
SPECIFICATION Spec
INVARIANTS
  PromptsAreSound
  OriginIsCurrent
  RulesSurviveRestart
PROPERTIES
  NothingPrivateIsRemembered
CHECK_DEADLOCK FALSE
