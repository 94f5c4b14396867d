SPECIFICATION FairSpec
CONSTANTS
  Drawers = {"Settings", "NetworkLab", "Library"}
  Duration = 3
  MaxPresses = 2
  MaxTicks = 2
INVARIANTS FocusIsSound
PROPERTIES ChromeIsRestored SprintEnds
