CONSTANTS
  Threads = {"t1"}
  Matches <- MCMatches
  NoMatch = "nomatch"
  Devices <- MCDevices
  Label <- MCLabel
  HwidIndex <- MCHwidIndex
  PackOf <- MCPackOf
  OnTorrent = {}
  UnpackedPacks = {"unpacked"}
  Invalid = {}
  Shown = {"a1", "a2", "b1", "nomatch"}
  Lists <- SmallLayout
  Clicks = {"install", "toggle", "all", "expand", "reload", "scan", "progress"}
  MaxClicks = 4
  MaxPasses = 1
  AutoInstall = FALSE
  AutoClose = FALSE
  NoStop = FALSE
  KeepTemp = FALSE
SPECIFICATION Spec
INVARIANTS NoBadAccess StatusTruthful InstalledAsPicked ActFollowsItem
CHECK_DEADLOCK FALSE
