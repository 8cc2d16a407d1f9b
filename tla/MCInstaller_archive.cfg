CONSTANTS
  Threads = {"t1"}
  Matches <- MCMatches
  NoMatch = "nomatch"
  Devices <- MCDevices
  Label <- MCLabel
  HwidIndex <- MCHwidIndex
  PackOf <- MCPackOf
  OnTorrent = {}
  UnpackedPacks = {"unpacked"}
  Invalid = {}
  Shown = {"a1", "a2", "b1", "nomatch"}
  Lists <- SmallLayout
  Clicks = {}
  MaxClicks = 0
  MaxPasses = 0
  AutoInstall = TRUE
  AutoClose = TRUE
  NoStop = FALSE
  KeepTemp = FALSE
SPECIFICATION FairSpec
PROPERTIES AutoinstallCompletes
CHECK_DEADLOCK FALSE
