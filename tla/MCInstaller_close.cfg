CONSTANTS
  Threads = {"t1"}
  Matches <- MCMatches
  NoMatch = "nomatch"
  Devices <- MCDevices
  Label <- MCLabel
  HwidIndex <- MCHwidIndex
  PackOf <- MCPackOf
  OnTorrent = {}
  UnpackedPacks = {"unpacked"}
  Invalid = {}
  Shown = {"b1", "d1"}
  Lists <- Disk
  Clicks = {"install", "quit"}
  MaxClicks = 3
  MaxPasses = 0
  AutoInstall = FALSE
  AutoClose = FALSE
  NoStop = FALSE
  KeepTemp = FALSE
SPECIFICATION FairSpec
PROPERTIES StopEnds
CHECK_DEADLOCK FALSE
