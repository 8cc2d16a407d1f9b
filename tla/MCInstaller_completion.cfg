CONSTANTS
  Threads = {"t1"}
  Matches <- MCMatches
  NoMatch = "nomatch"
  Devices <- MCDevices
  Label <- MCLabel
  HwidIndex <- MCHwidIndex
  PackOf <- MCPackOf
  OnTorrent = {}
  UnpackedPacks = {"unpacked"}
  Invalid = {}
  Shown = {"b1", "d1"}
  Lists <- Disk
  Clicks = {}
  MaxClicks = 0
  MaxPasses = 1
  AutoInstall = TRUE
  AutoClose = FALSE
  NoStop = FALSE
  KeepTemp = FALSE
SPECIFICATION Spec
PROPERTIES CompletionAfterInstall
CHECK_DEADLOCK FALSE
