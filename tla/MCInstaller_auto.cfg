CONSTANTS
  Threads = {"t1"}
  Matches <- MCMatches
  NoMatch = "nomatch"
  Devices <- MCDevices
  Label <- MCLabel
  HwidIndex <- MCHwidIndex
  PackOf <- MCPackOf
  OnTorrent = {}
  UnpackedPacks = {"unpacked"}
  Invalid = {}
  Shown = {"b1", "d1"}
  Lists <- Disk
  Clicks = {"toggle", "progress"}
  MaxClicks = 3
  MaxPasses = 0
  AutoInstall = TRUE
  AutoClose = FALSE
  NoStop = FALSE
  KeepTemp = FALSE
SPECIFICATION FairSpec
PROPERTIES NothingForgotten CompletionAfterInstall AutoinstallCompletes InstallEnds StopEnds ScanEnds
CHECK_DEADLOCK FALSE
