CONSTANTS
  Threads = {"t1", "t2"}
  Matches <- MCMatches
  NoMatch = "nomatch"
  Devices <- MCDevices
  Label <- MCLabel
  HwidIndex <- MCHwidIndex
  PackOf <- MCPackOf
  OnTorrent = {"archive"}
  UnpackedPacks = {"unpacked"}
  Invalid = {"a2"}
  Shown = {"a1", "a2", "b1", "nomatch"}
  Lists <- Layouts
  Clicks = {"install", "all", "extract", "progress", "restore", "toggle", "none", "quit", "expand", "reboot"}
  MaxClicks = 2
  MaxPasses = 1
  AutoInstall = FALSE
  AutoClose = FALSE
  NoStop = FALSE
  KeepTemp = FALSE
SPECIFICATION Spec
INVARIANTS TypeOK LockOwner ItembarFresh SelectionInstallable SelectionExclusive
PROPERTIES KeepSelection
CHECK_DEADLOCK FALSE
