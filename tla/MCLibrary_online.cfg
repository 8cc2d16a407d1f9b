CONSTANTS
  Found <- MCFound
  Sub = {"sub"}
  Older <- MCOlder
  OnTorrent = {"new"}
  Contents = {"x"}
  Inf = "x"
  Options <- Default
  Cores = 2
  MaxChanges = 1
  MaxCrashes = 0
SPECIFICATION Spec
INVARIANTS OnlineLoaded
CHECK_DEADLOCK FALSE
