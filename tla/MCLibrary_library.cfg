CONSTANTS
  Found <- MCFound
  Sub = {"sub"}
  Older <- MCOlder
  OnTorrent = {"new"}
  Contents = {"x", "y"}
  Inf = "x"
  Options <- MCOptions
  Cores = 2
  MaxChanges = 1
  MaxCrashes = 1
SPECIFICATION Spec
INVARIANTS Faithful SaveCompletes Noticed
CHECK_DEADLOCK FALSE
