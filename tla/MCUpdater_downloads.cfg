CONSTANTS
  Files = {"p", "q"}
  Pack = "p"
  Modes = {"gui", "auto", "script"}
  Deeds = {"download", "seed", "reset", "install", "stop", "close", "quit", "rescan", "check", "get", "torrent"}
  Budget <- MCBudget
SPECIFICATION FairSpec
INVARIANT GetTruthful
PROPERTIES DeleteEnds PollEnds ScriptEnds
CHECK_DEADLOCK FALSE
