CONSTANTS
  Files = {"p", "q"}
  Pack = "p"
  Modes = {"gui"}
  Deeds = {"download", "rescan"}
  Budget <- MCBudget
SPECIFICATION FairSpec
PROPERTY CompletedMeansInstalled
CHECK_DEADLOCK FALSE
