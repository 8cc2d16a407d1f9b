CONSTANTS
  Files = {"p", "q"}
  Pack = "p"
  Modes = {"auto"}
  Deeds = {}
  Budget <- MCBudget
SPECIFICATION FairSpec
PROPERTY AutoupdateDownloads
CHECK_DEADLOCK FALSE
