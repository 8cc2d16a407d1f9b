CONSTANTS
  Packs <- OnePack
  Files <- TwoFiles
  Loaders = {"l1"}
  Indexers = {"i1"}
  Bounded = TRUE
  MaxSize = 2
SPECIFICATION FairSpec
PROPERTIES IndexingEnds
CHECK_DEADLOCK FALSE
