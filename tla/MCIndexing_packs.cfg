CONSTANTS
  Packs <- TwoPacks
  Files <- OneFile
  Loaders = {"l1", "l2"}
  Indexers = {"i1", "i2"}
  Bounded = FALSE
  MaxSize = 250
SPECIFICATION FairSpec
INVARIANTS Indexed
PROPERTIES EndsOrStranded
CHECK_DEADLOCK FALSE
