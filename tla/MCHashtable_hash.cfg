CONSTANTS
  HWID = {"a", "b", "c"}
  Code <- MCCode
  Slot <- MCSlot
  MaxItems = 4
SPECIFICATION FairSpec
INVARIANT FindsAll
PROPERTIES ImplementsIndex LookupEnds
