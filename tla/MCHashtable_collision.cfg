CONSTANTS
  HWID = {"a", "c", "d"}
  Code <- MCCode
  Slot <- MCSlot
  MaxItems = 2
SPECIFICATION Spec
INVARIANT OwnHits
