CONSTANTS
  Requesters <- MCRequesters
  Requests <- AnyRequest
  MaxRequests = 2
  MaxHolds = 1
SPECIFICATION FairSpec
INVARIANTS WholeScan NoSleepOnRequest
PROPERTIES DisplaySafe Settles LoaderEnds
CHECK_DEADLOCK FALSE
