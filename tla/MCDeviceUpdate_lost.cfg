CONSTANTS
  Requesters <- MCRequesters
  Requests <- Rescans
  MaxRequests = 1
  MaxHolds = 1
SPECIFICATION FairSpec
PROPERTIES RequestShown
CHECK_DEADLOCK FALSE
