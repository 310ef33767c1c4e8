CONSTANTS
  manager = manager
  p1 = p1
  Manager = manager
  Process <- MCProcess
  Listings <- MCListings
  ServedBy <- MCServedBy
  MaxCalls = 1
  MaxDue = 1

SPECIFICATION Spec

INVARIANT
  PingIsProof
