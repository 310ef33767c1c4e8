CONSTANTS
  Slots = 6
  MaxRequests = 3
  MaxStarts = 2
  MaxCrashes = 1

SPECIFICATION FairSpec

INVARIANTS
  TypeOK
  ReplyIsOwn

PROPERTIES
  HelperKept
  Reconnects
  HelperStops

\* The app closed for good, and the helper with it.
CHECK_DEADLOCK FALSE
