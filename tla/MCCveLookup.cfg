CONSTANTS
  Query = {q1, q2, known}
  Lookalike = {known}
  Blank = Blank
  c1 = c1
  c2 = c2
  Id <- MCId
  Exploited <- MCExploited
  MaxRequests = 3

SPECIFICATION Spec

INVARIANTS
  TypeOK
  ShownIsAsked
  FlagsFollowCatalogue

PROPERTIES
  SearchEnds
