CONSTANTS
  Pid = {1}
  n1 = n1
  n2 = n2
  NoName = NoName
  Name <- MCName
  MaxStart = 2
  MaxJiffies = 2
  MaxSamples = 2

SPECIFICATION Spec

INVARIANTS
  TypeOK
  NeverAnotherName
  NoOverCount

PROPERTIES
  RecordedNeverShrinks
  ImplementsLedger
