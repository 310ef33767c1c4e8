CONSTANT MaxSignals = 5

SPECIFICATION Spec

INVARIANTS
  TypeOK
  StateArrives

PROPERTIES
  TestEnds
