CONSTANT MaxSignals = 5

SPECIFICATION Spec

PROPERTY
  DisarmedByTimeout
