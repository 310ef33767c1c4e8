CONSTANTS
  ThingCount = 2
  Modulus = 16
  MaxGrowth = 2
  MaxCount = 3

SPECIFICATION RateSpec

INVARIANT
  RateTypeOK

PROPERTIES
  NeverInvented
  ExactWhileTheSame
