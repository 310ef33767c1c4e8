CONSTANTS
  r1 = r1
  Row <- MCRow
  View <- MCView
  Interval <- MCInterval
  MaxCommands = 3
  MaxSamples = 1

SPECIFICATION Spec

INVARIANTS
  TypeOK
  SwitchesArrive

PROPERTIES
  HeldStill
  RecordingFed
