CONSTANTS
  HotWindows = 2
  MeasureSec = 2
  TestSec = 2
  SettleSec = 1
  WaitSec = 3
  OutOfSight = 1
  MaxLipsticks = 2
  MaxTouches = 1

SPECIFICATION Spec
VIEW LiveView

INVARIANTS
  TypeOK
  ValidUntouched
  VerdictEarned
  TestNotificationsClosed

PROPERTIES
  
  RunEnds
