CONSTANTS
  NodeCount = 2
  Device <- MCDevice
  NoDevice = NoDevice
  MaxKeys = 2
  Buffer = 2
  MaxEvents = 3
  MaxPlugs = 2

SPECIFICATION KeySpec

INVARIANTS
  KeyTypeOK
  TilesStand
  HeardSwitchShows

PROPERTIES
  LitStays
