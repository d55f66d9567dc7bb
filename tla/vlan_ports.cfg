SPECIFICATION Spec
CONSTANTS
  Port = {1, 5}
  OfpPort <- OfpPortIsPid
  NVid = 2
  Vid = {1}
  Setting <- AccessOrTrunk
  Routed = {}
  MaxFail = 0
  MaxNodes = 8
  Replaces = TRUE
INVARIANTS LookupAgrees PlainExact NoForeignVlan
CHECK_DEADLOCK FALSE
