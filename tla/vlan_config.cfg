SPECIFICATION Spec
CONSTANTS
  Port = {1}
  OfpPort <- OfpPortIsPid
  NVid = 3
  Vid = {1, 2}
  Setting <- EveryMode
  Routed = {1}
  MaxFail = 1
  MaxNodes = 2
  Replaces = TRUE
INVARIANTS TypeOK PlainExact NoForeignVlan PendingIsConfigured
