SPECIFICATION Spec
CONSTANTS
  NoDev = NoDev
  b1 = b1
  b2 = b2
  p1 = p1
  s1 = s1
  Bridge <- Bridges
  Default = b1
  Port <- Ports
  System <- SystemPorts
  Speed <- Speeds
  Supported <- Supports
  Advertise <- Advertises
  Faults <- AllFaults
INVARIANTS TypeOK RefCounts OneEventThread CarrierSeen ReadyPort FeaturesSeen
PROPERTIES DeviceKept CarrierFollows
CHECK_DEADLOCK FALSE
