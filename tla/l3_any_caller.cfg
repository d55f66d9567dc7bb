SPECIFICATION Spec
CONSTANTS
  b1 = b1  b2 = b2  h1 = h1  h2 = h2  h3 = h3  p1 = p1  p2 = p2  d1 = d1
  NoGroup = NoGroup  NoHost = NoHost
  Bundle = {b1, b2}
  System = {b1, b2}
  Vlan = {10}
  VlanOf <- SharedVlan
  Pid = {p1, p2}
  PidOf <- Port12
  Host = {h1, h2}
  Prefix = {d1}
  N = 2
  CountMod = 3
  Faults = {"disable", "host_add", "route_del"}
  Disciplined = FALSE
SYMMETRY HostSymmetry
INVARIANTS
  ArpUnique
PROPERTIES
  ImplementsPool
