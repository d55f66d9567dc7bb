SPECIFICATION Spec
CONSTANTS
  b1 = b1  b2 = b2  h1 = h1  h2 = h2  h3 = h3  p1 = p1  p2 = p2  d1 = d1
  NoGroup = NoGroup  NoHost = NoHost
  Bundle = {b1, b2}
  System = {b1}
  Vlan = {10, 20}
  VlanOf <- OwnVlan
  Pid = {p1, p2}
  PidOf <- Port12
  Host = {h1, h2, h3}
  Prefix = {d1}
  N = 3
  CountMod = 4
  Faults = {"enable", "host_add", "route_add", "host_del"}
  Disciplined = TRUE
SYMMETRY HostSymmetry
INVARIANTS
  TypeOK
  CountMatchesHosts
  RoutesLeadToHosts
  RoutingAllOrNothing
