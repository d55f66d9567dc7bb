SPECIFICATION Spec
CONSTANTS
  g1 = g1  g2 = g2
  Octets = 2
  W = 2
  LenMod = 8
  Text <- Texts
  Group = {g1, g2}
  Faults = {"add"}
SYMMETRY GroupSymmetry
INVARIANTS
  TypeOK
  ForwardsByLongestPrefix
  ShownAsConfigured
