SPECIFICATION Spec
CONSTANTS
  k1 = k1  k2 = k2  k3 = k3
  a1 = a1  a2 = a2  a3 = a3
  Key = {k1, k2}
  Slot = {1, 2}
  Hash <- SlotOf
  Addr = {a1, a2, a3}
  Pid = {1, 2, 3}
  InitPorts = {}
  MaxEntries = 2
  BufferSize = 2
  HasPlugin = TRUE
  NoEntry = NoEntry
  NoEvent = NoEvent
  NoPort = NoPort
INVARIANT NoAbort
CHECK_DEADLOCK FALSE
