SPECIFICATION EgressSpec
CONSTANTS
  k1 = k1  k2 = k2
  a1 = a1  a2 = a2
  Key = {k1, k2}
  Slot = {k1, k2}
  Hash <- DistinctHash
  Addr = {a1, a2}
  Pid = {1, 2, 3}
  InitPorts = {1, 2}
  MaxEntries = 2
  BufferSize = 2
  HasPlugin = TRUE
  NoEntry = NoEntry
  NoEvent = NoEvent
  NoPort = NoPort
  NoAddr = NoAddr
INVARIANT EntryHeldIsLive
CHECK_DEADLOCK FALSE
