SPECIFICATION FairSpec
CONSTANTS
  Port = {p1, p2}
  MaxFd = 2
  MaxPending = 2
  Faults = {"create", "eintr"}
  NoPort = NoPort
  NoCmd = NoCmd
INVARIANTS
  TypeOK
  ListenersMirror
  StaleEntryAnnounced
  StopsOnlyAfterFailure
PROPERTY NewInterfaceServed
