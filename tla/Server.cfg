CONSTANTS
  c1 = c1
  c2 = c2
  c3 = c3
  c4 = c4
  Conn <- MCConn
  Allowed <- MCAllowed
  MaxClients = 2
CHECK_DEADLOCK FALSE
SPECIFICATION FairSpec
INVARIANTS
  TypeOK
  PlacesAccounted
  NoAcceptAfterClose
  SweepMissesOnlyLate
PROPERTIES
  ShutdownCompletes
  SweptSessionsEnd
