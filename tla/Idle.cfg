CONSTANTS
  c1 = c1
  c2 = c2
  c3 = c3
  Client <- MCClient
SPECIFICATION FairSpec
INVARIANTS
  TypeOK
  CountExact
  NeverStuckUnarmed
  ArmedWithClientOnlyByLateReset
PROPERTY IdleShutdown
