CONSTANTS
  Clients = {c1, c2, c3}
  MaxConnections = 2
  MinBackoff = 1
  MaxBackoff = 2
  Width = 3
  MaxInbox = 1
SPECIFICATION LiveSpec
CHECK_DEADLOCK FALSE
INVARIANTS
  TypeOK PermitsConserved ExitsAfterHandlers
PROPERTIES
  ShutdownCompletes ListenerGivesUp HangUpsFreePermits
