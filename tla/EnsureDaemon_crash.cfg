CONSTANTS
  Ensurer = {"e1"}
  Daemon = {1, 2}
  Supervised = {1}
  Mortal = {2}
  Stoppable = {1}
  Dropping = {1, 2}
  Foreign = {9}
  Faults = {"agent", "local", "connect", "refused", "verify"}
  Retries = 1
  Rounds = 1
SPECIFICATION RunningSpec
INVARIANTS TypeOK RecordMeansVerified
PROPERTIES Settles
CHECK_DEADLOCK FALSE
