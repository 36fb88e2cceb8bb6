CONSTANTS
  Ensurer = {"e1", "e2"}
  Daemon = {1, 2}
  Supervised = {}
  Mortal = {}
  Stoppable = {}
  Dropping = {1}
  Foreign = {}
  Faults = {"verify"}
  Retries = 1
  Rounds = 1
SPECIFICATION Spec
PROPERTIES UpMeansVerified
CHECK_DEADLOCK FALSE
