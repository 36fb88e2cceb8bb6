CONSTANTS
  Holder = {1, 2}
  Sweeper = {}
  Address = {"a"}
  Port = {11, 12}
  AddrOf <- OneAddress
  PortsOf <- AnyPort
  Supervised = {1}
  Negotiated = {2}
  Stoppable = {}
  Mortal = {}
  Faults = {"refused", "failed", "lost", "unreached", "wrong", "bringup"}
  Droppable = {"a"}
  MaxBackoff = 1
  RefusalWait = 2
  StaleAfter = 1
  PhaseTicks = 0
  SilentTicks = 0
  Sleeps = TRUE
  MaxCheckIns = 1
SPECIFICATION Spec
INVARIANTS TypeOK RecordsTellTheTruth 
PROPERTIES RefusalKept
