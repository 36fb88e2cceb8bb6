CONSTANTS
  Holder = {1, 2}
  Sweeper = {"w"}
  Address = {"a"}
  Port = {11, 12}
  AddrOf <- OneAddress
  PortsOf <- AnyPort
  Supervised = {}
  Negotiated = {}
  Stoppable = {2}
  Mortal = {1}
  Faults = {}
  Droppable = {}
  MaxBackoff = 1
  RefusalWait = 1
  StaleAfter = 1
  PhaseTicks = 0
  SilentTicks = 0
  Sleeps = FALSE
  MaxCheckIns = 0
SPECIFICATION SweptSpec
PROPERTIES  IdleIsListedAgain
