CONSTANTS
  Holder = {1, 2}
  Sweeper = {}
  Address = {"a"}
  Port = {11, 12}
  AddrOf <- OneAddress
  PortsOf <- OwnPort
  Supervised = {}
  Negotiated = {}
  Stoppable = {}
  Mortal = {1}
  Faults = {"failed", "unreached"}
  Droppable = {}
  MaxBackoff = 1
  RefusalWait = 1
  StaleAfter = 3
  PhaseTicks = 1
  SilentTicks = 3
  Sleeps = FALSE
  MaxCheckIns = 1
SPECIFICATION FairSpec
PROPERTIES  FightsEnd
