CONSTANTS
  owner = owner
  holder = holder
  Run = {owner, holder}
  Jobs <- MCJobs
  Renewer = holder
  Spared = {"finish", "drop"}
  MaxKey = 5
  MaxLen = 3
SPECIFICATION FairSpec
INVARIANTS TypeOK KeysAreHeld 
  
