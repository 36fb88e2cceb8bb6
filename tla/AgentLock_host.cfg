SPECIFICATION Spec
CONSTANTS
  Run = {r1, r2}
  Connect = {c1, c2}
  Root = {c1}
  ByName = {r2}
  Mortal = {r1, c1}
  Marks = {TRUE, FALSE}
  Forgets = TRUE
  Nobody = Nobody
  Elsewhere = Elsewhere
INVARIANTS TypeOK HolderNamesTheRun NobodyHeldByTheDead
PROPERTIES AskedBeforePublished  ReleaseSparesOthers
CHECK_DEADLOCK FALSE
