SPECIFICATION FairSpec
CONSTANTS
  m1 = m1
  m2 = m2
  s1 = s1
  here = here
  there = there
  Listener = {l1}
  Conn = {c1, c2, c3}
  Source = {m1, m2, s1}
  NetOf <- MCNetOf
  Extra = {m2, s1}
  MaxConns = 2
  MaxPerSource = 1
  Fleets <- MCFleets
  Nobody = Nobody
INVARIANTS TypeOK CountsAreTrue ClosedIsEmpty
PROPERTIES CloseEnds RevokedIsCutOff
CHECK_DEADLOCK FALSE
