SPECIFICATION Spec
CONSTANTS
  s1 = s1
  s2 = s2
  s3 = s3
  Proc = {1, 2, 3}
  Sock = {s1}
  Contain = {c1, c2}
  Release = {r1}
  Scope = {A}
  Inside = Inside
  Top = Top
  None = None
  Device = {}
  Family <- MCFamily
  Privileged = {}
  Mortal = {3}
  Killable = {"thaw", "hold"}
  Careless = FALSE
  Rounds = 3
INVARIANTS TypeOK   TreeIsInside 
CHECK_DEADLOCK FALSE
