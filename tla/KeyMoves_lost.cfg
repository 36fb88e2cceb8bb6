CONSTANTS
  owner = owner
  holder = holder
  Run = {owner, holder}
  Jobs <- MCMoves
  Renewer = holder
  Spared = {}
  MaxKey = 5
  MaxLen = 3
SPECIFICATION Spec
INVARIANT RecoveryIsFound
