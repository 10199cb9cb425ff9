\* A role set by hand while a synchronization of the groups waits for its row.
CONSTANTS
  i1 = i1
  SignIns = {i1}
  IdChanges = 3
SPECIFICATION IdSpec
INVARIANT HandAlwaysWins
CHECK_DEADLOCK FALSE
