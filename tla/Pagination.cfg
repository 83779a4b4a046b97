CONSTANTS
  Times = {1, 2}
  MaxLimit = 2
  MaxRows = 4
  MaxChanges = 2
SPECIFICATION Spec
INVARIANTS TypeOK WalkIsComplete WalkIsOrdered
CHECK_DEADLOCK FALSE
