SPECIFICATION Spec
CONSTANTS
  Programs <- MCPrograms
  MaxFrames = 8
CHECK_DEADLOCK FALSE
INVARIANTS
  TypeOK
  AssertionsHold
  AsWritten
  RefusesIllegal
  StaysInBody
  LeavesNothing
PROPERTY Terminates
