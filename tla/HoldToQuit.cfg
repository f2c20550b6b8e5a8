SPECIFICATION ClientSpec
CONSTANTS
  PageMoves = 3
INVARIANTS
  HeldToCompletion
CHECK_DEADLOCK FALSE
