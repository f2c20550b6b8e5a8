----------------------------- MODULE MCMoveSync -----------------------------
EXTENDS MoveSync

CONSTANTS
  w1, w2, b1, bd,
  both         \* a move that is legal for either side (castling, an exchange)
=============================================================================
