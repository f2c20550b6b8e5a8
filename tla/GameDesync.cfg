SPECIFICATION FairSyncSpec
CONSTANTS
  w1 = w1
  w2 = w2
  b1 = b1
  bd = bd
  both = both
  WhiteMoves = {w1, w2}
  BlackMoves = {b1, bd}
  DrawingMoves = {bd}
  GamePlies = 3
  MaxPosts = 1
  MaxPolls = 1
PROPERTIES
  PollResyncs
CHECK_DEADLOCK FALSE
