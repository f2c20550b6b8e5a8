SPECIFICATION MCSpec
CONSTANTS
  game = game
  white = white
  black = black
  a = a
  b = b
  p1 = p1
  p2 = p2
  r1 = r1
  r2 = r2
  Games = {game}
  Chains = {"celo", "stacks"}
  White = white
  Black = black
  Players = {white, black}
  Lines <- MCLines
  Mated <- MCMated
  Drawn <- MCDrawn
  Posters = {p1, p2}
  Repairers = {r1, r2}
  MaxNumber = 3
  Imported <- MCCorrupt

INVARIANTS
  SignaturesHold
  TurnsAlternate
PROPERTIES
  HistoryIsLegal
  LineStands
CHECK_DEADLOCK FALSE
