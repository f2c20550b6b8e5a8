SPECIFICATION IndexSpec
CONSTANTS
  IndexPlayers = {u, v}
  Syncs = {c1, c2}
  ScanChunk = 1
  IndexGames = 2
INVARIANT IndexComplete
CHECK_DEADLOCK FALSE
