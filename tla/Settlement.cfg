SPECIFICATION MCSpec
CONSTANTS
  game = game
  white = white
  black = black
  a = a
  b = b
  poster = poster
  settler = settler
  cron = cron
  Games = {game}
  Chains = {"celo", "stacks"}
  White = white
  Black = black
  Players = {white, black}
  Lines <- MCLines
  Mated <- MCMated
  Drawn <- MCDrawn
  Posters = {poster}
  Repairers = {}
  MaxNumber = 2
  Imported <- MCNone
  Settlers = {settler}
  Cron = cron
INVARIANTS
  ResultIsEarned
PROPERTIES
  SweptIsSettled
