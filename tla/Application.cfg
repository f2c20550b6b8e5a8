SPECIFICATION AppSpec
CONSTANTS
  user = user
  c1 = c1
  c2 = c2
  a1 = a1
  a2 = a2
  n1 = n1
  n2 = n2
  form = form
  marco = marco
  vera = vera
  forks = forks
  fork = fork
  Wallets = {user}
  SponsorCalls = {c1, c2}
  GasRequests <- Requests
  DailyCap = 1
  SponsorDays = 2
  GasFloat = 2
  MaxCount = 2
  StxPlayers = {user}
  StxCalls = {c1, c2}
  CallCap = 1
  StxWindows = 4
  CounterPeriods = 2
  Addresses = {a1, a2}
  Usernames = {n1, n2}
  ProfileCalls = {c1, c2}
  OgLimit = 1
  RecentLimit = 1
  ClaimLimit = 1
  UpdateLimit = 1
  Me = a1
  Submissions = {form}
  Streakers = {user}
  StreakCalls = {c1, c2}
  LastDay = 4
  Coaches = {marco, vera}
  DefaultCoach = marco
  Curriculum <- TwoStepLesson
  Taxonomy <- OneConcept
  PlacementItems <- TwoItems
  EnoughSolved = 2
  TrainCalls = {c1, c2}
  IndexPlayers = {a1, a2}
  Syncs = {c1, c2}
  ScanChunk = 1
  IndexGames = 2
  w1 = w1
  w2 = w2
  b1 = b1
  bd = bd
  both = both
  beat1 = beat1
  beat2 = beat2
  m1 = m1
  m2 = m2
  WhiteMoves = {both}
  BlackMoves = {both, bd}
  DrawingMoves = {bd}
  GamePlies = 3
  MaxPosts = 2
  MaxPolls = 1
  MaxQueue = 3
  TrainMoves = {m1, m2}
  Mates <- TwoMates
  TrainPlies = 4
  Beats = {beat1, beat2}
  PageMoves = 2
  LobbyCalls = {c1, c2}
  LobbyGames = 2
  FirstPurse = 2
  ItemsPerPage = 1
  LobbyWindow = 2
  BotLines <- FourPlies
  MateLines <- LatePlies
  Ordered <- InOrder
  Worth <- BlackLoses
  Infinity = 1000
SYMMETRY CallSymmetry
INVARIANTS
  AppTypeOK
  BudgetKept
  CallCapKept
  NameIsMine
  OgIsScarce
  SuccessIsReal
  StreakIsEarned
  ProgressIsEarned
  CursorCovers
  PhaseFitsBoard
  LossIsOfThisMove
  BoardIsRelays
  ResultsAgree
  BotPlaysBest
  BotGameResumes
  AnswerIsTrue
  StakeIsKnown
  OneCallPerVisit
PROPERTIES
  ProgressKept
  VerdictIsFinal
CHECK_DEADLOCK FALSE
