SPECIFICATION ContractsSpec
CONSTANTS
  owner = owner
  alice = alice
  bob = bob
  vault = vault
  engine = engine
  none = none
  p1 = p1
  p2 = p2
  p3 = p3
  Players = {p1, p2, p3}
  StartRatings <- MCStartRatings
  MaxRated = 3
  Users = {owner, alice}
  Owner = owner
  Vault = vault
  Engines = {engine}
  Self = engine
  NoPlayer = none
  Amounts = {0, 1}
  Minters = {owner, alice}
  Oracles = {owner, alice}
  Wagers = {0, 1}
  FaucetAmount = 1
  FaucetCooldown = 1
  MaxSupply = 2
  ExpiryBlocks = 1
  MaxGames = 1
  chessGame = chessGame
  escrow = escrow
  zero = zero
  EvmUsers = {p1, p2}
  Deployer = p1
  GameContract = chessGame
  ZeroAddress = zero
  TokenAmounts = {0, 1}
  EvmWagers = {0, 1}
  NewMinters = {p2}
  NewOracles = {p2}
  FAUCET_AMOUNT = 1
  FAUCET_COOLDOWN = 1
  EXPIRY_BLOCKS = 1
  MaxMinted = 2
  EvmGames = 2
  Addresses = {p1, p2}
  EscrowContract = escrow
  FirstTokens = {0, 1}
  Transfers = {1}
  Stakes <- MCStakes
  Timeouts = {0, 1}
  DefaultTimeout = 1
  MaxTicks = 1
  SorobanGames = 1
  MaxMoves = 2
INVARIANTS
  DrawNeedsBoth
  RecordsMatchResults
  DrawnInPosition
  RatingFloor
  UpsetsPayMore
PROPERTIES
  ImplementsEscrow
  NeverStuck
  DrawIsFair
  EvmImplementsEscrow
  SorobanImplementsEscrow
