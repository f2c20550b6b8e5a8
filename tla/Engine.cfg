SPECIFICATION Spec
CONSTANTS
  owner = owner
  alice = alice
  bob = bob
  vault = vault
  engine = engine
  none = none
  Users = {owner, alice, bob}
  Owner = owner
  Vault = vault
  Engines = {engine}
  Self = engine
  NoPlayer = none
  Amounts = {}
  Minters = {owner}
  Oracles = {owner}
  Wagers = {0, 1}
  FaucetAmount = 1
  FaucetCooldown = 0
  MaxSupply = 3
  ExpiryBlocks = 1
  MaxGames = 2
SYMMETRY PlayersSymmetry
INVARIANTS
  TypeOK
  VaultSolvent
  StatsMatchGames
  RatingExplained
