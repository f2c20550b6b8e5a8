SPECIFICATION HSpec
CONSTANTS
  owner = owner
  alice = alice
  bob = bob
  vault = vault
  engine = engine
  none = none
  Users = {owner, alice}
  Owner = owner
  Vault = vault
  Engines = {engine}
  Self = engine
  NoPlayer = none
  Amounts = {}
  Minters = {owner}
  Oracles = {owner}
  Wagers = {1}
  FaucetAmount = 1
  FaucetCooldown = 0
  MaxSupply = 2
  ExpiryBlocks = 2
  MaxGames = 1
PROPERTIES
  ReclaimAfterActiveDay
