-------------------------- MODULE MCEngineHistory --------------------------
EXTENDS EngineHistory, TLC

CONSTANTS owner, alice, bob, vault, engine, none

PlayersSymmetry == Permutations({alice, bob})
=============================================================================
