----------------------- MODULE MCPlaychessifyEngine -----------------------
EXTENDS PlaychessifyEngine, TLC

CONSTANTS owner, alice, bob, vault, engine, none

PlayersSymmetry == Permutations({alice, bob})
=============================================================================
