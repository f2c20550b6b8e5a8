---------------------------- MODULE MCContracts ----------------------------
(***************************************************************************)
(* The contracts have nothing in common: one run checks them all, and the  *)
(* one that moves in a behaviour is chosen in its first state.  A          *)
(* behaviour of another contract is unfair to the engine, so what must     *)
(* happen in the end is asked of the engine's behaviours only.             *)
(***************************************************************************)
EXTENDS MCEngineHistory, EloLadder, EvmChess, SorobanChess

CONSTANTS p1, p2, p3, chessGame, zero, escrow

(* The floor, just above it, the start, one cap above and beyond the cap.  *)
MCStartRatings == {100, 101, 117, 1200, 1600, 1625}

MCStakes == {-1, 0, 1}

VARIABLE contract

(* The contract that does not move rests in one of its first states. *)
ContractsInit ==
  /\ contract \in {"engine", "ladder", "evm", "evm-games", "soroban"}
  /\ HInit /\ LadderInit /\ EvmInit /\ SorobanInit
  /\ contract # "engine" => sinceClaim = [u \in Users |-> 0]
  /\ contract # "ladder" => rating = [p \in Players |-> StartingElo]
  /\ contract # "soroban" => \A a \in Addresses : tokens[a] = 1

(* Only the bound on rated games stops the ladder. *)
LadderRests == rated = MaxRated /\ UNCHANGED ladderVars

(* One game with every function of the token, and two games whose players  *)
(* have what they need from the first, without the faucet and the clock.   *)
EvmPart == EvmNext /\ evmGames'[1] = ZeroGame

EvmGamesPart ==
  /\ EvmNext
  /\ <<mintSwitch, tokenMinter, untilClaim, sinceCreated>>' = <<mintSwitch, tokenMinter, untilClaim, sinceCreated>>
  /\ IF nonce > 0 /\ chessGameVars' = chessGameVars THEN balanceOf' = balanceOf ELSE TRUE

ContractsNext ==
  /\ UNCHANGED contract
  /\ \/ contract = "engine" /\ HNext /\ UNCHANGED <<ladderVars, evmVars, sorobanVars>>
     \/ /\ contract = "ladder" /\ (LadderNext \/ LadderRests)
        /\ UNCHANGED <<vars, historyVars, evmVars, sorobanVars>>
     \/ /\ (contract = "evm" /\ EvmPart) \/ (contract = "evm-games" /\ EvmGamesPart)
        /\ UNCHANGED <<vars, historyVars, ladderVars, sorobanVars>>
     \/ contract = "soroban" /\ SorobanNext /\ UNCHANGED <<vars, historyVars, ladderVars, evmVars>>

ContractsSpec ==
  /\ ContractsInit
  /\ [][ContractsNext]_<<contract, vars, historyVars, ladderVars, evmVars, sorobanVars>>
  /\ Fairness
=============================================================================
