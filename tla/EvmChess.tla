------------------------------ MODULE EvmChess ------------------------------
(***************************************************************************)
(* ChessToken.sol and ChessGame.sol, which are deployed on Celo and are    *)
(* the same on Base but for block counts.  The token is a plain ERC20 with *)
(* a faucet; the game contract pulls wagers out of allowances and keeps    *)
(* them in its own balance.                                                *)
(*                                                                         *)
(* Every external function is one action, named as in the source, whose    *)
(* first parameter is msg.sender.  A revert undoes the transaction, so the *)
(* tests of a function are the guard of its action; nonReentrant has       *)
(* nothing to stop, since ChessToken calls nobody back.  A mapping is      *)
(* total, as in Solidity: a game nobody created is all zeros.              *)
(***************************************************************************)
EXTENDS Elo, Functions, FiniteSets

CONSTANTS
  EvmUsers,         \* externally owned and smart accounts
  Deployer,         \* the owner of both contracts
  GameContract,     \* address(this) of ChessGame
  ZeroAddress,      \* address(0)
  TokenAmounts,     \* amounts a token transaction may carry
  EvmWagers,        \* wagers createGame is called with
  NewMinters,       \* accounts the owner may make the minter
  NewOracles,       \* accounts the owner may make the oracle
  FAUCET_AMOUNT,
  FAUCET_COOLDOWN,
  EXPIRY_BLOCKS,
  EvmGames,         \* bound on gameNonce
  MaxMinted         \* bound: no mint may take the total supply above it

ASSUME EvmAssumption ==
  /\ Deployer \in EvmUsers
  /\ GameContract \notin EvmUsers
  /\ ZeroAddress \notin EvmUsers
  /\ TokenAmounts \subseteq Nat /\ EvmWagers \subseteq Nat
  /\ NewMinters \subseteq EvmUsers /\ NewOracles \subseteq EvmUsers
  /\ FAUCET_AMOUNT \in Nat /\ FAUCET_COOLDOWN \in Nat /\ EXPIRY_BLOCKS \in Nat
  /\ EvmGames \in Nat /\ MaxMinted \in Nat

VARIABLES
  balanceOf,    \* ChessToken: the balances of the users and of the game contract
  allowance,    \* ChessToken: what the game contract may take from each user
  mintSwitch,   \* ChessToken: mintEnabled
  tokenMinter,  \* ChessToken: minter
  untilClaim,   \* ChessToken: blocks each user has to wait for the faucet
  nonce,        \* ChessGame: gameNonce
  judge,        \* ChessGame: oracle
  evmGames,     \* ChessGame: games
  sinceCreated, \* ChessGame: blocks since createdAt, saturating at EXPIRY_BLOCKS
  playerStats   \* ChessGame: playerStats

erc20Vars == <<balanceOf, allowance, mintSwitch, tokenMinter, untilClaim>>
chessGameVars == <<nonce, judge, evmGames, sinceCreated, playerStats>>
evmVars == <<erc20Vars, chessGameVars>>

Holders == EvmUsers \cup {GameContract}
Accounts == EvmUsers \cup {ZeroAddress}
EvmIds == 0..EvmGames - 1

EvmGame == [white: Accounts, black: Accounts, wager: Nat,
            status: {"Waiting", "Active", "Finished", "Cancelled", "Draw"},
            result: {"None", "WhiteWins", "BlackWins", "DrawResult", "Cancelled"},
            drawProposer: Accounts]
EvmStats == [wins: Nat, losses: Nat, draws: Nat, rating: Nat, gamesPlayed: Nat]

ZeroGame == [white |-> ZeroAddress, black |-> ZeroAddress, wager |-> 0, status |-> "Waiting",
             result |-> "None", drawProposer |-> ZeroAddress]
ZeroStats == [wins |-> 0, losses |-> 0, draws |-> 0, rating |-> 0, gamesPlayed |-> 0]

EvmTypeOK ==
  /\ balanceOf \in [Holders -> Nat]
  /\ allowance \in [EvmUsers -> Nat]
  /\ mintSwitch \in BOOLEAN
  /\ tokenMinter \in Accounts
  /\ untilClaim \in [EvmUsers -> 0..FAUCET_COOLDOWN]
  /\ nonce \in 0..EvmGames
  /\ judge \in Accounts
  /\ evmGames \in [EvmIds -> EvmGame]
  /\ sinceCreated \in [EvmIds -> 0..EXPIRY_BLOCKS]
  /\ playerStats \in [EvmUsers -> EvmStats]

EvmInit ==
  /\ balanceOf = [h \in Holders |-> 0]
  /\ allowance = [u \in EvmUsers |-> 0]
  /\ mintSwitch = TRUE
  /\ tokenMinter = ZeroAddress
  /\ untilClaim = [u \in EvmUsers |-> 0]
  /\ nonce = 0
  /\ judge = ZeroAddress
  /\ evmGames = [id \in EvmIds |-> ZeroGame]
  /\ sinceCreated = [id \in EvmIds |-> 0]
  /\ playerStats = [u \in EvmUsers |-> ZeroStats]

-----------------------------------------------------------------------------
(* ChessToken *)

CanMintErc20(n) == mintSwitch /\ SumFunction(balanceOf) + n <= MaxMinted

Credited(to, n) == [balanceOf EXCEPT ![to] = @ + n]

(* A transfer of nothing, or to oneself, is allowed. *)
transfer(u, to, n) ==
  /\ balanceOf[u] >= n
  /\ balanceOf' = IF to = u THEN balanceOf ELSE [balanceOf EXCEPT ![u] = @ - n, ![to] = @ + n]
  /\ UNCHANGED <<allowance, mintSwitch, tokenMinter, untilClaim>>

approve(u, n) ==
  /\ allowance' = [allowance EXCEPT ![u] = n]
  /\ UNCHANGED <<balanceOf, mintSwitch, tokenMinter, untilClaim>>

faucetClaim(u) ==
  /\ CanMintErc20(FAUCET_AMOUNT)
  /\ untilClaim[u] = 0
  /\ untilClaim' = [untilClaim EXCEPT ![u] = FAUCET_COOLDOWN]
  /\ balanceOf' = Credited(u, FAUCET_AMOUNT)
  /\ UNCHANGED <<allowance, mintSwitch, tokenMinter>>

mint(u, to, n) ==
  /\ u = Deployer
  /\ n > 0 /\ CanMintErc20(n)
  /\ balanceOf' = Credited(to, n)
  /\ UNCHANGED <<allowance, mintSwitch, tokenMinter, untilClaim>>

(* amounts[h] is what the entries for h add up to; here zero is allowed.   *)
batchMint(u, amounts) ==
  /\ u = Deployer
  /\ CanMintErc20(SumFunction(amounts))
  /\ balanceOf' = [h \in Holders |-> balanceOf[h] + amounts[h]]
  /\ UNCHANGED <<allowance, mintSwitch, tokenMinter, untilClaim>>

setMinter(u, new) ==
  /\ u = Deployer
  /\ tokenMinter' = new
  /\ UNCHANGED <<balanceOf, allowance, mintSwitch, untilClaim>>

mintTo(u, to, n) ==
  /\ u = tokenMinter
  /\ n > 0 /\ CanMintErc20(n)
  /\ balanceOf' = Credited(to, n)
  /\ UNCHANGED <<allowance, mintSwitch, tokenMinter, untilClaim>>

setMintEnabled(u, enabled) ==
  /\ u = Deployer
  /\ mintSwitch' = enabled
  /\ UNCHANGED <<balanceOf, allowance, tokenMinter, untilClaim>>

Erc20Op ==
  \/ \E u \in EvmUsers :
       \/ \E to \in Holders, n \in TokenAmounts : transfer(u, to, n) \/ mint(u, to, n) \/ mintTo(u, to, n)
       \/ \E n \in TokenAmounts : approve(u, n)
       \/ faucetClaim(u)
       \/ \E amounts \in [Holders -> TokenAmounts] : batchMint(u, amounts)
       \/ \E new \in NewMinters : setMinter(u, new)
       \/ \E b \in BOOLEAN : setMintEnabled(u, b)

-----------------------------------------------------------------------------
(* ChessGame: what its functions share *)

(* safeTransferFrom(u, this, n), which is skipped when n is 0. *)
Pull(u, n) ==
  /\ balanceOf[u] >= n /\ allowance[u] >= n
  /\ balanceOf' = [balanceOf EXCEPT ![u] = @ - n, ![GameContract] = @ + n]
  /\ allowance' = [allowance EXCEPT ![u] = @ - n]

\* mutant
EveryoneInitialised(u) ==
  playerStats' = [playerStats EXCEPT ![u] = [ZeroStats EXCEPT !.rating = StartingElo]]

Rated(s, rating) ==
  [wins |-> s.wins, losses |-> s.losses, draws |-> s.draws, rating |-> rating,
   gamesPlayed |-> s.gamesPlayed]

initPlayerIfNeeded(u) ==
  playerStats' = IF playerStats[u].rating = 0
                 THEN [playerStats EXCEPT ![u] = Rated(@, StartingElo)] ELSE playerStats

(* game with another black player, status or result. *)
Updated(game, black, status, result) ==
  [white |-> game.white, black |-> black, wager |-> game.wager, status |-> status,
   result |-> result, drawProposer |-> game.drawProposer]

EvmRecorded(s, w, l, d, rating) ==
  [wins |-> s.wins + w, losses |-> s.losses + l, draws |-> s.draws + d,
   rating |-> rating, gamesPlayed |-> s.gamesPlayed + 1]

endGame(id, result, winner, loser) ==
  LET pot == evmGames[id].wager * 2
      w == playerStats[winner]
      l == playerStats[loser]
  IN  /\ balanceOf[GameContract] >= pot
      /\ evmGames' = [evmGames EXCEPT ![id] = Updated(@, @.black, "Finished", result)]
      /\ balanceOf' = [balanceOf EXCEPT ![GameContract] = @ - pot, ![winner] = @ + pot]
      /\ playerStats' = [playerStats EXCEPT
           ![winner] = EvmRecorded(w, 1, 0, 0, WinnerRating(w.rating, l.rating)),
           ![loser] = EvmRecorded(l, 0, 1, 0, LoserRating(w.rating, l.rating))]

(* Each player gets the wager back. *)
Returned(id) ==
  LET wager == evmGames[id].wager
  IN  /\ balanceOf[GameContract] >= wager * 2
      /\ balanceOf' = [balanceOf EXCEPT ![GameContract] = @ - wager * 2,
                                        ![evmGames[id].white] = @ + wager,
                                        ![evmGames[id].black] = @ + wager]

(* A draw moves no rating. *)
endDraw(id) ==
  /\ Returned(id)
  /\ evmGames' = [evmGames EXCEPT ![id] = Updated(@, @.black, "Draw", "DrawResult")]
  /\ playerStats' = [u \in EvmUsers |->
       IF u \in {evmGames[id].white, evmGames[id].black}
       THEN EvmRecorded(playerStats[u], 0, 0, 1, playerStats[u].rating) ELSE playerStats[u]]

\* mutant
SeatedOnce(u, id) ==
  evmGames[id].status \in {"Active", "Finished"} /\ u \in {evmGames[id].white, evmGames[id].black}

SeatedIn(u, id) == evmGames[id].status = "Active" /\ u \in {evmGames[id].white, evmGames[id].black}

TokenSettings == <<mintSwitch, tokenMinter, untilClaim>>

-----------------------------------------------------------------------------
(* ChessGame: the external functions *)

createGame(u, wager) ==
  /\ nonce < EvmGames
  /\ Pull(u, wager)
  /\ initPlayerIfNeeded(u)
  /\ evmGames' = [evmGames EXCEPT ![nonce] =
       [white |-> u, black |-> ZeroAddress, wager |-> wager, status |-> "Waiting",
        result |-> "None", drawProposer |-> ZeroAddress]]
  /\ sinceCreated' = [sinceCreated EXCEPT ![nonce] = 0]
  /\ nonce' = nonce + 1
  /\ UNCHANGED <<TokenSettings, judge>>

joinGame(u, id) ==
  /\ evmGames[id].white # ZeroAddress
  /\ evmGames[id].status = "Waiting"
  /\ u # evmGames[id].white
  /\ Pull(u, evmGames[id].wager)
  /\ initPlayerIfNeeded(u)
  /\ evmGames' = [evmGames EXCEPT ![id] = Updated(@, u, "Active", @.result)]
  /\ UNCHANGED <<TokenSettings, nonce, judge, sinceCreated>>

resign(u, id) ==
  /\ SeatedIn(u, id)
  /\ IF u = evmGames[id].white
     THEN endGame(id, "BlackWins", evmGames[id].black, u)
     ELSE endGame(id, "WhiteWins", evmGames[id].white, u)
  /\ UNCHANGED <<allowance, TokenSettings, nonce, judge, sinceCreated>>

proposeDraw(u, id) ==
  /\ SeatedIn(u, id)
  /\ evmGames[id].drawProposer # u
  /\ evmGames' = [evmGames EXCEPT ![id].drawProposer = u]
  /\ UNCHANGED <<erc20Vars, nonce, judge, sinceCreated, playerStats>>

acceptDraw(u, id) ==
  /\ SeatedIn(u, id)
  /\ evmGames[id].drawProposer \notin {ZeroAddress, u}
  /\ endDraw(id)
  /\ UNCHANGED <<allowance, TokenSettings, nonce, judge, sinceCreated>>

settleGame(u, id, result) ==
  /\ u = judge
  /\ evmGames[id].status = "Active"
  /\ \/ result = "WhiteWins" /\ endGame(id, result, evmGames[id].white, evmGames[id].black)
     \/ result = "BlackWins" /\ endGame(id, result, evmGames[id].black, evmGames[id].white)
     \/ result = "DrawResult" /\ endDraw(id)
  /\ UNCHANGED <<allowance, TokenSettings, nonce, judge, sinceCreated>>

cancelGame(u, id) ==
  /\ evmGames[id].status = "Waiting"
  /\ u = evmGames[id].white
  /\ balanceOf[GameContract] >= evmGames[id].wager
  /\ balanceOf' = [balanceOf EXCEPT ![GameContract] = @ - evmGames[id].wager,
                                    ![u] = @ + evmGames[id].wager]
  /\ evmGames' = [evmGames EXCEPT ![id] = Updated(@, @.black, "Cancelled", "Cancelled")]
  /\ UNCHANGED <<allowance, TokenSettings, nonce, judge, sinceCreated, playerStats>>

reclaimExpired(u, id) ==
  /\ SeatedIn(u, id)
  /\ sinceCreated[id] >= EXPIRY_BLOCKS
  /\ Returned(id)
  /\ evmGames' = [evmGames EXCEPT ![id] = Updated(@, @.black, "Cancelled", "Cancelled")]
  /\ UNCHANGED <<allowance, TokenSettings, nonce, judge, sinceCreated, playerStats>>

setOracle(u, new) ==
  /\ u = Deployer
  /\ judge' = new
  /\ UNCHANGED <<erc20Vars, nonce, evmGames, sinceCreated, playerStats>>

(* A block is mined: block.number grows by one. *)
EvmBlock ==
  /\ untilClaim' = [u \in EvmUsers |-> IF untilClaim[u] > 0 THEN untilClaim[u] - 1 ELSE 0]
  /\ sinceCreated' = [id \in EvmIds |->
       IF id < nonce /\ sinceCreated[id] < EXPIRY_BLOCKS THEN sinceCreated[id] + 1 ELSE sinceCreated[id]]
  /\ UNCHANGED <<balanceOf, allowance, mintSwitch, tokenMinter, nonce, judge, evmGames, playerStats>>

EvmGameOp(u, id) ==
  \/ joinGame(u, id)
  \/ resign(u, id)
  \/ proposeDraw(u, id)
  \/ acceptDraw(u, id)
  \/ cancelGame(u, id)
  \/ reclaimExpired(u, id)
  \/ \E result \in {"WhiteWins", "BlackWins", "DrawResult"} : settleGame(u, id, result)

EvmNext ==
  \/ \E u \in EvmUsers :
       \/ \E wager \in EvmWagers : createGame(u, wager)
       \/ \E id \in EvmIds : EvmGameOp(u, id)
       \/ \E new \in NewOracles : setOracle(u, new)
  \/ Erc20Op /\ UNCHANGED chessGameVars
  \/ EvmBlock

EvmSpec == EvmInit /\ [][EvmNext]_evmVars

-----------------------------------------------------------------------------
(* Whatever is staked on a game goes once, in full, and only to the two    *)
(* who staked it: the contract's own escrow, without an allow-list,        *)
(* implements the promise of WagerEscrow as the Clarity vault does.        *)
EvmStakeOf(game) ==
  CASE game.white = ZeroAddress -> [phase |-> "unopened"]
    [] game.white # ZeroAddress /\ game.status = "Waiting" ->
         [phase |-> "open", first |-> game.white, each |-> game.wager]
    [] game.white # ZeroAddress /\ game.status = "Active" ->
         [phase |-> "matched", first |-> game.white, second |-> game.black, each |-> game.wager]
    [] OTHER -> [phase |-> "closed"]

EvmEscrow == INSTANCE WagerEscrow WITH
  Users <- EvmUsers,
  Games <- EvmIds,
  purse <- [u \in EvmUsers |-> balanceOf[u]],
  held <- balanceOf[GameContract],
  stake <- [id \in EvmIds |-> EvmStakeOf(evmGames[id])]

EvmImplementsEscrow == EvmEscrow!EscrowSpec

(* The records are the games: every player's wins, losses and draws count  *)
(* the games whose result says so, whatever the order in which games were  *)
(* opened and closed, and no player who has a record starts afresh when    *)
(* another game is created or joined.                                      *)
OfWhite(u, result) == Cardinality({id \in EvmIds : evmGames[id].white = u /\ evmGames[id].result = result})
OfBlack(u, result) == Cardinality({id \in EvmIds : evmGames[id].black = u /\ evmGames[id].result = result})

RecordsMatchResults ==
  \A u \in EvmUsers :
    LET s == playerStats[u] IN
    /\ s.wins = OfWhite(u, "WhiteWins") + OfBlack(u, "BlackWins")
    /\ s.losses = OfWhite(u, "BlackWins") + OfBlack(u, "WhiteWins")
    /\ s.draws = OfWhite(u, "DrawResult") + OfBlack(u, "DrawResult")
    /\ s.gamesPlayed = s.wins + s.losses + s.draws
=============================================================================
