------------------------ MODULE PlaychessifyEngine -------------------------
(***************************************************************************)
(* The oracle-settled chess engine of contracts/playchessifyEngine.clar on *)
(* top of the vault token: two players lock equal wagers in the vault, and *)
(* a resignation, an agreed draw, a cancellation, the settlement oracle or *)
(* the expiry backstop releases them.                                      *)
(*                                                                         *)
(* Every public function is one action whose first parameter is tx-sender. *)
(* player-stats is total here: an absent entry reads as the default tuple, *)
(* so init-player-if-needed changes nothing an observer can see.           *)
(***************************************************************************)
EXTENDS PlaychessifyToken, Elo, FiniteSets

CONSTANTS
  Self,          \* this engine's principal
  NoPlayer,      \* none
  Wagers,        \* wagers create-game is called with
  Oracles,       \* principals the owner may make the oracle
  ExpiryBlocks,  \* EXPIRY-BLOCKS
  MaxGames       \* bound on game-nonce

ASSUME EngineAssumption ==
  /\ Self \in Engines
  /\ NoPlayer \notin Users
  /\ Wagers \subseteq Nat
  /\ Oracles \subseteq Users
  /\ ExpiryBlocks \in Nat
  /\ MaxGames \in Nat

VARIABLES
  gameNonce,  \* game-nonce: the next game id
  oracle,     \* the settlement oracle
  games,      \* the games map
  age,        \* blocks since a game's created-at, saturating at ExpiryBlocks
  stats       \* player-stats

engineVars == <<gameNonce, oracle, games, age, stats>>
vars == <<tokenVars, engineVars>>

Statuses == {"waiting", "active", "finished", "cancelled", "draw"}
Player == Users \cup {NoPlayer}
Game == [white: Users, black: Player, wager: Nat, status: Statuses,
         drawProposer: Player]
Stats == [wins: Nat, losses: Nat, draws: Nat, rating: Nat, gamesPlayed: Nat]
NewPlayer == [wins |-> 0, losses |-> 0, draws |-> 0, rating |-> StartingElo,
              gamesPlayed |-> 0]

GameIds == 0..gameNonce - 1
Playing(id) == {games[id].white, games[id].black}

EngineTypeOK ==
  /\ gameNonce \in 0..MaxGames
  /\ oracle \in Users
  /\ games \in [GameIds -> Game]
  /\ age \in [GameIds -> 0..ExpiryBlocks]
  /\ stats \in [Users -> Stats]

TypeOK == TokenTypeOK /\ EngineTypeOK

Init ==
  /\ TokenInit
  /\ gameNonce = 0
  /\ oracle = Owner
  /\ games = [id \in {} |-> NoPlayer]
  /\ age = [id \in {} |-> 0]
  /\ stats = [u \in Users |-> NewPlayer]

-----------------------------------------------------------------------------
(* Outcomes *)

(* A record s after one more game that adds w wins, l losses and d draws.   *)
Recorded(s, w, l, d, rating) ==
  [wins |-> s.wins + w, losses |-> s.losses + l, draws |-> s.draws + d,
   rating |-> rating, gamesPlayed |-> s.gamesPlayed + 1]

\* mutant
LostUncounted(s, rating) == [s EXCEPT !.losses = @ + 1, !.rating = rating]

Won(s, rating)  == Recorded(s, 1, 0, 0, rating)
Lost(s, rating) == Recorded(s, 0, 1, 0, rating)
Drew(s, rating) == Recorded(s, 0, 0, 1, rating)

(* The token is only called for a positive amount, so a game without a     *)
(* wager closes whether or not the engine is on the allow-list.            *)
Covered(total) == total > 0 => CanRelease(Self, total)

EndGameWithWinner(id, winner, loser) ==
  LET pot == games[id].wager * 2
      w == stats[winner].rating
      l == stats[loser].rating
  IN  /\ Covered(pot)
      /\ games' = [games EXCEPT ![id].status = "finished"]
      /\ balance' = Moved(Vault, winner, pot)
      /\ stats' = [stats EXCEPT ![winner] = Won(@, WinnerRating(w, l)),
                                ![loser] = Lost(@, LoserRating(w, l))]

SplitRefund(id) ==
  LET wager == games[id].wager
  IN  /\ Covered(wager * 2)
      /\ balance' = [balance EXCEPT ![Vault] = @ - wager * 2,
                                    ![games[id].white] = @ + wager,
                                    ![games[id].black] = @ + wager]

EndGameDraw(id) ==
  LET a == games[id].white
      b == games[id].black
  IN  /\ SplitRefund(id)
      /\ games' = [games EXCEPT ![id].status = "draw"]
      /\ stats' = [stats EXCEPT
                     ![a] = Drew(@, DrawRating(stats[a].rating, stats[b].rating)),
                     ![b] = Drew(@, DrawRating(stats[b].rating, stats[a].rating))]

-----------------------------------------------------------------------------
(* Game lifecycle *)

\* mutant
EscrowedUnchecked(u, n) == balance' = Moved(u, Vault, n)

Escrowed(u, n) ==
  /\ n > 0 => CanTransfer(u, Vault, n)
  /\ balance' = Moved(u, Vault, n)

CreateGame(u, n) ==
  /\ gameNonce < MaxGames
  /\ Escrowed(u, n)
  /\ games' = [id \in 0..gameNonce |->
                 IF id = gameNonce
                 THEN [white |-> u, black |-> NoPlayer, wager |-> n,
                       status |-> "waiting", drawProposer |-> NoPlayer]
                 ELSE games[id]]
  /\ age' = [id \in 0..gameNonce |-> IF id = gameNonce THEN 0 ELSE age[id]]
  /\ gameNonce' = gameNonce + 1
  /\ UNCHANGED <<mintEnabled, minter, authorizedGames, sinceClaim, oracle, stats>>

JoinGame(u, id) ==
  /\ games[id].status = "waiting"
  /\ u # games[id].white
  /\ Escrowed(u, games[id].wager)
  /\ games' = [games EXCEPT ![id].black = u, ![id].status = "active"]
  /\ UNCHANGED <<mintEnabled, minter, authorizedGames, sinceClaim,
                 gameNonce, oracle, age, stats>>

\* mutant
AnyPlayer(u, id) ==
  /\ games[id].status \in {"active", "finished", "draw"}
  /\ u \in Playing(id)

ActivePlayer(u, id) ==
  /\ games[id].status = "active"
  /\ u \in Playing(id)

Opponent(u, id) == IF u = games[id].white THEN games[id].black ELSE games[id].white

Resign(u, id) ==
  /\ ActivePlayer(u, id)
  /\ EndGameWithWinner(id, Opponent(u, id), u)
  /\ UNCHANGED <<mintEnabled, minter, authorizedGames, sinceClaim,
                 gameNonce, oracle, age>>

(* The opponent may overwrite a standing offer with one of its own. *)
ProposeDraw(u, id) ==
  /\ ActivePlayer(u, id)
  /\ games[id].drawProposer # u
  /\ games' = [games EXCEPT ![id].drawProposer = u]
  /\ UNCHANGED <<tokenVars, gameNonce, oracle, age, stats>>

\* mutant
AcceptAnyDraw(u, id) ==
  /\ ActivePlayer(u, id)
  /\ games[id].drawProposer # NoPlayer
  /\ EndGameDraw(id)
  /\ UNCHANGED <<mintEnabled, minter, authorizedGames, sinceClaim,
                 gameNonce, oracle, age>>

AcceptDraw(u, id) ==
  /\ ActivePlayer(u, id)
  /\ games[id].drawProposer \notin {NoPlayer, u}
  /\ EndGameDraw(id)
  /\ UNCHANGED <<mintEnabled, minter, authorizedGames, sinceClaim,
                 gameNonce, oracle, age>>

\* mutant
CancelGameAgain(u, id) ==
  /\ games[id].status = "waiting"
  /\ u = games[id].white
  /\ Covered(games[id].wager)
  /\ balance' = Moved(Vault, games[id].white, games[id].wager)
  /\ UNCHANGED <<mintEnabled, minter, authorizedGames, sinceClaim,
                 engineVars>>

CancelGame(u, id) ==
  /\ games[id].status = "waiting"
  /\ u = games[id].white
  /\ Covered(games[id].wager)
  /\ games' = [games EXCEPT ![id].status = "cancelled"]
  /\ balance' = Moved(Vault, games[id].white, games[id].wager)
  /\ UNCHANGED <<mintEnabled, minter, authorizedGames, sinceClaim,
                 gameNonce, oracle, age, stats>>

-----------------------------------------------------------------------------
(* Oracle settlement and its backstop *)

Results == {"white", "black", "draw"}

SettleGame(u, id, result) ==
  /\ u = oracle
  /\ games[id].status = "active"
  /\ \/ result = "white" /\ EndGameWithWinner(id, games[id].white, games[id].black)
     \/ result = "black" /\ EndGameWithWinner(id, games[id].black, games[id].white)
     \/ result = "draw"  /\ EndGameDraw(id)
  /\ UNCHANGED <<mintEnabled, minter, authorizedGames, sinceClaim,
                 gameNonce, oracle, age>>

\* mutant
CanReclaimBefore(id) ==
  /\ games[id].status = "active"
  /\ age[id] < ExpiryBlocks

CanReclaim(id) ==
  /\ games[id].status = "active"
  /\ age[id] >= ExpiryBlocks

ReclaimExpired(u, id) ==
  /\ ActivePlayer(u, id)
  /\ CanReclaim(id)
  /\ SplitRefund(id)
  /\ games' = [games EXCEPT ![id].status = "cancelled"]
  /\ UNCHANGED <<mintEnabled, minter, authorizedGames, sinceClaim,
                 gameNonce, oracle, age, stats>>

SetOracle(u, new) ==
  /\ u = Owner
  /\ oracle' = new
  /\ UNCHANGED <<tokenVars, gameNonce, games, age, stats>>

(* A block is mined. *)
Block ==
  /\ TokenBlock
  /\ age' = [id \in GameIds |-> Aged(age[id], ExpiryBlocks)]
  /\ UNCHANGED <<gameNonce, oracle, games, stats>>

-----------------------------------------------------------------------------
GameOp(u, id) ==
  \/ JoinGame(u, id)
  \/ Resign(u, id)
  \/ ProposeDraw(u, id)
  \/ AcceptDraw(u, id)
  \/ CancelGame(u, id)
  \/ ReclaimExpired(u, id)
  \/ \E result \in Results : SettleGame(u, id, result)

Next ==
  \/ \E u \in Users :
       \/ \E n \in Wagers : CreateGame(u, n)
       \/ \E id \in GameIds : GameOp(u, id)
       \/ \E new \in Oracles : SetOracle(u, new)
  \/ TokenOp /\ UNCHANGED engineVars
  \/ Block

Spec == Init /\ [][Next]_vars

(***************************************************************************)
(* Blocks keep coming, and a player of a game that can be reclaimed sooner *)
(* or later reclaims it.  Nothing is assumed of the oracle.                *)
(***************************************************************************)
Fairness ==
  /\ WF_vars(Block)
  /\ \A id \in 0..MaxGames - 1 :
       WF_vars(id \in GameIds /\ \E u \in Users : ReclaimExpired(u, id))

FairSpec == Spec /\ Fairness

-----------------------------------------------------------------------------
(* What the vault owes for a game. *)
Locked(id) ==
  CASE games[id].status = "waiting" -> games[id].wager
    [] games[id].status = "active"  -> games[id].wager * 2
    [] OTHER -> 0

(* A running total of what the vault owes, game by game, that grows and    *)
(* never exceeds limit.                                                    *)
IsRunningTotal(total, limit) ==
  /\ total[0] = 0
  /\ \A id \in GameIds : total[id + 1] = total[id] + Locked(id)
  /\ \A i, j \in 0..gameNonce : i <= j => total[i] <= total[j]
  /\ total[gameNonce] <= limit

(* The vault always holds at least the sum of the escrow of all games that *)
(* are still waiting or active: no order of creations, payouts, refunds,   *)
(* direct transfers and mints makes one game pay with another's stake, so  *)
(* no gateway-release of an authorized engine fails for lack of funds.     *)
VaultSolvent ==
  \E total \in [0..gameNonce -> 0..balance[Vault]] :
    IsRunningTotal(total, balance[Vault])

(* The records of the players and of the games agree: every decided game   *)
(* has one winner among its two players, and a player's wins are the games *)
(* won, the losses the other decided games played, the draws the drawn     *)
(* games played, and games-played all of them.  So over all players every  *)
(* decided game gave one win and one loss, whatever the order in which     *)
(* games were opened and closed.                                           *)
WithStatus(status) == {id \in GameIds : games[id].status = status}

RecordsFit(winner) ==
  /\ \A id \in WithStatus("finished") : winner[id] \in Playing(id)
  /\ \A u \in Users :
       LET s == stats[u] IN
       /\ s.wins = Cardinality({id \in WithStatus("finished") : winner[id] = u})
       /\ s.losses = Cardinality({id \in WithStatus("finished") : u \in Playing(id) \ {winner[id]}})
       /\ s.draws = Cardinality({id \in WithStatus("draw") : u \in Playing(id)})
       /\ s.gamesPlayed = s.wins + s.losses + s.draws

StatsMatchGames == \E winner \in [WithStatus("finished") -> Users] : RecordsFit(winner)

(* Wins carry a rating up by at most K each, losses down by at most K      *)
(* each, draws by at most K/2 either way.                                  *)
Explained(s) ==
  /\ s.rating >= MinRating
  /\ s.rating <= StartingElo + KFactor * s.wins + 16 * s.draws
  /\ s.rating >= StartingElo - KFactor * s.losses - 16 * s.draws

(* A rating is explained by its owner's record, however the games were     *)
(* interleaved, and it never falls below MIN-RATING.                       *)
RatingExplained == \A u \in Users : Explained(stats[u])

(* The engine implements the escrow promise of WagerEscrow: whatever is    *)
(* staked on a game goes once, in full, and only to the two who staked it, *)
(* and nothing else takes money out of the vault.                          *)
StakeOf(id) ==
  IF id \notin GameIds THEN [phase |-> "unopened"]
  ELSE LET game == games[id] IN
       CASE game.status = "waiting" ->
              [phase |-> "open", first |-> game.white, each |-> game.wager]
         [] game.status = "active" ->
              [phase |-> "matched", first |-> game.white, second |-> game.black,
               each |-> game.wager]
         [] OTHER -> [phase |-> "closed"]

Escrow == INSTANCE WagerEscrow WITH
  Games <- 0..MaxGames - 1,
  purse <- [u \in Users |-> balance[u]],
  held <- balance[Vault],
  stake <- [id \in 0..MaxGames - 1 |-> StakeOf(id)]

ImplementsEscrow == Escrow!EscrowSpec

(* Money is never permanently stuck: if the owner sooner or later leaves   *)
(* the engine on the allow-list for good, every game that becomes active   *)
(* is closed even though the oracle never acts.                            *)
ActiveGame(id) == id \in GameIds /\ games[id].status = "active"

NeverStuck ==
  <>[](Self \in authorizedGames) =>
    \A id \in 0..MaxGames - 1 : ActiveGame(id) ~> ~ActiveGame(id)
=============================================================================
