--------------------------- MODULE ContractProofs ---------------------------
(***************************************************************************)
(* ChessGame.sol and the Soroban contract implement the escrow of          *)
(* WagerEscrow, for any accounts, wagers, amounts, timeouts and number of  *)
(* games.  The records of ChessGame.sol count its games, and the Soroban   *)
(* contract draws only what both players agreed to in the position on the  *)
(* board.                                                                  *)
(***************************************************************************)
EXTENDS EvmChess, SorobanChess, EloProofs, FiniteSetTheorems, TLAPS

(* A game whose number has not been given out is all zeros, and in an      *)
(* active game two different accounts are seated.                          *)
EvmFresh == \A id \in EvmIds : id >= nonce => evmGames[id] = ZeroGame

EvmSeated ==
  \A id \in EvmIds :
    /\ evmGames[id].status = "Active" =>
         /\ evmGames[id].white \in EvmUsers
         /\ evmGames[id].black \in EvmUsers \ {evmGames[id].white}
    /\ evmGames[id].white = ZeroAddress => evmGames[id].status = "Waiting"

EvmInv == EvmTypeOK /\ EvmFresh /\ EvmSeated

(* The escrow as the refinement sees it. *)
EvmPurse == [u \in EvmUsers |-> balanceOf[u]]
EvmHeld == balanceOf[GameContract]
EvmStakesHeld == [id \in EvmIds |-> EvmStakeOf(evmGames[id])]

-----------------------------------------------------------------------------
(* What the pieces of a transaction do *)

LEMMA HoldersFacts ==
  /\ EvmUsers \subseteq Holders /\ GameContract \in Holders /\ GameContract \notin EvmUsers
  /\ EvmUsers \subseteq Accounts /\ ZeroAddress \in Accounts /\ ZeroAddress \notin EvmUsers
  /\ TokenAmounts \subseteq Nat /\ EvmWagers \subseteq Nat
  /\ Deployer \in EvmUsers
BY EvmAssumption DEF Holders, Accounts

LEMMA PullEffect ==
  ASSUME EvmTypeOK, NEW u \in EvmUsers, NEW n \in Nat, Pull(u, n)
  PROVE  /\ balanceOf' \in [Holders -> Nat] /\ allowance' \in [EvmUsers -> Nat]
         /\ EvmPurse[u] >= n
         /\ EvmPurse' = [EvmPurse EXCEPT ![u] = @ - n]
         /\ EvmHeld' = EvmHeld + n
<1>1. /\ balanceOf \in [Holders -> Nat] /\ allowance \in [EvmUsers -> Nat]
      /\ balanceOf[u] >= n /\ allowance[u] >= n
      /\ balanceOf' = [balanceOf EXCEPT ![u] = @ - n, ![GameContract] = @ + n]
      /\ allowance' = [allowance EXCEPT ![u] = @ - n]
  BY DEF EvmTypeOK, Pull
<1>2. u \in Holders /\ u # GameContract /\ GameContract \in Holders /\ EvmUsers \subseteq Holders
  BY HoldersFacts
<1>3. balanceOf' \in [Holders -> Nat] /\ allowance' \in [EvmUsers -> Nat]
  BY <1>1, <1>2
<1>4. balanceOf'[GameContract] = balanceOf[GameContract] + n
  BY <1>1, <1>2
<1>5. \A v \in EvmUsers : balanceOf'[v] = IF v = u THEN balanceOf[v] - n ELSE balanceOf[v]
  BY <1>1, <1>2, HoldersFacts
<1>6. EvmPurse' = [EvmPurse EXCEPT ![u] = @ - n]
  BY <1>5 DEF EvmPurse
<1> QED  BY <1>1, <1>3, <1>4, <1>6 DEF EvmPurse, EvmHeld

LEMMA InitPlayerType ==
  ASSUME EvmTypeOK, NEW u \in EvmUsers, initPlayerIfNeeded(u)
  PROVE  playerStats' \in [EvmUsers -> EvmStats]
<1>1. playerStats \in [EvmUsers -> EvmStats]  BY DEF EvmTypeOK
<1>2. Rated(playerStats[u], StartingElo) \in EvmStats
  BY <1>1 DEF Rated, EvmStats, StartingElo
<1> QED  BY <1>1, <1>2 DEF initPlayerIfNeeded

LEMMA RecordedType ==
  ASSUME NEW s \in EvmStats, NEW w \in 0..1, NEW l \in 0..1, NEW d \in 0..1, NEW r \in Nat
  PROVE  EvmRecorded(s, w, l, d, r) \in EvmStats
BY DEF EvmRecorded, EvmStats

LEMMA UpdatedType ==
  ASSUME NEW game \in EvmGame, NEW black \in Accounts,
         NEW status \in {"Waiting", "Active", "Finished", "Cancelled", "Draw"},
         NEW result \in {"None", "WhiteWins", "BlackWins", "DrawResult", "Cancelled"}
  PROVE  /\ Updated(game, black, status, result) \in EvmGame
         /\ Updated(game, black, status, result).white = game.white
         /\ Updated(game, black, status, result).black = black
         /\ Updated(game, black, status, result).wager = game.wager
         /\ Updated(game, black, status, result).status = status
BY DEF Updated, EvmGame

(* How the escrow sees one game change while the others stay. *)
LEMMA StakeChange ==
  ASSUME EvmTypeOK, NEW id \in EvmIds, NEW game,
         evmGames' = [evmGames EXCEPT ![id] = game]
  PROVE  EvmStakesHeld' = [EvmStakesHeld EXCEPT ![id] = EvmStakeOf(game)]
<1>1. /\ evmGames'[id] = game
      /\ \A i \in EvmIds \ {id} : evmGames'[i] = evmGames[i]
  BY DEF EvmTypeOK
<1>2. \A i \in EvmIds : EvmStakeOf(evmGames'[i]) = (IF i = id THEN EvmStakeOf(game) ELSE EvmStakeOf(evmGames[i]))
  BY <1>1
<1>3. EvmStakesHeld' = [i \in EvmIds |-> EvmStakeOf(evmGames'[i])]
  BY DEF EvmStakesHeld, EvmStakeOf
<1> QED  BY <1>2, <1>3 DEF EvmStakesHeld

(* One game that has a number changes; the players it seats stay seated.    *)
LEMMA GamesKept ==
  ASSUME EvmInv, NEW id \in EvmIds, id < nonce, nonce' = nonce, NEW game \in EvmGame,
         evmGames' = [evmGames EXCEPT ![id] = game],
         game.white = evmGames[id].white, game.white # ZeroAddress,
         game.status = "Active" => game.black \in EvmUsers \ {game.white}
  PROVE  evmGames' \in [EvmIds -> EvmGame] /\ EvmFresh' /\ EvmSeated'
<1>1. evmGames \in [EvmIds -> EvmGame] /\ nonce \in Nat /\ EvmFresh /\ EvmSeated
  BY DEF EvmInv, EvmTypeOK
<1>2. evmGames' \in [EvmIds -> EvmGame]
  BY <1>1
<1>3. \A i \in EvmIds : evmGames'[i] = IF i = id THEN game ELSE evmGames[i]
  BY <1>1
<1>4. EvmFresh'
  BY <1>1, <1>3 DEF EvmFresh, EvmIds
<1>5. game.white \in EvmUsers
  BY DEF EvmGame, Accounts
<1>6. EvmSeated'
  BY <1>1, <1>3, <1>5 DEF EvmSeated
<1> QED  BY <1>2, <1>4, <1>6

(* A game that is not all zeros has a number and a first player.            *)
LEMMA Numbered ==
  ASSUME EvmInv, NEW id \in EvmIds, evmGames[id].white # ZeroAddress
  PROVE  /\ id < nonce /\ nonce \in Nat /\ id \in Nat
         /\ evmGames[id] \in EvmGame /\ evmGames[id].white \in EvmUsers
         /\ evmGames[id].wager \in Nat
         /\ EvmStakeOf(evmGames[id]) = EvmStakesHeld[id]
<1>1. ZeroGame.white = ZeroAddress  BY DEF ZeroGame
<1>2. ~(id >= nonce)  BY <1>1 DEF EvmInv, EvmFresh
<1>3. id \in Nat /\ nonce \in Nat  BY EvmAssumption DEF EvmIds, EvmInv, EvmTypeOK
<1>4. evmGames[id] \in EvmGame  BY DEF EvmInv, EvmTypeOK
<1>5. evmGames[id].white \in EvmUsers /\ evmGames[id].wager \in Nat
  BY <1>4 DEF EvmGame, Accounts
<1> QED  BY <1>2, <1>3, <1>4, <1>5 DEF EvmStakesHeld

LEMMA ActiveGame ==
  ASSUME EvmInv, NEW id \in EvmIds, evmGames[id].status = "Active"
  PROVE  /\ evmGames[id].white \in EvmUsers /\ evmGames[id].white # ZeroAddress
         /\ evmGames[id].black \in EvmUsers /\ evmGames[id].black # evmGames[id].white
         /\ EvmStakesHeld[id] = [phase |-> "matched", first |-> evmGames[id].white,
                              second |-> evmGames[id].black, each |-> evmGames[id].wager]
<1>1. /\ evmGames[id].white \in EvmUsers /\ evmGames[id].black \in EvmUsers
      /\ evmGames[id].black # evmGames[id].white /\ evmGames[id].white # ZeroAddress
  BY HoldersFacts DEF EvmInv, EvmSeated
<1> QED  BY <1>1 DEF EvmStakesHeld, EvmStakeOf

(* Money that leaves the contract for one account, or for two.              *)
LEMMA EvmPaidOne ==
  ASSUME EvmTypeOK, NEW u \in EvmUsers, NEW n \in Nat, EvmHeld >= n,
         balanceOf' = [balanceOf EXCEPT ![GameContract] = @ - n, ![u] = @ + n]
  PROVE  /\ balanceOf' \in [Holders -> Nat]
         /\ EvmPurse' = [EvmPurse EXCEPT ![u] = @ + n]
         /\ EvmHeld' = EvmHeld - n
<1>1. balanceOf \in [Holders -> Nat]  BY DEF EvmTypeOK
<1>2. u \in Holders /\ u # GameContract /\ GameContract \in Holders /\ EvmUsers \subseteq Holders
  BY HoldersFacts
<1>3. balanceOf' \in [Holders -> Nat] /\ balanceOf'[GameContract] = balanceOf[GameContract] - n
  BY <1>1, <1>2 DEF EvmHeld
<1>4. \A v \in EvmUsers : balanceOf'[v] = IF v = u THEN balanceOf[v] + n ELSE balanceOf[v]
  BY <1>1, <1>2, HoldersFacts
<1>5. EvmPurse' = [EvmPurse EXCEPT ![u] = @ + n]
  BY <1>4 DEF EvmPurse
<1> QED  BY <1>3, <1>5 DEF EvmHeld

LEMMA EvmPaidTwo ==
  ASSUME EvmTypeOK, NEW a \in EvmUsers, NEW b \in EvmUsers, a # b, NEW n \in Nat, EvmHeld >= n * 2,
         balanceOf' = [balanceOf EXCEPT ![GameContract] = @ - n * 2, ![a] = @ + n, ![b] = @ + n]
  PROVE  /\ balanceOf' \in [Holders -> Nat]
         /\ EvmPurse' = [EvmPurse EXCEPT ![a] = @ + n, ![b] = @ + n]
         /\ EvmHeld' = EvmHeld - n * 2
<1>1. balanceOf \in [Holders -> Nat]  BY DEF EvmTypeOK
<1>2. /\ a \in Holders /\ b \in Holders /\ a # GameContract /\ b # GameContract
      /\ GameContract \in Holders /\ EvmUsers \subseteq Holders
  BY HoldersFacts
<1>3. balanceOf' \in [Holders -> Nat] /\ balanceOf'[GameContract] = balanceOf[GameContract] - n * 2
  BY <1>1, <1>2 DEF EvmHeld
<1>4. \A v \in EvmUsers : balanceOf'[v] = IF v \in {a, b} THEN balanceOf[v] + n ELSE balanceOf[v]
  BY <1>1, <1>2, HoldersFacts
<1>5. EvmPurse' = [EvmPurse EXCEPT ![a] = @ + n, ![b] = @ + n]
  BY <1>4 DEF EvmPurse
<1> QED  BY <1>3, <1>5 DEF EvmHeld

-----------------------------------------------------------------------------
(* The actions, each with the invariant it keeps and the escrow step it is. *)

LEMMA EvmCreateStep ==
  ASSUME EvmInv, NEW u \in EvmUsers, NEW wager \in EvmWagers, createGame(u, wager)
  PROVE  EvmInv' /\ EvmEscrow!Open(nonce, u, wager) /\ nonce \in EvmIds /\ wager \in 0..EvmPurse[u]
<1> DEFINE game == [white |-> u, black |-> ZeroAddress, wager |-> wager, status |-> "Waiting",
                    result |-> "None", drawProposer |-> ZeroAddress]
<1>1. wager \in Nat /\ nonce \in Nat /\ nonce \in EvmIds /\ nonce + 1 \in 0..EvmGames
  BY HoldersFacts, EvmAssumption DEF createGame, EvmInv, EvmTypeOK, EvmIds
<1>2. /\ balanceOf' \in [Holders -> Nat] /\ allowance' \in [EvmUsers -> Nat]
      /\ EvmPurse[u] >= wager
      /\ EvmPurse' = [EvmPurse EXCEPT ![u] = @ - wager]
      /\ EvmHeld' = EvmHeld + wager
  BY <1>1, PullEffect DEF createGame, EvmInv
<1>3. playerStats' \in [EvmUsers -> EvmStats]
  BY InitPlayerType DEF createGame, EvmInv
<1>4. game \in EvmGame /\ game.white = u /\ game.status = "Waiting"
  BY <1>1, HoldersFacts DEF EvmGame
<1>5. evmGames' = [evmGames EXCEPT ![nonce] = game] /\ nonce' = nonce + 1
  BY DEF createGame
<1>6. EvmStakeOf(game) = [phase |-> "open", first |-> u, each |-> wager]
  BY HoldersFacts DEF EvmStakeOf
<1>7. EvmStakesHeld[nonce] = [phase |-> "unopened"]
  <2>1. evmGames[nonce] = ZeroGame  BY <1>1 DEF EvmInv, EvmFresh
  <2> QED  BY <1>1, <2>1 DEF EvmStakesHeld, EvmStakeOf, ZeroGame
<1> HIDE DEF game
<1>8. evmGames \in [EvmIds -> EvmGame] /\ EvmFresh /\ EvmSeated  BY DEF EvmInv, EvmTypeOK
<1>9. \A i \in EvmIds : evmGames'[i] = IF i = nonce THEN game ELSE evmGames[i]
  BY <1>1, <1>5, <1>8
<1>10. evmGames' \in [EvmIds -> EvmGame]  BY <1>1, <1>4, <1>5, <1>8
<1>11. EvmFresh'  BY <1>1, <1>5, <1>8, <1>9 DEF EvmFresh, EvmIds
<1>12. EvmSeated'  BY <1>4, <1>8, <1>9, HoldersFacts DEF EvmSeated
<1>13. sinceCreated' \in [EvmIds -> 0..EXPIRY_BLOCKS]
  BY <1>1, EvmAssumption DEF createGame, EvmInv, EvmTypeOK
<1>14. EvmTypeOK'
  BY <1>1, <1>2, <1>3, <1>5, <1>10, <1>13 DEF EvmTypeOK, EvmInv, createGame, TokenSettings
<1>15. EvmStakesHeld' = [EvmStakesHeld EXCEPT ![nonce] = EvmStakeOf(game)]
  BY <1>1, <1>5, StakeChange DEF EvmInv
<1>16. EvmEscrow!Open(nonce, u, wager)
  BY <1>2, <1>6, <1>7, <1>15 DEF EvmEscrow!Open, EvmEscrow!Unopened, EvmPurse, EvmHeld, EvmStakesHeld
<1>17. EvmPurse[u] \in Nat
  BY HoldersFacts DEF EvmPurse, EvmInv, EvmTypeOK
<1> QED  BY <1>1, <1>2, <1>11, <1>12, <1>14, <1>16, <1>17 DEF EvmInv

LEMMA EvmJoinStep ==
  ASSUME EvmInv, NEW u \in EvmUsers, NEW id \in EvmIds, joinGame(u, id)
  PROVE  EvmInv' /\ EvmEscrow!Match(id, u)
<1> DEFINE old == evmGames[id]
           game == Updated(old, u, "Active", old.result)
<1>1. /\ id < nonce /\ old \in EvmGame /\ old.white \in EvmUsers /\ old.wager \in Nat
      /\ EvmStakeOf(old) = EvmStakesHeld[id] /\ old.white # ZeroAddress
      /\ old.status = "Waiting" /\ u # old.white
  BY Numbered DEF joinGame
<1>2. /\ balanceOf' \in [Holders -> Nat] /\ allowance' \in [EvmUsers -> Nat]
      /\ EvmPurse[u] >= old.wager
      /\ EvmPurse' = [EvmPurse EXCEPT ![u] = @ - old.wager]
      /\ EvmHeld' = EvmHeld + old.wager
  BY <1>1, PullEffect DEF joinGame, EvmInv
<1>3. playerStats' \in [EvmUsers -> EvmStats]
  BY InitPlayerType DEF joinGame, EvmInv
<1>4. /\ game \in EvmGame /\ game.white = old.white /\ game.black = u
      /\ game.wager = old.wager /\ game.status = "Active"
  BY <1>1, HoldersFacts, UpdatedType DEF EvmGame
<1>5. evmGames' = [evmGames EXCEPT ![id] = game] /\ nonce' = nonce
  BY DEF joinGame
<1>6. EvmStakeOf(game) = [phase |-> "matched", first |-> old.white, second |-> u, each |-> old.wager]
  BY <1>1, <1>4 DEF EvmStakeOf
<1>7. EvmStakeOf(old) = [phase |-> "open", first |-> old.white, each |-> old.wager]
  BY <1>1 DEF EvmStakeOf
<1> HIDE DEF game, old
<1>8. evmGames' \in [EvmIds -> EvmGame] /\ EvmFresh' /\ EvmSeated'
  BY <1>1, <1>4, <1>5, GamesKept DEF old
<1>9. EvmStakesHeld' = [EvmStakesHeld EXCEPT ![id] = EvmStakeOf(game)]
  BY <1>5, StakeChange DEF EvmInv
<1>10. EvmTypeOK'
  BY <1>2, <1>3, <1>5, <1>8 DEF EvmTypeOK, EvmInv, joinGame, TokenSettings
<1>11. EvmStakesHeld[id].phase = "open" /\ EvmStakesHeld[id].first = old.white /\ EvmStakesHeld[id].each = old.wager
  BY <1>1, <1>7
<1>12. EvmStakesHeld' = [EvmStakesHeld EXCEPT ![id] =
         [phase |-> "matched", first |-> EvmStakesHeld[id].first, second |-> u, each |-> EvmStakesHeld[id].each]]
  BY <1>6, <1>9, <1>11
<1>13. EvmPurse[u] >= EvmStakesHeld[id].each /\ EvmPurse' = [EvmPurse EXCEPT ![u] = @ - EvmStakesHeld[id].each]
       /\ EvmHeld' = EvmHeld + EvmStakesHeld[id].each /\ u # EvmStakesHeld[id].first
  BY <1>1, <1>2, <1>11
<1>14. EvmEscrow!Match(id, u)
  BY <1>11, <1>12, <1>13 DEF EvmEscrow!Match, EvmPurse, EvmHeld, EvmStakesHeld
<1> QED  BY <1>8, <1>10, <1>14 DEF EvmInv

(* Any way of ending an active game with a winner pays the winner.          *)
LEMMA EvmEndGameStep ==
  ASSUME EvmInv, NEW id \in EvmIds, evmGames[id].status = "Active",
         NEW winner \in {evmGames[id].white, evmGames[id].black},
         NEW loser \in {evmGames[id].white, evmGames[id].black}, winner # loser,
         NEW result \in {"WhiteWins", "BlackWins"},
         endGame(id, result, winner, loser),
         UNCHANGED <<allowance, TokenSettings, nonce, judge, sinceCreated>>
  PROVE  EvmInv' /\ EvmEscrow!PayWinner(id, winner)
<1> DEFINE old == evmGames[id]
           game == Updated(old, old.black, "Finished", result)
           w == playerStats[winner]
           l == playerStats[loser]
<1>1. /\ old.white \in EvmUsers /\ old.white # ZeroAddress
      /\ old.black \in EvmUsers /\ old.black # old.white
      /\ EvmStakesHeld[id] = [phase |-> "matched", first |-> old.white,
                           second |-> old.black, each |-> old.wager]
  BY ActiveGame
<1>2. /\ id < nonce /\ old \in EvmGame /\ old.wager \in Nat /\ old.wager * 2 \in Nat
      /\ winner \in EvmUsers /\ loser \in EvmUsers
  BY <1>1, Numbered
<1>3. /\ balanceOf' \in [Holders -> Nat]
      /\ EvmPurse' = [EvmPurse EXCEPT ![winner] = @ + old.wager * 2]
      /\ EvmHeld' = EvmHeld - old.wager * 2
  BY <1>2, EvmPaidOne DEF endGame, EvmHeld, EvmInv
<1>4. playerStats' \in [EvmUsers -> EvmStats]
  <2>1. w \in EvmStats /\ l \in EvmStats /\ playerStats \in [EvmUsers -> EvmStats]
    BY <1>2 DEF EvmInv, EvmTypeOK
  <2>2. w.rating \in Nat /\ l.rating \in Nat  BY <2>1 DEF EvmStats
  <2>6. playerStats' = [playerStats EXCEPT
           ![winner] = EvmRecorded(w, 1, 0, 0, WinnerRating(w.rating, l.rating)),
           ![loser] = EvmRecorded(l, 0, 1, 0, LoserRating(w.rating, l.rating))]
    BY DEF endGame
  <2> HIDE DEF w, l
  <2>3. WinnerRating(w.rating, l.rating) \in Nat
    BY <2>2, DecidedRatingsNat
  <2>4. LoserRating(w.rating, l.rating) \in Nat
    BY <2>2, DecidedRatingsNat
  <2>5. /\ EvmRecorded(w, 1, 0, 0, WinnerRating(w.rating, l.rating)) \in EvmStats
        /\ EvmRecorded(l, 0, 1, 0, LoserRating(w.rating, l.rating)) \in EvmStats
    BY <2>1, <2>3, <2>4, RecordedType
  <2> QED  BY <1>2, <2>1, <2>5, <2>6
<1> HIDE DEF old
<1>5. /\ game \in EvmGame /\ game.white = old.white /\ game.black = old.black
      /\ game.status = "Finished"
  <2>1. old.black \in Accounts  BY <1>1, HoldersFacts
  <2>2. result \in {"None", "WhiteWins", "BlackWins", "DrawResult", "Cancelled"}  OBVIOUS
  <2>3. old \in EvmGame  BY <1>2
  <2> QED  BY <2>1, <2>2, <2>3 DEF Updated, EvmGame
<1>6. evmGames' = [evmGames EXCEPT ![id] = game] /\ nonce' = nonce
  BY DEF endGame, old
<1>7. EvmStakeOf(game) = [phase |-> "closed"]
  BY <1>1, <1>5 DEF EvmStakeOf
<1> HIDE DEF game, old
<1>8. evmGames' \in [EvmIds -> EvmGame] /\ EvmFresh' /\ EvmSeated'
  BY <1>1, <1>2, <1>5, <1>6, GamesKept DEF old
<1>9. EvmStakesHeld' = [EvmStakesHeld EXCEPT ![id] = EvmStakeOf(game)]
  BY <1>6, StakeChange DEF EvmInv
<1>10. EvmTypeOK'
  BY <1>3, <1>4, <1>6, <1>8 DEF EvmTypeOK, EvmInv, TokenSettings
<1>11. /\ EvmStakesHeld[id].phase = "matched" /\ EvmStakesHeld[id].each = old.wager
       /\ winner \in {EvmStakesHeld[id].first, EvmStakesHeld[id].second}
  BY <1>1 DEF old
<1>12. 2 * EvmStakesHeld[id].each = old.wager * 2
  BY <1>2, <1>11
<1>13. /\ EvmPurse' = [EvmPurse EXCEPT ![winner] = @ + 2 * EvmStakesHeld[id].each]
       /\ EvmHeld' = EvmHeld - 2 * EvmStakesHeld[id].each
       /\ EvmStakesHeld' = [EvmStakesHeld EXCEPT ![id] = [phase |-> "closed"]]
  BY <1>3, <1>7, <1>9, <1>12
<1>14. EvmEscrow!PayWinner(id, winner)
  BY <1>11, <1>13
     DEF EvmEscrow!PayWinner, EvmEscrow!Closed, EvmPurse, EvmHeld, EvmStakesHeld
<1> QED  BY <1>8, <1>10, <1>14 DEF EvmInv

(* A draw, and the way out of an expired game, give each wager back.        *)
LEMMA SplitStep ==
  ASSUME EvmInv, NEW id \in EvmIds, evmGames[id].status = "Active",
         NEW status \in {"Draw", "Cancelled"}, NEW result \in {"DrawResult", "Cancelled"},
         Returned(id),
         evmGames' = [evmGames EXCEPT ![id] = Updated(@, @.black, status, result)],
         playerStats' \in [EvmUsers -> EvmStats],
         UNCHANGED <<allowance, TokenSettings, nonce, judge, sinceCreated>>
  PROVE  EvmInv' /\ EvmEscrow!Split(id)
<1> DEFINE old == evmGames[id]
           game == Updated(old, old.black, status, result)
<1>1. /\ old.white \in EvmUsers /\ old.white # ZeroAddress
      /\ old.black \in EvmUsers /\ old.black # old.white
      /\ EvmStakesHeld[id] = [phase |-> "matched", first |-> old.white,
                           second |-> old.black, each |-> old.wager]
  BY ActiveGame
<1>2. /\ id < nonce /\ old \in EvmGame /\ old.wager \in Nat
  BY <1>1, Numbered
<1>3. /\ balanceOf' \in [Holders -> Nat]
      /\ EvmPurse' = [EvmPurse EXCEPT ![old.white] = @ + old.wager, ![old.black] = @ + old.wager]
      /\ EvmHeld' = EvmHeld - old.wager * 2
  BY <1>1, <1>2, EvmPaidTwo DEF Returned, EvmHeld, EvmInv
<1>4. evmGames' = [evmGames EXCEPT ![id] = game] /\ nonce' = nonce
  OBVIOUS
<1> HIDE DEF old
<1>5. /\ game \in EvmGame /\ game.white = old.white /\ game.black = old.black
      /\ game.status = status
  <2>1. old.black \in Accounts  BY <1>1, HoldersFacts
  <2>2. /\ result \in {"None", "WhiteWins", "BlackWins", "DrawResult", "Cancelled"}
        /\ status \in {"Waiting", "Active", "Finished", "Cancelled", "Draw"}
    OBVIOUS
  <2>3. old \in EvmGame  BY <1>2
  <2> QED  BY <2>1, <2>2, <2>3 DEF Updated, EvmGame
<1>6. EvmStakeOf(game) = [phase |-> "closed"]
  BY <1>1, <1>5 DEF EvmStakeOf
<1>7. game.status # "Active"  BY <1>5
<1> HIDE DEF game
<1>8. evmGames' \in [EvmIds -> EvmGame] /\ EvmFresh' /\ EvmSeated'
  BY <1>1, <1>2, <1>4, <1>5, <1>7, GamesKept DEF old
<1>9. EvmStakesHeld' = [EvmStakesHeld EXCEPT ![id] = EvmStakeOf(game)]
  BY <1>4, StakeChange DEF EvmInv
<1>10. EvmTypeOK'
  BY <1>3, <1>8 DEF EvmTypeOK, EvmInv, TokenSettings
<1>11. /\ EvmStakesHeld[id].phase = "matched" /\ EvmStakesHeld[id].each = old.wager
       /\ EvmStakesHeld[id].first = old.white /\ EvmStakesHeld[id].second = old.black
  BY <1>1
<1>12. 2 * EvmStakesHeld[id].each = old.wager * 2
  BY <1>2, <1>11
<1>13. /\ EvmPurse' = [EvmPurse EXCEPT ![EvmStakesHeld[id].first] = @ + EvmStakesHeld[id].each,
                                 ![EvmStakesHeld[id].second] = @ + EvmStakesHeld[id].each]
       /\ EvmHeld' = EvmHeld - 2 * EvmStakesHeld[id].each
       /\ EvmStakesHeld' = [EvmStakesHeld EXCEPT ![id] = [phase |-> "closed"]]
  BY <1>3, <1>6, <1>9, <1>11, <1>12
<1>14. EvmEscrow!Split(id)
  BY <1>11, <1>13
     DEF EvmEscrow!Split, EvmEscrow!Closed, EvmPurse, EvmHeld, EvmStakesHeld
<1> QED  BY <1>8, <1>10, <1>14 DEF EvmInv

LEMMA DrawStats ==
  ASSUME EvmTypeOK, NEW id \in EvmIds, endDraw(id)
  PROVE  playerStats' \in [EvmUsers -> EvmStats]
<1> SUFFICES ASSUME NEW u \in EvmUsers
             PROVE  EvmRecorded(playerStats[u], 0, 0, 1, playerStats[u].rating) \in EvmStats
                    /\ playerStats[u] \in EvmStats
  BY DEF endDraw
<1>1. playerStats[u] \in EvmStats  BY DEF EvmTypeOK
<1>2. playerStats[u].rating \in Nat  BY <1>1 DEF EvmStats
<1>3. 0 \in 0..1 /\ 1 \in 0..1  OBVIOUS
<1> QED  BY <1>1, <1>2, <1>3, RecordedType

LEMMA EvmCancelStep ==
  ASSUME EvmInv, NEW u \in EvmUsers, NEW id \in EvmIds, cancelGame(u, id)
  PROVE  EvmInv' /\ EvmEscrow!Withdraw(id)
<1> DEFINE old == evmGames[id]
           game == Updated(old, old.black, "Cancelled", "Cancelled")
<1>1. old.status = "Waiting" /\ old.white = u /\ old.white # ZeroAddress
  BY HoldersFacts DEF cancelGame
<1>2. /\ id < nonce /\ old \in EvmGame /\ old.wager \in Nat
      /\ EvmStakeOf(old) = EvmStakesHeld[id]
  BY <1>1, Numbered
<1>3. /\ balanceOf' \in [Holders -> Nat]
      /\ EvmPurse' = [EvmPurse EXCEPT ![u] = @ + old.wager]
      /\ EvmHeld' = EvmHeld - old.wager
  BY <1>2, EvmPaidOne DEF cancelGame, EvmHeld, EvmInv
<1>4. evmGames' = [evmGames EXCEPT ![id] = game] /\ nonce' = nonce
  BY DEF cancelGame
<1> HIDE DEF old
<1>5. /\ game \in EvmGame /\ game.white = old.white /\ game.status = "Cancelled"
  <2>1. old.black \in Accounts  BY <1>2 DEF EvmGame
  <2>2. old \in EvmGame  BY <1>2
  <2> QED  BY <2>1, <2>2 DEF Updated, EvmGame
<1>6. EvmStakeOf(game) = [phase |-> "closed"]
  BY <1>1, <1>5 DEF EvmStakeOf
<1>7. /\ EvmStakesHeld[id].phase = "open" /\ EvmStakesHeld[id].each = old.wager
      /\ EvmStakesHeld[id].first = u
  BY <1>1, <1>2 DEF EvmStakeOf
<1>71. game.status # "Active"  BY <1>5
<1> HIDE DEF game
<1>8. evmGames' \in [EvmIds -> EvmGame] /\ EvmFresh' /\ EvmSeated'
  BY <1>1, <1>2, <1>4, <1>5, <1>71, GamesKept DEF old
<1>9. EvmStakesHeld' = [EvmStakesHeld EXCEPT ![id] = EvmStakeOf(game)]
  BY <1>4, StakeChange DEF EvmInv
<1>10. EvmTypeOK'
  BY <1>3, <1>8 DEF EvmTypeOK, EvmInv, cancelGame, TokenSettings
<1>11. /\ EvmPurse' = [EvmPurse EXCEPT ![EvmStakesHeld[id].first] = @ + EvmStakesHeld[id].each]
       /\ EvmHeld' = EvmHeld - EvmStakesHeld[id].each
       /\ EvmStakesHeld' = [EvmStakesHeld EXCEPT ![id] = [phase |-> "closed"]]
  BY <1>3, <1>6, <1>7, <1>9
<1>12. EvmEscrow!Withdraw(id)
  BY <1>7, <1>11
     DEF EvmEscrow!Withdraw, EvmEscrow!Closed, EvmPurse, EvmHeld, EvmStakesHeld
<1> QED  BY <1>8, <1>10, <1>12 DEF EvmInv

(* An offer is no money: the escrow does not move.                          *)
LEMMA EvmProposeStep ==
  ASSUME EvmInv, NEW u \in EvmUsers, NEW id \in EvmIds, proposeDraw(u, id)
  PROVE  EvmInv' /\ EvmPurse' = EvmPurse /\ EvmHeld' = EvmHeld /\ EvmStakesHeld' = EvmStakesHeld
<1> DEFINE old == evmGames[id]
           game == [white |-> old.white, black |-> old.black, wager |-> old.wager,
                    status |-> old.status, result |-> old.result, drawProposer |-> u]
<1>1. /\ old.white \in EvmUsers /\ old.white # ZeroAddress /\ old.status = "Active"
      /\ old.black \in EvmUsers /\ old.black # old.white
      /\ EvmStakesHeld[id] = [phase |-> "matched", first |-> old.white,
                           second |-> old.black, each |-> old.wager]
  BY ActiveGame DEF proposeDraw, SeatedIn
<1>2. id < nonce /\ old \in EvmGame  BY <1>1, Numbered
<1>3. [old EXCEPT !.drawProposer = u] = game  BY <1>2 DEF EvmGame
<1>4. evmGames' = [evmGames EXCEPT ![id] = game] /\ nonce' = nonce
  BY <1>3 DEF proposeDraw
<1>5. /\ game \in EvmGame /\ game.white = old.white /\ game.black = old.black
      /\ game.wager = old.wager /\ game.status = "Active"
  BY <1>1, <1>2, HoldersFacts DEF EvmGame
<1> HIDE DEF game, old
<1>6. EvmStakeOf(game) = EvmStakesHeld[id]
  BY <1>1, <1>5 DEF EvmStakeOf
<1>7. evmGames' \in [EvmIds -> EvmGame] /\ EvmFresh' /\ EvmSeated'
  BY <1>1, <1>2, <1>4, <1>5, GamesKept DEF old
<1>8. EvmStakesHeld' = [EvmStakesHeld EXCEPT ![id] = EvmStakeOf(game)]
  BY <1>4, StakeChange DEF EvmInv
<1>9. EvmStakesHeld' = EvmStakesHeld
  BY <1>6, <1>8 DEF EvmStakesHeld
<1>10. EvmTypeOK'
  BY <1>7 DEF EvmTypeOK, EvmInv, proposeDraw, erc20Vars
<1> QED  BY <1>7, <1>9, <1>10 DEF EvmInv, proposeDraw, erc20Vars, EvmPurse, EvmHeld

(* What only the token does, and what the owner does: an Elsewhere step.    *)
LEMMA EvmOutsideStep ==
  ASSUME EvmInv, UNCHANGED <<nonce, evmGames>>, balanceOf' \in [Holders -> Nat],
         balanceOf'[GameContract] >= balanceOf[GameContract]
  PROVE  EvmFresh' /\ EvmSeated' /\ EvmEscrow!Elsewhere
<1>1. EvmFresh' /\ EvmSeated'  BY DEF EvmInv, EvmFresh, EvmSeated
<1>2. [u \in EvmUsers |-> balanceOf[u]]' \in [EvmUsers -> Nat]  BY HoldersFacts
<1>3. [id \in EvmIds |-> EvmStakeOf(evmGames[id])]' = [id \in EvmIds |-> EvmStakeOf(evmGames[id])]
  BY DEF EvmStakeOf
<1> QED  BY <1>1, <1>2, <1>3 DEF EvmEscrow!Elsewhere

LEMMA Erc20Step ==
  ASSUME EvmInv, Erc20Op, UNCHANGED chessGameVars
  PROVE  EvmInv' /\ EvmEscrow!Elsewhere
<1> DEFINE TokenType(bal, allow, wait, switch, new) ==
             /\ bal \in [Holders -> Nat] /\ bal[GameContract] >= balanceOf[GameContract]
             /\ allow \in [EvmUsers -> Nat] /\ wait \in [EvmUsers -> 0..FAUCET_COOLDOWN]
             /\ switch \in BOOLEAN /\ new \in Accounts
           Goal == TokenType(balanceOf', allowance', untilClaim', mintSwitch', tokenMinter')
<1>1. /\ balanceOf \in [Holders -> Nat] /\ allowance \in [EvmUsers -> Nat]
      /\ untilClaim \in [EvmUsers -> 0..FAUCET_COOLDOWN]
      /\ mintSwitch \in BOOLEAN /\ tokenMinter \in Accounts
  BY DEF EvmInv, EvmTypeOK
<1>2. /\ FAUCET_AMOUNT \in Nat /\ FAUCET_COOLDOWN \in Nat /\ NewMinters \subseteq Accounts
      /\ GameContract \in Holders /\ GameContract \notin EvmUsers /\ EvmUsers \subseteq Holders
      /\ TokenAmounts \subseteq Nat
  BY EvmAssumption, HoldersFacts
<1>3. ASSUME NEW to \in Holders, NEW n \in Nat
      PROVE  Credited(to, n) \in [Holders -> Nat] /\ Credited(to, n)[GameContract] >= balanceOf[GameContract]
  BY <1>1, <1>2 DEF Credited
<1>4. ASSUME NEW u \in EvmUsers, NEW to \in Holders, NEW n \in TokenAmounts, transfer(u, to, n)
      PROVE  Goal
  <2>1. /\ u \in Holders /\ u # GameContract /\ n \in Nat /\ balanceOf[u] >= n
        /\ balanceOf' = IF to = u THEN balanceOf ELSE [balanceOf EXCEPT ![u] = @ - n, ![to] = @ + n]
    BY <1>2, <1>4 DEF transfer
  <2>2. balanceOf' \in [Holders -> Nat] /\ balanceOf'[GameContract] >= balanceOf[GameContract]
    <3>1. CASE to = u  BY <1>1, <1>2, <2>1, <3>1
    <3>2. CASE to # u
      <4>1. balanceOf' = [balanceOf EXCEPT ![u] = @ - n, ![to] = @ + n]  BY <2>1, <3>2
      <4> QED  BY <1>1, <1>2, <2>1, <3>2, <4>1
    <3> QED  BY <3>1, <3>2
  <2> QED  BY <1>1, <1>4, <2>2 DEF transfer
<1>5. ASSUME NEW u \in EvmUsers, NEW to \in Holders, NEW n \in TokenAmounts, mint(u, to, n) \/ mintTo(u, to, n)
      PROVE  Goal
  <2>1. n \in Nat  BY <1>2
  <2> QED  BY <1>1, <1>3, <1>5, <2>1 DEF mint, mintTo
<1>6. ASSUME NEW u \in EvmUsers, NEW n \in TokenAmounts, approve(u, n)
      PROVE  Goal
  BY <1>1, <1>2, <1>6 DEF approve
<1>7. ASSUME NEW u \in EvmUsers, faucetClaim(u)
      PROVE  Goal
  <2>1. u \in Holders  BY <1>2
  <2>2. Credited(u, FAUCET_AMOUNT) \in [Holders -> Nat]
        /\ Credited(u, FAUCET_AMOUNT)[GameContract] >= balanceOf[GameContract]
    BY <1>2, <1>3, <2>1
  <2> QED  BY <1>1, <1>2, <1>7, <2>2 DEF faucetClaim
<1>8. ASSUME NEW u \in EvmUsers, NEW amounts \in [Holders -> TokenAmounts], batchMint(u, amounts)
      PROVE  Goal
  <2>1. \A h \in Holders : balanceOf[h] \in Nat /\ amounts[h] \in Nat  BY <1>1, <1>2
  <2>2. balanceOf' = [h \in Holders |-> balanceOf[h] + amounts[h]]  BY <1>8 DEF batchMint
  <2>3. balanceOf' \in [Holders -> Nat] /\ balanceOf'[GameContract] >= balanceOf[GameContract]
    BY <1>2, <2>1, <2>2
  <2> QED  BY <1>1, <1>8, <2>3 DEF batchMint
<1>9. ASSUME NEW u \in EvmUsers, NEW new \in NewMinters, setMinter(u, new)
      PROVE  Goal
  BY <1>1, <1>2, <1>9 DEF setMinter
<1>10. ASSUME NEW u \in EvmUsers, NEW b \in BOOLEAN, setMintEnabled(u, b)
       PROVE  Goal
  BY <1>1, <1>2, <1>10 DEF setMintEnabled
<1>11. Goal
  BY <1>4, <1>5, <1>6, <1>7, <1>8, <1>9, <1>10 DEF Erc20Op
<1>12. UNCHANGED <<nonce, judge, evmGames, sinceCreated, playerStats>>
  BY DEF chessGameVars
<1>13. EvmFresh' /\ EvmSeated' /\ EvmEscrow!Elsewhere
  BY <1>11, <1>12, EvmOutsideStep
<1>14. EvmTypeOK'
  BY <1>11, <1>12 DEF EvmInv, EvmTypeOK
<1> QED  BY <1>13, <1>14 DEF EvmInv

LEMMA OwnerAndBlockStep ==
  ASSUME EvmInv,
         \/ \E u \in EvmUsers, new \in NewOracles : setOracle(u, new)
         \/ EvmBlock
         \/ UNCHANGED evmVars
  PROVE  EvmInv' /\ EvmEscrow!Elsewhere
<1>1. UNCHANGED <<balanceOf, allowance, mintSwitch, tokenMinter, nonce, evmGames, playerStats>>
  BY DEF setOracle, EvmBlock, evmVars, erc20Vars, chessGameVars
<1>2. /\ balanceOf \in [Holders -> Nat] /\ GameContract \in Holders
      /\ untilClaim \in [EvmUsers -> 0..FAUCET_COOLDOWN]
      /\ sinceCreated \in [EvmIds -> 0..EXPIRY_BLOCKS] /\ judge \in Accounts
  BY HoldersFacts DEF EvmInv, EvmTypeOK
<1>3. EvmFresh' /\ EvmSeated' /\ EvmEscrow!Elsewhere
  BY <1>1, <1>2, EvmOutsideStep
<1>4. /\ untilClaim' \in [EvmUsers -> 0..FAUCET_COOLDOWN]
      /\ sinceCreated' \in [EvmIds -> 0..EXPIRY_BLOCKS] /\ judge' \in Accounts
  <2>1. CASE \E u \in EvmUsers, new \in NewOracles : setOracle(u, new)
    BY <1>2, <2>1, EvmAssumption, HoldersFacts DEF setOracle, erc20Vars
  <2>2. CASE EvmBlock
    <3>1. FAUCET_COOLDOWN \in Nat /\ EXPIRY_BLOCKS \in Nat  BY EvmAssumption
    <3>2. untilClaim' \in [EvmUsers -> 0..FAUCET_COOLDOWN]  BY <1>2, <2>2, <3>1 DEF EvmBlock
    <3>3. \A id \in EvmIds : sinceCreated[id] \in 0..EXPIRY_BLOCKS  BY <1>2
    <3>4. sinceCreated' \in [EvmIds -> 0..EXPIRY_BLOCKS]  BY <2>2, <3>1, <3>3 DEF EvmBlock
    <3> QED  BY <1>2, <2>2, <3>2, <3>4 DEF EvmBlock
  <2>3. CASE UNCHANGED evmVars
    BY <1>2, <2>3 DEF evmVars, erc20Vars, chessGameVars
  <2> QED  BY <2>1, <2>2, <2>3
<1>5. EvmTypeOK'
  BY <1>1, <1>4 DEF EvmInv, EvmTypeOK
<1> QED  BY <1>3, <1>5 DEF EvmInv

LEMMA EvmStep ==
  ASSUME EvmInv, [EvmNext]_evmVars
  PROVE  EvmInv' /\ [EvmEscrow!EscrowNext]_(EvmEscrow!escrowVars)
<1>1. ASSUME NEW u \in EvmUsers, NEW wager \in EvmWagers, createGame(u, wager)
      PROVE  EvmInv' /\ EvmEscrow!EscrowNext
  <2>1. EvmInv' /\ EvmEscrow!Open(nonce, u, wager) /\ nonce \in EvmIds /\ wager \in 0..EvmPurse[u]
    BY <1>1, EvmCreateStep
  <2> QED  BY <2>1 DEF EvmEscrow!EscrowNext, EvmPurse
<1>2. ASSUME NEW u \in EvmUsers, NEW id \in EvmIds, EvmGameOp(u, id)
      PROVE  EvmInv' /\ [EvmEscrow!EscrowNext]_(EvmEscrow!escrowVars)
  <2>1. CASE joinGame(u, id)
    BY <2>1, EvmJoinStep DEF EvmEscrow!EscrowNext
  <2>2. CASE resign(u, id)
    <3>1. /\ evmGames[id].status = "Active" /\ u \in {evmGames[id].white, evmGames[id].black}
          /\ UNCHANGED <<allowance, TokenSettings, nonce, judge, sinceCreated>>
      BY <2>2 DEF resign, SeatedIn
    <3>2. PICK white \in EvmUsers, black \in EvmUsers :
            white = evmGames[id].white /\ black = evmGames[id].black /\ white # black
      BY <3>1, ActiveGame
    <3>3. CASE u = white
      <4>1. endGame(id, "BlackWins", black, white)  BY <2>2, <3>2, <3>3 DEF resign
      <4>2. EvmInv' /\ EvmEscrow!PayWinner(id, black)
        BY <3>1, <3>2, <4>1, EvmEndGameStep
      <4> QED  BY <4>2 DEF EvmEscrow!EscrowNext
    <3>4. CASE u # white
      <4>1. endGame(id, "WhiteWins", white, black)  BY <2>2, <3>1, <3>2, <3>4 DEF resign
      <4>2. EvmInv' /\ EvmEscrow!PayWinner(id, white)
        BY <3>1, <3>2, <4>1, EvmEndGameStep
      <4> QED  BY <4>2 DEF EvmEscrow!EscrowNext
    <3> QED  BY <3>3, <3>4
  <2>3. CASE proposeDraw(u, id)
    BY <2>3, EvmProposeStep DEF EvmEscrow!escrowVars, EvmPurse, EvmHeld, EvmStakesHeld
  <2>4. CASE acceptDraw(u, id)
    <3>1. /\ evmGames[id].status = "Active" /\ endDraw(id)
          /\ UNCHANGED <<allowance, TokenSettings, nonce, judge, sinceCreated>>
      BY <2>4 DEF acceptDraw, SeatedIn
    <3>2. playerStats' \in [EvmUsers -> EvmStats]  BY <3>1, DrawStats DEF EvmInv
    <3>3. Returned(id) /\ evmGames' = [evmGames EXCEPT ![id] = Updated(@, @.black, "Draw", "DrawResult")]
      BY <3>1 DEF endDraw
    <3>4. EvmInv' /\ EvmEscrow!Split(id)  BY <3>1, <3>2, <3>3, SplitStep
    <3> QED  BY <3>4 DEF EvmEscrow!EscrowNext
  <2>5. CASE cancelGame(u, id)
    BY <2>5, EvmCancelStep DEF EvmEscrow!EscrowNext
  <2>6. CASE reclaimExpired(u, id)
    <3>1. /\ evmGames[id].status = "Active" /\ Returned(id)
          /\ evmGames' = [evmGames EXCEPT ![id] = Updated(@, @.black, "Cancelled", "Cancelled")]
          /\ UNCHANGED <<allowance, TokenSettings, nonce, judge, sinceCreated, playerStats>>
      BY <2>6 DEF reclaimExpired, SeatedIn
    <3>2. playerStats' \in [EvmUsers -> EvmStats]  BY <3>1 DEF EvmInv, EvmTypeOK
    <3>3. UNCHANGED <<allowance, TokenSettings, nonce, judge, sinceCreated>>  BY <3>1
    <3>4. EvmInv' /\ EvmEscrow!Split(id)  BY <3>1, <3>2, <3>3, SplitStep
    <3> QED  BY <3>4 DEF EvmEscrow!EscrowNext
  <2>7. ASSUME NEW result \in {"WhiteWins", "BlackWins", "DrawResult"}, settleGame(u, id, result)
        PROVE  EvmInv' /\ EvmEscrow!EscrowNext
    <3>1. /\ evmGames[id].status = "Active"
          /\ UNCHANGED <<allowance, TokenSettings, nonce, judge, sinceCreated>>
          /\ \/ result = "WhiteWins" /\ endGame(id, result, evmGames[id].white, evmGames[id].black)
             \/ result = "BlackWins" /\ endGame(id, result, evmGames[id].black, evmGames[id].white)
             \/ result = "DrawResult" /\ endDraw(id)
      BY <2>7 DEF settleGame
    <3>2. PICK white \in EvmUsers, black \in EvmUsers :
            white = evmGames[id].white /\ black = evmGames[id].black /\ white # black
      BY <3>1, ActiveGame
    <3>3. CASE result = "WhiteWins" /\ endGame(id, result, white, black)
      <4>1. EvmInv' /\ EvmEscrow!PayWinner(id, white)
        BY <3>1, <3>2, <3>3, EvmEndGameStep
      <4> QED  BY <4>1 DEF EvmEscrow!EscrowNext
    <3>4. CASE result = "BlackWins" /\ endGame(id, result, black, white)
      <4>1. EvmInv' /\ EvmEscrow!PayWinner(id, black)
        BY <3>1, <3>2, <3>4, EvmEndGameStep
      <4> QED  BY <4>1 DEF EvmEscrow!EscrowNext
    <3>5. CASE endDraw(id)
      <4>1. playerStats' \in [EvmUsers -> EvmStats]  BY <3>5, DrawStats DEF EvmInv
      <4>2. Returned(id) /\ evmGames' = [evmGames EXCEPT ![id] = Updated(@, @.black, "Draw", "DrawResult")]
        BY <3>5 DEF endDraw
      <4>3. EvmInv' /\ EvmEscrow!Split(id)  BY <3>1, <4>1, <4>2, SplitStep
      <4> QED  BY <4>3 DEF EvmEscrow!EscrowNext
    <3> QED  BY <3>1, <3>2, <3>3, <3>4, <3>5
  <2> QED  BY <1>2, <2>1, <2>2, <2>3, <2>4, <2>5, <2>6, <2>7 DEF EvmGameOp
<1>3. CASE Erc20Op /\ UNCHANGED chessGameVars
  BY <1>3, Erc20Step DEF EvmEscrow!EscrowNext
<1>4. CASE \/ \E u \in EvmUsers, new \in NewOracles : setOracle(u, new)
           \/ EvmBlock
           \/ UNCHANGED evmVars
  BY <1>4, OwnerAndBlockStep DEF EvmEscrow!EscrowNext
<1> QED  BY <1>1, <1>2, <1>3, <1>4 DEF EvmNext

-----------------------------------------------------------------------------
LEMMA EvmStart == EvmInit => EvmInv /\ EvmEscrow!EscrowInit
<1> SUFFICES ASSUME EvmInit PROVE EvmInv /\ EvmEscrow!EscrowInit
  OBVIOUS
<1> USE HoldersFacts, EvmAssumption DEF EvmInit
<1>1. ZeroGame \in EvmGame /\ ZeroStats \in EvmStats /\ ZeroGame.status = "Waiting" /\ ZeroGame.white = ZeroAddress
  BY DEF ZeroGame, ZeroStats, EvmGame, EvmStats
<1>2. EvmTypeOK  BY <1>1 DEF EvmTypeOK
<1>3. EvmFresh /\ EvmSeated  BY <1>1 DEF EvmFresh, EvmSeated
<1>4. [u \in EvmUsers |-> balanceOf[u]] \in [EvmUsers -> Nat] /\ balanceOf[GameContract] \in Nat
  OBVIOUS
<1>5. \A id \in EvmIds : EvmStakeOf(evmGames[id]) = [phase |-> "unopened"]
  BY <1>1 DEF EvmStakeOf
<1> QED  BY <1>2, <1>3, <1>4, <1>5 DEF EvmInv, EvmEscrow!EscrowInit, EvmEscrow!Unopened

(* In every reachable state the ledgers are typed, unnumbered games are     *)
(* empty and two different players sit at every active game.                *)
THEOREM EvmInvariant == EvmSpec => []EvmInv
<1>1. EvmInit => EvmInv  BY EvmStart
<1>2. EvmInv /\ [EvmNext]_evmVars => EvmInv'  BY EvmStep
<1> QED  BY <1>1, <1>2, PTL DEF EvmSpec

(* ChessGame.sol implements the escrow: for any number of users, games and  *)
(* wagers, whatever is staked on a game goes once, in full, and only to the *)
(* two who staked it.                                                       *)
THEOREM EvmRefinesEscrow == EvmSpec => EvmImplementsEscrow
<1>1. EvmInit => EvmEscrow!EscrowInit  BY EvmStart
<1>2. EvmInv /\ [EvmNext]_evmVars => [EvmEscrow!EscrowNext]_(EvmEscrow!escrowVars)
  BY EvmStep
<1>3. EvmSpec => []EvmInv  BY EvmInvariant
<1> QED  BY <1>1, <1>2, <1>3, PTL DEF EvmSpec, EvmImplementsEscrow, EvmEscrow!EscrowSpec

-----------------------------------------------------------------------------
(* The records are the games *)

Scored == {"WhiteWins", "BlackWins", "DrawResult"}

(* A game that has not ended has no result yet. *)
Unscored == \A id \in EvmIds : evmGames[id].status \in {"Waiting", "Active"} => evmGames[id].result \notin Scored

RecordsInv == EvmInv /\ Unscored /\ RecordsMatchResults

(* What the result of a game adds to the record of u. *)
WinOf(u, id, result) ==
  IF \/ result = "WhiteWins" /\ u = evmGames[id].white
     \/ result = "BlackWins" /\ u = evmGames[id].black THEN 1 ELSE 0
LossOf(u, id, result) ==
  IF \/ result = "BlackWins" /\ u = evmGames[id].white
     \/ result = "WhiteWins" /\ u = evmGames[id].black THEN 1 ELSE 0
DrawOf(u, id, result) ==
  IF result = "DrawResult" /\ u \in {evmGames[id].white, evmGames[id].black} THEN 1 ELSE 0

(* The record of u gains so many wins, losses and draws in this step. *)
Gains(u, w, l, d) ==
  /\ playerStats'[u].wins = playerStats[u].wins + w
  /\ playerStats'[u].losses = playerStats[u].losses + l
  /\ playerStats'[u].draws = playerStats[u].draws + d
  /\ playerStats'[u].gamesPlayed = playerStats[u].gamesPlayed + w + l + d

(* A game without a result gets one, or stays without. *)
LEMMA CountsChange ==
  ASSUME EvmTypeOK, NEW id \in EvmIds, evmGames[id].result \notin Scored,
         NEW game \in EvmGame, evmGames' = [evmGames EXCEPT ![id] = game],
         NEW u \in EvmUsers, NEW r \in Scored
  PROVE  /\ OfWhite(u, r) \in Nat /\ OfBlack(u, r) \in Nat
         /\ OfWhite(u, r)' = OfWhite(u, r) + (IF game.white = u /\ game.result = r THEN 1 ELSE 0)
         /\ OfBlack(u, r)' = OfBlack(u, r) + (IF game.black = u /\ game.result = r THEN 1 ELSE 0)
<1> DEFINE W == {i \in EvmIds : evmGames[i].white = u /\ evmGames[i].result = r}
           B == {i \in EvmIds : evmGames[i].black = u /\ evmGames[i].result = r}
           WW == {i \in EvmIds : evmGames'[i].white = u /\ evmGames'[i].result = r}
           BB == {i \in EvmIds : evmGames'[i].black = u /\ evmGames'[i].result = r}
<1>1. IsFiniteSet(EvmIds)
  BY EvmAssumption, FS_Interval DEF EvmIds
<1>2. IsFiniteSet(W) /\ IsFiniteSet(B)
  BY <1>1, FS_Subset
<1>3. \A i \in EvmIds : evmGames'[i] = IF i = id THEN game ELSE evmGames[i]
  BY DEF EvmTypeOK
<1>4. id \notin W /\ id \notin B
  OBVIOUS
<1>5. WW = IF game.white = u /\ game.result = r THEN W \cup {id} ELSE W
  BY <1>3, <1>4
<1>6. BB = IF game.black = u /\ game.result = r THEN B \cup {id} ELSE B
  BY <1>3, <1>4
<1>7. /\ OfWhite(u, r) = Cardinality(W) /\ OfBlack(u, r) = Cardinality(B)
      /\ OfWhite(u, r)' = Cardinality(WW) /\ OfBlack(u, r)' = Cardinality(BB)
  BY DEF OfWhite, OfBlack
<1> HIDE DEF W, B, WW, BB
<1>8. /\ Cardinality(W) \in Nat /\ Cardinality(B) \in Nat
      /\ Cardinality(W \cup {id}) = Cardinality(W) + 1
      /\ Cardinality(B \cup {id}) = Cardinality(B) + 1
  BY <1>2, <1>4, FS_AddElement, FS_CardinalityType
<1> QED BY <1>5, <1>6, <1>7, <1>8

(* A game changes without getting a result, and nobody's record changes.   *)
LEMMA UnscoredStep ==
  ASSUME RecordsInv, NEW id \in EvmIds, evmGames[id].result \notin Scored,
         NEW game \in EvmGame, game.result \notin Scored,
         evmGames' = [evmGames EXCEPT ![id] = game],
         \A u \in EvmUsers : Gains(u, 0, 0, 0)
  PROVE  Unscored' /\ RecordsMatchResults'
<1>1. \A i \in EvmIds : evmGames'[i] = IF i = id THEN game ELSE evmGames[i]
  BY DEF RecordsInv, EvmInv, EvmTypeOK
<1>2. Unscored'
  BY <1>1 DEF RecordsInv, Unscored
<1>3. \A u \in EvmUsers, r \in Scored :
        /\ OfWhite(u, r)' = OfWhite(u, r) /\ OfBlack(u, r)' = OfBlack(u, r)
        /\ OfWhite(u, r) \in Nat /\ OfBlack(u, r) \in Nat
  <2> TAKE u \in EvmUsers, r \in Scored
  <2>1. EvmTypeOK /\ game.result # r
    BY DEF RecordsInv, EvmInv
  <2>2. /\ OfWhite(u, r)' = OfWhite(u, r) + 0 /\ OfBlack(u, r)' = OfBlack(u, r) + 0
        /\ OfWhite(u, r) \in Nat /\ OfBlack(u, r) \in Nat
    BY <2>1, CountsChange
  <2> QED BY <2>2
<1>4. \A u \in EvmUsers :
        /\ playerStats'[u].wins = playerStats[u].wins
        /\ playerStats'[u].losses = playerStats[u].losses
        /\ playerStats'[u].draws = playerStats[u].draws
        /\ playerStats'[u].gamesPlayed = playerStats[u].gamesPlayed
  BY DEF RecordsInv, EvmInv, EvmTypeOK, EvmStats, Gains
<1>5. RecordsMatchResults'
  BY <1>3, <1>4 DEF RecordsInv, RecordsMatchResults, Scored
<1> QED BY <1>2, <1>5

(* A game gets its result, and the players' records count it. *)
LEMMA ScoredStep ==
  ASSUME RecordsInv, NEW id \in EvmIds, evmGames[id].status = "Active",
         NEW result \in Scored, NEW game \in EvmGame, evmGames' = [evmGames EXCEPT ![id] = game],
         game.white = evmGames[id].white, game.black = evmGames[id].black,
         game.status \notin {"Waiting", "Active"}, game.result = result,
         \A u \in EvmUsers :
           Gains(u, WinOf(u, id, result), LossOf(u, id, result), DrawOf(u, id, result))
  PROVE  Unscored' /\ RecordsMatchResults'
<1> DEFINE old == evmGames[id]
<1>1. EvmInv /\ EvmTypeOK /\ old.result \notin Scored
  BY DEF RecordsInv, EvmInv, Unscored
<1>3. old.white # old.black
  BY <1>1, ActiveGame
<1>5. \A i \in EvmIds : evmGames'[i] = IF i = id THEN game ELSE evmGames[i]
  BY <1>1 DEF EvmTypeOK
<1>6. Unscored'
  BY <1>5 DEF RecordsInv, Unscored
<1>7. \A u \in EvmUsers, r \in Scored :
        /\ OfWhite(u, r)' = OfWhite(u, r) + (IF old.white = u /\ result = r THEN 1 ELSE 0)
        /\ OfBlack(u, r)' = OfBlack(u, r) + (IF old.black = u /\ result = r THEN 1 ELSE 0)
        /\ OfWhite(u, r) \in Nat /\ OfBlack(u, r) \in Nat
  <2> TAKE u \in EvmUsers, r \in Scored
  <2>1. /\ OfWhite(u, r)' = OfWhite(u, r) + (IF game.white = u /\ game.result = r THEN 1 ELSE 0)
        /\ OfBlack(u, r)' = OfBlack(u, r) + (IF game.black = u /\ game.result = r THEN 1 ELSE 0)
        /\ OfWhite(u, r) \in Nat /\ OfBlack(u, r) \in Nat
    <3>1. EvmTypeOK /\ evmGames[id].result \notin Scored
      BY <1>1
    <3>2. evmGames' = [evmGames EXCEPT ![id] = game]
      OBVIOUS
    <3> QED BY ONLY <3>1, <3>2, game \in EvmGame, id \in EvmIds, u \in EvmUsers, r \in Scored, CountsChange
  <2> QED BY <2>1
<1>8. ASSUME NEW u \in EvmUsers
      PROVE  /\ playerStats'[u].wins = OfWhite(u, "WhiteWins")' + OfBlack(u, "BlackWins")'
             /\ playerStats'[u].losses = OfWhite(u, "BlackWins")' + OfBlack(u, "WhiteWins")'
             /\ playerStats'[u].draws = OfWhite(u, "DrawResult")' + OfBlack(u, "DrawResult")'
             /\ playerStats'[u].gamesPlayed =
                  playerStats'[u].wins + playerStats'[u].losses + playerStats'[u].draws
  <2>1. /\ playerStats[u].wins = OfWhite(u, "WhiteWins") + OfBlack(u, "BlackWins")
        /\ playerStats[u].losses = OfWhite(u, "BlackWins") + OfBlack(u, "WhiteWins")
        /\ playerStats[u].draws = OfWhite(u, "DrawResult") + OfBlack(u, "DrawResult")
        /\ playerStats[u].gamesPlayed =
             playerStats[u].wins + playerStats[u].losses + playerStats[u].draws
    BY DEF RecordsInv, RecordsMatchResults
  <2>2. \A r \in Scored :
          /\ OfWhite(u, r)' = OfWhite(u, r) + (IF old.white = u /\ result = r THEN 1 ELSE 0)
          /\ OfBlack(u, r)' = OfBlack(u, r) + (IF old.black = u /\ result = r THEN 1 ELSE 0)
          /\ OfWhite(u, r) \in Nat /\ OfBlack(u, r) \in Nat
    BY <1>7
  <2>3. Gains(u, WinOf(u, id, result), LossOf(u, id, result), DrawOf(u, id, result))
    OBVIOUS
  <2>4. CASE result = "WhiteWins"
    BY <1>3, <2>1, <2>2, <2>3, <2>4 DEF Scored, Gains, WinOf, LossOf, DrawOf
  <2>5. CASE result = "BlackWins"
    BY <1>3, <2>1, <2>2, <2>3, <2>5 DEF Scored, Gains, WinOf, LossOf, DrawOf
  <2>6. CASE result = "DrawResult"
    BY <1>3, <2>1, <2>2, <2>3, <2>6 DEF Scored, Gains, WinOf, LossOf, DrawOf
  <2> QED BY <2>4, <2>5, <2>6 DEF Scored
<1>9. RecordsMatchResults'
  BY <1>8 DEF RecordsMatchResults
<1> QED BY <1>6, <1>9

LEMMA EndedGame ==
  ASSUME RecordsInv, NEW id \in EvmIds, NEW status \in {"Finished", "Draw"}, NEW result \in Scored
  PROVE  LET game == Updated(evmGames[id], evmGames[id].black, status, result)
         IN  /\ game \in EvmGame
             /\ game.white = evmGames[id].white /\ game.black = evmGames[id].black
             /\ game.status = status /\ game.result = result
BY DEF RecordsInv, EvmInv, EvmTypeOK, EvmGame, Updated, Scored

LEMMA WonRecords ==
  ASSUME RecordsInv, NEW id \in EvmIds, evmGames[id].status = "Active",
         NEW result \in {"WhiteWins", "BlackWins"},
         NEW winner \in EvmUsers, NEW loser \in EvmUsers,
         \/ result = "WhiteWins" /\ winner = evmGames[id].white /\ loser = evmGames[id].black
         \/ result = "BlackWins" /\ winner = evmGames[id].black /\ loser = evmGames[id].white,
         endGame(id, result, winner, loser)
  PROVE  Unscored' /\ RecordsMatchResults'
<1> DEFINE w == playerStats[winner]
           l == playerStats[loser]
<1>1. winner # loser /\ result \in Scored /\ playerStats \in [EvmUsers -> EvmStats]
  <2>1. EvmInv  BY DEF RecordsInv
  <2> QED BY <2>1, ActiveGame DEF Scored, EvmInv, EvmTypeOK
<1>2. /\ evmGames' = [evmGames EXCEPT ![id] = Updated(evmGames[id], evmGames[id].black, "Finished", result)]
      /\ playerStats' = [playerStats EXCEPT
           ![winner] = EvmRecorded(w, 1, 0, 0, WinnerRating(w.rating, l.rating)),
           ![loser] = EvmRecorded(l, 0, 1, 0, LoserRating(w.rating, l.rating))]
  BY DEF endGame
<1>3. ASSUME NEW u \in EvmUsers
      PROVE  Gains(u, WinOf(u, id, result), LossOf(u, id, result), DrawOf(u, id, result))
  <2>1. playerStats[u] \in EvmStats
    BY <1>1
  <2>2. /\ WinOf(u, id, result) = IF u = winner THEN 1 ELSE 0
        /\ LossOf(u, id, result) = IF u = loser THEN 1 ELSE 0
        /\ DrawOf(u, id, result) = 0
    BY DEF WinOf, LossOf, DrawOf
  <2>3. CASE u = winner
    <3>1. playerStats'[u] = EvmRecorded(playerStats[u], 1, 0, 0, WinnerRating(w.rating, l.rating))
      BY <1>1, <1>2, <2>3
    <3> QED BY <1>1, <2>1, <2>2, <2>3, <3>1 DEF EvmRecorded, EvmStats, Gains
  <2>4. CASE u = loser
    <3>1. playerStats'[u] = EvmRecorded(playerStats[u], 0, 1, 0, LoserRating(w.rating, l.rating))
      BY <1>1, <1>2, <2>4
    <3> QED BY <1>1, <2>1, <2>2, <2>4, <3>1 DEF EvmRecorded, EvmStats, Gains
  <2>5. CASE u \notin {winner, loser}
    <3>1. playerStats'[u] = playerStats[u]
      BY <1>1, <1>2, <2>5
    <3> QED BY <2>1, <2>2, <2>5, <3>1 DEF EvmStats, Gains
  <2> QED BY <2>3, <2>4, <2>5
<1> DEFINE game == Updated(evmGames[id], evmGames[id].black, "Finished", result)
<1>4. /\ game \in EvmGame /\ game.white = evmGames[id].white /\ game.black = evmGames[id].black
      /\ game.status \notin {"Waiting", "Active"} /\ game.result = result
  BY <1>1, EndedGame
<1>5. evmGames' = [evmGames EXCEPT ![id] = game]
  BY <1>2
<1> HIDE DEF game
<1> QED BY <1>1, <1>3, <1>4, <1>5, ScoredStep

LEMMA DrawnRecords ==
  ASSUME RecordsInv, NEW id \in EvmIds, evmGames[id].status = "Active", endDraw(id)
  PROVE  Unscored' /\ RecordsMatchResults'
<1> DEFINE pair == {evmGames[id].white, evmGames[id].black}
<1>1. playerStats \in [EvmUsers -> EvmStats] /\ "DrawResult" \in Scored
  BY DEF RecordsInv, EvmInv, EvmTypeOK, Scored
<1>2. /\ evmGames' = [evmGames EXCEPT ![id] = Updated(evmGames[id], evmGames[id].black, "Draw", "DrawResult")]
      /\ \A u \in EvmUsers : playerStats'[u] =
           IF u \in pair THEN EvmRecorded(playerStats[u], 0, 0, 1, playerStats[u].rating)
                         ELSE playerStats[u]
  BY DEF endDraw
<1>3. ASSUME NEW u \in EvmUsers
      PROVE  Gains(u, WinOf(u, id, "DrawResult"), LossOf(u, id, "DrawResult"),
                   DrawOf(u, id, "DrawResult"))
  <2>1. playerStats[u] \in EvmStats
    BY <1>1
  <2>2. /\ WinOf(u, id, "DrawResult") = 0 /\ LossOf(u, id, "DrawResult") = 0
        /\ DrawOf(u, id, "DrawResult") = IF u \in pair THEN 1 ELSE 0
    BY DEF WinOf, LossOf, DrawOf
  <2> HIDE DEF pair
  <2>3. CASE u \in pair
    <3>1. playerStats'[u] = EvmRecorded(playerStats[u], 0, 0, 1, playerStats[u].rating)
      BY <1>2, <2>3
    <3> QED BY <2>1, <2>2, <2>3, <3>1 DEF EvmRecorded, EvmStats, Gains
  <2>4. CASE u \notin pair
    <3>1. playerStats'[u] = playerStats[u]
      BY <1>2, <2>4
    <3> QED BY <2>1, <2>2, <2>4, <3>1 DEF EvmStats, Gains
  <2> QED BY <2>3, <2>4
<1> DEFINE game == Updated(evmGames[id], evmGames[id].black, "Draw", "DrawResult")
<1>4. /\ game \in EvmGame /\ game.white = evmGames[id].white /\ game.black = evmGames[id].black
      /\ game.status \notin {"Waiting", "Active"} /\ game.result = "DrawResult"
  BY <1>1, EndedGame
<1>5. evmGames' = [evmGames EXCEPT ![id] = game]
  BY <1>2
<1> HIDE DEF game
<1> QED BY <1>1, <1>3, <1>4, <1>5, ScoredStep

LEMMA InitPlayerKeeps ==
  ASSUME EvmTypeOK, NEW u \in EvmUsers, initPlayerIfNeeded(u), NEW v \in EvmUsers
  PROVE  Gains(v, 0, 0, 0)
<1>1. playerStats \in [EvmUsers -> EvmStats]
  BY DEF EvmTypeOK
<1>2. playerStats'[v] \in {playerStats[v], Rated(playerStats[v], StartingElo)}
  BY <1>1 DEF initPlayerIfNeeded
<1> QED BY <1>1, <1>2 DEF Rated, Gains, EvmStats

LEMMA NothingGained ==
  ASSUME EvmTypeOK, UNCHANGED playerStats, NEW v \in EvmUsers
  PROVE  Gains(v, 0, 0, 0)
BY DEF EvmTypeOK, Gains, EvmStats

LEMMA RecordsStep ==
  ASSUME RecordsInv, [EvmNext]_evmVars
  PROVE  RecordsInv'
<1>1. EvmInv /\ EvmTypeOK /\ EvmInv'
  <2>1. EvmInv  BY DEF RecordsInv
  <2> QED BY <2>1, EvmStep DEF EvmInv
<1>2. ASSUME NEW u \in EvmUsers, NEW wager \in EvmWagers, createGame(u, wager)
      PROVE  Unscored' /\ RecordsMatchResults'
  <2> DEFINE game == [white |-> u, black |-> ZeroAddress, wager |-> wager, status |-> "Waiting",
                      result |-> "None", drawProposer |-> ZeroAddress]
  <2>1. nonce \in EvmIds /\ nonce >= nonce
    BY <1>1, <1>2, EvmAssumption DEF createGame, EvmTypeOK, EvmIds
  <2>2. evmGames[nonce] = ZeroGame
    BY <1>1, <2>1 DEF EvmInv, EvmFresh
  <2>3. evmGames[nonce].result \notin Scored /\ game.result \notin Scored
    BY <2>2 DEF ZeroGame, Scored
  <2>4. evmGames' = [evmGames EXCEPT ![nonce] = game] /\ initPlayerIfNeeded(u)
    BY <1>2 DEF createGame
  <2>5. game \in EvmGame
    BY HoldersFacts DEF EvmGame
  <2> HIDE DEF game
  <2> QED BY <1>1, <2>1, <2>3, <2>4, <2>5, InitPlayerKeeps, UnscoredStep
<1>3. ASSUME NEW u \in EvmUsers, NEW id \in EvmIds, EvmGameOp(u, id)
      PROVE  Unscored' /\ RecordsMatchResults'
  <2> DEFINE old == evmGames[id]
  <2>1. old \in EvmGame /\ old.black \in Accounts
    BY <1>1 DEF EvmTypeOK, EvmGame
  <2>2. CASE joinGame(u, id)
    <3> DEFINE game == Updated(old, u, "Active", old.result)
    <3>1. old.status = "Waiting" /\ evmGames' = [evmGames EXCEPT ![id] = game] /\ initPlayerIfNeeded(u)
      BY <2>2 DEF joinGame
    <3>2. old.result \notin Scored
      BY <3>1 DEF RecordsInv, Unscored
    <3>3. game \in EvmGame
      BY <2>1, HoldersFacts, UpdatedType DEF EvmGame
    <3>4. game.result = old.result
      BY DEF Updated
    <3> HIDE DEF game
    <3> QED BY <1>1, <3>1, <3>2, <3>3, <3>4, InitPlayerKeeps, UnscoredStep
  <2>3. CASE cancelGame(u, id) \/ reclaimExpired(u, id)
    <3> DEFINE game == Updated(old, old.black, "Cancelled", "Cancelled")
    <3>1. /\ old.status \in {"Waiting", "Active"} /\ evmGames' = [evmGames EXCEPT ![id] = game]
          /\ UNCHANGED playerStats
      BY <2>3 DEF cancelGame, reclaimExpired, SeatedIn
    <3>2. old.result \notin Scored
      BY <3>1 DEF RecordsInv, Unscored
    <3>3. game \in EvmGame
      BY <2>1, UpdatedType
    <3>4. game.result \notin Scored
      BY DEF Updated, Scored
    <3> HIDE DEF game
    <3> QED BY <1>1, <3>1, <3>2, <3>3, <3>4, NothingGained, UnscoredStep
  <2>4. CASE proposeDraw(u, id)
    <3> DEFINE game == [old EXCEPT !.drawProposer = u]
    <3>1. /\ old.status = "Active" /\ evmGames' = [evmGames EXCEPT ![id] = game]
          /\ UNCHANGED playerStats
      BY <2>4 DEF proposeDraw, SeatedIn
    <3>2. old.result \notin Scored
      BY <3>1 DEF RecordsInv, Unscored
    <3>3. game \in EvmGame /\ game.result = old.result
      BY <2>1, HoldersFacts DEF EvmGame
    <3> HIDE DEF game
    <3> QED BY <1>1, <3>1, <3>2, <3>3, NothingGained, UnscoredStep
  <2>5. CASE resign(u, id)
    <3>1. old.status = "Active" /\ u \in {old.white, old.black}
      BY <2>5 DEF resign, SeatedIn
    <3>2. old.white \in EvmUsers /\ old.black \in EvmUsers /\ old.black # old.white
      BY <1>1, <3>1, ActiveGame
    <3>3. \/ u = old.white /\ endGame(id, "BlackWins", old.black, old.white)
          \/ u = old.black /\ endGame(id, "WhiteWins", old.white, old.black)
      BY <2>5, <3>1 DEF resign
    <3> QED BY <3>1, <3>2, <3>3, WonRecords
  <2>6. CASE acceptDraw(u, id)
    BY <2>6, DrawnRecords DEF acceptDraw, SeatedIn
  <2>7. ASSUME NEW result \in {"WhiteWins", "BlackWins", "DrawResult"}, settleGame(u, id, result)
        PROVE  Unscored' /\ RecordsMatchResults'
    <3>1. /\ old.status = "Active"
          /\ \/ result = "WhiteWins" /\ endGame(id, "WhiteWins", old.white, old.black)
             \/ result = "BlackWins" /\ endGame(id, "BlackWins", old.black, old.white)
             \/ endDraw(id)
      BY <2>7 DEF settleGame
    <3>2. old.white \in EvmUsers /\ old.black \in EvmUsers
      BY <1>1, <3>1, ActiveGame
    <3> QED BY <3>1, <3>2, WonRecords, DrawnRecords
  <2> QED BY <1>3, <2>2, <2>3, <2>4, <2>5, <2>6, <2>7 DEF EvmGameOp
<1>4. ASSUME UNCHANGED <<evmGames, playerStats>>
      PROVE  Unscored' /\ RecordsMatchResults'
  <2>1. evmGames' = evmGames /\ playerStats' = playerStats
    BY <1>4
  <2>2. Unscored'
    BY <2>1 DEF RecordsInv, Unscored
  <2>3. ASSUME NEW u, NEW result PROVE OfWhite(u, result)' = OfWhite(u, result) /\ OfBlack(u, result)' = OfBlack(u, result)
    BY <2>1 DEF OfWhite, OfBlack
  <2>4. RecordsMatchResults'
    BY <2>1, <2>3 DEF RecordsInv, RecordsMatchResults
  <2> QED BY <2>2, <2>4
<1>5. ASSUME \/ \E u \in EvmUsers, new \in NewOracles : setOracle(u, new)
             \/ Erc20Op /\ UNCHANGED chessGameVars
             \/ EvmBlock \/ UNCHANGED evmVars
      PROVE  Unscored' /\ RecordsMatchResults'
  BY <1>4, <1>5 DEF setOracle, EvmBlock, chessGameVars, evmVars
<1>6. Unscored' /\ RecordsMatchResults'
  BY <1>2, <1>3, <1>5 DEF EvmNext
<1> QED BY <1>1, <1>6 DEF RecordsInv

LEMMA RecordsInit == EvmInit => RecordsInv
<1> SUFFICES ASSUME EvmInit PROVE RecordsInv
  OBVIOUS
<1>1. EvmInv  BY EvmStart
<1>2. \A id \in EvmIds : evmGames[id] = ZeroGame
  BY DEF EvmInit
<1>3. ZeroGame.result \notin Scored
  BY DEF ZeroGame, Scored
<1>4. Unscored
  BY <1>2, <1>3 DEF Unscored
<1>5. \A u \in EvmUsers, r \in Scored : OfWhite(u, r) = 0 /\ OfBlack(u, r) = 0
  <2> TAKE u \in EvmUsers, r \in Scored
  <2>1. /\ {id \in EvmIds : evmGames[id].white = u /\ evmGames[id].result = r} = {}
        /\ {id \in EvmIds : evmGames[id].black = u /\ evmGames[id].result = r} = {}
    BY <1>2, <1>3
  <2> QED BY <2>1, FS_EmptySet DEF OfWhite, OfBlack
<1>6. RecordsMatchResults
  <2>1. \A u \in EvmUsers : playerStats[u] = ZeroStats
    BY DEF EvmInit
  <2> QED BY <1>5, <2>1 DEF RecordsMatchResults, ZeroStats, Scored
<1> QED BY <1>1, <1>4, <1>6 DEF RecordsInv

(* Wins, losses and draws of every player count the games whose result     *)
(* says so, whatever the order of creations, joins and endings.            *)
THEOREM EvmRecordsMatch == EvmSpec => []RecordsMatchResults
<1>1. RecordsInv /\ [EvmNext]_evmVars => RecordsInv'
  BY RecordsStep
<1>2. RecordsInv => RecordsMatchResults
  BY DEF RecordsInv
<1> QED BY <1>1, <1>2, RecordsInit, PTL DEF EvmSpec

-----------------------------------------------------------------------------
(* A key that was never set holds no game. *)
KeysUnset == \A id \in SorobanIds : id >= counter => sorobans[id].status = "None"

(* What game and offers (the accounts that agreed) have to do with each    *)
(* other: no offer before the game starts, and while it runs an offer that *)
(* stands was made by one of the two players since the last move.          *)
OffersHonest(game, offers) ==
  /\ game.status \in {"None", "Waiting"} => offers = {} /\ ~game.draw_proposed
  /\ game.status = "Active" =>
       /\ game.black # game.white
       /\ offers \subseteq {game.white, game.black}
       /\ game.draw_proposed => game.draw_proposer \in offers
  /\ game.status = "Draw" => offers = {game.white, game.black}

SorobanInv ==
  /\ SorobanTypeOK
  /\ KeysUnset
  /\ \A id \in SorobanIds : OffersHonest(sorobans[id], agreed[id])

(* The escrow as the refinement sees it. *)
SorobanPurse == [a \in Addresses |-> tokens[a]]
SorobanHeld == tokens[EscrowContract]
SorobanStakesHeld == [id \in SorobanIds |-> SorobanStakeOf(sorobans[id])]

-----------------------------------------------------------------------------
LEMMA PursesFacts ==
  /\ Addresses \subseteq Purses /\ EscrowContract \in Purses /\ EscrowContract \notin Addresses
  /\ Stakes \subseteq Int /\ Transfers \subseteq Nat
BY SorobanAssumption DEF Purses

LEMMA LocksNat == \A n \in Int : Locks(n) \in Nat /\ Locks(n * 2) = 2 * Locks(n)
BY DEF Locks

(* Money into the contract, out of it to one account, and out of it to two. *)
LEMMA LockEffect ==
  ASSUME SorobanTypeOK, NEW a \in Addresses, NEW n \in Int, Lock(a, n)
  PROVE  /\ tokens' \in [Purses -> Nat]
         /\ SorobanPurse[a] >= Locks(n) /\ SorobanPurse' = [SorobanPurse EXCEPT ![a] = @ - Locks(n)]
         /\ SorobanHeld' = SorobanHeld + Locks(n)
<1>1. PICK k \in Nat : k = Locks(n)  BY LocksNat
<1>2. /\ tokens \in [Purses -> Nat] /\ tokens[a] >= k
      /\ tokens' = [tokens EXCEPT ![a] = @ - k, ![EscrowContract] = @ + k]
  BY <1>1 DEF SorobanTypeOK, Lock
<1>3. a \in Purses /\ a # EscrowContract /\ EscrowContract \in Purses /\ Addresses \subseteq Purses
  BY PursesFacts
<1>4. tokens' \in [Purses -> Nat] /\ tokens'[EscrowContract] = tokens[EscrowContract] + k
  BY <1>2, <1>3
<1>5. \A b \in Addresses : tokens'[b] = IF b = a THEN tokens[b] - k ELSE tokens[b]
  BY <1>2, <1>3, PursesFacts
<1>6. SorobanPurse' = [SorobanPurse EXCEPT ![a] = @ - k]  BY <1>5 DEF SorobanPurse
<1> QED  BY <1>1, <1>2, <1>4, <1>6 DEF SorobanPurse, SorobanHeld

LEMMA SorobanPaidOne ==
  ASSUME SorobanTypeOK, NEW a \in Addresses, NEW n \in Nat, SorobanHeld >= n,
         tokens' = [tokens EXCEPT ![EscrowContract] = @ - n, ![a] = @ + n]
  PROVE  /\ tokens' \in [Purses -> Nat]
         /\ SorobanPurse' = [SorobanPurse EXCEPT ![a] = @ + n]
         /\ SorobanHeld' = SorobanHeld - n
<1>1. tokens \in [Purses -> Nat]  BY DEF SorobanTypeOK
<1>2. a \in Purses /\ a # EscrowContract /\ EscrowContract \in Purses /\ Addresses \subseteq Purses
  BY PursesFacts
<1>3. tokens' \in [Purses -> Nat] /\ tokens'[EscrowContract] = tokens[EscrowContract] - n
  BY <1>1, <1>2 DEF SorobanHeld
<1>4. \A b \in Addresses : tokens'[b] = IF b = a THEN tokens[b] + n ELSE tokens[b]
  BY <1>1, <1>2, PursesFacts
<1>5. SorobanPurse' = [SorobanPurse EXCEPT ![a] = @ + n]  BY <1>4 DEF SorobanPurse
<1> QED  BY <1>3, <1>5 DEF SorobanHeld

LEMMA SorobanPaidTwo ==
  ASSUME SorobanTypeOK, NEW a \in Addresses, NEW b \in Addresses, a # b, NEW n \in Nat, SorobanHeld >= n * 2,
         tokens' = [tokens EXCEPT ![EscrowContract] = @ - n * 2, ![a] = @ + n, ![b] = @ + n]
  PROVE  /\ tokens' \in [Purses -> Nat]
         /\ SorobanPurse' = [SorobanPurse EXCEPT ![a] = @ + n, ![b] = @ + n]
         /\ SorobanHeld' = SorobanHeld - 2 * n
<1>1. tokens \in [Purses -> Nat]  BY DEF SorobanTypeOK
<1>2. /\ a \in Purses /\ b \in Purses /\ a # EscrowContract /\ b # EscrowContract
      /\ EscrowContract \in Purses /\ Addresses \subseteq Purses
  BY PursesFacts
<1>3. tokens' \in [Purses -> Nat] /\ tokens'[EscrowContract] = tokens[EscrowContract] - 2 * n
  BY <1>1, <1>2 DEF SorobanHeld
<1>4. \A c \in Addresses : tokens'[c] = IF c \in {a, b} THEN tokens[c] + n ELSE tokens[c]
  BY <1>1, <1>2, PursesFacts
<1>5. SorobanPurse' = [SorobanPurse EXCEPT ![a] = @ + n, ![b] = @ + n]  BY <1>4 DEF SorobanPurse
<1> QED  BY <1>3, <1>5 DEF SorobanHeld

LEMMA RankedType ==
  ASSUME NEW r \in Rank, NEW w \in 0..1, NEW l \in 0..1, NEW d \in 0..1, NEW rating \in Nat
  PROVE  Ranked(r, w, l, d, rating) \in Rank
BY DEF Ranked, Rank

(* One key changes, and the others stay: the parts of the invariant and    *)
(* the escrow's view.                                                      *)
LEMMA OneGame ==
  ASSUME SorobanInv, NEW id \in SorobanIds, NEW game \in SorobanGame,
         sorobans' = [sorobans EXCEPT ![id] = game],
         agreed' \in [SorobanIds -> SUBSET Addresses],
         \A i \in SorobanIds \ {id} : agreed'[i] = agreed[i],
         OffersHonest(game, agreed'[id]),
         \/ id < counter /\ counter' = counter
         \/ id = counter /\ counter' = counter + 1
  PROVE  /\ sorobans' \in [SorobanIds -> SorobanGame] /\ KeysUnset'
         /\ \A i \in SorobanIds : OffersHonest(sorobans'[i], agreed'[i])
         /\ SorobanStakesHeld' = [SorobanStakesHeld EXCEPT ![id] = SorobanStakeOf(game)]
<1>1. sorobans \in [SorobanIds -> SorobanGame] /\ counter \in Nat /\ KeysUnset
  BY DEF SorobanInv, SorobanTypeOK
<1>2. \A i \in SorobanIds : sorobans'[i] = IF i = id THEN game ELSE sorobans[i]
  BY <1>1
<1>3. sorobans' \in [SorobanIds -> SorobanGame]  BY <1>1
<1>4. KeysUnset'  BY <1>1, <1>2 DEF KeysUnset, SorobanIds
<1>5. \A i \in SorobanIds : OffersHonest(sorobans'[i], agreed'[i])
  BY <1>2 DEF SorobanInv
<1>6. \A i \in SorobanIds : SorobanStakeOf(sorobans'[i]) =
        (IF i = id THEN SorobanStakeOf(game) ELSE SorobanStakeOf(sorobans[i]))
  BY <1>2
<1>7. SorobanStakesHeld' = [i \in SorobanIds |-> SorobanStakeOf(sorobans'[i])]
  BY DEF SorobanStakesHeld, SorobanStakeOf, Locks
<1> QED  BY <1>3, <1>4, <1>5, <1>6, <1>7 DEF SorobanStakesHeld

(* What is known of a key that was set.                                     *)
LEMMA GameFacts ==
  ASSUME SorobanInv, NEW id \in SorobanIds, sorobans[id].status # "None"
  PROVE  /\ id < counter /\ sorobans[id] \in SorobanGame
         /\ sorobans[id].white \in Addresses /\ sorobans[id].black \in Addresses
         /\ sorobans[id].turn \in Addresses
         /\ sorobans[id].wager \in Int /\ Locks(sorobans[id].wager) \in Nat
         /\ SorobanStakeOf(sorobans[id]) = SorobanStakesHeld[id]
         /\ OffersHonest(sorobans[id], agreed[id])
         /\ agreed[id] \in SUBSET Addresses
<1>1. id \in Nat /\ counter \in Nat  BY SorobanAssumption DEF SorobanIds, SorobanInv, SorobanTypeOK
<1>2. id < counter  BY <1>1 DEF SorobanInv, KeysUnset
<1>3. sorobans[id] \in SorobanGame /\ agreed[id] \in SUBSET Addresses
  BY DEF SorobanInv, SorobanTypeOK
<1>4. /\ sorobans[id].white \in Addresses /\ sorobans[id].black \in Addresses
      /\ sorobans[id].turn \in Addresses /\ sorobans[id].wager \in Int
  BY <1>3 DEF SorobanGame
<1> QED  BY <1>2, <1>3, <1>4, LocksNat DEF SorobanInv, SorobanStakesHeld

LEMMA MatchedStake ==
  ASSUME NEW game, game.status = "Active"
  PROVE  /\ SorobanStakeOf(game).phase = "matched" /\ SorobanStakeOf(game).first = game.white
         /\ SorobanStakeOf(game).second = game.black /\ SorobanStakeOf(game).each = Locks(game.wager)
BY DEF SorobanStakeOf

LEMMA OpenStake ==
  ASSUME NEW game, game.status = "Waiting"
  PROVE  /\ SorobanStakeOf(game) = [phase |-> "open", first |-> game.white, each |-> Locks(game.wager)]
         /\ SorobanStakeOf(game).phase = "open" /\ SorobanStakeOf(game).first = game.white
         /\ SorobanStakeOf(game).each = Locks(game.wager)
BY DEF SorobanStakeOf

(* One field at a time: what the updates of several fields of a game are.   *)
LEMMA OneField ==
  ASSUME NEW g \in SorobanGame
  PROVE  /\ \A a \in Addresses : [g EXCEPT !.black = a] =
           [white |-> g.white, black |-> a, wager |-> g.wager, status |-> g.status,
           turn |-> g.turn, move_count |-> g.move_count, draw_proposer |-> g.draw_proposer, draw_proposed |-> g.draw_proposed]
         /\ \A s \in STRING : [g EXCEPT !.status = s] =
           [white |-> g.white, black |-> g.black, wager |-> g.wager, status |-> s,
           turn |-> g.turn, move_count |-> g.move_count, draw_proposer |-> g.draw_proposer, draw_proposed |-> g.draw_proposed]
         /\ \A a \in Addresses : [g EXCEPT !.turn = a] =
           [white |-> g.white, black |-> g.black, wager |-> g.wager, status |-> g.status,
           turn |-> a, move_count |-> g.move_count, draw_proposer |-> g.draw_proposer, draw_proposed |-> g.draw_proposed]
         /\ \A n \in Nat : [g EXCEPT !.move_count = n] =
           [white |-> g.white, black |-> g.black, wager |-> g.wager, status |-> g.status,
           turn |-> g.turn, move_count |-> n, draw_proposer |-> g.draw_proposer, draw_proposed |-> g.draw_proposed]
         /\ \A a \in Addresses : [g EXCEPT !.draw_proposer = a] =
           [white |-> g.white, black |-> g.black, wager |-> g.wager, status |-> g.status,
           turn |-> g.turn, move_count |-> g.move_count, draw_proposer |-> a, draw_proposed |-> g.draw_proposed]
         /\ \A b \in BOOLEAN : [g EXCEPT !.draw_proposed = b] =
           [white |-> g.white, black |-> g.black, wager |-> g.wager, status |-> g.status,
           turn |-> g.turn, move_count |-> g.move_count, draw_proposer |-> g.draw_proposer, draw_proposed |-> b]
BY DEF SorobanGame

(* Closing a game changes its status alone.                                 *)
LEMMA ClosedGame ==
  ASSUME SorobanInv, NEW id \in SorobanIds, sorobans[id].status # "None",
         NEW status \in {"Finished", "Cancelled", "Draw"}, Closed(id, status)
  PROVE  \E game \in SorobanGame :
           /\ sorobans' = [sorobans EXCEPT ![id] = game]
           /\ game.status = status /\ game.white = sorobans[id].white /\ game.black = sorobans[id].black
           /\ SorobanStakeOf(game) = [phase |-> "closed"]
<1> DEFINE old == sorobans[id]
           game == [white |-> old.white, black |-> old.black, wager |-> old.wager, status |-> status,
                    turn |-> old.turn, move_count |-> old.move_count,
                    draw_proposer |-> old.draw_proposer, draw_proposed |-> old.draw_proposed]
<1>1. old \in SorobanGame  BY GameFacts
<1>2. [old EXCEPT !.status = status] = game  BY <1>1 DEF SorobanGame
<1>3. game \in SorobanGame  BY <1>1 DEF SorobanGame
<1>4. sorobans' = [sorobans EXCEPT ![id] = game]  BY <1>2 DEF Closed
<1>5. game.status = status /\ game.white = old.white /\ game.black = old.black  OBVIOUS
<1>6. SorobanStakeOf(game) = [phase |-> "closed"]  BY <1>5 DEF SorobanStakeOf
<1> HIDE DEF game
<1> QED  BY <1>3, <1>4, <1>5, <1>6

-----------------------------------------------------------------------------
(* The functions, each with the invariant it keeps and the escrow step it is *)

LEMMA SorobanCreateStep ==
  ASSUME SorobanInv, NEW a \in Addresses, NEW wager \in Stakes, create_game(a, wager)
  PROVE  SorobanInv' /\ SorobanEscrow!EscrowNext
<1> DEFINE game == [white |-> a, black |-> a, wager |-> wager, status |-> "Waiting",
                    turn |-> a, move_count |-> 0, draw_proposer |-> a, draw_proposed |-> FALSE]
<1>1. wager \in Int /\ counter \in Nat /\ counter \in SorobanIds /\ counter + 1 \in 0..SorobanGames
  BY PursesFacts, SorobanAssumption DEF create_game, SorobanInv, SorobanTypeOK, SorobanIds
<1>2. /\ tokens' \in [Purses -> Nat] /\ SorobanPurse[a] >= Locks(wager)
      /\ SorobanPurse' = [SorobanPurse EXCEPT ![a] = @ - Locks(wager)] /\ SorobanHeld' = SorobanHeld + Locks(wager)
  BY <1>1, LockEffect DEF create_game, SorobanInv
<1>3. game \in SorobanGame /\ game.status = "Waiting" /\ game.white = a /\ game.wager = wager
      /\ ~game.draw_proposed
  BY <1>1 DEF SorobanGame
<1>4. sorobans' = [sorobans EXCEPT ![counter] = game]
  BY DEF create_game
<1> HIDE DEF game
<1>5. SorobanStakeOf(game) = [phase |-> "open", first |-> a, each |-> Locks(wager)]
  BY <1>3, OpenStake
<1>6. sorobans[counter].status = "None"  BY <1>1 DEF SorobanInv, KeysUnset
<1>7. agreed[counter] = {} /\ agreed' = agreed /\ agreed \in [SorobanIds -> SUBSET Addresses]
  BY <1>1, <1>6 DEF SorobanInv, OffersHonest, create_game, SorobanTypeOK
<1>8. OffersHonest(game, agreed'[counter])  BY <1>3, <1>7 DEF OffersHonest
<1>9. counter' = counter + 1  BY DEF create_game
<1>10. PICK id \in SorobanIds : id = counter  BY <1>1
<1>11. /\ sorobans' \in [SorobanIds -> SorobanGame] /\ KeysUnset'
       /\ \A i \in SorobanIds : OffersHonest(sorobans'[i], agreed'[i])
       /\ SorobanStakesHeld' = [SorobanStakesHeld EXCEPT ![id] = SorobanStakeOf(game)]
  BY <1>3, <1>4, <1>7, <1>8, <1>9, <1>10, OneGame
<1>12. idle' \in [SorobanIds -> 0..MaxTicks]
  BY <1>1, SorobanAssumption DEF create_game, SorobanInv, SorobanTypeOK
<1>13. SorobanTypeOK'
  BY <1>1, <1>2, <1>7, <1>9, <1>11, <1>12 DEF SorobanTypeOK, SorobanInv, create_game
<1>14. SorobanStakesHeld[id] = [phase |-> "unopened"]
  BY <1>6, <1>10 DEF SorobanStakesHeld, SorobanStakeOf
<1>15. PICK k \in Nat : k = Locks(wager)  BY <1>1, LocksNat
<1>16. SorobanEscrow!Open(id, a, k)
  BY <1>2, <1>5, <1>11, <1>14, <1>15
     DEF SorobanEscrow!Open, SorobanEscrow!Unopened, SorobanPurse, SorobanHeld, SorobanStakesHeld
<1>17. SorobanPurse[a] \in Nat  BY PursesFacts DEF SorobanPurse, SorobanInv, SorobanTypeOK
<1>18. k \in 0..SorobanPurse[a]  BY <1>2, <1>15, <1>17
<1>19. SorobanEscrow!EscrowNext  BY <1>16, <1>18 DEF SorobanEscrow!EscrowNext, SorobanPurse
<1> QED  BY <1>11, <1>13, <1>19 DEF SorobanInv

LEMMA SorobanJoinStep ==
  ASSUME SorobanInv, NEW a \in Addresses, NEW id \in SorobanIds, join_game(a, id)
  PROVE  SorobanInv' /\ SorobanEscrow!Match(id, a)
<1> DEFINE old == sorobans[id]
           game == [white |-> old.white, black |-> a, wager |-> old.wager, status |-> "Active",
                    turn |-> old.turn, move_count |-> old.move_count,
                    draw_proposer |-> old.draw_proposer, draw_proposed |-> old.draw_proposed]
<1>1. /\ old.status = "Waiting" /\ a # old.white /\ id < counter /\ old \in SorobanGame
      /\ old.wager \in Int /\ SorobanStakeOf(old) = SorobanStakesHeld[id]
      /\ OffersHonest(old, agreed[id])
  BY GameFacts DEF join_game
<1>2. /\ tokens' \in [Purses -> Nat] /\ SorobanPurse[a] >= Locks(old.wager)
      /\ SorobanPurse' = [SorobanPurse EXCEPT ![a] = @ - Locks(old.wager)] /\ SorobanHeld' = SorobanHeld + Locks(old.wager)
  BY <1>1, LockEffect DEF join_game, SorobanInv
<1>3. [old EXCEPT !.black = a, !.status = "Active"] = game
  <2>1. PICK joined \in SorobanGame : joined =
          [white |-> old.white, black |-> a, wager |-> old.wager, status |-> old.status,
           turn |-> old.turn, move_count |-> old.move_count, draw_proposer |-> old.draw_proposer, draw_proposed |-> old.draw_proposed]
    BY <1>1 DEF SorobanGame
  <2>2. [old EXCEPT !.black = a] = joined  BY <1>1, <2>1, OneField
  <2>3. [joined EXCEPT !.status = "Active"] = game  BY <2>1, OneField
  <2> QED  BY <2>2, <2>3
<1>4. sorobans' = [sorobans EXCEPT ![id] = game]
  BY <1>3 DEF join_game
<1>5. /\ game \in SorobanGame /\ game.status = "Active" /\ game.white = old.white
      /\ game.black = a /\ game.wager = old.wager /\ game.draw_proposed = old.draw_proposed
  BY <1>1 DEF SorobanGame
<1> HIDE DEF game, old
<1>6. agreed' = agreed /\ agreed \in [SorobanIds -> SUBSET Addresses] /\ counter' = counter
  BY DEF join_game, Settings, SorobanInv, SorobanTypeOK
<1>7. OffersHonest(game, agreed'[id])
  BY <1>1, <1>5, <1>6 DEF OffersHonest
<1>8. /\ sorobans' \in [SorobanIds -> SorobanGame] /\ KeysUnset'
      /\ \A i \in SorobanIds : OffersHonest(sorobans'[i], agreed'[i])
      /\ SorobanStakesHeld' = [SorobanStakesHeld EXCEPT ![id] = SorobanStakeOf(game)]
  BY <1>1, <1>4, <1>5, <1>6, <1>7, OneGame
<1>9. idle' \in [SorobanIds -> 0..MaxTicks]
  <2>1. idle \in [SorobanIds -> 0..MaxTicks] /\ 0 \in 0..MaxTicks
    BY SorobanAssumption DEF SorobanInv, SorobanTypeOK
  <2> QED  BY <2>1 DEF join_game
<1>10. SorobanTypeOK'
  BY <1>2, <1>6, <1>8, <1>9 DEF SorobanTypeOK, SorobanInv, join_game, Settings
<1>11. /\ SorobanStakesHeld[id].phase = "open" /\ SorobanStakesHeld[id].first = old.white
       /\ SorobanStakesHeld[id].each = Locks(old.wager)
  BY <1>1, OpenStake
<1>12. SorobanStakeOf(game) =
         [phase |-> "matched", first |-> SorobanStakesHeld[id].first, second |-> a, each |-> SorobanStakesHeld[id].each]
  BY <1>5, <1>11 DEF SorobanStakeOf
<1>13. /\ SorobanStakesHeld' = [SorobanStakesHeld EXCEPT ![id] =
            [phase |-> "matched", first |-> SorobanStakesHeld[id].first, second |-> a, each |-> SorobanStakesHeld[id].each]]
       /\ a # SorobanStakesHeld[id].first /\ SorobanPurse[a] >= SorobanStakesHeld[id].each
       /\ SorobanPurse' = [SorobanPurse EXCEPT ![a] = @ - SorobanStakesHeld[id].each]
       /\ SorobanHeld' = SorobanHeld + SorobanStakesHeld[id].each
  BY <1>1, <1>2, <1>8, <1>11, <1>12
<1>14. SorobanEscrow!Match(id, a)
  BY <1>11, <1>13 DEF SorobanEscrow!Match, SorobanPurse, SorobanHeld, SorobanStakesHeld
<1> QED  BY <1>8, <1>10, <1>14 DEF SorobanInv

(* Whichever way a running game is won, the winner is paid.                 *)
LEMMA SorobanEndGameStep ==
  ASSUME SorobanInv, NEW id \in SorobanIds, sorobans[id].status = "Active",
         NEW winner \in Addresses, winner \in {sorobans[id].white, sorobans[id].black},
         NEW loser \in Addresses,
         end_game(id, winner, loser), UNCHANGED <<Settings, idle, agreed>>
  PROVE  SorobanInv' /\ SorobanEscrow!PayWinner(id, winner)
<1> DEFINE old == sorobans[id]
<1>1. /\ id < counter /\ old.wager \in Int /\ Locks(old.wager) \in Nat
      /\ SorobanStakeOf(old) = SorobanStakesHeld[id] /\ OffersHonest(old, agreed[id])
  BY GameFacts
<1>2. PICK game \in SorobanGame :
        /\ sorobans' = [sorobans EXCEPT ![id] = game]
        /\ game.status = "Finished" /\ SorobanStakeOf(game) = [phase |-> "closed"]
  BY ClosedGame DEF end_game
<1>3. PICK pot \in Nat : pot = Locks(old.wager * 2) /\ pot = 2 * Locks(old.wager)
  BY <1>1, LocksNat
<1>4. /\ SorobanHeld >= pot
      /\ tokens' = [tokens EXCEPT ![EscrowContract] = @ - pot, ![winner] = @ + pot]
  BY <1>3 DEF end_game, SorobanHeld
<1>5. /\ tokens' \in [Purses -> Nat] /\ SorobanPurse' = [SorobanPurse EXCEPT ![winner] = @ + pot]
      /\ SorobanHeld' = SorobanHeld - pot
  BY <1>4, SorobanPaidOne DEF SorobanInv
<1>6. ranks' \in [Addresses -> Rank]
  <2> DEFINE w == ranks[winner]
             l == ranks[loser]
  <2>1. w \in Rank /\ l \in Rank /\ ranks \in [Addresses -> Rank]
    BY DEF SorobanInv, SorobanTypeOK
  <2>2. w.rating \in Nat /\ l.rating \in Nat  BY <2>1 DEF Rank
  <2>3. ranks' = [ranks EXCEPT
           ![winner] = Ranked(w, 1, 0, 0, WinnerRating(w.rating, l.rating)),
           ![loser] = Ranked(l, 0, 1, 0, LoserRating(w.rating, l.rating))]
    BY DEF end_game
  <2> HIDE DEF w, l
  <2>4. WinnerRating(w.rating, l.rating) \in Nat
    BY <2>2, DecidedRatingsNat
  <2>5. LoserRating(w.rating, l.rating) \in Nat
    BY <2>2, DecidedRatingsNat
  <2>6. /\ Ranked(w, 1, 0, 0, WinnerRating(w.rating, l.rating)) \in Rank
        /\ Ranked(l, 0, 1, 0, LoserRating(w.rating, l.rating)) \in Rank
    BY <2>1, <2>4, <2>5, RankedType
  <2> QED  BY <2>1, <2>3, <2>6
<1>7. agreed' = agreed /\ agreed \in [SorobanIds -> SUBSET Addresses] /\ counter' = counter
  BY DEF Settings, SorobanInv, SorobanTypeOK
<1>8. OffersHonest(game, agreed'[id])  BY <1>2 DEF OffersHonest
<1>9. /\ sorobans' \in [SorobanIds -> SorobanGame] /\ KeysUnset'
      /\ \A i \in SorobanIds : OffersHonest(sorobans'[i], agreed'[i])
      /\ SorobanStakesHeld' = [SorobanStakesHeld EXCEPT ![id] = SorobanStakeOf(game)]
  BY <1>1, <1>2, <1>7, <1>8, OneGame
<1>10. SorobanTypeOK'
  BY <1>5, <1>6, <1>7, <1>9 DEF SorobanTypeOK, SorobanInv, Settings
<1>11. /\ SorobanStakesHeld[id].phase = "matched" /\ SorobanStakesHeld[id].each = Locks(old.wager)
       /\ winner \in {SorobanStakesHeld[id].first, SorobanStakesHeld[id].second}
  BY <1>1, MatchedStake
<1>12. /\ SorobanPurse' = [SorobanPurse EXCEPT ![winner] = @ + 2 * SorobanStakesHeld[id].each]
       /\ SorobanHeld' = SorobanHeld - 2 * SorobanStakesHeld[id].each
       /\ SorobanStakesHeld' = [SorobanStakesHeld EXCEPT ![id] = [phase |-> "closed"]]
  BY <1>2, <1>3, <1>5, <1>9, <1>11
<1>13. SorobanEscrow!PayWinner(id, winner)
  BY <1>11, <1>12
     DEF SorobanEscrow!PayWinner, SorobanEscrow!Closed, SorobanPurse, SorobanHeld, SorobanStakesHeld
<1> QED  BY <1>9, <1>10, <1>13 DEF SorobanInv

LEMMA AcceptStep ==
  ASSUME SorobanInv, NEW a \in Addresses, NEW id \in SorobanIds, accept_draw(a, id)
  PROVE  SorobanInv' /\ SorobanEscrow!Split(id)
<1> DEFINE old == sorobans[id]
<1>1. /\ old.status = "Active" /\ a \in {old.white, old.black}
      /\ old.draw_proposed /\ old.draw_proposer # a
  BY DEF accept_draw, Seat
<1>2. /\ id < counter /\ old.wager \in Int /\ old.white \in Addresses /\ old.black \in Addresses
      /\ SorobanStakeOf(old) = SorobanStakesHeld[id] /\ OffersHonest(old, agreed[id])
  BY <1>1, GameFacts
<1>3. PICK game \in SorobanGame :
        /\ sorobans' = [sorobans EXCEPT ![id] = game]
        /\ game.status = "Draw" /\ game.white = old.white /\ game.black = old.black
        /\ SorobanStakeOf(game) = [phase |-> "closed"]
  BY <1>1, ClosedGame DEF accept_draw
<1>4. PICK white \in Addresses, black \in Addresses, each \in Nat :
        white = old.white /\ black = old.black /\ each = Locks(old.wager)
  BY <1>2, LocksNat
<1>5. white # black  BY <1>1, <1>2, <1>4 DEF OffersHonest
<1>6. /\ SorobanHeld >= each * 2
      /\ tokens' = [tokens EXCEPT ![EscrowContract] = @ - each * 2, ![white] = @ + each, ![black] = @ + each]
  BY <1>4 DEF accept_draw, SorobanHeld
<1>7. /\ tokens' \in [Purses -> Nat]
      /\ SorobanPurse' = [SorobanPurse EXCEPT ![white] = @ + each, ![black] = @ + each]
      /\ SorobanHeld' = SorobanHeld - 2 * each
  BY <1>5, <1>6, SorobanPaidTwo DEF SorobanInv
<1>8. ranks' \in [Addresses -> Rank]
  <2> SUFFICES ASSUME NEW b \in Addresses
               PROVE  Ranked(ranks[b], 0, 0, 1, ranks[b].rating) \in Rank /\ ranks[b] \in Rank
    BY DEF accept_draw
  <2>1. ranks[b] \in Rank  BY DEF SorobanInv, SorobanTypeOK
  <2>2. ranks[b].rating \in Nat  BY <2>1 DEF Rank
  <2>3. 0 \in 0..1 /\ 1 \in 0..1  OBVIOUS
  <2> QED  BY <2>1, <2>2, <2>3, RankedType
<1>9. /\ agreed' = [agreed EXCEPT ![id] = @ \cup {a}] /\ agreed \in [SorobanIds -> SUBSET Addresses]
      /\ counter' = counter
  BY DEF accept_draw, Settings, SorobanInv, SorobanTypeOK
<1>10. OffersHonest(game, agreed'[id])
  <2>1. agreed'[id] = agreed[id] \cup {a}  BY <1>9
  <2>2. /\ agreed[id] \subseteq {old.white, old.black} /\ old.draw_proposer \in agreed[id]
    BY <1>1, <1>2 DEF OffersHonest
  <2>3. agreed'[id] = {old.white, old.black}  BY <1>1, <2>1, <2>2
  <2> QED  BY <1>3, <2>3 DEF OffersHonest
<1>11. /\ sorobans' \in [SorobanIds -> SorobanGame] /\ KeysUnset'
       /\ \A i \in SorobanIds : OffersHonest(sorobans'[i], agreed'[i])
       /\ SorobanStakesHeld' = [SorobanStakesHeld EXCEPT ![id] = SorobanStakeOf(game)]
       /\ agreed' \in [SorobanIds -> SUBSET Addresses]
  <2>1. agreed' \in [SorobanIds -> SUBSET Addresses]  BY <1>9
  <2>2. \A i \in SorobanIds \ {id} : agreed'[i] = agreed[i]  BY <1>9
  <2> QED  BY <1>2, <1>3, <1>9, <1>10, <2>1, <2>2, OneGame
<1>12. SorobanTypeOK'
  BY <1>7, <1>8, <1>9, <1>11 DEF SorobanTypeOK, SorobanInv, accept_draw, Settings
<1>13. /\ SorobanStakesHeld[id].phase = "matched" /\ SorobanStakesHeld[id].each = each
       /\ SorobanStakesHeld[id].first = white /\ SorobanStakesHeld[id].second = black
  BY <1>1, <1>2, <1>4, MatchedStake
<1>14. /\ SorobanPurse' = [SorobanPurse EXCEPT ![SorobanStakesHeld[id].first] = @ + SorobanStakesHeld[id].each,
                                 ![SorobanStakesHeld[id].second] = @ + SorobanStakesHeld[id].each]
       /\ SorobanHeld' = SorobanHeld - 2 * SorobanStakesHeld[id].each
       /\ SorobanStakesHeld' = [SorobanStakesHeld EXCEPT ![id] = [phase |-> "closed"]]
  BY <1>3, <1>7, <1>11, <1>13
<1>15. SorobanEscrow!Split(id)
  BY <1>13, <1>14 DEF SorobanEscrow!Split, SorobanEscrow!Closed, SorobanPurse, SorobanHeld, SorobanStakesHeld
<1> QED  BY <1>11, <1>12, <1>15 DEF SorobanInv

LEMMA SorobanCancelStep ==
  ASSUME SorobanInv, NEW a \in Addresses, NEW id \in SorobanIds, cancel_game(a, id)
  PROVE  SorobanInv' /\ SorobanEscrow!Withdraw(id)
<1> DEFINE old == sorobans[id]
<1>1. /\ old.status = "Waiting" /\ a = old.white
  BY DEF cancel_game
<1>2. /\ id < counter /\ old.wager \in Int /\ SorobanStakeOf(old) = SorobanStakesHeld[id]
  BY <1>1, GameFacts
<1>3. PICK game \in SorobanGame :
        /\ sorobans' = [sorobans EXCEPT ![id] = game]
        /\ game.status = "Cancelled" /\ SorobanStakeOf(game) = [phase |-> "closed"]
  BY <1>1, ClosedGame DEF cancel_game
<1>4. PICK each \in Nat : each = Locks(old.wager)
  BY <1>2, LocksNat
<1>5. /\ SorobanHeld >= each
      /\ tokens' = [tokens EXCEPT ![EscrowContract] = @ - each, ![a] = @ + each]
  BY <1>4 DEF cancel_game, SorobanHeld
<1>6. /\ tokens' \in [Purses -> Nat] /\ SorobanPurse' = [SorobanPurse EXCEPT ![a] = @ + each]
      /\ SorobanHeld' = SorobanHeld - each
  BY <1>5, SorobanPaidOne DEF SorobanInv
<1>7. agreed' = agreed /\ agreed \in [SorobanIds -> SUBSET Addresses] /\ counter' = counter
  BY DEF cancel_game, Settings, SorobanInv, SorobanTypeOK
<1>8. OffersHonest(game, agreed'[id])  BY <1>3 DEF OffersHonest
<1>9. /\ sorobans' \in [SorobanIds -> SorobanGame] /\ KeysUnset'
      /\ \A i \in SorobanIds : OffersHonest(sorobans'[i], agreed'[i])
      /\ SorobanStakesHeld' = [SorobanStakesHeld EXCEPT ![id] = SorobanStakeOf(game)]
  BY <1>2, <1>3, <1>7, <1>8, OneGame
<1>10. SorobanTypeOK'
  BY <1>6, <1>7, <1>9 DEF SorobanTypeOK, SorobanInv, cancel_game, Settings
<1>11. /\ SorobanStakesHeld[id].phase = "open" /\ SorobanStakesHeld[id].each = each
       /\ SorobanStakesHeld[id].first = a
  BY <1>1, <1>2, <1>4, OpenStake
<1>12. /\ SorobanPurse' = [SorobanPurse EXCEPT ![SorobanStakesHeld[id].first] = @ + SorobanStakesHeld[id].each]
       /\ SorobanHeld' = SorobanHeld - SorobanStakesHeld[id].each
       /\ SorobanStakesHeld' = [SorobanStakesHeld EXCEPT ![id] = [phase |-> "closed"]]
  BY <1>3, <1>6, <1>9, <1>11
<1>13. SorobanEscrow!Withdraw(id)
  BY <1>11, <1>12 DEF SorobanEscrow!Withdraw, SorobanEscrow!Closed, SorobanPurse, SorobanHeld, SorobanStakesHeld
<1> QED  BY <1>9, <1>10, <1>13 DEF SorobanInv

(* Moves and offers move no money.                                          *)
LEMMA MoveStep ==
  ASSUME SorobanInv, NEW a \in Addresses, NEW id \in SorobanIds, submit_move(a, id)
  PROVE  SorobanInv' /\ SorobanPurse' = SorobanPurse /\ SorobanHeld' = SorobanHeld /\ SorobanStakesHeld' = SorobanStakesHeld
<1> DEFINE old == sorobans[id]
           other == Other(a, id)
           game == [white |-> old.white, black |-> old.black, wager |-> old.wager, status |-> old.status,
                    turn |-> other, move_count |-> old.move_count + 1,
                    draw_proposer |-> old.draw_proposer, draw_proposed |-> FALSE]
<1>1. /\ old.status = "Active" /\ id < counter /\ old \in SorobanGame
      /\ SorobanStakeOf(old) = SorobanStakesHeld[id] /\ OffersHonest(old, agreed[id])
      /\ old.white \in Addresses /\ old.black \in Addresses
  BY GameFacts DEF submit_move
<1>2. other \in Addresses  BY <1>1 DEF Other
<1>3. [old EXCEPT !.turn = other, !.move_count = old.move_count + 1, !.draw_proposed = FALSE] = game
  <2> HIDE DEF other
  <2>1. PICK passed \in SorobanGame : passed =
          [white |-> old.white, black |-> old.black, wager |-> old.wager, status |-> old.status,
           turn |-> other, move_count |-> old.move_count, draw_proposer |-> old.draw_proposer, draw_proposed |-> old.draw_proposed]
    BY <1>1, <1>2 DEF SorobanGame
  <2>2. PICK n \in Nat : n = old.move_count + 1  BY <1>1 DEF SorobanGame
  <2>3. PICK counted \in SorobanGame : counted =
          [white |-> old.white, black |-> old.black, wager |-> old.wager, status |-> old.status,
           turn |-> other, move_count |-> n, draw_proposer |-> old.draw_proposer, draw_proposed |-> old.draw_proposed]
    BY <1>1, <1>2 DEF SorobanGame
  <2>4. [old EXCEPT !.turn = other] = passed  BY <1>1, <1>2, <2>1, OneField
  <2>5. [passed EXCEPT !.move_count = n] = counted
    BY <2>1, <2>2, <2>3, OneField
  <2>6. [counted EXCEPT !.draw_proposed = FALSE] = game  BY <2>2, <2>3, OneField
  <2> QED  BY <2>2, <2>4, <2>5, <2>6
<1>4. sorobans' = [sorobans EXCEPT ![id] = game]
  BY <1>3 DEF submit_move
<1>5. /\ game \in SorobanGame /\ game.status = old.status /\ game.white = old.white
      /\ game.black = old.black /\ game.wager = old.wager /\ ~game.draw_proposed
  <2> HIDE DEF other
  <2> QED  BY <1>1, <1>2 DEF SorobanGame
<1> HIDE DEF game, old
<1>6. /\ agreed' = [agreed EXCEPT ![id] = {}] /\ agreed \in [SorobanIds -> SUBSET Addresses]
      /\ counter' = counter
  BY DEF submit_move, Settings, SorobanInv, SorobanTypeOK
<1>7. OffersHonest(game, agreed'[id])
  BY <1>1, <1>5, <1>6 DEF OffersHonest
<1>8. agreed' \in [SorobanIds -> SUBSET Addresses] /\ \A i \in SorobanIds \ {id} : agreed'[i] = agreed[i]
  BY <1>6
<1>9. /\ sorobans' \in [SorobanIds -> SorobanGame] /\ KeysUnset'
      /\ \A i \in SorobanIds : OffersHonest(sorobans'[i], agreed'[i])
      /\ SorobanStakesHeld' = [SorobanStakesHeld EXCEPT ![id] = SorobanStakeOf(game)]
  BY <1>1, <1>4, <1>5, <1>6, <1>7, <1>8, OneGame
<1>10. SorobanStakeOf(game) = SorobanStakesHeld[id]
  BY <1>1, <1>5 DEF SorobanStakeOf
<1>11. SorobanStakesHeld' = SorobanStakesHeld  BY <1>9, <1>10 DEF SorobanStakesHeld
<1>12. idle' \in [SorobanIds -> 0..MaxTicks]
  <2>1. idle \in [SorobanIds -> 0..MaxTicks] /\ 0 \in 0..MaxTicks
    BY SorobanAssumption DEF SorobanInv, SorobanTypeOK
  <2> QED  BY <2>1 DEF submit_move
<1>13. tokens' = tokens  BY DEF submit_move
<1>14. SorobanTypeOK'
  BY <1>6, <1>8, <1>9, <1>12 DEF SorobanTypeOK, SorobanInv, submit_move, Settings
<1> QED  BY <1>9, <1>11, <1>13, <1>14 DEF SorobanInv, SorobanPurse, SorobanHeld

LEMMA SorobanProposeStep ==
  ASSUME SorobanInv, NEW a \in Addresses, NEW id \in SorobanIds, propose_draw(a, id)
  PROVE  SorobanInv' /\ SorobanPurse' = SorobanPurse /\ SorobanHeld' = SorobanHeld /\ SorobanStakesHeld' = SorobanStakesHeld
<1> DEFINE old == sorobans[id]
           game == [white |-> old.white, black |-> old.black, wager |-> old.wager, status |-> old.status,
                    turn |-> old.turn, move_count |-> old.move_count,
                    draw_proposer |-> a, draw_proposed |-> TRUE]
<1>1. /\ old.status = "Active" /\ a \in {old.white, old.black} /\ id < counter /\ old \in SorobanGame
      /\ SorobanStakeOf(old) = SorobanStakesHeld[id] /\ OffersHonest(old, agreed[id])
  BY GameFacts DEF propose_draw, Seat
<1>2. [old EXCEPT !.draw_proposed = TRUE, !.draw_proposer = a] = game
  <2>1. PICK offered \in SorobanGame : offered =
          [white |-> old.white, black |-> old.black, wager |-> old.wager, status |-> old.status,
           turn |-> old.turn, move_count |-> old.move_count, draw_proposer |-> old.draw_proposer, draw_proposed |-> TRUE]
    BY <1>1 DEF SorobanGame
  <2>2. [old EXCEPT !.draw_proposed = TRUE] = offered  BY <1>1, <2>1, OneField
  <2>3. a \in Addresses  OBVIOUS
  <2>4. [offered EXCEPT !.draw_proposer = a] = game
    <3>1. [offered EXCEPT !.draw_proposer = a] =
            [white |-> offered.white, black |-> offered.black, wager |-> offered.wager, status |-> offered.status,
             turn |-> offered.turn, move_count |-> offered.move_count, draw_proposer |-> a,
             draw_proposed |-> offered.draw_proposed]
      BY <2>3, OneField
    <3> QED BY <2>1, <3>1
  <2> QED  BY <2>2, <2>4
<1>3. sorobans' = [sorobans EXCEPT ![id] = game]
  BY <1>2 DEF propose_draw
<1>4. /\ game \in SorobanGame /\ game.status = old.status /\ game.white = old.white
      /\ game.black = old.black /\ game.wager = old.wager /\ game.draw_proposer = a
  BY <1>1 DEF SorobanGame
<1> HIDE DEF game, old
<1>5. /\ agreed' = [agreed EXCEPT ![id] = @ \cup {a}] /\ agreed \in [SorobanIds -> SUBSET Addresses]
      /\ counter' = counter
  BY DEF propose_draw, Settings, SorobanInv, SorobanTypeOK
<1>6. agreed' \in [SorobanIds -> SUBSET Addresses] /\ agreed'[id] = agreed[id] \cup {a}
      /\ \A i \in SorobanIds \ {id} : agreed'[i] = agreed[i]
  BY <1>5
<1>7. OffersHonest(game, agreed'[id])
  BY <1>1, <1>4, <1>6 DEF OffersHonest
<1>8. /\ sorobans' \in [SorobanIds -> SorobanGame] /\ KeysUnset'
      /\ \A i \in SorobanIds : OffersHonest(sorobans'[i], agreed'[i])
      /\ SorobanStakesHeld' = [SorobanStakesHeld EXCEPT ![id] = SorobanStakeOf(game)]
  BY <1>1, <1>3, <1>4, <1>5, <1>6, <1>7, OneGame
<1>9. SorobanStakeOf(game) = SorobanStakesHeld[id]
  BY <1>1, <1>4 DEF SorobanStakeOf
<1>10. SorobanStakesHeld' = SorobanStakesHeld  BY <1>8, <1>9 DEF SorobanStakesHeld
<1>11. SorobanTypeOK'
  BY <1>5, <1>6, <1>8 DEF SorobanTypeOK, SorobanInv, propose_draw, Settings
<1> QED  BY <1>8, <1>10, <1>11 DEF SorobanInv, propose_draw, SorobanPurse, SorobanHeld

(* What leaves every game alone: settings, transfers and time.              *)
LEMMA SorobanOutsideStep ==
  ASSUME SorobanInv,
         \/ \E a \in Addresses, t \in Timeouts : initialize(a, t) \/ set_timeout(a, t)
         \/ \E a \in Addresses, to \in Purses, n \in Transfers : TransferToken(a, to, n)
         \/ LedgerTick
         \/ UNCHANGED sorobanVars
  PROVE  SorobanInv' /\ SorobanEscrow!Elsewhere
<1>1. UNCHANGED <<counter, sorobans, ranks, agreed>>
  BY DEF initialize, set_timeout, TransferToken, LedgerTick, sorobanVars, Settings
<1>2. /\ tokens \in [Purses -> Nat] /\ admin \in Addresses \cup {NotInitialized}
      /\ timeoutSecs \in Nat /\ idle \in [SorobanIds -> 0..MaxTicks]
      /\ Timeouts \subseteq Nat /\ DefaultTimeout \in Nat /\ MaxTicks \in Nat
  BY SorobanAssumption DEF SorobanInv, SorobanTypeOK
<1>3. tokens' \in [Purses -> Nat] /\ tokens'[EscrowContract] >= tokens[EscrowContract]
  <2>1. CASE \E a \in Addresses, to \in Purses, n \in Transfers : TransferToken(a, to, n)
    <3>1. PICK a \in Addresses, to \in Purses, n \in Transfers : TransferToken(a, to, n)
      BY <2>1
    <3>2. /\ n \in Nat /\ a \in Purses /\ a # EscrowContract /\ EscrowContract \in Purses
          /\ a # to /\ tokens[a] >= n
          /\ tokens' = [tokens EXCEPT ![a] = @ - n, ![to] = @ + n]
      BY <3>1, PursesFacts DEF TransferToken
    <3> QED  BY <1>2, <3>2
  <2>2. CASE ~\E a \in Addresses, to \in Purses, n \in Transfers : TransferToken(a, to, n)
    <3>1. tokens' = tokens
      BY <2>2 DEF initialize, set_timeout, LedgerTick, sorobanVars
    <3>2. tokens[EscrowContract] \in Nat  BY <1>2, PursesFacts
    <3> QED  BY <1>2, <3>1, <3>2
  <2> QED  BY <2>1, <2>2
<1>4. admin' \in Addresses \cup {NotInitialized} /\ timeoutSecs' \in Nat
  BY <1>2 DEF initialize, set_timeout, TransferToken, LedgerTick, sorobanVars, Settings
<1>5. idle' \in [SorobanIds -> 0..MaxTicks]
  <2>1. CASE LedgerTick
    <3>1. \A id \in SorobanIds : idle[id] \in 0..MaxTicks  BY <1>2
    <3> QED  BY <1>2, <2>1, <3>1 DEF LedgerTick
  <2>2. CASE ~LedgerTick
    BY <1>2, <2>2 DEF initialize, set_timeout, TransferToken, sorobanVars
  <2> QED  BY <2>1, <2>2
<1>6. SorobanTypeOK'
  BY <1>1, <1>3, <1>4, <1>5 DEF SorobanInv, SorobanTypeOK
<1>7. KeysUnset' /\ \A id \in SorobanIds : OffersHonest(sorobans'[id], agreed'[id])
  BY <1>1 DEF SorobanInv, KeysUnset
<1>8. [a \in Addresses |-> tokens[a]]' \in [Addresses -> Nat]  BY <1>3, PursesFacts
<1>9. [id \in SorobanIds |-> SorobanStakeOf(sorobans[id])]' = [id \in SorobanIds |-> SorobanStakeOf(sorobans[id])]
  BY <1>1 DEF SorobanStakeOf, Locks
<1> QED  BY <1>3, <1>6, <1>7, <1>8, <1>9 DEF SorobanInv, SorobanEscrow!Elsewhere

LEMMA SorobanStep ==
  ASSUME SorobanInv, [SorobanNext]_sorobanVars
  PROVE  SorobanInv' /\ [SorobanEscrow!EscrowNext]_(SorobanEscrow!escrowVars)
<1>1. ASSUME NEW a \in Addresses, NEW wager \in Stakes, create_game(a, wager)
      PROVE  SorobanInv' /\ SorobanEscrow!EscrowNext
  BY <1>1, SorobanCreateStep
<1>2. ASSUME NEW a \in Addresses, NEW id \in SorobanIds, SorobanGameOp(a, id)
      PROVE  SorobanInv' /\ [SorobanEscrow!EscrowNext]_(SorobanEscrow!escrowVars)
  <2>1. CASE join_game(a, id)
    BY <2>1, SorobanJoinStep DEF SorobanEscrow!EscrowNext
  <2>2. CASE submit_move(a, id)
    BY <2>2, MoveStep DEF SorobanEscrow!escrowVars, SorobanPurse, SorobanHeld, SorobanStakesHeld
  <2>3. CASE resign_game(a, id) \/ report_win(a, id) \/ claim_timeout(a, id)
    <3>1. /\ sorobans[id].status = "Active" /\ a \in {sorobans[id].white, sorobans[id].black}
          /\ UNCHANGED <<Settings, idle, agreed>>
      BY <2>3 DEF resign_game, report_win, claim_timeout, Seat
    <3>2. PICK other \in Addresses, mover \in Addresses :
            /\ other = Other(a, id) /\ mover = sorobans[id].turn
            /\ other \in {sorobans[id].white, sorobans[id].black}
      BY <3>1, GameFacts DEF Other
    <3>3. end_game(id, other, a) \/ end_game(id, a, other) \/ end_game(id, a, mover)
      BY <2>3, <3>2 DEF resign_game, report_win, claim_timeout
    <3>4. CASE end_game(id, other, a)
      <4>1. SorobanInv' /\ SorobanEscrow!PayWinner(id, other)  BY <3>1, <3>2, <3>4, SorobanEndGameStep
      <4> QED  BY <4>1 DEF SorobanEscrow!EscrowNext
    <3>5. CASE end_game(id, a, other)
      <4>1. SorobanInv' /\ SorobanEscrow!PayWinner(id, a)  BY <3>1, <3>5, SorobanEndGameStep
      <4> QED  BY <4>1 DEF SorobanEscrow!EscrowNext
    <3>6. CASE end_game(id, a, mover)
      <4>1. SorobanInv' /\ SorobanEscrow!PayWinner(id, a)  BY <3>1, <3>6, SorobanEndGameStep
      <4> QED  BY <4>1 DEF SorobanEscrow!EscrowNext
    <3> QED  BY <3>3, <3>4, <3>5, <3>6
  <2>4. CASE propose_draw(a, id)
    BY <2>4, SorobanProposeStep DEF SorobanEscrow!escrowVars, SorobanPurse, SorobanHeld, SorobanStakesHeld
  <2>5. CASE accept_draw(a, id)
    BY <2>5, AcceptStep DEF SorobanEscrow!EscrowNext
  <2>6. CASE cancel_game(a, id)
    BY <2>6, SorobanCancelStep DEF SorobanEscrow!EscrowNext
  <2> QED  BY <1>2, <2>1, <2>2, <2>3, <2>4, <2>5, <2>6 DEF SorobanGameOp
<1>3. CASE \/ \E a \in Addresses, t \in Timeouts : initialize(a, t) \/ set_timeout(a, t)
           \/ \E a \in Addresses, to \in Purses, n \in Transfers : TransferToken(a, to, n)
           \/ LedgerTick
           \/ UNCHANGED sorobanVars
  BY <1>3, SorobanOutsideStep DEF SorobanEscrow!EscrowNext
<1> QED  BY <1>1, <1>2, <1>3 DEF SorobanNext

-----------------------------------------------------------------------------
LEMMA SorobanStart == SorobanInit => SorobanInv /\ SorobanEscrow!EscrowInit
<1> SUFFICES ASSUME SorobanInit PROVE SorobanInv /\ SorobanEscrow!EscrowInit
  OBVIOUS
<1>1. AnyAddress \in Addresses  BY SorobanAssumption DEF AnyAddress
<1>2. /\ Missing \in SorobanGame /\ Missing.status = "None" /\ ~Missing.draw_proposed
      /\ Unranked \in Rank
  BY <1>1 DEF Missing, SorobanGame, Unranked, Rank, StartingElo
<1>3. tokens \in [Purses -> Nat] /\ tokens[EscrowContract] = 0
  <2>1. PICK first \in [Addresses -> FirstTokens] :
          tokens = [p \in Purses |-> IF p = EscrowContract THEN 0 ELSE first[p]]
    BY DEF SorobanInit
  <2>2. \A p \in Purses : p # EscrowContract => first[p] \in Nat
    BY SorobanAssumption DEF Purses
  <2> QED  BY <2>1, <2>2, PursesFacts
<1>4. SorobanTypeOK
  BY <1>2, <1>3, SorobanAssumption DEF SorobanTypeOK, SorobanInit
<1>5. KeysUnset /\ \A id \in SorobanIds : OffersHonest(sorobans[id], agreed[id])
  BY <1>2 DEF SorobanInit, KeysUnset, OffersHonest
<1>6. \A id \in SorobanIds : SorobanStakeOf(sorobans[id]) = [phase |-> "unopened"]
  BY <1>2 DEF SorobanInit, SorobanStakeOf
<1>7. [a \in Addresses |-> tokens[a]] \in [Addresses -> Nat] /\ tokens[EscrowContract] \in Nat
  BY <1>3, PursesFacts
<1> QED  BY <1>4, <1>5, <1>6, <1>7 DEF SorobanInv, SorobanEscrow!EscrowInit, SorobanEscrow!Unopened

(* The inductive invariant: keys are set in order, and the offers of a      *)
(* running game were made in the position on its board.                     *)
THEOREM SorobanInvariant == SorobanSpec => []SorobanInv
<1>1. SorobanInit => SorobanInv  BY SorobanStart
<1>2. SorobanInv /\ [SorobanNext]_sorobanVars => SorobanInv'  BY SorobanStep
<1> QED  BY <1>1, <1>2, PTL DEF SorobanSpec

(* Whoever resigns, reports, claims, accepts or cancels first, the Soroban  *)
(* contract pays every stake once, in full, to those who staked it.         *)
THEOREM SorobanRefinesEscrow == SorobanSpec => SorobanImplementsEscrow
<1>1. SorobanInit => SorobanEscrow!EscrowInit  BY SorobanStart
<1>2. SorobanInv /\ [SorobanNext]_sorobanVars => [SorobanEscrow!EscrowNext]_(SorobanEscrow!escrowVars)
  BY SorobanStep
<1>3. SorobanSpec => []SorobanInv  BY SorobanInvariant
<1> QED  BY <1>1, <1>2, <1>3, PTL DEF SorobanSpec, SorobanImplementsEscrow, SorobanEscrow!EscrowSpec

(* accept_draw only ends a game both players agreed to draw with no move    *)
(* in between.                                                              *)
THEOREM DrawsAreAgreed == SorobanSpec => []DrawnInPosition
<1>1. SorobanInv => DrawnInPosition  BY DEF SorobanInv, OffersHonest, DrawnInPosition
<1> QED  BY <1>1, SorobanInvariant, PTL
=============================================================================
