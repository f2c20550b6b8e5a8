---------------------------- MODULE EngineProofs ----------------------------
(***************************************************************************)
(* Elo ratings and the engine.  No rating falls below the minimum, an      *)
(* upset pays at least as much as the expected result, and a draw          *)
(* conserves points, for any players and ratings.  The engine keeps its    *)
(* types, its vault stays solvent and its records count the games, for any *)
(* set of users, wagers and amounts, any expiry and any number of games; a *)
(* draw that the oracle did not declare was agreed to by both players.     *)
(***************************************************************************)
EXTENDS EloLadder, EngineHistory, EloProofs, FiniteSetTheorems, TLAPS

-----------------------------------------------------------------------------
(* The ladder, from the arithmetic of EloProofs *)

LadderInv == rating \in [Players -> Rating]

LEMMA LadderInvariant == LadderSpec => []LadderInv
<1>1. LadderInit => LadderInv
  BY LadderAssumption DEF LadderInit, LadderInv
<1>2. LadderInv /\ [LadderNext]_ladderVars => LadderInv'
  <2> SUFFICES ASSUME LadderInv, [LadderNext]_ladderVars
               PROVE  LadderInv'
    OBVIOUS
  <2>1. ASSUME NEW w \in Players, NEW l \in Players, Decide(w, l)
        PROVE  LadderInv'
    <3>1. rating[w] \in Rating /\ rating[l] \in Rating  BY DEF LadderInv
    <3>2. LoserRating(rating[w], rating[l]) \in Rating
      BY <3>1, LoserRatingRange DEF Rating
    <3>3. rating[w] \in Nat /\ rating[w] >= 100 /\ rating[l] \in Nat
      BY <3>1 DEF Rating, MinRating
    <3>4. WinnerGain(rating[w], rating[l]) \in 1..KFactor
      BY <3>3, WinnerGainRange
    <3>5. WinnerRating(rating[w], rating[l]) \in Rating
      BY <3>3, <3>4 DEF WinnerRating, Rating, KFactor, MinRating
    <3> QED  BY <2>1, <3>2, <3>5 DEF Decide, LadderInv
  <2>2. ASSUME NEW a \in Players, NEW b \in Players, Agree(a, b)
        PROVE  LadderInv'
    <3>1. rating[a] \in Rating /\ rating[b] \in Rating  BY DEF LadderInv
    <3>2. /\ DrawRating(rating[a], rating[b]) \in Rating
          /\ DrawRating(rating[b], rating[a]) \in Rating
      BY <3>1, DrawConserves
    <3> QED  BY <2>2, <3>2 DEF Agree, LadderInv
  <2>3. CASE UNCHANGED ladderVars
    BY <2>3 DEF LadderInv, ladderVars
  <2> QED  BY <2>1, <2>2, <2>3 DEF LadderNext
<1> QED  BY <1>1, <1>2, PTL DEF LadderSpec

(* No reachable rating is below MIN-RATING, for any set of players and any *)
(* ratings they arrive with.                                               *)
THEOREM LadderFloor == LadderSpec => []RatingFloor
<1>1. LadderInv => RatingFloor  BY DEF LadderInv, RatingFloor
<1> QED  BY <1>1, LadderInvariant, PTL

(* At every reachable pair of ratings an upset pays at least K/2, the      *)
(* expected result at most K/2, and a win at least one point.              *)
THEOREM LadderUpsets == LadderSpec => []UpsetsPayMore
<1>1. LadderInv => UpsetsPayMore
  <2> SUFFICES ASSUME LadderInv, NEW a \in Players, NEW b \in Players,
                      rating[a] <= rating[b]
               PROVE  /\ 2 * WinnerGain(rating[a], rating[b]) >= KFactor
                      /\ 2 * WinnerGain(rating[b], rating[a]) <= KFactor
                      /\ WinnerGain(rating[b], rating[a]) >= 1
    BY DEF UpsetsPayMore
  <2>1. rating[a] \in Nat /\ rating[b] \in Nat  BY DEF LadderInv, Rating
  <2>2. rating[b] >= rating[a]  BY <2>1
  <2>3. 2 * WinnerGain(rating[a], rating[b]) >= KFactor
    BY <2>1, WinnerGainRange
  <2>4. 2 * WinnerGain(rating[b], rating[a]) <= KFactor
    BY <2>1, <2>2, WinnerGainRange
  <2>5. WinnerGain(rating[b], rating[a]) \in 1..KFactor
    BY <2>1, WinnerGainRange
  <2> QED  BY <2>3, <2>4, <2>5 DEF KFactor
<1> QED  BY <1>1, LadderInvariant, PTL

(* Every drawn game of every behaviour conserves the players' points and   *)
(* keeps their order.                                                      *)
THEOREM LadderDraws == LadderSpec => DrawIsFair
<1> DEFINE Fair(a, b) ==
      /\ rating'[a] + rating'[b] = rating[a] + rating[b]
      /\ rating[a] >= rating[b] => /\ rating'[a] >= rating'[b]
                                   /\ rating'[a] <= rating[a]
<1>1. LadderInv => \A a, b \in Players : Agree(a, b) => Fair(a, b)
  <2> SUFFICES ASSUME LadderInv, NEW a \in Players, NEW b \in Players, Agree(a, b)
               PROVE  Fair(a, b)
    OBVIOUS
  <2>1. rating[a] \in Rating /\ rating[b] \in Rating  BY DEF LadderInv
  <2>2. /\ rating'[a] = DrawRating(rating[a], rating[b])
        /\ rating'[b] = DrawRating(rating[b], rating[a])
    BY DEF Agree, LadderInv
  <2> QED  BY <2>1, <2>2, DrawConserves
<1> HIDE DEF Fair
<1>2. LadderInv => [\A a, b \in Players : Agree(a, b) => Fair(a, b)]_ladderVars
  BY <1>1
<1>3. LadderSpec => [][\A a, b \in Players : Agree(a, b) => Fair(a, b)]_ladderVars
  BY <1>2, LadderInvariant, PTL
<1> QED  BY <1>3 DEF DrawIsFair, Fair

(* Every decided game gives the winner 1..K points and costs the loser     *)
(* 0..K.                                                                   *)
THEOREM LadderDecisions == LadderSpec => DecisionIsBounded
<1> DEFINE Bounded(w, l) ==
      /\ rating'[w] - rating[w] \in 1..KFactor
      /\ rating[l] - rating'[l] \in 0..KFactor
<1>1. LadderInv => \A w, l \in Players : Decide(w, l) => Bounded(w, l)
  <2> SUFFICES ASSUME LadderInv, NEW w \in Players, NEW l \in Players, Decide(w, l)
               PROVE  Bounded(w, l)
    OBVIOUS
  <2>1. /\ rating[w] \in Nat
        /\ rating[l] \in Rating /\ rating[l] \in Nat
    BY DEF LadderInv, Rating
  <2>2. /\ rating'[w] = rating[w] + WinnerGain(rating[w], rating[l])
        /\ rating'[l] = LoserRating(rating[w], rating[l])
    BY DEF Decide, LadderInv, WinnerRating
  <2>3. WinnerGain(rating[w], rating[l]) \in 1..KFactor
    BY <2>1, WinnerGainRange
  <2>4. /\ LoserRating(rating[w], rating[l]) \in Nat
        /\ LoserRating(rating[w], rating[l]) <= rating[l]
        /\ rating[l] - LoserRating(rating[w], rating[l]) <= KFactor
    BY <2>1, LoserRatingRange DEF Rating
  <2> QED  BY <2>1, <2>2, <2>3, <2>4 DEF KFactor
<1> HIDE DEF Bounded
<1>2. LadderInv => [\A w, l \in Players : Decide(w, l) => Bounded(w, l)]_ladderVars
  BY <1>1
<1>3. LadderSpec => [][\A w, l \in Players : Decide(w, l) => Bounded(w, l)]_ladderVars
  BY <1>2, LadderInvariant, PTL
<1> QED  BY <1>3 DEF DecisionIsBounded, Bounded

-----------------------------------------------------------------------------
(* The engine *)

(* In an active game two different users are seated. *)
Seated ==
  \A id \in GameIds :
    games[id].status = "active" => games[id].black \in Users \ {games[id].white}

-----------------------------------------------------------------------------
(* Typing *)

LEMMA PrincipalsFacts ==
  /\ Users \subseteq Principals
  /\ Vault \in Principals
  /\ Owner \in Users
  /\ Vault \notin Users
BY TokenAssumption DEF Principals

LEMMA MovedType ==
  ASSUME TokenTypeOK, NEW from \in Principals, NEW to \in Principals, from # to,
         NEW n \in Nat, balance[from] >= n
  PROVE  /\ Moved(from, to, n) \in [Principals -> Nat]
         /\ Moved(from, to, n)[from] = balance[from] - n
         /\ Moved(from, to, n)[to] = balance[to] + n
         /\ \A p \in Principals \ {from, to} : Moved(from, to, n)[p] = balance[p]
BY DEF TokenTypeOK, Moved

LEMMA AgedType ==
  ASSUME NEW limit \in Nat, NEW n \in 0..limit
  PROVE  Aged(n, limit) \in 0..limit
BY DEF Aged

LEMMA RecordTypes ==
  ASSUME NEW s \in Stats, NEW r \in Nat
  PROVE  Won(s, r) \in Stats /\ Lost(s, r) \in Stats /\ Drew(s, r) \in Stats
BY DEF Won, Lost, Drew, Recorded, Stats

(* What a decided game does to the ledger, the games and the records. *)
LEMMA EndGameWithWinnerEffect ==
  ASSUME TypeOK, NEW id \in GameIds, NEW winner \in Users, NEW loser \in Users,
         winner # loser, EndGameWithWinner(id, winner, loser)
  PROVE  /\ balance' \in [Principals -> Nat]
         /\ balance'[Vault] = balance[Vault] - games[id].wager * 2
         /\ games' = [games EXCEPT ![id].status = "finished"]
         /\ stats' \in [Users -> Stats]
<1> DEFINE pot == games[id].wager * 2
           w == stats[winner].rating
           l == stats[loser].rating
<1>1. pot \in Nat /\ w \in Nat /\ l \in Nat
  BY DEF TypeOK, EngineTypeOK, Game, Stats
<1>2. balance[Vault] >= pot
  BY <1>1, PrincipalsFacts
     DEF EndGameWithWinner, Covered, CanRelease, TypeOK, TokenTypeOK
<1>3. Vault # winner /\ winner \in Principals /\ Vault \in Principals
  BY PrincipalsFacts
<1>4. balance' = Moved(Vault, winner, pot)  BY DEF EndGameWithWinner
<1> HIDE DEF pot
<1>5. balance' \in [Principals -> Nat] /\ balance'[Vault] = balance[Vault] - pot
  BY <1>1, <1>2, <1>3, <1>4, MovedType DEF TypeOK
<1>6. WinnerRating(w, l) \in Nat
  BY <1>1, DecidedRatingsNat
<1>7. LoserRating(w, l) \in Nat
  BY <1>1, DecidedRatingsNat
<1>8. stats' \in [Users -> Stats]
  <2>1. stats' = [stats EXCEPT ![winner] = Won(@, WinnerRating(w, l)),
                               ![loser] = Lost(@, LoserRating(w, l))]
    BY DEF EndGameWithWinner
  <2>2. stats[winner] \in Stats /\ stats[loser] \in Stats
    BY DEF TypeOK, EngineTypeOK
  <2>3. /\ Won(stats[winner], WinnerRating(w, l)) \in Stats
        /\ Lost(stats[loser], LoserRating(w, l)) \in Stats
    BY <1>6, <1>7, <2>2, RecordTypes
  <2> QED  BY <2>1, <2>2, <2>3 DEF TypeOK, EngineTypeOK
<1> QED  BY <1>5, <1>8 DEF EndGameWithWinner, pot

LEMMA SplitRefundEffect ==
  ASSUME TypeOK, NEW id \in GameIds, SplitRefund(id),
         games[id].black \in Users, games[id].black # games[id].white
  PROVE  /\ balance' \in [Principals -> Nat]
         /\ balance'[Vault] = balance[Vault] - games[id].wager * 2
<1> DEFINE wager == games[id].wager
           a == games[id].white
           b == games[id].black
<1>1. wager \in Nat /\ a \in Users /\ b \in Users /\ a # b
  BY DEF TypeOK, EngineTypeOK, Game
<1>2. balance \in [Principals -> Nat]  BY DEF TypeOK, TokenTypeOK
<1>3. balance[Vault] >= wager * 2
  BY <1>1, <1>2, PrincipalsFacts DEF SplitRefund, Covered, CanRelease
<1>4. balance' = [balance EXCEPT ![Vault] = @ - wager * 2, ![a] = @ + wager, ![b] = @ + wager]
  BY DEF SplitRefund
<1> HIDE DEF wager, a, b
<1> QED  BY <1>1, <1>2, <1>3, <1>4, PrincipalsFacts DEF wager

LEMMA EndGameDrawEffect ==
  ASSUME TypeOK, NEW id \in GameIds, EndGameDraw(id),
         games[id].black \in Users, games[id].black # games[id].white
  PROVE  /\ balance' \in [Principals -> Nat]
         /\ balance'[Vault] = balance[Vault] - games[id].wager * 2
         /\ games' = [games EXCEPT ![id].status = "draw"]
         /\ stats' \in [Users -> Stats]
<1> DEFINE a == games[id].white
           b == games[id].black
           ra == DrawRating(stats[a].rating, stats[b].rating)
           rb == DrawRating(stats[b].rating, stats[a].rating)
<1>1. a \in Users /\ b \in Users  BY DEF TypeOK, EngineTypeOK, Game
<1>2. stats[a] \in Stats /\ stats[b] \in Stats  BY <1>1 DEF TypeOK, EngineTypeOK
<1>3. stats[a].rating \in Nat /\ stats[b].rating \in Nat  BY <1>2 DEF Stats
<1>4. ra \in Nat /\ rb \in Nat
  BY <1>3, DrawRatingType
<1>5. stats' = [stats EXCEPT ![a] = Drew(@, ra), ![b] = Drew(@, rb)]
  BY DEF EndGameDraw
<1> HIDE DEF ra, rb
<1>6. Drew(stats[a], ra) \in Stats /\ Drew(stats[b], rb) \in Stats
  BY <1>2, <1>4, RecordTypes
<1>7. stats' \in [Users -> Stats]
  BY <1>1, <1>5, <1>6 DEF TypeOK, EngineTypeOK
<1> QED  BY <1>7, SplitRefundEffect DEF EndGameDraw

-----------------------------------------------------------------------------
(* The vault *)

LEMMA LockedType ==
  ASSUME EngineTypeOK, NEW id \in GameIds
  PROVE  Locked(id) \in Nat
BY DEF EngineTypeOK, Locked, Game

(* Solvency gives every single live game its cover. *)
LEMMA SolventCovers ==
  ASSUME TypeOK, VaultSolvent, NEW id \in GameIds
  PROVE  Locked(id) <= balance[Vault]
<1>1. PICK total \in [0..gameNonce -> 0..balance[Vault]] :
        IsRunningTotal(total, balance[Vault])
  BY DEF VaultSolvent
<1>2. /\ id \in 0..gameNonce /\ id + 1 \in 0..gameNonce
      /\ balance[Vault] \in Nat
  BY PrincipalsFacts DEF GameIds, TypeOK, EngineTypeOK, TokenTypeOK
<1>3. total[id + 1] = total[id] + Locked(id)
  BY <1>1 DEF IsRunningTotal
<1>4. total[id] \in 0..balance[Vault] /\ total[id + 1] \in 0..balance[Vault]
  BY <1>1, <1>2
<1>5. Locked(id) \in Nat  BY LockedType DEF TypeOK
<1> QED  BY <1>2, <1>3, <1>4, <1>5

(* When one game's escrow changes by delta and the vault by at least delta, *)
(* the running total shifts by delta from that game on.                     *)
LEMMA SolventShift ==
  ASSUME TypeOK, VaultSolvent, gameNonce' = gameNonce,
         NEW id \in GameIds, NEW delta \in Int,
         Locked(id)' = Locked(id) + delta,
         Locked(id)' \in Nat,
         \A i \in GameIds \ {id} : Locked(i)' = Locked(i),
         balance'[Vault] \in Nat,
         balance'[Vault] >= balance[Vault] + delta
  PROVE  VaultSolvent'
<1> DEFINE held == balance[Vault]
           new == balance'[Vault]
           n == gameNonce
<1>1. PICK total \in [0..n -> 0..held] : IsRunningTotal(total, held)
  BY DEF VaultSolvent
<1>2. /\ n \in Nat /\ held \in Nat /\ new \in Nat /\ new >= held + delta
      /\ id \in 0..n - 1
      /\ Locked(id) \in Nat
      /\ Locked(id) + delta \in Nat
  BY SMTT(30), PrincipalsFacts, LockedType DEF TypeOK, EngineTypeOK, TokenTypeOK, GameIds
<1>3. /\ total[0] = 0
      /\ \A i \in 0..n - 1 : total[i + 1] = total[i] + Locked(i)
      /\ \A i, j \in 0..n : i <= j => total[i] <= total[j]
      /\ total[n] <= held
  BY <1>1 DEF IsRunningTotal, GameIds
<1> DEFINE shifted == [i \in 0..n |-> IF i <= id THEN total[i] ELSE total[i] + delta]
<1>4. total[id + 1] = total[id] + Locked(id)  BY <1>2, <1>3
<1>5. \A i \in 0..n : total[i] \in 0..held /\ total[i] <= total[n]
  BY <1>1, <1>2, <1>3
<1>6. \A i \in 0..n : i > id => total[i] >= total[id] + Locked(id)
  <2> SUFFICES ASSUME NEW i \in 0..n, i > id
               PROVE  total[i] >= total[id] + Locked(id)
    OBVIOUS
  <2>1. id + 1 \in 0..n /\ id + 1 <= i  BY <1>2
  <2> QED  BY <1>3, <1>4, <2>1
<1>7. \A i \in 0..n : i <= id => total[i] <= total[id]
  BY <1>2, <1>3
<1>8. id \in 0..n /\ n \in 0..n /\ total[id] + Locked(id) + delta <= new
  <2>1. id \in 0..n /\ n \in 0..n /\ n > id  BY <1>2
  <2>2. total[n] >= total[id] + Locked(id)  BY <1>6, <2>1
  <2>3. total[n] \in Nat /\ total[id] \in Nat  BY <1>5, <2>1
  <2> QED  BY <1>2, <1>3, <2>1, <2>2, <2>3
<1> HIDE DEF held, new, n
<1>9. shifted \in [0..n -> 0..new]
  <2> SUFFICES ASSUME NEW i \in 0..n
               PROVE  (IF i <= id THEN total[i] ELSE total[i] + delta) \in 0..new
    OBVIOUS
  <2>1. total[i] \in Nat /\ total[id] \in Nat /\ total[n] \in Nat
    BY <1>5, <1>8
  <2>2. CASE i <= id
    <3>1. total[i] <= total[id]  BY <1>7, <2>2
    <3> QED  BY <1>2, <1>8, <2>1, <2>2, <3>1
  <2>3. CASE i > id
    <3>1. total[i] >= total[id] + Locked(id)  BY <1>6, <2>3
    <3>2. total[i] <= total[n] /\ total[n] <= held  BY <1>3, <1>5
    <3> QED  BY <1>2, <2>1, <2>3, <3>1, <3>2
  <2> QED  BY <1>2, <2>2, <2>3
<1>10. \A i \in 0..n - 1 : shifted[i + 1] = shifted[i] + Locked(i)'
  <2> SUFFICES ASSUME NEW i \in 0..n - 1
               PROVE  shifted[i + 1] = shifted[i] + Locked(i)'
    OBVIOUS
  <2>1. i \in 0..n /\ i + 1 \in 0..n  BY <1>2
  <2>2. total[i + 1] = total[i] + Locked(i)  BY <1>3
  <2>3. total[i] \in Nat /\ total[i + 1] \in Nat  BY <1>5, <2>1
  <2>4. Locked(i) \in Nat  BY LockedType DEF TypeOK, GameIds, n
  <2>5. CASE i = id
    BY <1>2, <2>1, <2>2, <2>3, <2>5
  <2>6. CASE i # id
    <3>1. Locked(i)' = Locked(i)  BY <2>6 DEF GameIds, n
    <3> QED  BY <1>2, <2>1, <2>2, <2>3, <2>4, <2>6, <3>1
  <2> QED  BY <2>5, <2>6
<1>11. \A i, j \in 0..n : i <= j => shifted[i] <= shifted[j]
  <2> SUFFICES ASSUME NEW i \in 0..n, NEW j \in 0..n, i <= j
               PROVE  shifted[i] <= shifted[j]
    OBVIOUS
  <2>1. total[i] <= total[j]  BY <1>3
  <2>2. total[i] \in Nat /\ total[j] \in Nat /\ total[id] \in Nat  BY <1>5, <1>8
  <2>3. CASE i <= id /\ j > id
    <3>1. total[i] <= total[id] /\ total[j] >= total[id] + Locked(id)
      BY <1>6, <1>7, <2>3
    <3> QED  BY <1>2, <2>2, <2>3, <3>1
  <2> QED  BY <1>2, <2>1, <2>2, <2>3
<1>12. shifted[0] = 0 /\ shifted[n] <= new
  <2>1. 0 \in 0..n /\ 0 <= id  BY <1>2
  <2>2. shifted[n] \in 0..new  BY <1>8, <1>9
  <2> QED  BY <1>2, <1>3, <2>1, <2>2
<1> HIDE DEF shifted
<1>13. PICK s : s = shifted  OBVIOUS
<1>14. IsRunningTotal(s, balance[Vault])'
  <2>1. n = gameNonce' /\ new = balance'[Vault]
    BY DEF n, new
  <2> QED  BY <1>10, <1>11, <1>12, <1>13, <2>1 DEF IsRunningTotal, GameIds
<1>15. s \in [0..gameNonce -> 0..balance[Vault]]'
  BY <1>9, <1>13 DEF new, n
<1> QED  BY <1>14, <1>15 DEF VaultSolvent

(* A new game only adds its own cover at the end of the running total. *)
LEMMA SolventGrow ==
  ASSUME TypeOK, VaultSolvent, gameNonce' = gameNonce + 1,
         NEW cover \in Nat, NEW fresh, fresh = gameNonce, Locked(fresh)' = cover,
         \A i \in GameIds : Locked(i)' = Locked(i),
         balance'[Vault] \in Nat,
         balance'[Vault] >= balance[Vault] + cover
  PROVE  VaultSolvent'
<1> DEFINE held == balance[Vault]
           new == balance'[Vault]
           n == gameNonce
<1>1. PICK total \in [0..n -> 0..held] : IsRunningTotal(total, held)
  BY DEF VaultSolvent
<1>2. /\ n \in Nat /\ held \in Nat /\ new \in Nat /\ new >= held + cover
      /\ gameNonce' = n + 1 /\ fresh = n
  BY PrincipalsFacts DEF TypeOK, EngineTypeOK, TokenTypeOK
<1>3. /\ total[0] = 0
      /\ \A i \in 0..n - 1 : total[i + 1] = total[i] + Locked(i)
      /\ \A i, j \in 0..n : i <= j => total[i] <= total[j]
      /\ total[n] <= held
  BY <1>1 DEF IsRunningTotal, GameIds
<1>4. \A i \in 0..n - 1 : Locked(i)' = Locked(i)  BY DEF GameIds
<1> HIDE DEF held, new, n
<1>5. PICK s : s = [i \in 0..n + 1 |-> IF i <= n THEN total[i] ELSE total[n] + cover]
  OBVIOUS
<1>6. n \in 0..n /\ \A i \in 0..n : total[i] \in 0..held /\ total[i] <= total[n]
  BY <1>1, <1>2, <1>3
<1>7. s \in [0..n + 1 -> 0..new]
  <2> SUFFICES ASSUME NEW i \in 0..n + 1
               PROVE  (IF i <= n THEN total[i] ELSE total[n] + cover) \in 0..new
    BY <1>5
  <2>1. CASE i <= n  BY <1>2, <1>6, <2>1
  <2>2. CASE i > n   BY <1>2, <1>3, <1>6, <2>2
  <2> QED  BY <1>2, <2>1, <2>2
<1>8. \A i \in 0..n : s[i + 1] = s[i] + Locked(i)'
  <2> SUFFICES ASSUME NEW i \in 0..n
               PROVE  s[i + 1] = s[i] + Locked(i)'
    OBVIOUS
  <2>1. CASE i = n
    <3>1. s[n + 1] = total[n] + cover /\ s[n] = total[n]  BY <1>2, <1>5
    <3> QED  BY <1>2, <2>1, <3>1
  <2>2. CASE i # n
    <3>1. i \in 0..n - 1 /\ i + 1 \in 0..n  BY <1>2, <2>2
    <3>2. s[i + 1] = total[i + 1] /\ s[i] = total[i]  BY <1>2, <1>5, <3>1
    <3> QED  BY <1>3, <1>4, <3>1, <3>2
  <2> QED  BY <2>1, <2>2
<1>9. \A i, j \in 0..n + 1 : i <= j => s[i] <= s[j]
  <2> SUFFICES ASSUME NEW i \in 0..n + 1, NEW j \in 0..n + 1, i <= j
               PROVE  s[i] <= s[j]
    OBVIOUS
  <2>1. CASE j <= n
    <3>1. i \in 0..n /\ j \in 0..n  BY <1>2, <2>1
    <3> QED  BY <1>3, <1>5, <2>1, <3>1
  <2>2. CASE j > n /\ i <= n
    <3>1. i \in 0..n  BY <1>2, <2>2
    <3>2. total[i] <= total[n] /\ total[i] \in Nat /\ total[n] \in Nat
      BY <1>2, <1>6, <3>1
    <3>3. s[i] = total[i] /\ s[j] = total[n] + cover  BY <1>2, <1>5, <2>2, <3>1
    <3> QED  BY <3>2, <3>3
  <2>3. CASE i > n
    <3>1. i = j  BY <1>2, <2>3
    <3>2. s[i] \in Nat  BY <1>2, <1>7
    <3> QED  BY <3>1, <3>2
  <2> QED  BY <1>2, <2>1, <2>2, <2>3
<1>10. s[0] = 0 /\ s[n + 1] <= new
  BY <1>2, <1>3, <1>5, <1>7
<1>11. IsRunningTotal(s, balance[Vault])'
  <2>1. new = balance'[Vault] /\ gameNonce' - 1 = n  BY <1>2 DEF new
  <2> QED  BY <1>2, <1>8, <1>9, <1>10, <2>1 DEF IsRunningTotal, GameIds
<1>12. s \in [0..gameNonce -> 0..balance[Vault]]'
  BY <1>2, <1>7 DEF new
<1> QED  BY <1>11, <1>12 DEF VaultSolvent

(* A step that changes no escrow and takes nothing from the vault. *)
LEMMA SolventKeep ==
  ASSUME TypeOK, VaultSolvent, gameNonce' = gameNonce,
         \A i \in GameIds : Locked(i)' = Locked(i),
         balance'[Vault] \in Nat,
         balance'[Vault] >= balance[Vault]
  PROVE  VaultSolvent'
<1>1. PICK total \in [0..gameNonce -> 0..balance[Vault]] :
        IsRunningTotal(total, balance[Vault])
  BY DEF VaultSolvent
<1>2. gameNonce \in Nat /\ balance[Vault] \in Nat
  BY PrincipalsFacts DEF TypeOK, EngineTypeOK, TokenTypeOK
<1>3. total \in [0..gameNonce -> 0..balance'[Vault]]
  BY <1>1, <1>2
<1>4. IsRunningTotal(total, balance[Vault])'
  BY <1>1, <1>2 DEF IsRunningTotal, GameIds
<1> QED  BY <1>3, <1>4 DEF VaultSolvent

-----------------------------------------------------------------------------
(* The inductive invariant *)

IInv == TypeOK /\ Seated /\ VaultSolvent

LEMMA InitIInv == Init => IInv
<1> SUFFICES ASSUME Init PROVE IInv
  OBVIOUS
<1>1. TokenTypeOK
  BY PrincipalsFacts DEF Init, TokenInit, TokenTypeOK
<1>2. gameNonce = 0 /\ GameIds = {} /\ MaxGames \in Nat
  BY EngineAssumption DEF Init, GameIds
<1>3. NewPlayer \in Stats  BY DEF NewPlayer, Stats, StartingElo
<1>4. EngineTypeOK
  BY <1>2, <1>3, TokenAssumption DEF Init, EngineTypeOK
<1>5. Seated  BY <1>2 DEF Seated
<1>6. VaultSolvent
  <2>1. balance[Vault] = 0  BY PrincipalsFacts DEF Init, TokenInit
  <2>2. PICK total : total = [i \in 0..0 |-> 0]  OBVIOUS
  <2>3. IsRunningTotal(total, balance[Vault])
    BY <1>2, <2>1, <2>2 DEF IsRunningTotal
  <2> QED  BY <1>2, <2>1, <2>2, <2>3 DEF VaultSolvent
<1> QED  BY <1>1, <1>4, <1>5, <1>6 DEF IInv, TypeOK

(* A game that only changes its status. *)
LEMMA StatusChange ==
  ASSUME TypeOK, NEW id \in GameIds, NEW status \in Statuses,
         games' = [games EXCEPT ![id].status = status], gameNonce' = gameNonce
  PROVE  /\ games' \in [GameIds' -> Game]
         /\ games'[id].status = status /\ games'[id].wager = games[id].wager
         /\ games'[id].white = games[id].white /\ games'[id].black = games[id].black
         /\ \A i \in GameIds \ {id} : games'[i] = games[i]
BY DEF TypeOK, EngineTypeOK, Game, GameIds

(* An ended game releases all of its escrow and leaves the others alone. *)
LEMMA Release ==
  ASSUME IInv, NEW id \in GameIds,
         NEW status \in {"finished", "cancelled", "draw"},
         games' = [games EXCEPT ![id].status = status], gameNonce' = gameNonce,
         UNCHANGED <<mintEnabled, minter, authorizedGames, sinceClaim, oracle, age>>,
         stats' \in [Users -> Stats],
         balance' \in [Principals -> Nat],
         balance'[Vault] = balance[Vault] - Locked(id)
  PROVE  IInv'
<1>1. TypeOK  BY DEF IInv
<1>2. status \in Statuses  BY DEF Statuses
<1>3. /\ games' \in [GameIds' -> Game]
      /\ games'[id].status = status
      /\ \A i \in GameIds \ {id} : games'[i] = games[i]
  BY <1>1, <1>2, StatusChange
<1>4. TypeOK'
  BY <1>1, <1>3 DEF TypeOK, TokenTypeOK, EngineTypeOK, GameIds
<1>5. Seated'
  BY <1>3 DEF IInv, Seated, GameIds
<1>6. VaultSolvent'
  <2>1. Locked(id)' = 0  BY <1>3 DEF Locked
  <2>2. \A i \in GameIds \ {id} : Locked(i)' = Locked(i)  BY <1>3 DEF Locked
  <2>3. Locked(id) \in Nat  BY <1>1, LockedType DEF TypeOK
  <2>4. balance'[Vault] \in Nat /\ balance[Vault] \in Nat
    BY <1>1, PrincipalsFacts DEF TypeOK, TokenTypeOK
  <2> DEFINE delta == 0 - Locked(id)
  <2>5. /\ delta \in Int
        /\ Locked(id)' = Locked(id) + delta
        /\ balance'[Vault] >= balance[Vault] + delta
    BY <2>1, <2>3, <2>4
  <2>6. PICK d \in Int : d = delta  BY <2>5
  <2> QED  BY <1>1, <2>1, <2>2, <2>4, <2>5, <2>6, SolventShift DEF IInv
<1> QED  BY <1>4, <1>5, <1>6 DEF IInv

LEMMA CreateGameInv ==
  ASSUME IInv, NEW u \in Users, NEW n \in Wagers, CreateGame(u, n)
  PROVE  IInv'
<1>1. TypeOK /\ n \in Nat /\ gameNonce \in Nat /\ gameNonce < MaxGames /\ MaxGames \in Nat
  BY EngineAssumption DEF IInv, TypeOK, EngineTypeOK, CreateGame
<1>2. gameNonce' = gameNonce + 1 /\ GameIds' = 0..gameNonce
  BY <1>1 DEF CreateGame, GameIds
<1>3. /\ balance' \in [Principals -> Nat]
      /\ balance'[Vault] = balance[Vault] + n
  <2>1. u \in Principals /\ Vault \in Principals /\ u # Vault  BY PrincipalsFacts
  <2>2. balance[u] >= n
    BY <1>1, <2>1 DEF CreateGame, Escrowed, CanTransfer, TypeOK, TokenTypeOK
  <2>3. balance' = Moved(u, Vault, n)  BY DEF CreateGame, Escrowed
  <2> QED  BY <1>1, <2>1, <2>2, <2>3, MovedType DEF TypeOK
<1> DEFINE new == [white |-> u, black |-> NoPlayer, wager |-> n,
                   status |-> "waiting", drawProposer |-> NoPlayer]
<1>4. new \in Game  BY <1>1 DEF Game, Player, Statuses
<1>5. /\ games' = [id \in 0..gameNonce |-> IF id = gameNonce THEN new ELSE games[id]]
      /\ age' = [id \in 0..gameNonce |-> IF id = gameNonce THEN 0 ELSE age[id]]
  BY DEF CreateGame
<1> HIDE DEF new
<1>6. \A id \in 0..gameNonce : id # gameNonce => id \in GameIds
  BY <1>1 DEF GameIds
<1>7. games' \in [GameIds' -> Game] /\ age' \in [GameIds' -> 0..ExpiryBlocks]
  BY <1>1, <1>2, <1>4, <1>5, <1>6, EngineAssumption DEF TypeOK, EngineTypeOK
<1>8. TypeOK'
  <2>1. gameNonce' \in 0..MaxGames  BY <1>1, <1>2
  <2> QED  BY <1>1, <1>3, <1>7, <2>1
           DEF TypeOK, TokenTypeOK, EngineTypeOK, CreateGame
<1>9. gameNonce \in 0..gameNonce /\ games'[gameNonce] = new
  BY <1>1, <1>5
<1>10. \A id \in GameIds : games'[id] = games[id]
  BY <1>1, <1>5 DEF GameIds
<1>11. new.status = "waiting" /\ new.wager = n  BY DEF new
<1>12. Seated'
  BY <1>2, <1>6, <1>9, <1>10, <1>11 DEF IInv, Seated
<1>13. PICK fresh : fresh = gameNonce  OBVIOUS
<1>14. Locked(fresh)' = n
  BY <1>9, <1>11, <1>13 DEF Locked
<1>15. \A id \in GameIds : Locked(id)' = Locked(id)
  BY <1>10 DEF Locked
<1>16. balance[Vault] \in Nat /\ balance'[Vault] \in Nat
  BY <1>1, <1>3, PrincipalsFacts DEF TypeOK, TokenTypeOK
<1>17. balance'[Vault] >= balance[Vault] + n
  BY <1>1, <1>3, <1>16
<1>18. VaultSolvent'
  BY <1>1, <1>2, <1>13, <1>14, <1>15, <1>16, <1>17, SolventGrow DEF IInv
<1> QED  BY <1>8, <1>12, <1>18 DEF IInv

LEMMA JoinGameInv ==
  ASSUME IInv, NEW u \in Users, NEW id \in GameIds, JoinGame(u, id)
  PROVE  IInv'
<1> DEFINE n == games[id].wager
<1>1. TypeOK /\ n \in Nat  BY DEF IInv, TypeOK, EngineTypeOK, Game
<1>2. GameIds' = GameIds /\ gameNonce' = gameNonce  BY DEF JoinGame, GameIds
<1>3. /\ balance' \in [Principals -> Nat]
      /\ balance'[Vault] = balance[Vault] + n
  <2>1. u \in Principals /\ Vault \in Principals /\ u # Vault  BY PrincipalsFacts
  <2>2. balance[u] >= n
    BY <1>1, <2>1 DEF JoinGame, Escrowed, CanTransfer, TypeOK, TokenTypeOK
  <2>3. balance' = Moved(u, Vault, n)  BY DEF JoinGame, Escrowed
  <2> HIDE DEF n
  <2> QED  BY <1>1, <2>1, <2>2, <2>3, MovedType DEF TypeOK
<1>4. /\ games' \in [GameIds' -> Game]
      /\ games'[id].status = "active" /\ games'[id].wager = n
      /\ games'[id].white = games[id].white /\ games'[id].black = u
      /\ \A i \in GameIds \ {id} : games'[i] = games[i]
  BY <1>1, <1>2 DEF JoinGame, TypeOK, EngineTypeOK, Game, Player, Statuses
<1>5. TypeOK'
  BY <1>1, <1>2, <1>3, <1>4 DEF TypeOK, TokenTypeOK, EngineTypeOK, JoinGame
<1>6. Seated'
  BY <1>2, <1>4 DEF IInv, Seated, JoinGame
<1>7. Locked(id) = n /\ Locked(id)' = n * 2
  BY <1>4 DEF Locked, JoinGame
<1>8. \A i \in GameIds \ {id} : Locked(i)' = Locked(i)
  BY <1>4 DEF Locked
<1>9. PICK d \in Nat : d = n  BY <1>1
<1>10. balance[Vault] \in Nat /\ balance'[Vault] \in Nat
  BY <1>1, <1>3, PrincipalsFacts DEF TypeOK, TokenTypeOK
<1> HIDE DEF n
<1>11. /\ d \in Int /\ Locked(id)' = Locked(id) + d /\ Locked(id)' \in Nat
       /\ balance'[Vault] >= balance[Vault] + d
  BY <1>1, <1>3, <1>7, <1>9, <1>10
<1>12. VaultSolvent'
  BY <1>1, <1>2, <1>8, <1>10, <1>11, SolventShift DEF IInv
<1> QED  BY <1>5, <1>6, <1>12 DEF IInv

(* The opponent of a player of an active game is the other user seated. *)
LEMMA OpponentSeated ==
  ASSUME TypeOK, Seated, NEW id \in GameIds, NEW u \in Users, ActivePlayer(u, id)
  PROVE  Opponent(u, id) \in Users /\ Opponent(u, id) # u
<1>1. games[id].white \in Users /\ games[id].black \in Users \ {games[id].white}
  BY DEF TypeOK, EngineTypeOK, Game, Seated, ActivePlayer
<1>2. u = games[id].white \/ u = games[id].black
  BY DEF ActivePlayer, Playing
<1> QED  BY <1>1, <1>2 DEF Opponent

(* What a decided game, a draw and a refund keep of the invariant. *)
LEMMA DecidedInv ==
  ASSUME IInv, NEW id \in GameIds, games[id].status = "active",
         NEW winner \in Users, NEW loser \in Users, winner # loser,
         EndGameWithWinner(id, winner, loser),
         UNCHANGED <<mintEnabled, minter, authorizedGames, sinceClaim,
                     gameNonce, oracle, age>>
  PROVE  IInv'
<1>1. /\ balance' \in [Principals -> Nat]
      /\ balance'[Vault] = balance[Vault] - games[id].wager * 2
      /\ games' = [games EXCEPT ![id].status = "finished"]
      /\ stats' \in [Users -> Stats]
  BY EndGameWithWinnerEffect DEF IInv
<1>2. Locked(id) = games[id].wager * 2  BY DEF Locked
<1> QED  BY <1>1, <1>2, Release

LEMMA DrawnInv ==
  ASSUME IInv, NEW id \in GameIds, games[id].status = "active", EndGameDraw(id),
         UNCHANGED <<mintEnabled, minter, authorizedGames, sinceClaim,
                     gameNonce, oracle, age>>
  PROVE  IInv'
<1>1. games[id].black \in Users /\ games[id].black # games[id].white
  BY DEF IInv, Seated
<1>2. /\ balance' \in [Principals -> Nat]
      /\ balance'[Vault] = balance[Vault] - games[id].wager * 2
      /\ games' = [games EXCEPT ![id].status = "draw"]
      /\ stats' \in [Users -> Stats]
  BY <1>1, EndGameDrawEffect DEF IInv
<1>3. Locked(id) = games[id].wager * 2  BY DEF Locked
<1> QED  BY <1>2, <1>3, Release

LEMMA ReclaimInv ==
  ASSUME IInv, NEW u \in Users, NEW id \in GameIds, ReclaimExpired(u, id)
  PROVE  IInv'
<1>1. games[id].status = "active"  BY DEF ReclaimExpired, CanReclaim
<1>2. games[id].black \in Users /\ games[id].black # games[id].white
  BY <1>1 DEF IInv, Seated
<1>3. /\ balance' \in [Principals -> Nat]
      /\ balance'[Vault] = balance[Vault] - games[id].wager * 2
  BY <1>2, SplitRefundEffect DEF IInv, ReclaimExpired
<1>4. Locked(id) = games[id].wager * 2  BY <1>1 DEF Locked
<1>5. stats' \in [Users -> Stats]  BY DEF IInv, TypeOK, EngineTypeOK, ReclaimExpired
<1>6. /\ games' = [games EXCEPT ![id].status = "cancelled"]
      /\ gameNonce' = gameNonce
      /\ UNCHANGED <<mintEnabled, minter, authorizedGames, sinceClaim, oracle, age>>
  BY DEF ReclaimExpired
<1> QED  BY <1>3, <1>4, <1>5, <1>6, Release

LEMMA CancelInv ==
  ASSUME IInv, NEW u \in Users, NEW id \in GameIds, CancelGame(u, id)
  PROVE  IInv'
<1>1. PICK n : n = games[id].wager  OBVIOUS
<1>2. PICK w : w = games[id].white  OBVIOUS
<1>3. TypeOK /\ n \in Nat /\ w \in Users
  BY <1>1, <1>2 DEF IInv, TypeOK, EngineTypeOK, Game
<1>4. Locked(id) = n  BY <1>1 DEF CancelGame, Locked
<1>5. balance[Vault] >= n  BY <1>3, <1>4, SolventCovers DEF IInv
<1>6. w \in Principals /\ Vault \in Principals /\ w # Vault
  BY <1>3, PrincipalsFacts
<1>7. balance' = Moved(Vault, w, n)  BY <1>1, <1>2 DEF CancelGame
<1>8. /\ balance' \in [Principals -> Nat]
      /\ balance'[Vault] = balance[Vault] - Locked(id)
  BY <1>3, <1>4, <1>5, <1>6, <1>7, MovedType DEF TypeOK
<1>9. stats' \in [Users -> Stats]  BY <1>3 DEF TypeOK, EngineTypeOK, CancelGame
<1>10. /\ games' = [games EXCEPT ![id].status = "cancelled"]
       /\ gameNonce' = gameNonce
       /\ UNCHANGED <<mintEnabled, minter, authorizedGames, sinceClaim, oracle, age>>
  BY DEF CancelGame
<1> QED  BY <1>8, <1>9, <1>10, Release

LEMMA ProposeDrawInv ==
  ASSUME IInv, NEW u \in Users, NEW id \in GameIds, ProposeDraw(u, id)
  PROVE  IInv'
<1>1. TypeOK /\ games' = [games EXCEPT ![id].drawProposer = u]
      /\ UNCHANGED <<tokenVars, gameNonce, oracle, age, stats>>
  BY DEF IInv, ProposeDraw
<1>2. GameIds' = GameIds  BY <1>1 DEF GameIds
<1>3. games' \in [GameIds -> Game]
  BY <1>1 DEF TypeOK, EngineTypeOK, Game, Player
<1>4. \A i \in GameIds : /\ games'[i].status = games[i].status
                         /\ games'[i].wager = games[i].wager
                         /\ games'[i].white = games[i].white
                         /\ games'[i].black = games[i].black
  BY <1>1 DEF TypeOK, EngineTypeOK, Game
<1>5. TypeOK'
  BY <1>1, <1>2, <1>3 DEF TypeOK, TokenTypeOK, EngineTypeOK, tokenVars
<1>6. Seated'  BY <1>2, <1>4 DEF IInv, Seated
<1>7. \A i \in GameIds : Locked(i)' = Locked(i)  BY <1>4 DEF Locked
<1>8. balance[Vault] \in Nat /\ balance'[Vault] = balance[Vault] /\ gameNonce' = gameNonce
  BY <1>1, PrincipalsFacts DEF TypeOK, TokenTypeOK, tokenVars
<1>9. VaultSolvent'  BY <1>1, <1>7, <1>8, SolventKeep DEF IInv
<1> QED  BY <1>5, <1>6, <1>9 DEF IInv

(* A step of the token alone pays the vault or leaves it as it was. *)
LEMMA TokenStep ==
  ASSUME IInv, UNCHANGED engineVars, TokenTypeOK', balance'[Vault] >= balance[Vault]
  PROVE  IInv'
<1>1. UNCHANGED <<gameNonce, games, age, oracle, stats>> /\ GameIds' = GameIds
  BY DEF engineVars, GameIds
<1>2. TypeOK'  BY <1>1 DEF IInv, TypeOK, EngineTypeOK
<1>3. Seated'  BY <1>1 DEF IInv, Seated
<1>4. \A i \in GameIds : Locked(i)' = Locked(i)  BY <1>1 DEF Locked
<1>5. balance'[Vault] \in Nat  BY PrincipalsFacts DEF TokenTypeOK
<1>6. VaultSolvent'  BY <1>1, <1>4, <1>5, SolventKeep DEF IInv
<1> QED  BY <1>2, <1>3, <1>6 DEF IInv

LEMMA MintedType ==
  ASSUME TokenTypeOK, NEW p \in Principals, NEW n \in Nat
  PROVE  /\ Minted(p, n) \in [Principals -> Nat]
         /\ Minted(p, n)[Vault] >= balance[Vault]
BY PrincipalsFacts DEF TokenTypeOK, Minted

LEMMA TokenOpEffect ==
  ASSUME IInv, TokenOp
  PROVE  TokenTypeOK' /\ balance'[Vault] >= balance[Vault]
<1> USE PrincipalsFacts
<1>1. TokenTypeOK /\ balance \in [Principals -> Nat]
  BY DEF IInv, TypeOK, TokenTypeOK
<1>3. ASSUME NEW u \in Users, NEW r \in Principals, NEW n \in Amounts, Transfer(u, r, n)
      PROVE  TokenTypeOK' /\ balance'[Vault] >= balance[Vault]
  <2>1. n \in Nat /\ u \in Principals /\ u # r /\ balance[u] >= n /\ u # Vault
    BY <1>3, TokenAssumption DEF Transfer, CanTransfer
  <2>2. balance' = Moved(u, r, n)  BY <1>3 DEF Transfer
  <2>3. /\ balance' \in [Principals -> Nat]
        /\ balance'[r] = balance[r] + n
        /\ \A p \in Principals \ {u, r} : balance'[p] = balance[p]
    BY <1>1, <2>1, <2>2, MovedType
  <2>4. balance'[Vault] >= balance[Vault]
    <3>1. balance[Vault] \in Nat /\ balance[r] \in Nat  BY <1>1
    <3>2. CASE r = Vault   BY <2>1, <2>3, <3>1, <3>2
    <3>3. CASE r # Vault   BY <2>1, <2>3, <3>1, <3>3
    <3> QED  BY <3>2, <3>3
  <2> QED  BY <1>1, <1>3, <2>3, <2>4 DEF TokenTypeOK, Transfer
<1>4. ASSUME NEW u \in Users, NEW r \in Principals, NEW n \in Amounts,
             Mint(u, r, n) \/ MintTo(u, r, n)
      PROVE  TokenTypeOK' /\ balance'[Vault] >= balance[Vault]
  BY <1>1, <1>4, MintedType, TokenAssumption DEF TokenTypeOK, Mint, MintTo
<1>5. ASSUME NEW u \in Users, FaucetClaim(u)
      PROVE  TokenTypeOK' /\ balance'[Vault] >= balance[Vault]
  <2>1. u \in Principals /\ FaucetAmount \in Nat  BY TokenAssumption
  <2>2. /\ balance' = Minted(u, FaucetAmount)
        /\ UNCHANGED <<mintEnabled, minter, authorizedGames>>
    BY <1>5 DEF FaucetClaim
  <2>3. balance' \in [Principals -> Nat] /\ balance'[Vault] >= balance[Vault]
    BY <1>1, <2>1, <2>2, MintedType
  <2>4. sinceClaim' \in [Users -> 0..FaucetCooldown]
    BY <1>1, <1>5, TokenAssumption DEF TokenTypeOK, FaucetClaim
  <2> QED  BY <1>1, <2>2, <2>3, <2>4 DEF TokenTypeOK
<1>6. ASSUME NEW u \in Users, NEW entries \in [Principals -> Amounts \cup {0}],
             BatchMint(u, entries)
      PROVE  TokenTypeOK' /\ balance'[Vault] >= balance[Vault]
  <2>1. Amounts \cup {0} \subseteq Nat  BY TokenAssumption
  <2>2. entries \in [Principals -> Nat]
    <3>1. \A p \in Principals : entries[p] \in Amounts \cup {0}  OBVIOUS
    <3> QED  BY <2>1, <3>1
  <2> QED  BY <1>1, <1>6, <2>2 DEF TokenTypeOK, BatchMint
<1>7. ASSUME NEW u \in Users, NEW b \in BOOLEAN, SetMintEnabled(u, b)
      PROVE  TokenTypeOK' /\ balance'[Vault] >= balance[Vault]
  BY <1>1, <1>7 DEF TokenTypeOK, SetMintEnabled
<1>8. ASSUME NEW u \in Users, NEW b \in BOOLEAN, NEW e \in Engines,
             SetAuthorizedGame(u, e, b)
      PROVE  TokenTypeOK' /\ balance'[Vault] >= balance[Vault]
  BY <1>1, <1>8 DEF TokenTypeOK, SetAuthorizedGame
<1>9. ASSUME NEW u \in Users, NEW new \in Minters, SetMinter(u, new)
      PROVE  TokenTypeOK' /\ balance'[Vault] >= balance[Vault]
  BY <1>1, <1>9, TokenAssumption DEF TokenTypeOK, SetMinter
<1> QED  BY <1>3, <1>4, <1>5, <1>6, <1>7, <1>8, <1>9 DEF TokenOp

LEMMA TokenOpInv ==
  ASSUME IInv, TokenOp, UNCHANGED engineVars
  PROVE  IInv'
BY TokenOpEffect, TokenStep

LEMMA BlockInv ==
  ASSUME IInv, Block
  PROVE  IInv'
<1>1. /\ TypeOK
      /\ UNCHANGED <<balance, mintEnabled, minter, authorizedGames>>
      /\ UNCHANGED <<gameNonce, oracle, games, stats>>
  BY DEF IInv, Block, TokenBlock
<1>2. sinceClaim' \in [Users -> 0..FaucetCooldown]
  BY AgedType, TokenAssumption DEF IInv, TypeOK, TokenTypeOK, Block, TokenBlock
<1>3. GameIds' = GameIds  BY <1>1 DEF GameIds
<1>4. age' \in [GameIds -> 0..ExpiryBlocks]
  BY AgedType, EngineAssumption DEF IInv, TypeOK, EngineTypeOK, Block
<1>5. TypeOK'  BY <1>1, <1>2, <1>3, <1>4 DEF TypeOK, TokenTypeOK, EngineTypeOK
<1>6. Seated'  BY <1>1, <1>3 DEF IInv, Seated
<1>7. \A i \in GameIds : Locked(i)' = Locked(i)  BY <1>1 DEF Locked
<1>8. balance'[Vault] \in Nat /\ balance'[Vault] >= balance[Vault]
  BY <1>1, PrincipalsFacts DEF TypeOK, TokenTypeOK
<1>9. VaultSolvent'  BY <1>1, <1>7, <1>8, SolventKeep DEF IInv
<1> QED  BY <1>5, <1>6, <1>9 DEF IInv

LEMMA SetOracleInv ==
  ASSUME IInv, NEW u \in Users, NEW new \in Oracles, SetOracle(u, new)
  PROVE  IInv'
<1>1. /\ TypeOK /\ new \in Users /\ oracle' = new
      /\ UNCHANGED <<balance, mintEnabled, minter, authorizedGames, sinceClaim>>
      /\ UNCHANGED <<gameNonce, games, age, stats>>
  BY EngineAssumption DEF IInv, SetOracle, tokenVars
<1>2. GameIds' = GameIds  BY <1>1 DEF GameIds
<1>3. TypeOK'  BY <1>1, <1>2 DEF TypeOK, TokenTypeOK, EngineTypeOK
<1>4. Seated'  BY <1>1, <1>2 DEF IInv, Seated
<1>5. \A i \in GameIds : Locked(i)' = Locked(i)  BY <1>1 DEF Locked
<1>6. balance'[Vault] \in Nat /\ balance'[Vault] >= balance[Vault]
  BY <1>1, PrincipalsFacts DEF TypeOK, TokenTypeOK
<1>7. VaultSolvent'  BY <1>1, <1>5, <1>6, SolventKeep DEF IInv
<1> QED  BY <1>3, <1>4, <1>7 DEF IInv

LEMMA GameOpInv ==
  ASSUME IInv, NEW u \in Users, NEW id \in GameIds, GameOp(u, id)
  PROVE  IInv'
<1>1. CASE JoinGame(u, id)        BY <1>1, JoinGameInv
<1>2. CASE Resign(u, id)
  <2>1. ActivePlayer(u, id) /\ games[id].status = "active"
    BY <1>2 DEF Resign, ActivePlayer
  <2>2. Opponent(u, id) \in Users /\ Opponent(u, id) # u
    BY <2>1, OpponentSeated DEF IInv
  <2> QED  BY <1>2, <2>1, <2>2, DecidedInv DEF Resign
<1>3. CASE ProposeDraw(u, id)     BY <1>3, ProposeDrawInv
<1>4. CASE AcceptDraw(u, id)
  BY <1>4, DrawnInv DEF AcceptDraw, ActivePlayer
<1>5. CASE CancelGame(u, id)      BY <1>5, CancelInv
<1>6. CASE ReclaimExpired(u, id)  BY <1>6, ReclaimInv
<1>7. ASSUME NEW result \in Results, SettleGame(u, id, result)
      PROVE  IInv'
  <2>1. games[id].status = "active"  BY <1>7 DEF SettleGame
  <2>2. games[id].white \in Users /\ games[id].black \in Users \ {games[id].white}
    BY <2>1 DEF IInv, TypeOK, EngineTypeOK, Game, Seated
  <2>3. CASE EndGameWithWinner(id, games[id].white, games[id].black)
    BY <1>7, <2>1, <2>2, <2>3, DecidedInv DEF SettleGame
  <2>4. CASE EndGameWithWinner(id, games[id].black, games[id].white)
    BY <1>7, <2>1, <2>2, <2>4, DecidedInv DEF SettleGame
  <2>5. CASE EndGameDraw(id)
    BY <1>7, <2>1, <2>5, DrawnInv DEF SettleGame
  <2> QED  BY <1>7, <2>3, <2>4, <2>5 DEF SettleGame
<1> QED  BY <1>1, <1>2, <1>3, <1>4, <1>5, <1>6, <1>7 DEF GameOp

LEMMA StepIInv == IInv /\ [Next]_vars => IInv'
<1> SUFFICES ASSUME IInv, [Next]_vars PROVE IInv'
  OBVIOUS
<1>1. ASSUME NEW u \in Users, NEW n \in Wagers, CreateGame(u, n)
      PROVE  IInv'
  BY <1>1, CreateGameInv
<1>2. ASSUME NEW u \in Users, NEW id \in GameIds, GameOp(u, id)
      PROVE  IInv'
  BY <1>2, GameOpInv
<1>3. ASSUME NEW u \in Users, NEW new \in Oracles, SetOracle(u, new)
      PROVE  IInv'
  BY <1>3, SetOracleInv
<1>4. CASE TokenOp /\ UNCHANGED engineVars  BY <1>4, TokenOpInv
<1>5. CASE Block  BY <1>5, BlockInv
<1>6. CASE UNCHANGED vars
  BY <1>6 DEF vars, tokenVars, engineVars, IInv, TypeOK, TokenTypeOK, EngineTypeOK,
              Seated, VaultSolvent, IsRunningTotal, Locked, GameIds
<1> QED  BY <1>1, <1>2, <1>3, <1>4, <1>5, <1>6 DEF Next

(* The types hold, and the vault can pay for every open game, whatever the *)
(* order of the transactions of playchessifyEngine.clar and                *)
(* playchessifyToken.clar.                                                 *)
THEOREM EngineInvariant == Spec => []IInv
BY InitIInv, StepIInv, PTL DEF Spec

(* Every reachable state of the token and the engine has its type.         *)
THEOREM TypeCorrect == Spec => []TypeOK
<1>1. IInv => TypeOK  BY DEF IInv
<1> QED  BY <1>1, EngineInvariant, PTL

(* The vault covers all open stakes in every reachable state.              *)
THEOREM Solvency == Spec => []VaultSolvent
<1>1. IInv => VaultSolvent  BY DEF IInv
<1> QED  BY <1>1, EngineInvariant, PTL

(* No release for a single live game ever fails for want of funds: the     *)
(* only reason for gateway-release to revert is the allow-list.            *)
THEOREM EveryGameCovered ==
  Spec => [](\A id \in GameIds : Locked(id) <= balance[Vault])
<1>1. IInv => \A id \in GameIds : Locked(id) <= balance[Vault]
  BY SolventCovers DEF IInv
<1> QED  BY <1>1, EngineInvariant, PTL

-----------------------------------------------------------------------------
(* Ratings *)

LEMMA WonExplained ==
  ASSUME NEW s \in Stats, Explained(s), NEW l \in Nat
  PROVE  Explained(Won(s, WinnerRating(s.rating, l)))
<1>1. /\ s.rating \in Nat /\ s.wins \in Nat /\ s.losses \in Nat /\ s.draws \in Nat
  BY DEF Stats
<1>2. WinnerGain(s.rating, l) \in 1..32
  BY <1>1, WinnerGainRange DEF KFactor
<1>3. PICK r \in Nat : r = WinnerRating(s.rating, l)  BY <1>1, <1>2 DEF WinnerRating
<1>4. r >= s.rating /\ r <= s.rating + 32  BY <1>1, <1>2, <1>3 DEF WinnerRating
<1>5. Explained(Won(s, r))
  BY <1>1, <1>4 DEF Explained, Won, Recorded, KFactor, MinRating, StartingElo
<1> QED  BY <1>3, <1>5

LEMMA LostExplained ==
  ASSUME NEW s \in Stats, Explained(s), NEW w \in Nat
  PROVE  Explained(Lost(s, LoserRating(w, s.rating)))
<1>1. /\ s.rating \in Nat /\ s.wins \in Nat /\ s.losses \in Nat /\ s.draws \in Nat
  BY DEF Stats
<1>2. s.rating \in Rating  BY <1>1 DEF Explained, Rating
<1>3. PICK r \in Nat : r = LoserRating(w, s.rating)
  BY <1>2, LoserRatingRange DEF Rating
<1>4. r >= 100 /\ r <= s.rating /\ s.rating - r <= 32
  BY <1>2, <1>3, LoserRatingRange DEF Rating, MinRating, KFactor
<1>5. Explained(Lost(s, r))
  BY <1>1, <1>4 DEF Explained, Lost, Recorded, KFactor, MinRating, StartingElo
<1> QED  BY <1>3, <1>5

LEMMA DrewExplained ==
  ASSUME NEW s \in Stats, Explained(s), NEW other \in Rating
  PROVE  Explained(Drew(s, DrawRating(s.rating, other)))
<1>1. /\ s.rating \in Nat /\ s.wins \in Nat /\ s.losses \in Nat /\ s.draws \in Nat
  BY DEF Stats
<1>2. s.rating \in Rating /\ other \in Nat  BY <1>1 DEF Explained, Rating
<1>3. DrawShift(s.rating, other) \in 0..16  BY <1>1, <1>2, DrawShiftRange
<1>4. PICK r \in Nat : r = DrawRating(s.rating, other)
  BY <1>1, <1>2, DrawRatingType
<1>5. r >= 100 /\ r <= s.rating + 16 /\ r >= s.rating - 16
  BY <1>1, <1>2, <1>3, <1>4 DEF DrawRating, Lowered, Rating, MinRating
<1>6. Explained(Drew(s, r))
  BY <1>1, <1>5 DEF Explained, Drew, Recorded, KFactor, MinRating, StartingElo
<1> QED  BY <1>4, <1>6

LEMMA DecidedExplained ==
  ASSUME IInv, RatingExplained, NEW id \in GameIds,
         NEW winner \in Users, NEW loser \in Users, winner # loser,
         EndGameWithWinner(id, winner, loser)
  PROVE  RatingExplained'
<1>1. /\ stats \in [Users -> Stats]
      /\ Explained(stats[winner]) /\ Explained(stats[loser])
  BY DEF IInv, TypeOK, EngineTypeOK, RatingExplained
<1>2. stats[winner].rating \in Nat /\ stats[loser].rating \in Nat
  BY <1>1 DEF Stats
<1>3. PICK new : new = Won(stats[winner],
                           WinnerRating(stats[winner].rating, stats[loser].rating))
  OBVIOUS
<1>4. PICK down : down = Lost(stats[loser],
                              LoserRating(stats[winner].rating, stats[loser].rating))
  OBVIOUS
<1>5. Explained(new) /\ Explained(down)
  BY <1>1, <1>2, <1>3, <1>4, WonExplained, LostExplained
<1>6. stats' = [stats EXCEPT ![winner] = new, ![loser] = down]
  BY <1>3, <1>4 DEF EndGameWithWinner
<1>7. \A u \in Users : stats'[u] \in {new, down, stats[u]}
  BY <1>1, <1>6
<1> QED  BY <1>5, <1>7 DEF RatingExplained

LEMMA DrawnExplained ==
  ASSUME IInv, RatingExplained, NEW id \in GameIds, games[id].status = "active",
         EndGameDraw(id)
  PROVE  RatingExplained'
<1> DEFINE a == games[id].white
           b == games[id].black
<1>1. a \in Users /\ b \in Users /\ a # b
  BY DEF IInv, TypeOK, EngineTypeOK, Game, Seated
<1>2. /\ stats \in [Users -> Stats]
      /\ Explained(stats[a]) /\ Explained(stats[b])
  BY <1>1 DEF IInv, TypeOK, EngineTypeOK, RatingExplained
<1>3. stats[a].rating \in Rating /\ stats[b].rating \in Rating
  BY <1>1, <1>2 DEF Explained, Stats, Rating
<1>4. PICK na : na = Drew(stats[a], DrawRating(stats[a].rating, stats[b].rating))
  OBVIOUS
<1>5. PICK nb : nb = Drew(stats[b], DrawRating(stats[b].rating, stats[a].rating))
  OBVIOUS
<1>6. Explained(na) /\ Explained(nb)
  BY <1>1, <1>2, <1>3, <1>4, <1>5, DrewExplained
<1>7. stats' = [stats EXCEPT ![a] = na, ![b] = nb]
  BY <1>4, <1>5 DEF EndGameDraw
<1> HIDE DEF a, b
<1>8. \A u \in Users : stats'[u] \in {na, nb, stats[u]}
  BY <1>1, <1>2, <1>7
<1> QED  BY <1>6, <1>8 DEF RatingExplained

LEMMA StepExplained ==
  ASSUME IInv, RatingExplained, [Next]_vars
  PROVE  RatingExplained'
<1>1. stats' = stats => RatingExplained'  BY DEF RatingExplained
<1>2. ASSUME NEW u \in Users, NEW id \in GameIds, GameOp(u, id)
      PROVE  RatingExplained'
  <2>1. CASE JoinGame(u, id)        BY <1>1, <2>1 DEF JoinGame
  <2>2. CASE ProposeDraw(u, id)     BY <1>1, <2>2 DEF ProposeDraw
  <2>3. CASE CancelGame(u, id)      BY <1>1, <2>3 DEF CancelGame
  <2>4. CASE ReclaimExpired(u, id)  BY <1>1, <2>4 DEF ReclaimExpired
  <2>5. CASE Resign(u, id)
    <3>1. ActivePlayer(u, id)  BY <2>5 DEF Resign
    <3>2. Opponent(u, id) \in Users /\ Opponent(u, id) # u
      BY <3>1, OpponentSeated DEF IInv
    <3> QED  BY <2>5, <3>2, DecidedExplained DEF Resign
  <2>6. CASE AcceptDraw(u, id)
    BY <2>6, DrawnExplained DEF AcceptDraw, ActivePlayer
  <2>7. ASSUME NEW result \in Results, SettleGame(u, id, result)
        PROVE  RatingExplained'
    <3>1. games[id].status = "active"  BY <2>7 DEF SettleGame
    <3>2. games[id].white \in Users /\ games[id].black \in Users \ {games[id].white}
      BY <3>1 DEF IInv, TypeOK, EngineTypeOK, Game, Seated
    <3>3. CASE EndGameWithWinner(id, games[id].white, games[id].black)
      BY <3>2, <3>3, DecidedExplained
    <3>4. CASE EndGameWithWinner(id, games[id].black, games[id].white)
      BY <3>2, <3>4, DecidedExplained
    <3>5. CASE EndGameDraw(id)
      BY <3>1, <3>5, DrawnExplained
    <3> QED  BY <2>7, <3>3, <3>4, <3>5 DEF SettleGame
  <2> QED  BY <1>2, <2>1, <2>2, <2>3, <2>4, <2>5, <2>6, <2>7 DEF GameOp
<1>3. ASSUME NEW u \in Users, NEW n \in Wagers, CreateGame(u, n)
      PROVE  RatingExplained'
  BY <1>1, <1>3 DEF CreateGame
<1>4. ASSUME NEW u \in Users, NEW new \in Oracles, SetOracle(u, new)
      PROVE  RatingExplained'
  BY <1>1, <1>4 DEF SetOracle
<1>5. CASE TokenOp /\ UNCHANGED engineVars  BY <1>1, <1>5 DEF engineVars
<1>6. CASE Block                            BY <1>1, <1>6 DEF Block
<1>7. CASE UNCHANGED vars                   BY <1>1, <1>7 DEF vars, engineVars
<1> QED  BY <1>2, <1>3, <1>4, <1>5, <1>6, <1>7 DEF Next

(* However the games of a player interleave, the rating stays within what  *)
(* the player's record explains and never falls below MIN-RATING.          *)
THEOREM RatingsExplained == Spec => []RatingExplained
<1>1. Init => RatingExplained
  BY DEF Init, RatingExplained, Explained, NewPlayer, StartingElo, KFactor, MinRating
<1>2. IInv /\ RatingExplained /\ [Next]_vars => RatingExplained'
  BY StepExplained
<1> QED  BY <1>1, <1>2, EngineInvariant, PTL DEF Spec

-----------------------------------------------------------------------------
(* The escrow as the refinement sees it *)
Slots == 0..MaxGames - 1
Purse == [u \in Users |-> balance[u]]
Held == balance[Vault]
StakesHeld == [id \in Slots |-> StakeOf(id)]

LEMMA SlotsFacts ==
  ASSUME IInv
  PROVE  /\ GameIds \subseteq Slots /\ gameNonce \in Nat
         /\ balance \in [Principals -> Nat]
         /\ Purse \in [Users -> Nat] /\ Held \in Nat
BY EngineAssumption, PrincipalsFacts
   DEF IInv, TypeOK, TokenTypeOK, EngineTypeOK, GameIds, Slots, Purse, Held

(* Money into the vault, and money out of it for one user. *)
LEMMA PaidIn ==
  ASSUME TypeOK, NEW u \in Users, NEW n \in Nat, Escrowed(u, n)
  PROVE  /\ Purse[u] >= n /\ Purse' = [Purse EXCEPT ![u] = @ - n]
         /\ Held' = Held + n
<1>1. u \in Principals /\ Vault \in Principals /\ u # Vault /\ Users \subseteq Principals
      /\ Vault \notin Users
  BY PrincipalsFacts
<1>2. balance[u] >= n /\ balance' = Moved(u, Vault, n)
  BY <1>1 DEF Escrowed, CanTransfer, TypeOK, TokenTypeOK
<1>3. /\ balance'[u] = balance[u] - n /\ balance'[Vault] = balance[Vault] + n
      /\ \A p \in Principals \ {u, Vault} : balance'[p] = balance[p]
  BY <1>1, <1>2, MovedType DEF TypeOK
<1>4. \A v \in Users : balance'[v] = IF v = u THEN balance[v] - n ELSE balance[v]
  BY <1>1, <1>3
<1>5. Purse' = [Purse EXCEPT ![u] = @ - n]  BY <1>4 DEF Purse
<1> QED  BY <1>2, <1>3, <1>5 DEF Purse, Held

LEMMA PaidOut ==
  ASSUME TypeOK, NEW u \in Users, NEW n \in Nat, balance[Vault] >= n,
         balance' = Moved(Vault, u, n)
  PROVE  Purse' = [Purse EXCEPT ![u] = @ + n] /\ Held' = Held - n
<1>1. u \in Principals /\ Vault \in Principals /\ u # Vault /\ Users \subseteq Principals
      /\ Vault \notin Users
  BY PrincipalsFacts
<1>2. /\ balance'[u] = balance[u] + n /\ balance'[Vault] = balance[Vault] - n
      /\ \A p \in Principals \ {u, Vault} : balance'[p] = balance[p]
  BY <1>1, MovedType DEF TypeOK
<1>3. \A v \in Users : balance'[v] = IF v = u THEN balance[v] + n ELSE balance[v]
  BY <1>1, <1>2
<1>4. Purse' = [Purse EXCEPT ![u] = @ + n]  BY <1>3 DEF Purse
<1> QED  BY <1>2, <1>4 DEF Held

(* One game changes and the others stay. *)
LEMMA StakeChange ==
  ASSUME IInv, NEW id \in GameIds, gameNonce' = gameNonce,
         \A i \in GameIds \ {id} : games'[i] = games[i], NEW s, StakeOf(id)' = s
  PROVE  StakesHeld' = [StakesHeld EXCEPT ![id] = s]
<1>1. GameIds' = GameIds /\ id \in Slots  BY SlotsFacts DEF GameIds
<1>2. \A i \in Slots : StakeOf(i)' = IF i = id THEN s ELSE StakeOf(i)
  BY <1>1 DEF StakeOf
<1>3. StakesHeld' = [i \in Slots |-> StakeOf(i)']
  BY DEF StakesHeld, Slots
<1> QED  BY <1>1, <1>2, <1>3 DEF StakesHeld

LEMMA ActiveStake ==
  ASSUME IInv, NEW id \in GameIds, games[id].status = "active"
  PROVE  /\ StakesHeld[id].phase = "matched" /\ StakesHeld[id].first = games[id].white
         /\ StakesHeld[id].second = games[id].black /\ StakesHeld[id].each = games[id].wager
         /\ games[id].white \in Users /\ games[id].black \in Users \ {games[id].white}
         /\ games[id].wager \in Nat /\ id \in Slots
<1>1. id \in Slots  BY SlotsFacts
<1>2. StakesHeld[id] = [phase |-> "matched", first |-> games[id].white,
                        second |-> games[id].black, each |-> games[id].wager]
  BY <1>1 DEF StakesHeld, StakeOf
<1>3. games[id].white \in Users /\ games[id].black \in Users \ {games[id].white} /\ games[id].wager \in Nat
  BY DEF IInv, TypeOK, EngineTypeOK, Game, Seated
<1> QED  BY <1>1, <1>2, <1>3

LEMMA ClosedStake ==
  ASSUME IInv, NEW id \in GameIds, NEW status \in {"finished", "cancelled", "draw"},
         games' = [games EXCEPT ![id].status = status], gameNonce' = gameNonce
  PROVE  StakesHeld' = [StakesHeld EXCEPT ![id] = [phase |-> "closed"]]
<1>1. /\ games'[id].status = status /\ \A i \in GameIds \ {id} : games'[i] = games[i]
  BY StatusChange DEF IInv, Statuses
<1>2. StakeOf(id)' = [phase |-> "closed"]
  BY <1>1 DEF StakeOf, GameIds
<1> QED  BY <1>1, <1>2, StakeChange

(* The transactions, each as the step of the escrow it is. *)
LEMMA CreateRefines ==
  ASSUME IInv, NEW u \in Users, NEW n \in Wagers, CreateGame(u, n)
  PROVE  Escrow!EscrowNext
<1>1. n \in Nat /\ gameNonce \in Slots /\ gameNonce \in Nat
  BY EngineAssumption DEF IInv, TypeOK, EngineTypeOK, CreateGame, Slots
<1>2. PICK id \in Slots : id = gameNonce  BY <1>1
<1>3. Purse[u] >= n /\ Purse' = [Purse EXCEPT ![u] = @ - n] /\ Held' = Held + n
  BY <1>1, PaidIn DEF CreateGame, IInv
<1>4. gameNonce' = gameNonce + 1 /\ GameIds' = 0..gameNonce /\ id \notin GameIds
  BY <1>1, <1>2 DEF CreateGame, GameIds
<1>5. StakesHeld[id] = [phase |-> "unopened"]
  BY <1>2, <1>4 DEF StakesHeld, StakeOf
<1>6. /\ games'[id].status = "waiting" /\ games'[id].white = u /\ games'[id].wager = n
      /\ \A i \in GameIds : games'[i] = games[i]
  <2> DEFINE new == [white |-> u, black |-> NoPlayer, wager |-> n,
                     status |-> "waiting", drawProposer |-> NoPlayer]
  <2>1. games' = [i \in 0..gameNonce |-> IF i = gameNonce THEN new ELSE games[i]]
    BY DEF CreateGame
  <2>2. new.status = "waiting" /\ new.white = u /\ new.wager = n  OBVIOUS
  <2> HIDE DEF new
  <2> QED  BY <1>1, <1>2, <2>1, <2>2 DEF GameIds
<1>7. StakeOf(id)' = [phase |-> "open", first |-> u, each |-> n]
  BY <1>1, <1>2, <1>4, <1>6 DEF StakeOf
<1>8. \A i \in Slots \ {id} : StakeOf(i)' = StakeOf(i)
  <2> SUFFICES ASSUME NEW i \in Slots, i # id PROVE StakeOf(i)' = StakeOf(i)
    OBVIOUS
  <2>1. i \in GameIds <=> i \in GameIds'  BY <1>1, <1>2, <1>4 DEF GameIds, Slots
  <2> QED  BY <1>6, <2>1 DEF StakeOf
<1>9. StakesHeld' = [i \in Slots |-> StakeOf(i)']  BY DEF StakesHeld, Slots
<1>10. StakesHeld' = [StakesHeld EXCEPT ![id] = [phase |-> "open", first |-> u, each |-> n]]
  BY <1>7, <1>8, <1>9 DEF StakesHeld
<1>11. Escrow!Open(id, u, n)
  BY <1>3, <1>5, <1>10 DEF Escrow!Open, Escrow!Unopened, Purse, Held, StakesHeld, Slots
<1>12. n \in 0..Purse[u]  BY <1>1, <1>3, SlotsFacts
<1> QED  BY <1>11, <1>12 DEF Escrow!EscrowNext, Purse, Slots

LEMMA JoinRefines ==
  ASSUME IInv, NEW u \in Users, NEW id \in GameIds, JoinGame(u, id)
  PROVE  Escrow!EscrowNext
<1>1. PICK n \in Nat, w \in Users : n = games[id].wager /\ w = games[id].white
  BY DEF IInv, TypeOK, EngineTypeOK, Game
<1>2. id \in Slots /\ gameNonce' = gameNonce /\ u # w  BY <1>1, SlotsFacts DEF JoinGame
<1>3. Purse[u] >= n /\ Purse' = [Purse EXCEPT ![u] = @ - n] /\ Held' = Held + n
  BY <1>1, PaidIn DEF JoinGame, IInv
<1>4. StakesHeld[id] = [phase |-> "open", first |-> w, each |-> n]
  BY <1>1, <1>2 DEF JoinGame, StakesHeld, StakeOf
<1>5. /\ games'[id].status = "active" /\ games'[id].wager = n
      /\ games'[id].white = w /\ games'[id].black = u
      /\ \A i \in GameIds \ {id} : games'[i] = games[i]
  BY <1>1 DEF JoinGame, IInv, TypeOK, EngineTypeOK, Game, Player, Statuses
<1>6. StakeOf(id)' = [phase |-> "matched", first |-> w, second |-> u, each |-> n]
  BY <1>2, <1>5 DEF StakeOf, GameIds
<1>7. StakesHeld' = [StakesHeld EXCEPT ![id] =
                       [phase |-> "matched", first |-> w, second |-> u, each |-> n]]
  BY <1>2, <1>5, <1>6, StakeChange
<1>8. StakesHeld[id].phase = "open" /\ StakesHeld[id].first = w /\ StakesHeld[id].each = n
  BY <1>4
<1>9. /\ StakesHeld' = [StakesHeld EXCEPT ![id] =
           [phase |-> "matched", first |-> StakesHeld[id].first, second |-> u, each |-> StakesHeld[id].each]]
      /\ Purse[u] >= StakesHeld[id].each /\ u # StakesHeld[id].first
      /\ Purse' = [Purse EXCEPT ![u] = @ - StakesHeld[id].each]
      /\ Held' = Held + StakesHeld[id].each
  BY <1>2, <1>3, <1>7, <1>8
<1>10. Escrow!Match(id, u)
  BY <1>8, <1>9 DEF Escrow!Match, Purse, Held, StakesHeld, Slots
<1> QED  BY <1>2, <1>10 DEF Escrow!EscrowNext, Slots

LEMMA WinRefines ==
  ASSUME IInv, NEW id \in GameIds, games[id].status = "active", gameNonce' = gameNonce,
         NEW winner \in Users, NEW loser \in Users,
         winner \in {games[id].white, games[id].black},
         EndGameWithWinner(id, winner, loser)
  PROVE  Escrow!EscrowNext
<1>1. PICK n \in Nat : n = games[id].wager /\ id \in Slots
  BY ActiveStake
<1>2. n * 2 \in Nat /\ n * 2 = 2 * n /\ balance[Vault] \in Nat
  BY <1>1, SlotsFacts DEF Held
<1>3. balance[Vault] >= n * 2 /\ balance' = Moved(Vault, winner, n * 2)
  BY <1>1, <1>2 DEF EndGameWithWinner, Covered, CanRelease
<1>4. Purse' = [Purse EXCEPT ![winner] = @ + n * 2] /\ Held' = Held - n * 2
  BY <1>2, <1>3, PaidOut DEF IInv
<1>5. StakesHeld' = [StakesHeld EXCEPT ![id] = [phase |-> "closed"]]
  BY ClosedStake DEF EndGameWithWinner
<1>6. /\ StakesHeld[id].phase = "matched" /\ 2 * StakesHeld[id].each = n * 2
      /\ winner \in {StakesHeld[id].first, StakesHeld[id].second}
  BY <1>1, <1>2, ActiveStake
<1>7. /\ Purse' = [Purse EXCEPT ![winner] = @ + 2 * StakesHeld[id].each]
      /\ Held' = Held - 2 * StakesHeld[id].each
  BY <1>4, <1>6
<1>8. Escrow!PayWinner(id, winner)
  BY <1>5, <1>6, <1>7 DEF Escrow!PayWinner, Escrow!Closed, Purse, Held, StakesHeld, Slots
<1> QED  BY <1>1, <1>8 DEF Escrow!EscrowNext, Slots

LEMMA SplitRefines ==
  ASSUME IInv, NEW id \in GameIds, games[id].status = "active", gameNonce' = gameNonce,
         NEW status \in {"cancelled", "draw"}, SplitRefund(id),
         games' = [games EXCEPT ![id].status = status]
  PROVE  Escrow!EscrowNext
<1>1. PICK n \in Nat, a \in Users, b \in Users :
        /\ n = games[id].wager /\ a = games[id].white /\ b = games[id].black
        /\ a # b /\ id \in Slots
  BY ActiveStake
<1>2. n * 2 \in Nat /\ n * 2 = 2 * n /\ balance[Vault] \in Nat /\ balance \in [Principals -> Nat]
  BY <1>1, SlotsFacts DEF Held
<1>3. /\ balance[Vault] >= n * 2
      /\ balance' = [balance EXCEPT ![Vault] = @ - n * 2, ![a] = @ + n, ![b] = @ + n]
  BY <1>1, <1>2 DEF SplitRefund, Covered, CanRelease
<1>4. a \in Principals /\ b \in Principals /\ Vault \in Principals /\ a # Vault /\ b # Vault
      /\ Users \subseteq Principals /\ Vault \notin Users
  BY PrincipalsFacts
<1>5. balance'[Vault] = balance[Vault] - n * 2  BY <1>2, <1>3, <1>4
<1>6. \A v \in Users : balance'[v] = IF v \in {a, b} THEN balance[v] + n ELSE balance[v]
  BY <1>1, <1>2, <1>3, <1>4
<1>7. Purse' = [Purse EXCEPT ![a] = @ + n, ![b] = @ + n] /\ Held' = Held - n * 2
  BY <1>1, <1>5, <1>6 DEF Purse, Held
<1>8. StakesHeld' = [StakesHeld EXCEPT ![id] = [phase |-> "closed"]]
  BY ClosedStake
<1>9. /\ StakesHeld[id].phase = "matched" /\ 2 * StakesHeld[id].each = n * 2
      /\ StakesHeld[id].each = n /\ StakesHeld[id].first = a /\ StakesHeld[id].second = b
  BY <1>1, <1>2, ActiveStake
<1>10. /\ Purse' = [Purse EXCEPT ![StakesHeld[id].first] = @ + StakesHeld[id].each,
                                 ![StakesHeld[id].second] = @ + StakesHeld[id].each]
       /\ Held' = Held - 2 * StakesHeld[id].each
  BY <1>7, <1>9
<1>11. Escrow!Split(id)
  BY <1>8, <1>9, <1>10 DEF Escrow!Split, Escrow!Closed, Purse, Held, StakesHeld, Slots
<1> QED  BY <1>1, <1>11 DEF Escrow!EscrowNext, Slots

LEMMA CancelRefines ==
  ASSUME IInv, NEW u \in Users, NEW id \in GameIds, CancelGame(u, id)
  PROVE  Escrow!EscrowNext
<1>1. PICK n \in Nat : n = games[id].wager
  BY DEF IInv, TypeOK, EngineTypeOK, Game
<1>2. u = games[id].white /\ games[id].status = "waiting" /\ id \in Slots /\ gameNonce' = gameNonce
  BY SlotsFacts DEF CancelGame
<1>3. balance[Vault] >= n
  BY <1>1, <1>2, SolventCovers DEF IInv, Locked
<1>4. balance' = Moved(Vault, u, n)  BY <1>1, <1>2 DEF CancelGame
<1>5. Purse' = [Purse EXCEPT ![u] = @ + n] /\ Held' = Held - n
  BY <1>3, <1>4, PaidOut DEF IInv
<1>6. StakesHeld' = [StakesHeld EXCEPT ![id] = [phase |-> "closed"]]
  BY ClosedStake DEF CancelGame
<1>7. StakesHeld[id] = [phase |-> "open", first |-> u, each |-> n]
  BY <1>1, <1>2 DEF StakesHeld, StakeOf
<1>8. StakesHeld[id].phase = "open" /\ StakesHeld[id].first = u /\ StakesHeld[id].each = n
  BY <1>7
<1>9. /\ Purse' = [Purse EXCEPT ![StakesHeld[id].first] = @ + StakesHeld[id].each]
      /\ Held' = Held - StakesHeld[id].each
  BY <1>5, <1>8
<1>10. Escrow!Withdraw(id)
  BY <1>6, <1>8, <1>9 DEF Escrow!Withdraw, Escrow!Closed, Purse, Held, StakesHeld, Slots
<1> QED  BY <1>2, <1>10 DEF Escrow!EscrowNext, Slots

(* An offer, the token, the owner and a block leave the stakes alone. *)
LEMMA StakesStay ==
  ASSUME IInv, gameNonce' = gameNonce,
         \A i \in GameIds : /\ games'[i].status = games[i].status
                            /\ games'[i].wager = games[i].wager
                            /\ games'[i].white = games[i].white
                            /\ games'[i].black = games[i].black,
         balance' \in [Principals -> Nat], balance'[Vault] >= balance[Vault]
  PROVE  Escrow!EscrowNext
<1>1. \A i \in Slots : StakeOf(i)' = StakeOf(i)  BY DEF StakeOf, GameIds
<1>2. [i \in 0..MaxGames - 1 |-> StakeOf(i)]' = [i \in 0..MaxGames - 1 |-> StakeOf(i)]
  BY <1>1 DEF Slots
<1>3. [u \in Users |-> balance[u]]' \in [Users -> Nat]  BY PrincipalsFacts
<1>4. Escrow!Elsewhere  BY <1>2, <1>3 DEF Escrow!Elsewhere
<1> QED  BY <1>4 DEF Escrow!EscrowNext

LEMMA GameOpRefines ==
  ASSUME IInv, NEW u \in Users, NEW id \in GameIds, GameOp(u, id)
  PROVE  Escrow!EscrowNext
<1>1. CASE JoinGame(u, id)    BY <1>1, JoinRefines
<1>2. CASE CancelGame(u, id)  BY <1>2, CancelRefines
<1>3. CASE Resign(u, id)
  <2>1. /\ games[id].status = "active" /\ u \in {games[id].white, games[id].black}
        /\ gameNonce' = gameNonce
    BY <1>3 DEF Resign, ActivePlayer, Playing
  <2>2. PICK other \in Users :
          other = Opponent(u, id) /\ other \in {games[id].white, games[id].black}
    BY <2>1, ActiveStake DEF Opponent
  <2>3. EndGameWithWinner(id, other, u)  BY <1>3, <2>2 DEF Resign
  <2> QED  BY <2>1, <2>2, <2>3, WinRefines
<1>4. CASE ProposeDraw(u, id)
  <2>1. /\ games' = [games EXCEPT ![id].drawProposer = u]
        /\ UNCHANGED <<balance, gameNonce>>
    BY <1>4 DEF ProposeDraw, tokenVars
  <2>2. \A i \in GameIds : /\ games'[i].status = games[i].status
                           /\ games'[i].wager = games[i].wager
                           /\ games'[i].white = games[i].white
                           /\ games'[i].black = games[i].black
    BY <2>1 DEF IInv, TypeOK, EngineTypeOK, Game
  <2>3. balance' \in [Principals -> Nat] /\ balance'[Vault] >= balance[Vault]
    BY <2>1, SlotsFacts DEF Held
  <2> QED  BY <2>1, <2>2, <2>3, StakesStay
<1>5. CASE AcceptDraw(u, id)
  BY <1>5, SplitRefines DEF AcceptDraw, ActivePlayer, EndGameDraw
<1>6. CASE ReclaimExpired(u, id)
  BY <1>6, SplitRefines DEF ReclaimExpired, ActivePlayer
<1>7. ASSUME NEW result \in Results, SettleGame(u, id, result)
      PROVE  Escrow!EscrowNext
  <2>1. games[id].status = "active" /\ gameNonce' = gameNonce  BY <1>7 DEF SettleGame
  <2>2. PICK a \in Users, b \in Users : a = games[id].white /\ b = games[id].black
    BY <2>1, ActiveStake
  <2>3. EndGameWithWinner(id, a, b) \/ EndGameWithWinner(id, b, a) \/ EndGameDraw(id)
    BY <1>7, <2>2 DEF SettleGame
  <2>4. CASE EndGameWithWinner(id, a, b)  BY <2>1, <2>2, <2>4, WinRefines
  <2>5. CASE EndGameWithWinner(id, b, a)  BY <2>1, <2>2, <2>5, WinRefines
  <2>6. CASE EndGameDraw(id)              BY <2>1, <2>6, SplitRefines DEF EndGameDraw
  <2> QED  BY <2>3, <2>4, <2>5, <2>6
<1> QED  BY <1>1, <1>2, <1>3, <1>4, <1>5, <1>6, <1>7 DEF GameOp

LEMMA StepRefines ==
  ASSUME IInv, [Next]_vars
  PROVE  [Escrow!EscrowNext]_(Escrow!escrowVars)
<1>1. ASSUME NEW u \in Users, NEW n \in Wagers, CreateGame(u, n)
      PROVE  Escrow!EscrowNext
  BY <1>1, CreateRefines
<1>2. ASSUME NEW u \in Users, NEW id \in GameIds, GameOp(u, id)
      PROVE  Escrow!EscrowNext
  BY <1>2, GameOpRefines
<1>3. CASE TokenOp /\ UNCHANGED engineVars
  <2>1. balance' \in [Principals -> Nat] /\ balance'[Vault] >= balance[Vault]
    BY <1>3, TokenOpEffect DEF TokenTypeOK
  <2>2. gameNonce' = gameNonce /\ games' = games  BY <1>3 DEF engineVars
  <2> QED  BY <2>1, <2>2, StakesStay
<1>4. CASE (\E u \in Users, new \in Oracles : SetOracle(u, new)) \/ Block \/ UNCHANGED vars
  <2>1. UNCHANGED <<balance, gameNonce, games>>
    BY <1>4 DEF SetOracle, Block, TokenBlock, vars, tokenVars, engineVars
  <2>2. balance' \in [Principals -> Nat] /\ balance'[Vault] >= balance[Vault]
    BY <2>1, SlotsFacts DEF Held
  <2> QED  BY <2>1, <2>2, StakesStay
<1> QED  BY <1>1, <1>2, <1>3, <1>4 DEF Next

(* The engine and its vault implement the escrow: for any users, wagers and *)
(* number of games, whatever is staked on a game goes once, in full, and    *)
(* only to the two who staked it, and nothing else takes money out.         *)
THEOREM EngineRefinesEscrow == Spec => ImplementsEscrow
<1>1. Init => Escrow!EscrowInit
  <2> SUFFICES ASSUME Init PROVE Escrow!EscrowInit
    OBVIOUS
  <2>1. IInv  BY InitIInv
  <2>2. GameIds = {}  BY DEF Init, GameIds
  <2>3. \A id \in 0..MaxGames - 1 : StakeOf(id) = [phase |-> "unopened"]
    BY <2>2 DEF StakeOf
  <2> QED  BY <2>1, <2>3, SlotsFacts DEF Escrow!EscrowInit, Escrow!Unopened, Purse, Held
<1>2. IInv /\ [Next]_vars => [Escrow!EscrowNext]_(Escrow!escrowVars)
  BY StepRefines
<1> QED  BY <1>1, <1>2, EngineInvariant, PTL DEF Spec, ImplementsEscrow, Escrow!EscrowSpec

-----------------------------------------------------------------------------
HistoryTyped ==
  /\ consent \in [Slots -> SUBSET Users]
  /\ settled \subseteq Slots

(* What the offers of a game say about its players' consent: none before   *)
(* it starts, and the one that stands was made by a player.                *)
Offered(id) ==
  /\ games[id].status = "waiting" => games[id].drawProposer = NoPlayer
  /\ games[id].status = "active" =>
       games[id].drawProposer = NoPlayer \/ games[id].drawProposer \in Playing(id) \cap consent[id]
  /\ games[id].status = "draw" /\ id \notin settled => Playing(id) \subseteq consent[id]

ConsentInv == IInv /\ HistoryTyped /\ \A id \in GameIds : Offered(id)

LEMMA HistoryStarts == HInit => ConsentInv
BY InitIInv, EngineAssumption DEF HInit, Init, ConsentInv, HistoryTyped, Slots, GameIds

LEMMA ConsentUnchanged ==
  ASSUME ConsentInv, IInv', UNCHANGED <<games, gameNonce, consent, settled>>
  PROVE  ConsentInv'
BY DEF ConsentInv, HistoryTyped, Offered, Playing, GameIds

(* A step that touches one game, of which nothing is left to show. *)
LEMMA OneGame ==
  ASSUME ConsentInv, IInv', HistoryTyped', gameNonce' = gameNonce, NEW id \in GameIds, Offered(id)',
         \A i \in GameIds \ {id} :
           /\ games'[i] = games[i] /\ consent'[i] = consent[i]
           /\ i \in settled => i \in settled'
  PROVE  ConsentInv'
BY DEF ConsentInv, Offered, Playing, GameIds

LEMMA CreateKeepsConsent ==
  ASSUME ConsentInv, IInv', NEW u \in Users, NEW n \in Wagers, CreateGame(u, n),
         UNCHANGED <<consent, settled>>
  PROVE  ConsentInv'
<1>1. gameNonce \in Nat /\ gameNonce' = gameNonce + 1
  BY SlotsFacts DEF CreateGame, ConsentInv
<1>2. GameIds' = 0..gameNonce /\ GameIds \subseteq GameIds' /\ GameIds' \ GameIds = {gameNonce}
  BY <1>1 DEF GameIds
<1>3. \A id \in GameIds : games'[id] = games[id]
  BY <1>1, <1>2 DEF CreateGame, GameIds
<1>4. PICK new \in Nat : new = gameNonce
  BY <1>1
<1>5. games'[new].status = "waiting" /\ games'[new].drawProposer = NoPlayer
  BY <1>1, <1>2, <1>4 DEF CreateGame
<1>6. ASSUME NEW id \in GameIds PROVE Offered(id)'
  BY <1>3, <1>6 DEF ConsentInv, Offered, Playing
<1>7. Offered(new)'
  BY <1>5 DEF Offered
<1> QED
  BY <1>2, <1>4, <1>6, <1>7 DEF ConsentInv, HistoryTyped

LEMMA JoinKeepsConsent ==
  ASSUME ConsentInv, IInv', NEW u \in Users, NEW id \in GameIds, JoinGame(u, id),
         UNCHANGED <<consent, settled>>
  PROVE  ConsentInv'
<1>1. /\ games'[id].status = "active" /\ games'[id].drawProposer = games[id].drawProposer
      /\ \A i \in GameIds \ {id} : games'[i] = games[i]
  BY DEF JoinGame, ConsentInv, IInv, TypeOK, EngineTypeOK, Game, Player, Statuses
<1>2. games[id].drawProposer = NoPlayer /\ gameNonce' = gameNonce
  BY DEF JoinGame, ConsentInv, Offered
<1> QED
  BY <1>1, <1>2, OneGame DEF Offered, ConsentInv, HistoryTyped

(* A game that ends as anything but a draw. *)
LEMMA EndKeepsConsent ==
  ASSUME ConsentInv, IInv', NEW id \in GameIds, NEW status \in {"finished", "cancelled"},
         games' = [games EXCEPT ![id].status = status],
         UNCHANGED <<gameNonce, consent>>, settled \subseteq settled', HistoryTyped'
  PROVE  ConsentInv'
<1>1. games'[id].status = status /\ \A i \in GameIds \ {id} : games'[i] = games[i]
  BY StatusChange DEF ConsentInv, IInv, Statuses
<1> QED
  BY <1>1, OneGame DEF Offered

LEMMA ProposeKeepsConsent ==
  ASSUME ConsentInv, IInv', NEW u \in Users, NEW id \in GameIds, ProposeDraw(u, id),
         consent' = [consent EXCEPT ![id] = consent[id] \cup {u}], UNCHANGED settled
  PROVE  ConsentInv'
<1>1. /\ games'[id].status = "active" /\ games'[id].drawProposer = u
      /\ games'[id].white = games[id].white /\ games'[id].black = games[id].black
      /\ \A i \in GameIds \ {id} : games'[i] = games[i]
  BY DEF ProposeDraw, ActivePlayer, ConsentInv, IInv, TypeOK, EngineTypeOK, Game, Player
<1>2. id \in Slots /\ gameNonce' = gameNonce /\ u \in Playing(id)
  BY SlotsFacts DEF ConsentInv, ProposeDraw, ActivePlayer
<1>3. HistoryTyped' /\ u \in consent'[id] /\ \A i \in Slots \ {id} : consent'[i] = consent[i]
  BY <1>2 DEF ConsentInv, HistoryTyped
<1>4. Offered(id)'
  BY <1>1, <1>2, <1>3 DEF Offered, Playing
<1> QED
  BY <1>1, <1>2, <1>3, <1>4, SlotsFacts, OneGame DEF ConsentInv

LEMMA AcceptKeepsConsent ==
  ASSUME ConsentInv, IInv', NEW u \in Users, NEW id \in GameIds, AcceptDraw(u, id),
         consent' = [consent EXCEPT ![id] = consent[id] \cup {u}], UNCHANGED settled
  PROVE  ConsentInv'
<1>1. games' = [games EXCEPT ![id].status = "draw"] /\ gameNonce' = gameNonce
  BY DEF AcceptDraw, EndGameDraw
<1>2. /\ games'[id].status = "draw"
      /\ games'[id].white = games[id].white /\ games'[id].black = games[id].black
      /\ \A i \in GameIds \ {id} : games'[i] = games[i]
  BY <1>1, StatusChange DEF ConsentInv, IInv, Statuses
<1>3. id \in Slots
  BY SlotsFacts DEF ConsentInv
<1>4. /\ HistoryTyped' /\ consent'[id] = consent[id] \cup {u}
      /\ \A i \in Slots \ {id} : consent'[i] = consent[i]
  BY <1>3 DEF ConsentInv, HistoryTyped
<1>5. Playing(id) \subseteq consent[id] \cup {u}
  BY DEF AcceptDraw, ActivePlayer, ConsentInv, Offered, Playing
<1>6. Offered(id)'
  BY <1>2, <1>4, <1>5 DEF Offered, Playing
<1> QED
  BY <1>1, <1>2, <1>3, <1>4, <1>6, SlotsFacts, OneGame DEF ConsentInv

LEMMA SettleKeepsConsent ==
  ASSUME ConsentInv, IInv', NEW u \in Users, NEW id \in GameIds, NEW result \in Results,
         SettleGame(u, id, result), UNCHANGED consent, settled' = settled \cup {id}
  PROVE  ConsentInv'
<1>1. gameNonce' = gameNonce /\ HistoryTyped' /\ settled \subseteq settled'
  BY SlotsFacts DEF SettleGame, ConsentInv, HistoryTyped
<1>2. CASE games' = [games EXCEPT ![id].status = "finished"]
  BY <1>1, <1>2, EndKeepsConsent
<1>3. CASE games' = [games EXCEPT ![id].status = "draw"]
  <2>1. games'[id].status = "draw" /\ \A i \in GameIds \ {id} : games'[i] = games[i]
    BY <1>1, <1>3, StatusChange DEF ConsentInv, IInv, Statuses
  <2> QED
    BY <1>1, <2>1, OneGame DEF Offered
<1> QED
  BY <1>2, <1>3 DEF SettleGame, EndGameWithWinner, EndGameDraw

LEMMA OtherKeepsConsent ==
  ASSUME ConsentInv, IInv', HOther
  PROVE  ConsentInv'
<1>1. UNCHANGED <<consent, settled>> /\ HistoryTyped'
  BY DEF HOther, historyVars, ConsentInv, HistoryTyped
<1>2. ASSUME NEW u \in Users, NEW n \in Wagers, CreateGame(u, n) PROVE ConsentInv'
  BY <1>1, <1>2, CreateKeepsConsent
<1>3. ASSUME NEW u \in Users, NEW id \in GameIds, JoinGame(u, id) PROVE ConsentInv'
  BY <1>1, <1>3, JoinKeepsConsent
<1>4. ASSUME NEW u \in Users, NEW id \in GameIds,
             Resign(u, id) \/ CancelGame(u, id) \/ ReclaimExpired(u, id)
      PROVE  ConsentInv'
  <2>1. \E status \in {"finished", "cancelled"} :
          games' = [games EXCEPT ![id].status = status] /\ gameNonce' = gameNonce
    BY <1>4 DEF Resign, EndGameWithWinner, CancelGame, ReclaimExpired
  <2> QED
    BY <1>1, <2>1, EndKeepsConsent
<1>5. ASSUME NEW u \in Users, NEW new \in Oracles, SetOracle(u, new) PROVE ConsentInv'
  BY <1>1, <1>5, ConsentUnchanged DEF SetOracle
<1>6. CASE TokenOp /\ UNCHANGED engineVars
  BY <1>1, <1>6, ConsentUnchanged DEF engineVars
<1> QED
  BY <1>2, <1>3, <1>4, <1>5, <1>6 DEF HOther

LEMMA HistorySteps == ConsentInv /\ HNext => ConsentInv'
<1> SUFFICES ASSUME ConsentInv, HNext PROVE ConsentInv'
  OBVIOUS
<1>1. Next
  BY DEF HNext, HBlock, HOther, HConsent, HSettle, Next, GameOp
<1>2. IInv'
  BY <1>1, StepIInv DEF ConsentInv
<1>3. CASE HBlock
  BY <1>2, <1>3, ConsentUnchanged DEF HBlock, Block
<1>4. CASE HOther
  BY <1>2, <1>4, OtherKeepsConsent
<1>5. ASSUME NEW u \in Users, NEW id \in GameIds, HConsent(u, id) PROVE ConsentInv'
  BY <1>2, <1>5, ProposeKeepsConsent, AcceptKeepsConsent DEF HConsent
<1>6. ASSUME NEW u \in Users, NEW id \in GameIds, HSettle(u, id) PROVE ConsentInv'
  BY <1>2, <1>6, SettleKeepsConsent DEF HSettle
<1> QED
  BY <1>3, <1>4, <1>5, <1>6 DEF HNext

(* Unless the oracle declared it, both players of a drawn game proposed or *)
(* accepted a draw in it: accept-draw of playchessifyEngine.clar checks    *)
(* only that the caller plays and did not make the offer himself.          *)
THEOREM DrawsNeedBoth == HSpec => []DrawNeedsBoth
<1>1. ConsentInv /\ UNCHANGED <<vars, historyVars>> => ConsentInv'
  <2> SUFFICES ASSUME ConsentInv, UNCHANGED <<vars, historyVars>> PROVE ConsentInv'
    OBVIOUS
  <2>1. IInv'
    BY StepIInv DEF ConsentInv
  <2> QED
    BY <2>1, ConsentUnchanged DEF vars, engineVars, historyVars
<1>2. ConsentInv => DrawNeedsBoth
  BY DEF ConsentInv, Offered, DrawNeedsBoth
<1> QED
  BY <1>1, <1>2, HistoryStarts, HistorySteps, PTL DEF HSpec

-----------------------------------------------------------------------------
-----------------------------------------------------------------------------
(* The records are the games *)

LEMMA CountedSets ==
  ASSUME TypeOK
  PROVE  \A S \in SUBSET GameIds : IsFiniteSet(S) /\ Cardinality(S) \in Nat
<1>1. IsFiniteSet(GameIds)
  BY FS_Interval DEF GameIds, TypeOK, EngineTypeOK
<1> QED BY <1>1, FS_Subset, FS_CardinalityType

LEMMA OneMore ==
  ASSUME TypeOK, NEW S \in SUBSET GameIds, NEW id \in GameIds \ S
  PROVE  Cardinality(S \cup {id}) = Cardinality(S) + 1
<1>1. IsFiniteSet(S) /\ id \notin S
  BY CountedSets
<1> QED BY <1>1, FS_AddElement

(* A step that decides no game and changes no record. *)
LEMMA QuietRecords ==
  ASSUME StatsMatchGames, UNCHANGED stats,
         WithStatus("finished")' = WithStatus("finished"),
         WithStatus("draw")' = WithStatus("draw"),
         \A id \in WithStatus("finished") \cup WithStatus("draw") : Playing(id)' = Playing(id)
  PROVE  StatsMatchGames'
<1>1. PICK winner \in [WithStatus("finished") -> Users] : RecordsFit(winner)
  BY DEF StatsMatchGames
<1>2. \A u \in Users :
        /\ {id \in WithStatus("finished") : u \in Playing(id)' \ {winner[id]}}
             = {id \in WithStatus("finished") : u \in Playing(id) \ {winner[id]}}
        /\ {id \in WithStatus("draw") : u \in Playing(id)'} = {id \in WithStatus("draw") : u \in Playing(id)}
  OBVIOUS
<1>3. RecordsFit(winner)'
  BY <1>1, <1>2 DEF RecordsFit
<1> QED BY <1>1, <1>3 DEF StatsMatchGames

(* A step that changes one game, neither decided before nor after it.      *)
LEMMA UndecidedStep ==
  ASSUME IInv, StatsMatchGames, UNCHANGED <<stats, gameNonce>>, NEW id \in GameIds,
         games[id].status \notin {"finished", "draw"},
         games'[id].status \notin {"finished", "draw"},
         \A i \in GameIds \ {id} : games'[i] = games[i]
  PROVE  StatsMatchGames'
<1>1. GameIds' = GameIds
  BY DEF GameIds
<1>2. /\ WithStatus("finished")' = WithStatus("finished") /\ WithStatus("draw")' = WithStatus("draw")
      /\ \A i \in WithStatus("finished") \cup WithStatus("draw") : i \in GameIds \ {id}
  BY <1>1 DEF WithStatus
<1>3. \A i \in WithStatus("finished") \cup WithStatus("draw") : Playing(i)' = Playing(i)
  BY <1>2 DEF Playing
<1> QED BY <1>2, <1>3, QuietRecords

LEMMA CreatedRecords ==
  ASSUME IInv, StatsMatchGames, NEW u \in Users, NEW n \in Wagers, CreateGame(u, n)
  PROVE  StatsMatchGames'
<1>1. /\ gameNonce \in Nat /\ gameNonce' = gameNonce + 1 /\ UNCHANGED stats
      /\ \A id \in GameIds : id # gameNonce /\ games'[id] = games[id]
      /\ games'[gameNonce].status = "waiting"
      /\ GameIds' = GameIds \cup {gameNonce}
  BY DEF CreateGame, IInv, TypeOK, EngineTypeOK, GameIds
<1>2. /\ WithStatus("finished")' = WithStatus("finished") /\ WithStatus("draw")' = WithStatus("draw")
      /\ WithStatus("finished") \cup WithStatus("draw") \subseteq GameIds
  BY <1>1 DEF WithStatus
<1>3. \A id \in WithStatus("finished") \cup WithStatus("draw") : Playing(id)' = Playing(id)
  BY <1>1, <1>2 DEF Playing
<1> QED BY <1>1, <1>2, <1>3, QuietRecords

(* The sets that a record counts, for player u. *)
WonGames(u, winner) == {id \in WithStatus("finished") : winner[id] = u}
LostGames(u, winner) == {id \in WithStatus("finished") : u \in Playing(id) \ {winner[id]}}
DrawnGames(u) == {id \in WithStatus("draw") : u \in Playing(id)}

LEMMA RecordSets ==
  ASSUME NEW winner
  PROVE  RecordsFit(winner) <=>
           /\ \A id \in WithStatus("finished") : winner[id] \in Playing(id)
           /\ \A u \in Users :
                /\ stats[u].wins = Cardinality(WonGames(u, winner))
                /\ stats[u].losses = Cardinality(LostGames(u, winner))
                /\ stats[u].draws = Cardinality(DrawnGames(u))
                /\ stats[u].gamesPlayed = stats[u].wins + stats[u].losses + stats[u].draws
BY DEF RecordsFit, WonGames, LostGames, DrawnGames

LEMMA DecidedRecords ==
  ASSUME IInv, StatsMatchGames, NEW id \in GameIds, games[id].status = "active",
         NEW champion \in Playing(id), NEW loser \in Playing(id), champion # loser,
         EndGameWithWinner(id, champion, loser), UNCHANGED gameNonce
  PROVE  StatsMatchGames'
<1>1. PICK winner \in [WithStatus("finished") -> Users] : RecordsFit(winner)
  BY DEF StatsMatchGames
<1>2. TypeOK /\ champion \in Users /\ loser \in Users /\ Playing(id) = {champion, loser}
  BY DEF IInv, TypeOK, EngineTypeOK, Game, Seated, Playing
<1>3. /\ GameIds' = GameIds
      /\ games'[id].status = "finished" /\ Playing(id)' = Playing(id)
      /\ \A i \in GameIds \ {id} : games'[i] = games[i] /\ Playing(i)' = Playing(i)
  <2>1. games' = [games EXCEPT ![id].status = "finished"]
    BY DEF EndGameWithWinner
  <2> QED BY <1>2, <2>1, StatusChange DEF GameIds, Playing, Statuses
<1>4. WithStatus("finished")' = WithStatus("finished") \cup {id} /\ id \notin WithStatus("finished") /\ WithStatus("finished") \subseteq GameIds
  BY <1>3 DEF WithStatus
<1>5. WithStatus("draw")' = WithStatus("draw") /\ id \notin WithStatus("draw")
      /\ WithStatus("draw") \subseteq GameIds
  BY <1>3 DEF WithStatus
<1>6. PICK new \in [WithStatus("finished") \cup {id} -> Users] :
        new[id] = champion /\ \A i \in WithStatus("finished") : new[i] = winner[i]
  <2> DEFINE new == [i \in WithStatus("finished") \cup {id} |-> IF i = id THEN champion ELSE winner[i]]
  <2>1. new \in [WithStatus("finished") \cup {id} -> Users]
    BY <1>2
  <2>2. new[id] = champion /\ \A i \in WithStatus("finished") : new[i] = winner[i]
    BY <1>4
  <2> QED BY <2>1, <2>2
<1>7. \A i \in WithStatus("finished")' : new[i] \in Playing(i)'
  BY <1>1, <1>2, <1>3, <1>4, <1>6 DEF RecordsFit
<1>8. ASSUME NEW u \in Users
      PROVE  /\ stats'[u].wins = Cardinality(WonGames(u, new)')
             /\ stats'[u].losses = Cardinality(LostGames(u, new)')
             /\ stats'[u].draws = Cardinality(DrawnGames(u)')
             /\ stats'[u].gamesPlayed = stats'[u].wins + stats'[u].losses + stats'[u].draws
  <2> DEFINE W == WonGames(u, winner)
             L == LostGames(u, winner)
             D == DrawnGames(u)
  <2>1. /\ stats[u].wins = Cardinality(W) /\ stats[u].losses = Cardinality(L)
        /\ stats[u].draws = Cardinality(D)
        /\ stats[u].gamesPlayed = stats[u].wins + stats[u].losses + stats[u].draws
    BY <1>1, RecordSets
  <2>2. WonGames(u, new)' = IF u = champion THEN W \cup {id} ELSE W
    BY <1>4, <1>6 DEF WonGames
  <2>3. LostGames(u, new)' = IF u = loser THEN L \cup {id} ELSE L
    BY <1>2, <1>3, <1>4, <1>6 DEF LostGames
  <2>4. DrawnGames(u)' = D
    BY <1>3, <1>5 DEF DrawnGames
  <2>5. /\ W \in SUBSET GameIds /\ L \in SUBSET GameIds /\ D \in SUBSET GameIds
        /\ id \in GameIds \ W /\ id \in GameIds \ L
    BY <1>4, <1>5 DEF WonGames, LostGames, DrawnGames
  <2> HIDE DEF W, L, D
  <2>6. /\ Cardinality(W \cup {id}) = Cardinality(W) + 1
        /\ Cardinality(L \cup {id}) = Cardinality(L) + 1
        /\ Cardinality(W) \in Nat /\ Cardinality(L) \in Nat /\ Cardinality(D) \in Nat
    BY <1>2, <2>5, OneMore, CountedSets
  <2>7. stats \in [Users -> Stats]
    BY <1>2 DEF TypeOK, EngineTypeOK
  <2>8. CASE u = champion
    <3>1. PICK r : stats'[u] = Won(stats[u], r)
      BY <1>2, <2>7, <2>8 DEF EndGameWithWinner
    <3> QED BY <2>1, <2>2, <2>3, <2>4, <2>6, <2>8, <3>1 DEF Won, Recorded
  <2>9. CASE u = loser
    <3>1. PICK r : stats'[u] = Lost(stats[u], r)
      BY <1>2, <2>7, <2>9 DEF EndGameWithWinner
    <3> QED BY <2>1, <2>2, <2>3, <2>4, <2>6, <2>9, <3>1 DEF Lost, Recorded
  <2>10. CASE u \notin {champion, loser}
    <3>1. stats'[u] = stats[u]
      BY <1>2, <2>7, <2>10 DEF EndGameWithWinner
    <3> QED BY <2>1, <2>2, <2>3, <2>4, <2>10, <3>1
  <2> QED BY <2>8, <2>9, <2>10
<1>9. RecordsFit(new)'
  BY <1>7, <1>8 DEF RecordsFit, WonGames, LostGames, DrawnGames
<1> QED BY <1>4, <1>6, <1>9 DEF StatsMatchGames

LEMMA DrawnRecords ==
  ASSUME IInv, StatsMatchGames, NEW id \in GameIds, games[id].status = "active",
         EndGameDraw(id), UNCHANGED gameNonce
  PROVE  StatsMatchGames'
<1> DEFINE a == games[id].white
           b == games[id].black
<1>1. PICK winner \in [WithStatus("finished") -> Users] : RecordsFit(winner)
  BY DEF StatsMatchGames
<1>2. TypeOK /\ a \in Users /\ b \in Users /\ a # b /\ Playing(id) = {a, b}
  BY DEF IInv, TypeOK, EngineTypeOK, Game, Seated, Playing
<1>3. /\ GameIds' = GameIds
      /\ games'[id].status = "draw" /\ Playing(id)' = Playing(id)
      /\ \A i \in GameIds \ {id} : games'[i] = games[i] /\ Playing(i)' = Playing(i)
  <2>1. games' = [games EXCEPT ![id].status = "draw"]
    BY DEF EndGameDraw
  <2> QED BY <1>2, <2>1, StatusChange DEF GameIds, Playing, Statuses
<1>4. WithStatus("finished")' = WithStatus("finished") /\ id \notin WithStatus("finished") /\ WithStatus("finished") \subseteq GameIds
  BY <1>3 DEF WithStatus
<1>5. WithStatus("draw")' = WithStatus("draw") \cup {id} /\ id \notin WithStatus("draw")
      /\ WithStatus("draw") \subseteq GameIds
  BY <1>3 DEF WithStatus
<1>6. \A i \in WithStatus("finished") : winner[i] \in Playing(i)'
  BY <1>1, <1>3, <1>4 DEF RecordsFit
<1>7. PICK ra, rb : stats' = [stats EXCEPT ![a] = Drew(stats[a], ra), ![b] = Drew(stats[b], rb)]
  BY DEF EndGameDraw
<1> HIDE DEF a, b
<1>8. ASSUME NEW u \in Users
      PROVE  /\ stats'[u].wins = Cardinality(WonGames(u, winner)')
             /\ stats'[u].losses = Cardinality(LostGames(u, winner)')
             /\ stats'[u].draws = Cardinality(DrawnGames(u)')
             /\ stats'[u].gamesPlayed = stats'[u].wins + stats'[u].losses + stats'[u].draws
  <2> DEFINE W == WonGames(u, winner)
             L == LostGames(u, winner)
             D == DrawnGames(u)
  <2>1. /\ stats[u].wins = Cardinality(W) /\ stats[u].losses = Cardinality(L)
        /\ stats[u].draws = Cardinality(D)
        /\ stats[u].gamesPlayed = stats[u].wins + stats[u].losses + stats[u].draws
    BY <1>1, RecordSets
  <2>2. WonGames(u, winner)' = W
    BY <1>4 DEF WonGames
  <2>3. LostGames(u, winner)' = L
    BY <1>3, <1>4 DEF LostGames
  <2>4. DrawnGames(u)' = IF u \in {a, b} THEN D \cup {id} ELSE D
    BY <1>2, <1>3, <1>5 DEF DrawnGames
  <2>5. /\ W \in SUBSET GameIds /\ L \in SUBSET GameIds /\ D \in SUBSET GameIds
        /\ id \in GameIds \ D
    BY <1>4, <1>5 DEF WonGames, LostGames, DrawnGames
  <2> HIDE DEF W, L, D
  <2>6. /\ Cardinality(D \cup {id}) = Cardinality(D) + 1
        /\ Cardinality(W) \in Nat /\ Cardinality(L) \in Nat /\ Cardinality(D) \in Nat
    BY <1>2, <2>5, OneMore, CountedSets
  <2>7. stats \in [Users -> Stats]
    BY <1>2 DEF TypeOK, EngineTypeOK
  <2>8. CASE u \in {a, b}
    <3>1. PICK r : stats'[u] = Drew(stats[u], r)
      BY <1>2, <1>7, <2>7, <2>8
    <3> QED BY <2>1, <2>2, <2>3, <2>4, <2>6, <2>8, <3>1 DEF Drew, Recorded
  <2>9. CASE u \notin {a, b}
    <3>1. stats'[u] = stats[u]
      BY <1>7, <2>7, <2>9
    <3> QED BY <2>1, <2>2, <2>3, <2>4, <2>9, <3>1
  <2> QED BY <2>8, <2>9
<1>9. RecordsFit(winner)'
  BY <1>4, <1>6, <1>8 DEF RecordsFit, WonGames, LostGames, DrawnGames
<1> QED BY <1>1, <1>4, <1>9 DEF StatsMatchGames

LEMMA StepRecords ==
  ASSUME IInv, StatsMatchGames, [Next]_vars
  PROVE  StatsMatchGames'
<1>1. ASSUME UNCHANGED <<games, gameNonce, stats>>
      PROVE  StatsMatchGames'
  BY <1>1, QuietRecords DEF WithStatus, GameIds, Playing
<1>2. ASSUME NEW u \in Users, NEW id \in GameIds, GameOp(u, id)
      PROVE  StatsMatchGames'
  <2>1. CASE JoinGame(u, id) \/ ProposeDraw(u, id) \/ CancelGame(u, id) \/ ReclaimExpired(u, id)
    <3>1. /\ UNCHANGED <<stats, gameNonce>>
          /\ games[id].status \in {"waiting", "active"}
      BY <2>1 DEF JoinGame, ProposeDraw, CancelGame, ReclaimExpired, ActivePlayer
    <3>2. games \in [GameIds -> Game]
      BY DEF IInv, TypeOK, EngineTypeOK
    <3>3. /\ games'[id].status \in {"active", "cancelled"}
          /\ \A i \in GameIds \ {id} : games'[i] = games[i]
      BY <2>1, <3>1, <3>2 DEF JoinGame, ProposeDraw, CancelGame, ReclaimExpired, ActivePlayer, Game
    <3> QED BY <3>1, <3>3, UndecidedStep
  <2>2. CASE Resign(u, id)
    <3>1. ActivePlayer(u, id) /\ UNCHANGED gameNonce  BY <2>2 DEF Resign
    <3>2. Opponent(u, id) \in Playing(id) /\ Opponent(u, id) # u /\ u \in Playing(id)
      BY <3>1, OpponentSeated DEF IInv, Opponent, ActivePlayer, Playing
    <3> QED BY <2>2, <3>1, <3>2, DecidedRecords DEF Resign, ActivePlayer
  <2>3. CASE AcceptDraw(u, id)
    BY <2>3, DrawnRecords DEF AcceptDraw, ActivePlayer
  <2>4. ASSUME NEW result \in Results, SettleGame(u, id, result)
        PROVE  StatsMatchGames'
    <3>1. games[id].status = "active" /\ UNCHANGED gameNonce  BY <2>4 DEF SettleGame
    <3>2. /\ games[id].white \in Playing(id) /\ games[id].black \in Playing(id)
          /\ games[id].white # games[id].black
      BY <3>1 DEF IInv, Seated, Playing
    <3>3. CASE EndGameWithWinner(id, games[id].white, games[id].black)
      BY <3>1, <3>2, <3>3, DecidedRecords
    <3>4. CASE EndGameWithWinner(id, games[id].black, games[id].white)
      BY <3>1, <3>2, <3>4, DecidedRecords
    <3>5. CASE EndGameDraw(id)
      BY <3>1, <3>5, DrawnRecords
    <3> QED BY <2>4, <3>3, <3>4, <3>5 DEF SettleGame
  <2> QED BY <1>2, <2>1, <2>2, <2>3, <2>4 DEF GameOp
<1>3. ASSUME NEW u \in Users, NEW n \in Wagers, CreateGame(u, n)
      PROVE  StatsMatchGames'
  BY <1>3, CreatedRecords
<1>4. ASSUME NEW u \in Users, NEW new \in Oracles, SetOracle(u, new)
      PROVE  StatsMatchGames'
  BY <1>1, <1>4 DEF SetOracle
<1>5. CASE TokenOp /\ UNCHANGED engineVars  BY <1>1, <1>5 DEF engineVars
<1>6. CASE Block                            BY <1>1, <1>6 DEF Block
<1>7. CASE UNCHANGED vars                   BY <1>1, <1>7 DEF vars, engineVars
<1> QED BY <1>2, <1>3, <1>4, <1>5, <1>6, <1>7 DEF Next

LEMMA StartRecords == Init => StatsMatchGames
<1> SUFFICES ASSUME Init PROVE StatsMatchGames
  OBVIOUS
<1>1. GameIds = {}
  BY DEF Init, GameIds
<1>2. WithStatus("finished") = {} /\ WithStatus("draw") = {}
  BY <1>1 DEF WithStatus
<1> DEFINE winner == [id \in {} |-> NoPlayer]
<1>3. winner \in [WithStatus("finished") -> Users]
  BY <1>2
<1>4. \A u \in Users : stats[u] = NewPlayer
  BY DEF Init
<1>5. RecordsFit(winner)
  <2>1. \A S : S = {} => Cardinality(S) = 0
    BY FS_EmptySet
  <2>2. \A u \in Users :
          /\ {id \in WithStatus("finished") : winner[id] = u} = {}
          /\ {id \in WithStatus("finished") : u \in Playing(id) \ {winner[id]}} = {}
          /\ {id \in WithStatus("draw") : u \in Playing(id)} = {}
    BY <1>2
  <2> HIDE DEF winner
  <2> QED BY <1>2, <1>4, <2>1, <2>2 DEF RecordsFit, NewPlayer
<1> QED BY <1>3, <1>5 DEF StatsMatchGames

(* Every decided game gave one of its players a win and the other a loss,  *)
(* every drawn game both a draw, and games-played counts nothing else,     *)
(* whatever the order of creations, joins and endings.                     *)
THEOREM RecordsMatchGames == Spec => []StatsMatchGames
<1>1. IInv /\ StatsMatchGames /\ [Next]_vars => StatsMatchGames'
  BY StepRecords
<1> QED BY <1>1, StartRecords, EngineInvariant, PTL DEF Spec
=============================================================================
