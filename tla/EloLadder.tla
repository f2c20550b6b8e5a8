----------------------------- MODULE EloLadder -----------------------------
(***************************************************************************)
(* Players who keep playing rated games under the contracts' update-elo    *)
(* and update-elo-draw: which ratings they can reach, and what a result    *)
(* does to the order of the ladder.                                        *)
(***************************************************************************)
EXTENDS Elo

CONSTANTS
  Players,       \* the players of the ladder
  StartRatings,  \* ratings they may arrive with
  MaxRated       \* bound on the games each behaviour rates

ASSUME LadderAssumption ==
  /\ StartRatings \subseteq Rating
  /\ MaxRated \in Nat

VARIABLES
  rating,  \* every player's rating
  rated    \* games rated so far

ladderVars == <<rating, rated>>

LadderTypeOK ==
  /\ rating \in [Players -> Nat]
  /\ rated \in 0..MaxRated

LadderInit ==
  /\ rating \in [Players -> StartRatings]
  /\ rated = 0

Decide(w, l) ==
  /\ rated < MaxRated
  /\ w # l
  /\ rating' = [rating EXCEPT ![w] = WinnerRating(@, rating[l]),
                              ![l] = LoserRating(rating[w], @)]
  /\ rated' = rated + 1

Agree(a, b) ==
  /\ rated < MaxRated
  /\ a # b
  /\ rating' = [rating EXCEPT ![a] = DrawRating(@, rating[b]),
                              ![b] = DrawRating(@, rating[a])]
  /\ rated' = rated + 1

LadderNext == \E a, b \in Players : Decide(a, b) \/ Agree(a, b)

LadderSpec == LadderInit /\ [][LadderNext]_ladderVars

-----------------------------------------------------------------------------
(* No sequence of results takes a player below MIN-RATING: the floor in    *)
(* update-elo and update-elo-draw holds however ratings were reached.      *)
RatingFloor == \A p \in Players : rating[p] \in Rating

(* "Underdog wins = bigger gain. Favorite wins = smaller gain": whatever   *)
(* ratings two players have reached, an upset is worth at least half of K, *)
(* the expected result at most half of K, and every win at least a point.  *)
UpsetsPayMore ==
  \A a, b \in Players : rating[a] <= rating[b] =>
    /\ 2 * WinnerGain(rating[a], rating[b]) >= KFactor
    /\ 2 * WinnerGain(rating[b], rating[a]) <= KFactor
    /\ WinnerGain(rating[b], rating[a]) >= 1

(* A drawn game brings two ratings closer without swapping their order,    *)
(* and moves points between the two without creating or losing any.        *)
DrawIsFair ==
  [][\A a, b \in Players : Agree(a, b) =>
       /\ rating'[a] + rating'[b] = rating[a] + rating[b]
       /\ rating[a] >= rating[b] => /\ rating'[a] >= rating'[b]
                                    /\ rating'[a] <= rating[a]]_ladderVars

(* A decided game never lets the loser gain or the winner stand still, and *)
(* moves neither by more than K.                                           *)
DecisionIsBounded ==
  [][\A w, l \in Players : Decide(w, l) =>
       /\ rating'[w] - rating[w] \in 1..KFactor
       /\ rating[l] - rating'[l] \in 0..KFactor]_ladderVars
=============================================================================
