----------------------------- MODULE EloProofs -----------------------------
(***************************************************************************)
(* What update-elo and update-elo-draw compute, for every pair of ratings. *)
(***************************************************************************)
EXTENDS Elo, TLAPS

LEMMA GapRange ==
  ASSUME NEW a \in Nat, NEW b \in Nat
  PROVE  Gap(a, b) \in 0..400 /\ Gap(a, b) = Gap(b, a)
BY DEF Gap, EloDiffCap

(* Division truncates, which is all that is used of it below. *)
LEMMA ShareRange ==
  ASSUME NEW n \in 0..800
  PROVE  /\ Share(n) \in 0..32
         /\ n <= 400 => Share(n) <= 16
         /\ n >= 400 => Share(n) >= 16
         /\ Share(n) + Share(n) <= n
BY DEF Share, KFactor

(* The winner gains between one point and K, at least half of K when it    *)
(* was not the favourite and at most half when it was.                     *)
THEOREM WinnerGainRange ==
  ASSUME NEW w \in Nat, NEW l \in Nat
  PROVE  /\ WinnerGain(w, l) \in 1..KFactor
         /\ w <= l => 2 * WinnerGain(w, l) >= KFactor
         /\ w >= l => 2 * WinnerGain(w, l) <= KFactor
<1>1. Gap(w, l) \in 0..400  BY GapRange
<1>2. w = l => Gap(w, l) = 0  BY DEF Gap, EloDiffCap
<1> DEFINE n == IF w >= l THEN 400 - Gap(w, l) ELSE 400 + Gap(w, l)
<1>3. n \in 0..800 /\ (w >= l => n <= 400) /\ (w <= l => n >= 400)
  BY <1>1, <1>2
<1> HIDE DEF n
<1>4. /\ Share(n) \in 0..32
      /\ n <= 400 => Share(n) <= 16
      /\ n >= 400 => Share(n) >= 16
  BY <1>3, ShareRange
<1>5. WinnerGain(w, l) = AtLeastOne(Share(n))  BY DEF WinnerGain, n, EloDiffCap
<1> QED  BY <1>3, <1>4, <1>5 DEF AtLeastOne, KFactor

LEMMA LoserLossRange ==
  ASSUME NEW w \in Nat, NEW l \in Nat
  PROVE  LoserLoss(w, l) \in 1..KFactor
<1>1. Gap(w, l) \in 0..400  BY GapRange
<1> DEFINE n == IF w >= l THEN 400 + Gap(w, l) ELSE 400 - Gap(w, l)
<1>2. n \in 0..800  BY <1>1
<1> HIDE DEF n
<1>3. Share(n) \in 0..32  BY <1>2, ShareRange
<1>4. LoserLoss(w, l) = AtLeastOne(Share(n))  BY DEF LoserLoss, n, EloDiffCap
<1> QED  BY <1>3, <1>4 DEF AtLeastOne, KFactor

LEMMA DrawShiftRange ==
  ASSUME NEW a \in Nat, NEW b \in Nat
  PROVE  /\ DrawShift(a, b) \in 0..16
         /\ DrawShift(a, b) = DrawShift(b, a)
         /\ a >= b => 2 * DrawShift(a, b) <= a - b
<1>1. Gap(a, b) \in 0..400 /\ Gap(a, b) = Gap(b, a)  BY GapRange
<1>2. a >= b => Gap(a, b) <= a - b  BY DEF Gap, EloDiffCap
<1> DEFINE n == Gap(a, b)
<1>3. n \in 0..800 /\ n <= 400  BY <1>1
<1> HIDE DEF n
<1>4. Share(n) \in 0..32 /\ Share(n) <= 16 /\ Share(n) + Share(n) <= n
  BY <1>3, ShareRange
<1>5. DrawShift(a, b) = Share(n) /\ DrawShift(b, a) = Share(n)
  BY <1>1 DEF DrawShift, n
<1> QED  BY <1>2, <1>3, <1>4, <1>5 DEF n

(* A decided game leaves the loser on or above the floor, no higher than   *)
(* before, and no more than K lower.                                       *)
THEOREM LoserRatingRange ==
  ASSUME NEW w \in Nat, NEW l \in Rating
  PROVE  /\ LoserRating(w, l) \in Rating
         /\ LoserRating(w, l) <= l
         /\ l - LoserRating(w, l) <= KFactor
<1>1. LoserLoss(w, l) \in 1..KFactor  BY LoserLossRange DEF Rating
<1> QED  BY <1>1 DEF LoserRating, Lowered, Rating, MinRating, KFactor

(* A draw conserves the two players' points, keeps their order and keeps   *)
(* both on or above the floor.                                             *)
THEOREM DrawConserves ==
  ASSUME NEW a \in Rating, NEW b \in Rating
  PROVE  /\ DrawRating(a, b) \in Rating
         /\ DrawRating(a, b) + DrawRating(b, a) = a + b
         /\ a >= b => DrawRating(a, b) >= DrawRating(b, a) /\ DrawRating(a, b) <= a
<1>1. a \in Nat /\ b \in Nat /\ a >= 100 /\ b >= 100  BY DEF Rating, MinRating
<1>2. /\ DrawShift(a, b) \in 0..16
      /\ DrawShift(a, b) = DrawShift(b, a)
      /\ a >= b => 2 * DrawShift(a, b) <= a - b
      /\ b >= a => 2 * DrawShift(b, a) <= b - a
  BY <1>1, DrawShiftRange
<1>3. CASE a >= b
  BY <1>1, <1>2, <1>3 DEF DrawRating, Lowered, Rating, MinRating
<1>4. CASE b > a
  BY <1>1, <1>2, <1>4 DEF DrawRating, Lowered, Rating, MinRating
<1> QED  BY <1>1, <1>3, <1>4

LEMMA DrawRatingType ==
  ASSUME NEW a \in Nat, NEW b \in Nat
  PROVE  DrawRating(a, b) \in Nat
<1>1. DrawShift(a, b) \in 0..16  BY DrawShiftRange
<1> QED  BY <1>1 DEF DrawRating, Lowered, MinRating

(* Both ratings after a decided game are natural numbers again.            *)
LEMMA DecidedRatingsNat ==
  ASSUME NEW w \in Nat, NEW l \in Nat
  PROVE  WinnerRating(w, l) \in Nat /\ LoserRating(w, l) \in Nat
<1>1. WinnerGain(w, l) \in 1..KFactor  BY WinnerGainRange
<1>2. WinnerRating(w, l) \in Nat  BY <1>1 DEF WinnerRating, KFactor
<1>3. LoserLoss(w, l) \in 1..KFactor  BY LoserLossRange
<1>4. LoserRating(w, l) \in Nat
  BY <1>3 DEF LoserRating, Lowered, KFactor, MinRating
<1> QED  BY <1>2, <1>4
=============================================================================
