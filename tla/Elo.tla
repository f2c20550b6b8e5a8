-------------------------------- MODULE Elo --------------------------------
(***************************************************************************)
(* The integer Elo arithmetic every chess contract of the repository       *)
(* carries a copy of (Clarity, Solidity and Rust).  Division truncates.    *)
(*                                                                         *)
(* Here and in the other modules a definition marked "mutant" is a copy of *)
(* the one after it with one slip: it is used nowhere, and stands in for   *)
(* the original only to show that a property would notice the slip.        *)
(***************************************************************************)
EXTENDS Integers

StartingElo == 1200
KFactor     == 32
MinRating   == 100
EloDiffCap  == 400

Rating == {r \in Nat : r >= MinRating}

(* Distance of two ratings, capped. *)
Gap(a, b) ==
  LET d == IF a >= b THEN a - b ELSE b - a
  IN  IF d > EloDiffCap THEN EloDiffCap ELSE d

\* mutant
ShareOf400(n) == (KFactor * n) \div 400

Share(n) == (KFactor * n) \div 800

AtLeastOne(n) == IF n = 0 THEN 1 ELSE n

\* mutant
LoweredNoFloor(r, change) == r - change

(* What a rating r becomes when it loses change points. *)
Lowered(r, change) == IF r > change + MinRating THEN r - change ELSE MinRating

\* mutant
FavouriteGain(w, l) ==
  AtLeastOne(Share(IF w >= l THEN EloDiffCap + Gap(w, l) ELSE EloDiffCap - Gap(w, l)))

(* What the winner's rating w gains and the loser's rating l loses: the    *)
(* favourite gains little when it wins and the underdog loses much.        *)
WinnerGain(w, l) ==
  AtLeastOne(Share(IF w >= l THEN EloDiffCap - Gap(w, l) ELSE EloDiffCap + Gap(w, l)))

LoserLoss(w, l) ==
  AtLeastOne(Share(IF w >= l THEN EloDiffCap + Gap(w, l) ELSE EloDiffCap - Gap(w, l)))

WinnerRating(w, l) == w + WinnerGain(w, l)
LoserRating(w, l) == Lowered(l, LoserLoss(w, l))

(* A draw moves points from the higher rated player to the lower rated.    *)
DrawShift(a, b) == Share(Gap(a, b))

\* mutant
DrawRatingSwapped(own, other) ==
  IF own <= other THEN Lowered(own, DrawShift(own, other))
                  ELSE own + DrawShift(own, other)

DrawRating(own, other) ==
  IF own >= other THEN Lowered(own, DrawShift(own, other))
                  ELSE own + DrawShift(own, other)
=============================================================================
