---------------------------- MODULE RelayProofs -----------------------------
(***************************************************************************)
(* The relay keeps its histories legal, in turn and correctly signed, and  *)
(* the oracle pays whoever earned it, for any rules of play, players,      *)
(* handlers, settlements and games.  That moves come in turn, and that a   *)
(* repair takes nothing away that stood before it began, holds however     *)
(* many repairs run; the rest as long as no two repairs of one list        *)
(* overlap.  The lock of a settlement excludes others until it expires     *)
(* under its holder.                                                       *)
(***************************************************************************)
EXTENDS Settlement, SequenceTheorems, WellFoundedInduction, TLAPS

(* What a handler that has read h knows of its move. *)
PostFits(post, h, fast) ==
  post.stage \in {"read", "bound"} =>
    /\ Legal(h)
    /\ post.base <= Len(h)
    /\ post.base = Len(h) =>
         /\ Append(Line(h), post.san) \in Lines
         /\ post.over # <<>> => post.over = Append(Line(h), post.san)
         /\ fast /\ post.stage = "bound" => post.player = SideToMove(Len(h))

PostsFit ==
  \A p \in Posters : posts[p] # Idle =>
    PostFits(posts[p], history[posts[p].game], isFastFinality(posts[p].game))

(* A pending repair trims a list that is still as corrupt as it was read. *)
RepairFits(repair, h) == ~Legal(h) /\ repair.keep = longestLegalPrefix(h)

RepairsFit ==
  \A r \in Repairers : repairs[r] # Idle => RepairFits(repairs[r], history[repairs[r].game])

IInv == RelayTypeOK /\ PostsFit /\ RepairsFit /\ SignaturesHold /\ TurnsAlternate

-----------------------------------------------------------------------------
(* Lines, prefixes and the longest legal prefix *)

LEMMA LineFacts ==
  ASSUME NEW h \in Seq(MoveRecord)
  PROVE  /\ Line(h) \in Seq(Sans)
         /\ Len(Line(h)) = Len(h)
         /\ \A i \in 1..Len(h) : Line(h)[i] = h[i].san
<1>1. DOMAIN h = 1..Len(h) /\ Len(h) \in Nat /\ \A i \in 1..Len(h) : h[i] \in MoveRecord
  BY ElementOfSeq, LenProperties
<1>2. Line(h) = [i \in 1..Len(h) |-> h[i].san]
  BY <1>1 DEF Line
<1>3. \A i \in 1..Len(h) : h[i].san \in Sans
  BY <1>1 DEF MoveRecord
<1>4. Line(h) \in Seq(Sans) /\ Len(Line(h)) = Len(h)
  BY <1>1, <1>2, <1>3, IsASeq
<1> QED BY <1>2, <1>4

LEMMA LineOfAppend ==
  ASSUME NEW h \in Seq(MoveRecord), NEW move \in MoveRecord
  PROVE  Line(Append(h, move)) = Append(Line(h), move.san)
<1> DEFINE longer == Append(h, move)
<1>1. /\ longer \in Seq(MoveRecord)
      /\ Len(longer) = Len(h) + 1
      /\ \A i \in 1..Len(h) : longer[i] = h[i]
      /\ longer[Len(h) + 1] = move
  BY AppendProperties
<1>2. /\ Line(longer) \in Seq(Sans) /\ Len(Line(longer)) = Len(h) + 1
      /\ \A i \in 1..Len(h) + 1 : Line(longer)[i] = longer[i].san
  BY <1>1, LineFacts
<1>3. move.san \in Sans
  BY DEF MoveRecord
<1>4. /\ Append(Line(h), move.san) \in Seq(Sans)
      /\ Len(Append(Line(h), move.san)) = Len(h) + 1
      /\ \A i \in 1..Len(h) : Append(Line(h), move.san)[i] = h[i].san
      /\ Append(Line(h), move.san)[Len(h) + 1] = move.san
  BY <1>3, LineFacts, AppendProperties
<1>5. \A i \in 1..Len(h) + 1 : Line(longer)[i] = Append(Line(h), move.san)[i]
  <2> TAKE i \in 1..Len(h) + 1
  <2>1. i \in 1..Len(h) \/ i = Len(h) + 1
    BY LenProperties
  <2> QED BY <1>1, <1>2, <1>4, <2>1
<1> QED BY <1>2, <1>4, <1>5, SeqEqual

LEMMA FrontOfAppend ==
  ASSUME NEW S, NEW s \in Seq(S), NEW e \in S
  PROVE  Front(Append(s, e)) = s
<1> DEFINE t == Append(s, e)
<1>1. /\ t \in Seq(S) /\ t # <<>> /\ Len(t) = Len(s) + 1
      /\ \A i \in 1..Len(s) : t[i] = s[i]
  BY AppendProperties
<1>2. Len(s) \in Nat
  BY LenProperties
<1>3. /\ SubSeq(t, 1, Len(s)) \in Seq(S)
      /\ Len(SubSeq(t, 1, Len(s))) = Len(s)
      /\ \A i \in 1..Len(s) : SubSeq(t, 1, Len(s))[i] = t[i]
  <2>1. \A i \in 1..Len(s) : t[i] \in S
    BY <1>1, ElementOfSeq
  <2> HIDE DEF t
  <2> QED BY <1>2, <2>1, SubSeqProperties
<1>4. SubSeq(t, 1, Len(s)) = s
  BY <1>1, <1>3, SeqEqual
<1>5. Len(t) - 1 = Len(s)
  BY <1>1, <1>2
<1> QED BY <1>4, <1>5 DEF Front

LEMMA PrefixFacts ==
  ASSUME NEW h \in Seq(MoveRecord), NEW n \in 0..Len(h)
  PROVE  /\ SubSeq(h, 1, n) \in Seq(MoveRecord)
         /\ Len(SubSeq(h, 1, n)) = n
         /\ DOMAIN SubSeq(h, 1, n) = 1..n
         /\ \A i \in 1..n : SubSeq(h, 1, n)[i] = h[i]
<1>1. Len(h) \in Nat /\ n \in Nat /\ \A i \in 1..n : h[i] \in MoveRecord
  BY ElementOfSeq, LenProperties
<1>2. /\ SubSeq(h, 1, n) \in Seq(MoveRecord)
      /\ Len(SubSeq(h, 1, n)) = n
      /\ \A i \in 1..n : SubSeq(h, 1, n)[i] = h[i]
  BY <1>1, SubSeqProperties
<1> QED BY <1>2, LenProperties

(* There is a longest legal prefix, since the empty one is legal. *)
LEMMA LongestLegal ==
  ASSUME NEW h \in Seq(MoveRecord)
  PROVE  /\ longestLegalPrefix(h) \in LegalPrefixes(h)
         /\ \A k \in LegalPrefixes(h) : k <= longestLegalPrefix(h)
<1> DEFINE Rest == {Len(h) - k : k \in LegalPrefixes(h)}
<1>1. Len(h) \in Nat /\ LegalPrefixes(h) \subseteq 0..Len(h)
  BY LenProperties DEF LegalPrefixes
<1>2. Rest \subseteq Nat
  BY <1>1
<1>3. 0 \in LegalPrefixes(h)
  <2>1. SubSeq(h, 1, 0) = <<>>
    BY SubSeqEmpty
  <2>2. Line(<<>>) = <<>>
    BY DEF Line
  <2>3. Legal(SubSeq(h, 1, 0))
    BY <2>1, <2>2, RelayAssumption DEF Legal
  <2>4. 0 \in 0..Len(h)
    BY <1>1
  <2> QED BY <2>3, <2>4 DEF LegalPrefixes
<1>4. Rest # {}
  BY <1>3
<1>5. PICK x \in Rest : \A y \in Rest : ~(y < x)
  <2> DEFINE Less == OpToRel(<, Nat)
  <2>1. IsWellFoundedOn(Less, Nat)
    BY NatLessThanWellFounded
  <2>2. \A y, z \in Nat : y < z => <<y, z>> \in Less
    BY DEF OpToRel
  <2> HIDE DEF Less, Rest
  <2>3. \E z \in Rest : \A y \in Rest : ~(<<y, z>> \in Less)
    BY <1>2, <1>4, <2>1, WFMin
  <2> QED BY <1>2, <2>2, <2>3
<1>6. PICK m \in LegalPrefixes(h) : x = Len(h) - m
  OBVIOUS
<1>7. \A k \in LegalPrefixes(h) : m >= k
  <2> TAKE k \in LegalPrefixes(h)
  <2>1. ~(Len(h) - k < x)
    BY <1>5
  <2> QED BY <1>1, <1>6, <2>1
<1> HIDE DEF Rest
<1> QED BY <1>1, <1>7 DEF longestLegalPrefix, Max

LEMMA LegalIsLongest ==
  ASSUME NEW h \in Seq(MoveRecord), Legal(h)
  PROVE  longestLegalPrefix(h) = Len(h) /\ LegalPart(h) = h
<1>1. SubSeq(h, 1, Len(h)) = h
  BY SubSeqFull
<1>2. Len(h) \in LegalPrefixes(h) /\ LegalPrefixes(h) \subseteq 0..Len(h)
  <2>1. Legal(SubSeq(h, 1, Len(h)))
    BY <1>1
  <2>2. Len(h) \in 0..Len(h)
    BY LenProperties
  <2> QED BY <2>1, <2>2 DEF LegalPrefixes
<1>3. longestLegalPrefix(h) = Len(h)
  BY <1>2, LongestLegal, LenProperties
<1> QED BY <1>1, <1>3 DEF LegalPart

LEMMA LegalPartFacts ==
  ASSUME NEW h \in Seq(MoveRecord)
  PROVE  /\ longestLegalPrefix(h) \in 0..Len(h)
         /\ LegalPart(h) \in Seq(MoveRecord)
         /\ Legal(LegalPart(h))
         /\ LegalPart(LegalPart(h)) = LegalPart(h)
         /\ DOMAIN LegalPart(h) = 1..longestLegalPrefix(h)
         /\ Len(LegalPart(h)) = longestLegalPrefix(h)
         /\ \A i \in DOMAIN LegalPart(h) : LegalPart(h)[i] = h[i]
<1>1. longestLegalPrefix(h) \in 0..Len(h) /\ Legal(LegalPart(h))
  BY LongestLegal DEF LegalPrefixes, LegalPart
<1>2. /\ LegalPart(h) \in Seq(MoveRecord)
      /\ DOMAIN LegalPart(h) = 1..longestLegalPrefix(h)
      /\ Len(LegalPart(h)) = longestLegalPrefix(h)
      /\ \A i \in DOMAIN LegalPart(h) : LegalPart(h)[i] = h[i]
  BY <1>1, PrefixFacts DEF LegalPart
<1> QED BY <1>1, <1>2, LegalIsLongest

-----------------------------------------------------------------------------
(* What one more move, and a trim, do to a history *)

(* The line of a prefix does not see what comes after it. *)
LEMMA PrefixOfAppend ==
  ASSUME NEW h \in Seq(MoveRecord), NEW move \in MoveRecord, NEW n \in 0..Len(h)
  PROVE  SubSeq(Append(h, move), 1, n) = SubSeq(h, 1, n)
<1> DEFINE t == Append(h, move)
<1>1. /\ t \in Seq(MoveRecord) /\ Len(t) = Len(h) + 1
      /\ \A i \in 1..Len(h) : t[i] = h[i]
  BY AppendProperties
<1>2. n \in 0..Len(t) /\ \A i \in 1..n : i \in 1..Len(h)
  BY <1>1, LenProperties
<1> HIDE DEF t
<1>3. /\ SubSeq(t, 1, n) \in Seq(MoveRecord) /\ Len(SubSeq(t, 1, n)) = n
      /\ \A i \in 1..n : SubSeq(t, 1, n)[i] = t[i]
  BY <1>1, <1>2, PrefixFacts
<1>4. /\ SubSeq(h, 1, n) \in Seq(MoveRecord) /\ Len(SubSeq(h, 1, n)) = n
      /\ \A i \in 1..n : SubSeq(h, 1, n)[i] = h[i]
  BY PrefixFacts
<1>5. SubSeq(t, 1, n) = SubSeq(h, 1, n)
  BY <1>1, <1>2, <1>3, <1>4, SeqEqual
<1> QED BY <1>5 DEF t

LEMMA PrefixOfPrefix ==
  ASSUME NEW h \in Seq(MoveRecord), NEW n \in 0..Len(h), NEW k \in 0..n
  PROVE  SubSeq(SubSeq(h, 1, n), 1, k) = SubSeq(h, 1, k)
<1> DEFINE t == SubSeq(h, 1, n)
<1>1. t \in Seq(MoveRecord) /\ Len(t) = n /\ \A i \in 1..n : t[i] = h[i]
  BY PrefixFacts
<1>2. k \in 0..Len(h) /\ k \in 0..Len(t) /\ \A i \in 1..k : i \in 1..n
  BY <1>1, LenProperties
<1> HIDE DEF t
<1>3. /\ SubSeq(t, 1, k) \in Seq(MoveRecord) /\ Len(SubSeq(t, 1, k)) = k
      /\ \A i \in 1..k : SubSeq(t, 1, k)[i] = t[i]
  BY <1>1, <1>2, PrefixFacts
<1>4. /\ SubSeq(h, 1, k) \in Seq(MoveRecord) /\ Len(SubSeq(h, 1, k)) = k
      /\ \A i \in 1..k : SubSeq(h, 1, k)[i] = h[i]
  BY <1>2, PrefixFacts
<1>5. SubSeq(t, 1, k) = SubSeq(h, 1, k)
  BY <1>1, <1>2, <1>3, <1>4, SeqEqual
<1> QED BY <1>5 DEF t

LEMMA AppendKeepsSignatures ==
  ASSUME NEW h \in Seq(MoveRecord), NEW move \in MoveRecord,
         SignedForItsPlace(h), move.over # <<>> => move.over = Append(Line(h), move.san)
  PROVE  SignedForItsPlace(Append(h, move))
<1> DEFINE t == Append(h, move)
<1>1. /\ t \in Seq(MoveRecord) /\ Len(t) = Len(h) + 1 /\ DOMAIN t = 1..Len(h) + 1
      /\ \A i \in 1..Len(h) : t[i] = h[i]
      /\ t[Len(h) + 1] = move
  BY AppendProperties, LenProperties
<1>2. ASSUME NEW i \in DOMAIN t, t[i].over # <<>>
      PROVE  t[i].over = Line(SubSeq(t, 1, i))
  <2>1. CASE i \in 1..Len(h)
    <3>1. SubSeq(t, 1, i) = SubSeq(h, 1, i)
      BY <2>1, PrefixOfAppend, LenProperties
    <3>2. i \in DOMAIN h
      BY <2>1, LenProperties
    <3> QED BY <1>1, <1>2, <2>1, <3>1, <3>2 DEF SignedForItsPlace
  <2>2. CASE i = Len(h) + 1
    <3>1. SubSeq(t, 1, i) = t
      BY <1>1, <2>2, SubSeqFull
    <3>2. Line(t) = Append(Line(h), move.san)
      BY LineOfAppend
    <3> QED BY <1>1, <1>2, <2>2, <3>1, <3>2
  <2> QED BY <1>1, <2>1, <2>2, LenProperties
<1> QED BY <1>2 DEF SignedForItsPlace

LEMMA AppendKeepsTurns ==
  ASSUME NEW h \in Seq(MoveRecord), NEW move \in MoveRecord,
         Legal(h), Legal(Append(h, move)), Alternates(h),
         move.player = SideToMove(Len(h))
  PROVE  Alternates(Append(h, move))
<1> DEFINE t == Append(h, move)
<1>1. /\ t \in Seq(MoveRecord) /\ Len(t) = Len(h) + 1 /\ DOMAIN t = 1..Len(h) + 1
      /\ \A i \in 1..Len(h) : t[i] = h[i]
      /\ t[Len(h) + 1] = move
  BY AppendProperties, LenProperties
<1>2. LegalPart(t) = t /\ LegalPart(h) = h /\ DOMAIN h = 1..Len(h) /\ Len(h) \in Nat
  BY <1>1, LegalIsLongest, LenProperties
<1>3. \A i \in 1..Len(h) : t[i].player = SideToMove(i - 1)
  BY <1>1, <1>2 DEF Alternates
<1>4. t[Len(h) + 1].player = SideToMove((Len(h) + 1) - 1)
  <2>1. (Len(h) + 1) - 1 = Len(h)
    BY <1>2
  <2> QED BY <1>1, <2>1
<1>5. \A i \in 1..Len(h) + 1 : i \in 1..Len(h) \/ i = Len(h) + 1
  BY <1>2
<1>6. \A i \in DOMAIN t : t[i].player = SideToMove(i - 1)
  BY <1>1, <1>3, <1>4, <1>5
<1> QED BY <1>2, <1>6 DEF Alternates

LEMMA TrimKeeps ==
  ASSUME NEW h \in Seq(MoveRecord)
  PROVE  /\ SignedForItsPlace(h) => SignedForItsPlace(LegalPart(h))
         /\ Alternates(h) => Alternates(LegalPart(h))
<1> DEFINE n == longestLegalPrefix(h)
           t == LegalPart(h)
<1>1. /\ n \in 0..Len(h) /\ t = SubSeq(h, 1, n) /\ DOMAIN t = 1..n /\ LegalPart(t) = t
      /\ \A i \in DOMAIN t : t[i] = h[i]
      /\ DOMAIN h = 1..Len(h) /\ Len(h) \in Nat
  BY LegalPartFacts, LenProperties DEF LegalPart
<1>2. ASSUME NEW i \in DOMAIN t
      PROVE  i \in DOMAIN h /\ SubSeq(t, 1, i) = SubSeq(h, 1, i)
  <2>1. i \in 1..Len(h) /\ i \in 0..n
    BY <1>1
  <2> QED BY <1>1, <2>1, PrefixOfPrefix
<1>3. SignedForItsPlace(h) => SignedForItsPlace(t)
  BY <1>1, <1>2 DEF SignedForItsPlace
<1>4. Alternates(h) => Alternates(t)
  BY <1>1 DEF Alternates
<1> QED BY <1>3, <1>4

-----------------------------------------------------------------------------
(* The invariant at the start *)

LEMMA EmptyHistory ==
  /\ <<>> \in Seq(MoveRecord)
  /\ SignedForItsPlace(<<>>)
  /\ Alternates(<<>>)
<1>1. <<>> \in Seq(MoveRecord) /\ Len(<<>>) = 0 /\ DOMAIN <<>> = 1..0
  BY EmptySeq, LenProperties
<1>2. DOMAIN LegalPart(<<>>) = {}
  <2>1. /\ longestLegalPrefix(<<>>) \in 0..Len(<<>>)
        /\ DOMAIN LegalPart(<<>>) = 1..longestLegalPrefix(<<>>)
    BY <1>1, LegalPartFacts
  <2>2. longestLegalPrefix(<<>>) = 0
    BY <1>1, <2>1
  <2>3. 1..0 = {}
    OBVIOUS
  <2> QED BY <2>1, <2>2, <2>3
<1>3. SignedForItsPlace(<<>>)
  BY <1>1 DEF SignedForItsPlace
<1> QED BY <1>1, <1>2, <1>3 DEF Alternates

LEMMA InitIInv == RelayInit => IInv
<1> SUFFICES ASSUME RelayInit PROVE IInv
  OBVIOUS
<1>1. \A g \in Games : /\ history[g] \in Seq(MoveRecord)
                       /\ SignedForItsPlace(history[g])
                       /\ Alternates(history[g])
  BY EmptyHistory, ImportedAssumption DEF RelayInit
<1>2. RelayTypeOK
  BY <1>1 DEF RelayInit, RelayTypeOK
<1>3. PostsFit /\ RepairsFit
  BY DEF RelayInit, PostsFit, RepairsFit
<1> QED BY <1>1, <1>2, <1>3 DEF IInv, SignaturesHold, TurnsAlternate

-----------------------------------------------------------------------------
(* Steps of a move handler *)

LEMMA PostFields ==
  ASSUME NEW post \in Post
  PROVE  /\ post.stage \in {"read", "bound", "stored"}
         /\ post.game \in Games /\ post.base \in Nat /\ post.san \in Sans
         /\ post.player \in Players /\ post.moveNumber \in Numbers /\ post.over \in Lines
         /\ post # Idle
BY DEF Post, Idle

LEMMA ActivePost ==
  ASSUME RelayTypeOK, NEW p \in Posters, posts[p].stage # "idle"
  PROVE  posts[p] \in Post /\ posts[p] # Idle
BY DEF RelayTypeOK, Idle

(* A step of a handler that leaves the histories alone preserves the       *)
(* invariant if what the handler knows afterwards fits.                    *)
LEMMA PostStep ==
  ASSUME IInv, NEW p \in Posters, NEW post \in Post \cup {Idle},
         posts' = [posts EXCEPT ![p] = post],
         registered' \subseteq Games,
         post # Idle => PostFits(post, history[post.game], isFastFinality(post.game)),
         UNCHANGED <<chain, history, onchain, repairs>>
  PROVE  IInv'
<1>1. RelayTypeOK'
  BY DEF IInv, RelayTypeOK
<1>2. PostsFit'
  <2>1. ASSUME NEW q \in Posters, posts'[q] # Idle
        PROVE  PostFits(posts'[q], history[posts'[q].game], isFastFinality(posts'[q].game))
    <3>1. CASE q = p
      <4>1. posts'[q] = post
        BY <3>1 DEF IInv, RelayTypeOK
      <4> QED BY <2>1, <4>1
    <3>2. CASE q # p
      <4>1. posts'[q] = posts[q]
        BY <3>2 DEF IInv, RelayTypeOK
      <4> QED BY <2>1, <4>1 DEF IInv, PostsFit
    <3> QED BY <3>1, <3>2
  <2> QED BY <2>1 DEF PostsFit, PostFits, isFastFinality
<1>3. RepairsFit'
  BY DEF IInv, RepairsFit
<1>4. SignaturesHold' /\ TurnsAlternate'
  BY DEF IInv, SignaturesHold, TurnsAlternate, isFastFinality
<1> QED BY <1>1, <1>2, <1>3, <1>4 DEF IInv

LEMMA ReadHistoryStep ==
  ASSUME IInv, UNCHANGED chain, NEW p \in Posters, NEW g \in Games, NEW san \in Sans,
         NEW player \in Players, NEW number \in Numbers, NEW signed \in BOOLEAN,
         ReadHistory(p, g, san, player, number, signed)
  PROVE  IInv'
<1> DEFINE h == history[g]
           line == Append(Line(h), san)
           post == [stage |-> "read", game |-> g, base |-> Len(h), san |-> san,
                    player |-> player, moveNumber |-> number,
                    over |-> IF signed THEN line ELSE <<>>]
<1>1. h \in Seq(MoveRecord) /\ Line(h) \in Seq(Sans) /\ Len(h) \in Nat
  BY LineFacts, LenProperties DEF IInv, RelayTypeOK
<1>2. line \in Lines /\ line # <<>> /\ Front(line) = Line(h)
  BY <1>1, FrontOfAppend, AppendProperties DEF ReadHistory
<1>3. Legal(h)
  BY <1>2, RelayAssumption DEF Legal
<1>4. post \in Post
  <2>1. (IF signed THEN line ELSE <<>>) \in Lines
    BY <1>2, RelayAssumption
  <2> HIDE DEF line, h
  <2> QED BY <1>1, <2>1 DEF Post
<1>5. PostFits(post, history[post.game], isFastFinality(post.game))
  <2>1. post.game = g /\ post.base = Len(h) /\ post.san = san /\ post.stage = "read"
    OBVIOUS
  <2>2. post.over # <<>> => post.over = line
    OBVIOUS
  <2> HIDE DEF post
  <2> QED BY <1>1, <1>2, <1>3, <2>1, <2>2 DEF PostFits
<1>6. /\ posts' = [posts EXCEPT ![p] = post]
      /\ UNCHANGED <<chain, history, registered, onchain, repairs>>
  BY DEF ReadHistory
<1>7. registered' \subseteq Games
  BY <1>6 DEF IInv, RelayTypeOK
<1> HIDE DEF post
<1> QED BY <1>4, <1>5, <1>6, <1>7, PostStep

LEMMA BindPlayerStep ==
  ASSUME IInv, UNCHANGED chain, NEW p \in Posters, BindPlayer(p)
  PROVE  IInv'
<1> DEFINE old == posts[p]
           post == [old EXCEPT !.stage = "bound"]
           h == history[old.game]
<1>1. old \in Post /\ old # Idle /\ old.stage = "read"
  BY ActivePost DEF IInv, BindPlayer
<1>2. /\ post \in Post /\ post.stage = "bound" /\ post.game = old.game
      /\ post.base = old.base /\ post.san = old.san /\ post.player = old.player
      /\ post.over = old.over
  <2> HIDE DEF old
  <2> QED BY <1>1 DEF Post
<1>3. PostFits(old, h, isFastFinality(old.game))
  BY <1>1 DEF IInv, PostsFit
<1>4. isFastFinality(old.game) => old.player = SideToMove(old.base)
  BY DEF BindPlayer
<1>5. PostFits(post, history[post.game], isFastFinality(post.game))
  <2> HIDE DEF post, old
  <2> QED BY <1>1, <1>2, <1>3, <1>4 DEF PostFits
<1>6. /\ posts' = [posts EXCEPT ![p] = post]
      /\ UNCHANGED <<chain, history, registered, onchain, repairs>>
  BY DEF BindPlayer, IInv, RelayTypeOK
<1>7. registered' \subseteq Games
  BY <1>6 DEF IInv, RelayTypeOK
<1> HIDE DEF post
<1> QED BY <1>2, <1>5, <1>6, <1>7, PostStep

LEMMA IdleStep ==
  ASSUME IInv, UNCHANGED chain, NEW p \in Posters,
         registerActiveGame(p) \/ PostFails(p)
  PROVE  IInv'
<1>1. /\ posts' = [posts EXCEPT ![p] = Idle]
      /\ UNCHANGED <<chain, history, onchain, repairs>>
  BY DEF registerActiveGame, PostFails
<1>2. registered' \subseteq Games
  <2>1. CASE registerActiveGame(p)
    <3>1. posts[p] \in Post
      BY <2>1, ActivePost DEF registerActiveGame, IInv
    <3> QED BY <2>1, <3>1, PostFields DEF registerActiveGame, IInv, RelayTypeOK
  <2>2. CASE PostFails(p)
    BY <2>2 DEF PostFails, IInv, RelayTypeOK
  <2> QED BY <2>1, <2>2
<1> QED BY <1>1, <1>2, PostStep

(* A handler's move lands on a legal history, and the result is legal.     *)
LEMMA AppendStores ==
  ASSUME IInv, NEW p \in Posters, appendMove(p)
  PROVE  \/ posts' = [posts EXCEPT ![p] = Idle] /\ UNCHANGED history
         \/ LET old == posts[p]
                h == history[old.game]
            IN  /\ old.base = Len(h) /\ Legal(h) /\ Legal(Append(h, Recorded(old)))
                /\ Recorded(old) \in MoveRecord
                /\ Recorded(old).over # <<>> =>
                     Recorded(old).over = Append(Line(h), Recorded(old).san)
                /\ isFastFinality(old.game) => Recorded(old).player = SideToMove(Len(h))
                /\ history' = [history EXCEPT ![old.game] = Append(h, Recorded(old))]
                /\ posts' = [posts EXCEPT ![p].stage = "stored"]
<1> DEFINE old == posts[p]
           h == history[old.game]
           move == Recorded(old)
<1>1. old \in Post /\ old # Idle /\ old.stage = "bound"
  BY ActivePost DEF IInv, appendMove
<1>2. h \in Seq(MoveRecord)
  BY <1>1, PostFields DEF IInv, RelayTypeOK
<1>3. PostFits(old, h, isFastFinality(old.game))
  BY <1>1 DEF IInv, PostsFit
<1>4. /\ move \in MoveRecord
      /\ move.san = old.san /\ move.over = old.over /\ move.player = old.player
  <2> HIDE DEF old
  <2> QED BY <1>1, PostFields DEF Recorded, MoveRecord
<1>5. CASE Len(h) = old.base
  <2>1. /\ Legal(h) /\ Append(Line(h), old.san) \in Lines
        /\ old.over # <<>> => old.over = Append(Line(h), old.san)
        /\ isFastFinality(old.game) => old.player = SideToMove(Len(h))
    <3> HIDE DEF h, old
    <3> QED BY <1>1, <1>3, <1>5 DEF PostFits
  <2>2. Legal(Append(h, move))
    <3> HIDE DEF h, old, move
    <3> QED BY <1>2, <1>4, <2>1, LineOfAppend DEF Legal
  <2>3. /\ history' = [history EXCEPT ![old.game] = Append(h, move)]
        /\ posts' = [posts EXCEPT ![p].stage = "stored"]
    BY <1>5 DEF appendMove, IInv, RelayTypeOK
  <2> HIDE DEF h, old, move
  <2>4. /\ Legal(h) /\ Legal(Append(h, move)) /\ move \in MoveRecord
        /\ move.over # <<>> => move.over = Append(Line(h), move.san)
        /\ isFastFinality(old.game) => move.player = SideToMove(Len(h))
    BY <1>4, <2>1, <2>2
  <2> QED BY <1>5, <2>3, <2>4 DEF h, old, move
<1>6. CASE Len(h) # old.base
  BY <1>6 DEF appendMove
<1> QED BY <1>5, <1>6

LEMMA AppendStep ==
  ASSUME IInv, UNCHANGED chain, NEW p \in Posters, appendMove(p)
  PROVE  IInv'
<1> DEFINE old == posts[p]
           g == old.game
           h == history[g]
           move == Recorded(old)
           post == [old EXCEPT !.stage = "stored"]
<1>1. old \in Post /\ g \in Games
  BY ActivePost, PostFields DEF IInv, appendMove
<1>2. UNCHANGED <<chain, registered, onchain, repairs>>
  BY DEF appendMove
<1>3. CASE posts' = [posts EXCEPT ![p] = Idle] /\ UNCHANGED history
  <2>1. registered' \subseteq Games
    BY <1>2 DEF IInv, RelayTypeOK
  <2> QED BY <1>2, <1>3, <2>1, PostStep
<1>4. CASE /\ old.base = Len(h) /\ Legal(h) /\ Legal(Append(h, move))
           /\ move \in MoveRecord
           /\ move.over # <<>> => move.over = Append(Line(h), move.san)
           /\ isFastFinality(g) => move.player = SideToMove(Len(h))
           /\ history' = [history EXCEPT ![g] = Append(h, move)]
           /\ posts' = [posts EXCEPT ![p].stage = "stored"]
  <2>1. post \in Post /\ post.stage = "stored" /\ post.game = g
    <3> HIDE DEF old
    <3> QED BY <1>1 DEF Post
  <2>2. h \in Seq(MoveRecord) /\ Len(h) \in Nat
    BY <1>1, LenProperties DEF IInv, RelayTypeOK
  <2>3. /\ Append(h, move) \in Seq(MoveRecord)
        /\ Len(Append(h, move)) = Len(h) + 1
    <3> HIDE DEF h, move
    <3> QED BY <1>4, <2>2, AppendProperties
  <2>4. /\ history' \in [Games -> Seq(MoveRecord)]
        /\ history'[g] = Append(h, move)
        /\ \A f \in Games : f # g => history'[f] = history[f]
    <3> HIDE DEF h, move, g
    <3> QED BY <1>1, <1>4, <2>3 DEF IInv, RelayTypeOK
  <2>5. /\ posts' \in [Posters -> Post \cup {Idle}]
        /\ posts'[p] = post
        /\ \A q \in Posters : q # p => posts'[q] = posts[q]
    BY <1>4, <2>1 DEF IInv, RelayTypeOK
  <2>6. RelayTypeOK'
    BY <1>2, <2>4, <2>5 DEF IInv, RelayTypeOK
  <2>7. ASSUME NEW q \in Posters, posts'[q] # Idle
        PROVE  PostFits(posts'[q], history'[posts'[q].game], isFastFinality(posts'[q].game))
    <3> HIDE DEF post, old, g, h, move
    <3>1. CASE q = p
      BY <2>1, <2>5, <3>1 DEF PostFits
    <3>2. CASE q # p
      <4>1. posts'[q] = posts[q] /\ posts[q] \in Post /\ posts[q] # Idle
        BY <2>5, <2>7, <3>2 DEF IInv, RelayTypeOK
      <4>2. PostFits(posts[q], history[posts[q].game], isFastFinality(posts[q].game))
        BY <4>1 DEF IInv, PostsFit
      <4>3. posts[q].game \in Games /\ posts[q].base \in Nat
        BY <4>1, PostFields
      <4>4. CASE posts[q].game # g
        BY <2>4, <4>1, <4>2, <4>3, <4>4
      <4>5. CASE posts[q].game = g
        <5>1. posts[q].stage \in {"read", "bound"} => posts[q].base <= Len(h)
          BY <4>2, <4>5 DEF PostFits, h
        <5>2. Legal(history'[g]) /\ Len(history'[g]) = Len(h) + 1
          BY <1>4, <2>3, <2>4
        <5>3. PostFits(posts[q], history'[g], isFastFinality(posts[q].game))
          BY <2>2, <4>3, <5>1, <5>2 DEF PostFits
        <5> QED BY <4>1, <4>5, <5>3
      <4> QED BY <4>4, <4>5
    <3> QED BY <3>1, <3>2
  <2>8. PostsFit'
    BY <1>2, <2>7 DEF PostsFit, PostFits, isFastFinality
  <2>9. RepairsFit'
    <3>1. ASSUME NEW r \in Repairers, repairs[r] # Idle
          PROVE  repairs[r].game \in Games \ {g}
      <4>1. repairs[r].game \in Games
        BY <3>1 DEF IInv, RelayTypeOK, Repair
      <4>2. ~Legal(history[repairs[r].game])
        BY <3>1 DEF IInv, RepairsFit, RepairFits
      <4> QED BY <1>4, <4>1, <4>2
    <3> HIDE DEF g
    <3> QED BY <1>2, <2>4, <3>1 DEF IInv, RepairsFit
  <2>10. \A f \in Games : SignedForItsPlace(history'[f])
    <3>1. SignedForItsPlace(h)
      BY <1>1 DEF IInv, SignaturesHold
    <3> HIDE DEF h, move, g
    <3>2. SignedForItsPlace(Append(h, move))
      BY <1>4, <2>2, <3>1, AppendKeepsSignatures
    <3> QED BY <2>4, <3>2 DEF IInv, SignaturesHold
  <2>11. \A f \in Games : isFastFinality(f) => Alternates(history'[f])
    <3>1. isFastFinality(g) => Alternates(h)
      BY <1>1 DEF IInv, TurnsAlternate
    <3> HIDE DEF h, move, g
    <3>2. isFastFinality(g) => Alternates(Append(h, move))
      BY <1>4, <2>2, <3>1, AppendKeepsTurns
    <3> QED BY <2>4, <3>2 DEF IInv, TurnsAlternate
  <2>12. SignaturesHold' /\ TurnsAlternate'
    BY <1>2, <2>10, <2>11 DEF SignaturesHold, TurnsAlternate, isFastFinality
  <2> QED BY <2>6, <2>8, <2>9, <2>12 DEF IInv
<1> QED BY <1>3, <1>4, AppendStores

-----------------------------------------------------------------------------
(* Steps of the repair endpoint and of the chain *)

(* No two repairs of one list are under way at once.                       *)
RepairsApart ==
  \A r, s \in Repairers :
    r # s /\ repairs[r] # Idle /\ repairs[s] # Idle => repairs[r].game # repairs[s].game

LEMMA RepairReadsStep ==
  ASSUME IInv, UNCHANGED chain, NEW r \in Repairers, NEW g \in Games,
         repairReads(r, g)
  PROVE  IInv'
<1> DEFINE h == history[g]
           repair == [stage |-> "trim", game |-> g, keep |-> longestLegalPrefix(h)]
<1>1. h \in Seq(MoveRecord) /\ Len(h) \in Nat
  BY LenProperties DEF IInv, RelayTypeOK
<1>2. ~Legal(h)
  BY <1>1, LegalIsLongest DEF repairReads
<1>3. repair \in Repair /\ repair.game = g /\ repair.keep = longestLegalPrefix(h)
  <2>1. longestLegalPrefix(h) \in Nat
    BY <1>1, LegalPartFacts
  <2> HIDE DEF h
  <2> QED BY <2>1 DEF Repair
<1>4. /\ repairs' = [repairs EXCEPT ![r] = repair]
      /\ UNCHANGED <<chain, history, registered, onchain, posts>>
  BY DEF repairReads
<1>5. RelayTypeOK'
  <2> HIDE DEF repair
  <2> QED BY <1>3, <1>4 DEF IInv, RelayTypeOK
<1>6. ASSUME NEW s \in Repairers, repairs'[s] # Idle
      PROVE  RepairFits(repairs'[s], history[repairs'[s].game])
  <2> HIDE DEF repair
  <2>1. CASE s = r
    <3>1. repairs'[s] = repair
      BY <1>4, <2>1 DEF IInv, RelayTypeOK
    <3> QED BY <1>2, <1>3, <3>1 DEF RepairFits
  <2>2. CASE s # r
    <3>1. repairs'[s] = repairs[s]
      BY <1>4, <2>2 DEF IInv, RelayTypeOK
    <3> QED BY <1>6, <3>1 DEF IInv, RepairsFit
  <2> QED BY <2>1, <2>2
<1>7. RepairsFit'
  BY <1>4, <1>6 DEF RepairsFit, RepairFits
<1>8. PostsFit' /\ SignaturesHold' /\ TurnsAlternate'
  BY <1>4 DEF IInv, PostsFit, PostFits, SignaturesHold, TurnsAlternate, isFastFinality
<1> QED BY <1>5, <1>7, <1>8 DEF IInv

(* A trim leaves exactly the legal part. *)
LEMMA TrimStores ==
  ASSUME IInv, NEW r \in Repairers, repairTrims(r)
  PROVE  LET g == repairs[r].game
         IN  /\ repairs[r] # Idle /\ g \in Games /\ ~Legal(history[g])
             /\ history' = [history EXCEPT ![g] = LegalPart(history[g])]
<1> DEFINE g == repairs[r].game
           h == history[g]
<1>1. repairs[r] # Idle /\ repairs[r] \in Repair
  BY DEF repairTrims, IInv, RelayTypeOK, Idle
<1>2. g \in Games /\ repairs[r].keep \in Nat
  BY <1>1 DEF Repair
<1>3. ~Legal(h) /\ repairs[r].keep = longestLegalPrefix(h)
  BY <1>1 DEF IInv, RepairsFit, RepairFits
<1>4. h \in Seq(MoveRecord)
  BY <1>2 DEF IInv, RelayTypeOK
<1>5. longestLegalPrefix(h) \in 0..Len(h) /\ Len(h) \in Nat
  BY <1>4, LegalPartFacts, LenProperties
<1>6. (IF Len(h) < repairs[r].keep THEN Len(h) ELSE repairs[r].keep) = longestLegalPrefix(h)
  <2> HIDE DEF h
  <2> QED BY <1>2, <1>3, <1>5
<1>7. history' = [history EXCEPT ![g] = LegalPart(h)]
  BY <1>6 DEF repairTrims, LegalPart, IInv, RelayTypeOK
<1> QED BY <1>1, <1>2, <1>3, <1>7

LEMMA RepairTrimsStep ==
  ASSUME IInv, UNCHANGED chain, RepairsApart, NEW r \in Repairers, repairTrims(r)
  PROVE  IInv'
<1> DEFINE g == repairs[r].game
           h == history[g]
<1>1. /\ g \in Games /\ ~Legal(h)
      /\ history' = [history EXCEPT ![g] = LegalPart(h)]
  BY TrimStores
<1>2. h \in Seq(MoveRecord)
  BY <1>1 DEF IInv, RelayTypeOK
<1>3. LegalPart(h) \in Seq(MoveRecord)
  BY <1>2, LegalPartFacts
<1>4. /\ repairs' = [repairs EXCEPT ![r] = Idle]
      /\ UNCHANGED <<chain, registered, onchain, posts>>
  BY DEF repairTrims
<1> HIDE DEF g
<1>5. /\ history' \in [Games -> Seq(MoveRecord)]
      /\ history'[g] = LegalPart(h)
      /\ \A f \in Games : f # g => history'[f] = history[f]
  <2> HIDE DEF h
  <2> QED BY <1>1, <1>3 DEF IInv, RelayTypeOK
<1>6. RelayTypeOK'
  BY <1>4, <1>5 DEF IInv, RelayTypeOK
<1>7. RepairsFit'
  <2> SUFFICES ASSUME NEW s \in Repairers, repairs'[s] # Idle
               PROVE  RepairFits(repairs'[s], history'[repairs'[s].game])
    BY DEF RepairsFit, RepairFits
  <2>1. s # r /\ repairs'[s] = repairs[s] /\ repairs[s] # Idle
    BY <1>4 DEF IInv, RelayTypeOK
  <2>2. repairs[s].game \in Games
    BY <2>1 DEF IInv, RelayTypeOK, Repair
  <2>3. repairs[r] # Idle
    BY TrimStores
  <2>4. repairs[s].game # g
    BY <2>1, <2>3 DEF RepairsApart, g
  <2>5. history'[repairs[s].game] = history[repairs[s].game]
    BY <1>5, <2>2, <2>4
  <2> HIDE DEF h
  <2> QED BY <2>1, <2>5 DEF IInv, RepairsFit
<1>8. ASSUME NEW q \in Posters, posts[q] # Idle
      PROVE  PostFits(posts[q], history'[posts[q].game], isFastFinality(posts[q].game))
  <2>1. posts[q].game \in Games
    BY <1>8, PostFields DEF IInv, RelayTypeOK
  <2>2. PostFits(posts[q], history[posts[q].game], isFastFinality(posts[q].game))
    BY <1>8 DEF IInv, PostsFit
  <2>3. CASE posts[q].game = g
    BY <1>1, <2>2, <2>3 DEF PostFits
  <2>4. CASE posts[q].game # g
    BY <1>5, <2>1, <2>2, <2>4
  <2> QED BY <2>3, <2>4
<1>9. PostsFit'
  BY <1>4, <1>8 DEF PostsFit, PostFits, isFastFinality
<1>10. \A f \in Games : SignedForItsPlace(history'[f])
  <2>1. SignedForItsPlace(LegalPart(h))
    BY <1>1, <1>2, TrimKeeps DEF IInv, SignaturesHold
  <2> QED BY <1>5, <2>1 DEF IInv, SignaturesHold
<1>11. \A f \in Games : isFastFinality(f) => Alternates(history'[f])
  <2>1. isFastFinality(g) => Alternates(LegalPart(h))
    BY <1>1, <1>2, TrimKeeps DEF IInv, TurnsAlternate
  <2> QED BY <1>5, <2>1 DEF IInv, TurnsAlternate
<1>12. SignaturesHold' /\ TurnsAlternate'
  BY <1>4, <1>10, <1>11 DEF SignaturesHold, TurnsAlternate, isFastFinality
<1> QED BY <1>6, <1>7, <1>9, <1>12 DEF IInv

LEMMA ChainStep ==
  ASSUME IInv, UNCHANGED chain, NEW g \in Games,
         CreateGame(g) \/ JoinGame(g) \/ EndGame(g)
  PROVE  IInv'
<1>1. /\ UNCHANGED <<history, registered, posts, repairs>>
      /\ onchain' \in [Games -> {"absent", "waiting", "active", "closed"}]
  BY DEF CreateGame, JoinGame, EndGame, IInv, RelayTypeOK
<1>2. RelayTypeOK'
  BY <1>1 DEF IInv, RelayTypeOK
<1>3. PostsFit' /\ RepairsFit' /\ SignaturesHold' /\ TurnsAlternate'
  BY <1>1 DEF IInv, PostsFit, PostFits, RepairsFit, SignaturesHold, TurnsAlternate,
              isFastFinality
<1> QED BY <1>2, <1>3 DEF IInv

-----------------------------------------------------------------------------
(* The relay *)

LEMMA StepIInv ==
  ASSUME IInv, RepairsApart, [RelayOp]_relayVars
  PROVE  IInv'
<1>1. CASE UNCHANGED relayVars
  BY <1>1 DEF relayVars, IInv, RelayTypeOK, PostsFit, PostFits, RepairsFit, SignaturesHold,
              TurnsAlternate, isFastFinality
<1>2. CASE RelayOp
  <2>1. UNCHANGED chain
    BY <1>2 DEF RelayOp
  <2>2. ASSUME NEW p \in Posters, NEW g \in Games, NEW san \in Sans, NEW player \in Players,
               NEW number \in Numbers, NEW signed \in BOOLEAN,
               ReadHistory(p, g, san, player, number, signed)
        PROVE  IInv'
    BY <2>1, <2>2, ReadHistoryStep
  <2>3. ASSUME NEW p \in Posters, BindPlayer(p)
        PROVE  IInv'
    BY <2>1, <2>3, BindPlayerStep
  <2>4. ASSUME NEW p \in Posters, appendMove(p)
        PROVE  IInv'
    BY <2>1, <2>4, AppendStep
  <2>5. ASSUME NEW p \in Posters, registerActiveGame(p) \/ PostFails(p)
        PROVE  IInv'
    BY <2>1, <2>5, IdleStep
  <2>6. ASSUME NEW r \in Repairers, repairTrims(r)
        PROVE  IInv'
    BY <2>1, <2>6, RepairTrimsStep
  <2>7. ASSUME NEW r \in Repairers, NEW g \in Games, repairReads(r, g)
        PROVE  IInv'
    BY <2>1, <2>7, RepairReadsStep
  <2>8. ASSUME NEW g \in Games, CreateGame(g) \/ JoinGame(g) \/ EndGame(g)
        PROVE  IInv'
    BY <2>1, <2>8, ChainStep
  <2> QED BY <1>2, <2>2, <2>3, <2>4, <2>5, <2>6, <2>7, <2>8 DEF RelayOp
<1> QED BY <1>1, <1>2

(* The only ways a stored history changes. *)
LEMMA HistoryStep ==
  ASSUME IInv, [RelayOp]_relayVars, NEW g \in Games
  PROVE  \/ history'[g] = history[g]
         \/ \E move \in MoveRecord : /\ Legal(history[g])
                                     /\ Legal(Append(history[g], move))
                                     /\ history'[g] = Append(history[g], move)
         \/ history'[g] = LegalPart(history[g])
<1>1. CASE UNCHANGED history
  BY <1>1
<1>2. ASSUME NEW p \in Posters, appendMove(p), history' # history
      PROVE  \/ history'[g] = history[g]
             \/ \E move \in MoveRecord : /\ Legal(history[g])
                                         /\ Legal(Append(history[g], move))
                                         /\ history'[g] = Append(history[g], move)
  <2> DEFINE f == posts[p].game
             move == Recorded(posts[p])
  <2>1. /\ Legal(history[f]) /\ Legal(Append(history[f], move)) /\ move \in MoveRecord
        /\ history' = [history EXCEPT ![f] = Append(history[f], move)]
    BY <1>2, AppendStores
  <2> HIDE DEF f, move
  <2>2. CASE f = g
    <3>1. history'[g] = Append(history[g], move)
      BY <2>1, <2>2 DEF IInv, RelayTypeOK
    <3> QED BY <2>1, <2>2, <3>1
  <2>3. CASE f # g
    BY <2>1, <2>3 DEF IInv, RelayTypeOK
  <2> QED BY <2>2, <2>3
<1>3. ASSUME NEW r \in Repairers, repairTrims(r)
      PROVE  history'[g] = history[g] \/ history'[g] = LegalPart(history[g])
  <2>1. PICK f \in Games : history' = [history EXCEPT ![f] = LegalPart(history[f])]
    BY <1>3, TrimStores
  <2> QED BY <2>1 DEF IInv, RelayTypeOK
<1>4. ASSUME RelayOp, history' # history
      PROVE  \/ \E p \in Posters : appendMove(p)
             \/ \E r \in Repairers : repairTrims(r)
  BY <1>4 DEF RelayOp, ReadHistory, BindPlayer, registerActiveGame, PostFails, repairReads,
              CreateGame, JoinGame, EndGame
<1>5. CASE RelayOp /\ history' # history
  BY <1>2, <1>3, <1>4, <1>5
<1> QED BY <1>1, <1>5 DEF relayVars

(* While no two repairs of one list overlap, the relay's types hold, what  *)
(* handlers and repairs know stays true, and so do the two properties of   *)
(* the stored histories.                                                   *)
THEOREM RelayInvariant == RelaySpec /\ []RepairsApart => []IInv
<1>1. IInv /\ RepairsApart /\ [RelayOp]_relayVars => IInv'
  BY StepIInv
<1> QED BY <1>1, InitIInv, PTL DEF RelaySpec

(* Every signed move of a stored history sits on the line it was signed    *)
(* for, whatever handlers raced or died: settlement can verify it.  Only   *)
(* overlapping repairs of one list could change that.                      *)
THEOREM SignaturesVerify == RelaySpec /\ []RepairsApart => []SignaturesHold
<1>1. IInv => SignaturesHold
  BY DEF IInv
<1> QED BY <1>1, RelayInvariant, PTL

(* The compare-and-append is enough: whatever is written to a history      *)
(* leaves it a legal line of play, while no two repairs of it overlap.     *)
THEOREM HistoriesLegal == RelaySpec /\ []RepairsApart => HistoryIsLegal
<1>1. ASSUME IInv, [RelayOp]_relayVars
      PROVE  [\A g \in Games : history'[g] # history[g] => Legal(history'[g])]_relayVars
  <2>1. ASSUME NEW g \in Games, history'[g] # history[g]
        PROVE  Legal(history'[g])
    <3>1. history[g] \in Seq(MoveRecord)
      BY <1>1 DEF IInv, RelayTypeOK
    <3>2. Legal(LegalPart(history[g]))
      BY <3>1, LegalPartFacts
    <3> QED BY <1>1, <2>1, <3>2, HistoryStep
  <2> QED BY <2>1
<1> QED BY <1>1, RelayInvariant, PTL DEF RelaySpec, HistoryIsLegal

-----------------------------------------------------------------------------
(* However many repairs run, nobody plays out of turn *)

LEMMA LongerKeepsTurns ==
  ASSUME NEW h \in Seq(MoveRecord), NEW move \in MoveRecord,
         Alternates(h), move.player = SideToMove(Len(h))
  PROVE  Alternates(Append(h, move))
<1> DEFINE t == Append(h, move)
           n == longestLegalPrefix(t)
<1>1. /\ t \in Seq(MoveRecord) /\ Len(t) = Len(h) + 1 /\ Len(h) \in Nat
      /\ \A i \in 1..Len(h) : t[i] = h[i]
      /\ t[Len(h) + 1] = move
  BY AppendProperties, LenProperties
<1>2. /\ n \in 0..Len(h) + 1 /\ DOMAIN LegalPart(t) = 1..n
      /\ Legal(SubSeq(t, 1, n))
  <2>1. n \in 0..Len(t) /\ DOMAIN LegalPart(t) = 1..n /\ Legal(LegalPart(t))
    BY <1>1, LegalPartFacts
  <2> QED BY <1>1, <2>1 DEF LegalPart
<1>3. /\ longestLegalPrefix(h) \in 0..Len(h) /\ DOMAIN LegalPart(h) = 1..longestLegalPrefix(h)
      /\ \A k \in LegalPrefixes(h) : k <= longestLegalPrefix(h)
  BY LegalPartFacts, LongestLegal
<1>4. CASE n \in 0..Len(h)
  <2>1. Legal(SubSeq(h, 1, n))
    BY <1>2, <1>4, PrefixOfAppend
  <2>2. n <= longestLegalPrefix(h)
    BY <1>3, <1>4, <2>1 DEF LegalPrefixes
  <2> HIDE DEF n, t
  <2>3. \A i \in 1..n : i \in 1..Len(h) /\ i \in DOMAIN LegalPart(h)
    BY <1>1, <1>3, <1>4, <2>2
  <2> QED BY <1>1, <1>2, <2>3 DEF Alternates, t
<1>5. CASE n = Len(h) + 1
  <2>1. Legal(t)
    <3>1. SubSeq(t, 1, n) = t
      BY <1>1, <1>5, SubSeqFull
    <3> QED BY <1>2, <3>1
  <2>2. Legal(h)
    <3>1. Line(t) = Append(Line(h), move.san) /\ Line(h) \in Seq(Sans) /\ move.san \in Sans
      BY LineOfAppend, LineFacts DEF MoveRecord
    <3>2. Line(t) # <<>> /\ Front(Line(t)) = Line(h)
      BY <3>1, FrontOfAppend, AppendProperties
    <3> QED BY <2>1, <3>2, RelayAssumption DEF Legal
  <2> QED BY <2>1, <2>2, AppendKeepsTurns
<1> QED BY <1>1, <1>2, <1>4, <1>5

LEMMA ShorterKeepsTurns ==
  ASSUME NEW h \in Seq(MoveRecord), NEW m \in 0..Len(h), Alternates(h)
  PROVE  Alternates(SubSeq(h, 1, m))
<1> DEFINE t == SubSeq(h, 1, m)
           n == longestLegalPrefix(t)
<1>1. /\ t \in Seq(MoveRecord) /\ Len(t) = m /\ Len(h) \in Nat
      /\ \A i \in 1..m : t[i] = h[i]
  BY PrefixFacts, LenProperties
<1>2. n \in 0..m /\ DOMAIN LegalPart(t) = 1..n /\ Legal(SubSeq(t, 1, n))
  <2>1. n \in 0..Len(t) /\ DOMAIN LegalPart(t) = 1..n /\ Legal(LegalPart(t))
    BY <1>1, LegalPartFacts
  <2> QED BY <1>1, <2>1 DEF LegalPart
<1>3. /\ longestLegalPrefix(h) \in 0..Len(h) /\ DOMAIN LegalPart(h) = 1..longestLegalPrefix(h)
      /\ \A k \in LegalPrefixes(h) : k <= longestLegalPrefix(h)
  BY LegalPartFacts, LongestLegal
<1>4. Legal(SubSeq(h, 1, n))
  BY <1>2, PrefixOfPrefix
<1>5. n <= longestLegalPrefix(h)
  <2>1. n \in 0..Len(h)
    BY <1>1, <1>2
  <2> QED BY <1>3, <1>4, <2>1 DEF LegalPrefixes
<1> HIDE DEF n, t
<1>6. \A i \in 1..n : i \in 1..m /\ i \in DOMAIN LegalPart(h)
  BY <1>2, <1>3, <1>5
<1> QED BY <1>1, <1>2, <1>6 DEF Alternates, t

(* A handler that has bound its player has one whose turn it would be on   *)
(* the list it read.                                                       *)
PostsInTurn ==
  \A p \in Posters : posts[p].stage = "bound" /\ isFastFinality(posts[p].game) =>
    posts[p].player = SideToMove(posts[p].base)

TurnsInv == RelayTypeOK /\ PostsInTurn /\ TurnsAlternate

(* What a step of a handler makes of its own record. *)
LEMMA HandlerTurns ==
  ASSUME TurnsInv, NEW p \in Posters, NEW post \in Post \cup {Idle},
         posts' = [posts EXCEPT ![p] = post],
         registered' \subseteq Games, history' \in [Games -> Seq(MoveRecord)],
         \A g \in Games : history'[g] # history[g] /\ isFastFinality(g) => Alternates(history'[g]),
         post.stage = "bound" /\ isFastFinality(post.game) => post.player = SideToMove(post.base),
         UNCHANGED <<chain, onchain, repairs>>
  PROVE  TurnsInv'
<1>1. RelayTypeOK'
  BY DEF TurnsInv, RelayTypeOK
<1>2. PostsInTurn'
  BY DEF TurnsInv, RelayTypeOK, PostsInTurn, isFastFinality
<1>3. TurnsAlternate'
  BY DEF TurnsInv, TurnsAlternate, isFastFinality
<1> QED BY <1>1, <1>2, <1>3 DEF TurnsInv

LEMMA ReadTurns ==
  ASSUME TurnsInv, UNCHANGED chain, NEW p \in Posters, NEW g \in Games, NEW san \in Sans,
         NEW player \in Players, NEW number \in Numbers, NEW signed \in BOOLEAN,
         ReadHistory(p, g, san, player, number, signed)
  PROVE  TurnsInv'
<1> DEFINE h == history[g]
           line == Append(Line(h), san)
           post == [stage |-> "read", game |-> g, base |-> Len(h), san |-> san,
                    player |-> player, moveNumber |-> number,
                    over |-> IF signed THEN line ELSE <<>>]
<1>1. line \in Lines /\ Len(h) \in Nat
  BY LenProperties DEF ReadHistory, TurnsInv, RelayTypeOK
<1>2. (IF signed THEN line ELSE <<>>) \in Lines
  BY <1>1, RelayAssumption
<1>3. post \in Post /\ post.stage = "read"
  <2> HIDE DEF line, h
  <2> QED BY <1>1, <1>2 DEF Post
<1>4. /\ posts' = [posts EXCEPT ![p] = post]
      /\ UNCHANGED <<chain, history, registered, onchain, repairs>>
  BY DEF ReadHistory
<1>5. registered' \subseteq Games /\ history' \in [Games -> Seq(MoveRecord)]
  BY <1>4 DEF TurnsInv, RelayTypeOK
<1> HIDE DEF post
<1> QED BY <1>3, <1>4, <1>5, HandlerTurns

LEMMA BindTurns ==
  ASSUME TurnsInv, UNCHANGED chain, NEW p \in Posters, BindPlayer(p)
  PROVE  TurnsInv'
<1> DEFINE old == posts[p]
           post == [old EXCEPT !.stage = "bound"]
<1>1. old \in Post
  BY ActivePost DEF TurnsInv, BindPlayer
<1>2. /\ post \in Post /\ post.game = old.game
      /\ post.base = old.base /\ post.player = old.player
  <2> HIDE DEF old
  <2> QED BY <1>1 DEF Post
<1>3. isFastFinality(old.game) => old.player = SideToMove(old.base)
  BY DEF BindPlayer
<1>4. /\ posts' = [posts EXCEPT ![p] = post]
      /\ UNCHANGED <<chain, history, registered, onchain, repairs>>
  BY DEF BindPlayer
<1>5. registered' \subseteq Games /\ history' \in [Games -> Seq(MoveRecord)]
  BY <1>4 DEF TurnsInv, RelayTypeOK
<1>6. isFastFinality(post.game) => post.player = SideToMove(post.base)
  BY <1>2, <1>3
<1> HIDE DEF post
<1> QED BY <1>2, <1>4, <1>5, <1>6, HandlerTurns

LEMMA IdleTurns ==
  ASSUME TurnsInv, UNCHANGED chain, NEW p \in Posters,
         registerActiveGame(p) \/ PostFails(p)
  PROVE  TurnsInv'
<1>1. /\ posts' = [posts EXCEPT ![p] = Idle]
      /\ UNCHANGED <<chain, history, onchain, repairs>>
  BY DEF registerActiveGame, PostFails
<1>2. registered' \subseteq Games /\ history' \in [Games -> Seq(MoveRecord)]
  <2>1. registerActiveGame(p) => posts[p].game \in Games
    BY ActivePost, PostFields DEF registerActiveGame, TurnsInv
  <2> QED BY <1>1, <2>1 DEF registerActiveGame, PostFails, TurnsInv, RelayTypeOK
<1> QED BY <1>1, <1>2, HandlerTurns DEF Idle

LEMMA AppendTurns ==
  ASSUME TurnsInv, UNCHANGED chain, NEW p \in Posters, appendMove(p)
  PROVE  TurnsInv'
<1> DEFINE old == posts[p]
           post == [old EXCEPT !.stage = "stored"]
           h == history[old.game]
           move == Recorded(old)
<1>1. old \in Post /\ old.stage = "bound"
  BY ActivePost DEF TurnsInv, appendMove
<1>2. old.game \in Games /\ move \in MoveRecord /\ move.player = old.player
  <2>1. move \in MoveRecord /\ move.player = old.player
    BY <1>1, PostFields DEF Recorded, MoveRecord
  <2> QED BY <1>1, <2>1, PostFields
<1>3. h \in Seq(MoveRecord)
  BY <1>2 DEF TurnsInv, RelayTypeOK
<1>4. UNCHANGED <<chain, registered, onchain, repairs>> /\ registered' \subseteq Games
  BY DEF appendMove, TurnsInv, RelayTypeOK
<1>5. CASE posts' = [posts EXCEPT ![p] = Idle] /\ UNCHANGED history
  <2>1. history' \in [Games -> Seq(MoveRecord)]
    BY <1>5 DEF TurnsInv, RelayTypeOK
  <2> QED BY <1>4, <1>5, <2>1, HandlerTurns DEF Idle
<1>6. CASE /\ Len(h) = old.base
           /\ history' = [history EXCEPT ![old.game] = Append(h, move)]
           /\ posts' = [posts EXCEPT ![p].stage = "stored"]
  <2>1. post \in Post /\ post.stage = "stored"
    BY <1>1 DEF Post
  <2>2. posts' = [posts EXCEPT ![p] = post]
    BY <1>6
  <2>3. Append(h, move) \in Seq(MoveRecord)
    BY <1>2, <1>3, AppendProperties
  <2>4. /\ history' \in [Games -> Seq(MoveRecord)] /\ history'[old.game] = Append(h, move)
        /\ \A g \in Games : g # old.game => history'[g] = history[g]
    <3> HIDE DEF old, h, move
    <3> QED BY <1>2, <1>6, <2>3 DEF TurnsInv, RelayTypeOK
  <2>5. isFastFinality(old.game) => Alternates(Append(h, move))
    <3>1. ASSUME isFastFinality(old.game)
          PROVE  Alternates(h) /\ move.player = SideToMove(Len(h))
      BY <1>1, <1>2, <1>6, <3>1 DEF TurnsInv, TurnsAlternate, PostsInTurn
    <3> HIDE DEF old, h, move
    <3> QED BY <1>2, <1>3, <3>1, LongerKeepsTurns
  <2>6. \A g \in Games : history'[g] # history[g] /\ isFastFinality(g) => Alternates(history'[g])
    BY <2>4, <2>5
  <2> HIDE DEF post
  <2> QED BY <1>4, <2>1, <2>2, <2>4, <2>6, HandlerTurns
<1> QED BY <1>5, <1>6 DEF appendMove

LEMMA RepairTurns ==
  ASSUME TurnsInv, UNCHANGED chain, NEW r \in Repairers,
         repairTrims(r) \/ \E g \in Games : repairReads(r, g)
  PROVE  TurnsInv'
<1>1. CASE \E g \in Games : repairReads(r, g)
  <2>1. PICK g \in Games : repairReads(r, g)
    BY <1>1
  <2>2. longestLegalPrefix(history[g]) \in Nat
    <3>1. history[g] \in Seq(MoveRecord)
      BY DEF TurnsInv, RelayTypeOK
    <3>2. longestLegalPrefix(history[g]) \in 0..Len(history[g]) /\ Len(history[g]) \in Nat
      BY <3>1, LegalPartFacts, LenProperties
    <3> QED BY <3>2
  <2>3. repairs' \in [Repairers -> Repair \cup {Idle}]
    BY <2>1, <2>2 DEF repairReads, TurnsInv, RelayTypeOK, Repair
  <2> QED BY <2>1, <2>3 DEF repairReads, TurnsInv, RelayTypeOK, PostsInTurn, TurnsAlternate,
                            isFastFinality
<1>2. CASE repairTrims(r)
  <2> DEFINE g == repairs[r].game
             h == history[g]
             m == IF Len(h) < repairs[r].keep THEN Len(h) ELSE repairs[r].keep
  <2>1. repairs[r] \in Repair
    BY <1>2 DEF repairTrims, TurnsInv, RelayTypeOK, Idle
  <2>2. g \in Games /\ repairs[r].keep \in Nat
    BY <2>1 DEF Repair
  <2>3. h \in Seq(MoveRecord) /\ Len(h) \in Nat
    BY <2>2, LenProperties DEF TurnsInv, RelayTypeOK
  <2>4. m \in 0..Len(h)
    <3> HIDE DEF h
    <3> QED BY <2>2, <2>3
  <2>5. /\ history' = [history EXCEPT ![g] = SubSeq(h, 1, m)]
        /\ repairs' = [repairs EXCEPT ![r] = Idle]
        /\ UNCHANGED <<chain, registered, onchain, posts>>
    BY <1>2 DEF repairTrims
  <2> HIDE DEF m
  <2>6. SubSeq(h, 1, m) \in Seq(MoveRecord) /\ (Alternates(h) => Alternates(SubSeq(h, 1, m)))
    BY <2>3, <2>4, PrefixFacts, ShorterKeepsTurns
  <2>7. /\ history' \in [Games -> Seq(MoveRecord)] /\ history'[g] = SubSeq(h, 1, m)
        /\ \A f \in Games : f # g => history'[f] = history[f]
    <3> HIDE DEF g, h
    <3> QED BY <2>2, <2>5, <2>6 DEF TurnsInv, RelayTypeOK
  <2>8. RelayTypeOK'
    BY <2>5, <2>7 DEF TurnsInv, RelayTypeOK
  <2>9. TurnsAlternate'
    BY <2>5, <2>6, <2>7 DEF TurnsInv, TurnsAlternate, isFastFinality
  <2> QED BY <2>5, <2>8, <2>9 DEF TurnsInv, PostsInTurn, isFastFinality
<1> QED BY <1>1, <1>2

LEMMA TurnsStep ==
  ASSUME TurnsInv, [RelayOp]_relayVars
  PROVE  TurnsInv'
<1>1. CASE UNCHANGED relayVars
  BY <1>1 DEF relayVars, TurnsInv, RelayTypeOK, PostsInTurn, TurnsAlternate, isFastFinality
<1>2. CASE RelayOp
  <2>1. UNCHANGED chain
    BY <1>2 DEF RelayOp
  <2>2. ASSUME NEW p \in Posters, NEW g \in Games, NEW san \in Sans, NEW player \in Players,
               NEW number \in Numbers, NEW signed \in BOOLEAN,
               ReadHistory(p, g, san, player, number, signed)
        PROVE  TurnsInv'
    BY <2>1, <2>2, ReadTurns
  <2>3. ASSUME NEW p \in Posters,
               BindPlayer(p) \/ appendMove(p) \/ registerActiveGame(p) \/ PostFails(p)
        PROVE  TurnsInv'
    BY <2>1, <2>3, BindTurns, AppendTurns, IdleTurns
  <2>4. ASSUME NEW r \in Repairers, repairTrims(r) \/ \E g \in Games : repairReads(r, g)
        PROVE  TurnsInv'
    BY <2>1, <2>4, RepairTurns
  <2>5. ASSUME NEW g \in Games, CreateGame(g) \/ JoinGame(g) \/ EndGame(g)
        PROVE  TurnsInv'
    <3>1. /\ UNCHANGED <<chain, history, registered, posts, repairs>>
          /\ onchain' \in [Games -> {"absent", "waiting", "active", "closed"}]
      BY <2>1, <2>5 DEF CreateGame, JoinGame, EndGame, TurnsInv, RelayTypeOK
    <3> QED BY <3>1 DEF TurnsInv, RelayTypeOK, PostsInTurn, TurnsAlternate, isFastFinality
  <2> QED BY <1>2, <2>2, <2>3, <2>4, <2>5 DEF RelayOp
<1> QED BY <1>1, <1>2

LEMMA TurnsInit == RelayInit => TurnsInv
<1> SUFFICES ASSUME RelayInit PROVE TurnsInv
  OBVIOUS
<1>1. IInv
  BY InitIInv
<1> QED BY <1>1 DEF IInv, RelayInit, TurnsInv, PostsInTurn, Idle

(* On a fast chain each move of the legal part was posted by the seat      *)
(* whose turn it was, however many repairs cut lists under the handlers.   *)
THEOREM PlayersAlternate == RelaySpec => []TurnsAlternate
<1>1. TurnsInv /\ [RelayOp]_relayVars => TurnsInv'
  BY TurnsStep
<1>2. TurnsInv => TurnsAlternate
  BY DEF TurnsInv
<1> QED BY <1>1, <1>2, TurnsInit, PTL DEF RelaySpec

-----------------------------------------------------------------------------
(* However many repairs run, what stood when none was under way stands *)

(* The moves of line, place by place, stand at the head of h.              *)
HeadedBy(line, h) == Len(line) <= Len(h) /\ \A i \in 1..Len(line) : h[i].san = line[i]

(* A line that stands in a list and that every pending repair of it keeps. *)
LineKept(line, g) ==
  /\ HeadedBy(line, history[g])
  /\ \A r \in Repairers :
       repairs[r] # Idle /\ repairs[r].game = g => Len(line) <= repairs[r].keep

LEMMA HeadIsPrefix ==
  ASSUME NEW h \in Seq(MoveRecord), NEW line \in Lines
  PROVE  IsPrefix(line, Line(h)) <=> HeadedBy(line, h)
<1>1. line \in Seq(Sans) /\ Len(line) \in Nat
  BY RelayAssumption, LenProperties
<1>2. /\ Line(h) \in Seq(Sans) /\ Len(Line(h)) = Len(h) /\ Len(h) \in Nat
      /\ \A i \in 1..Len(h) : Line(h)[i] = h[i].san
  BY LineFacts, LenProperties
<1> DEFINE n == Len(line)
           all == Line(h)
<1>3. SubSeq(line, 1, n) = line
  BY <1>1, SubSeqFull
<1> HIDE DEF n, all
<1>4. CASE n <= Len(h)
  <2>1. \A i \in 1..n : all[i] \in Sans
    BY <1>1, <1>2, <1>4, ElementOfSeq DEF n, all
  <2>2. /\ SubSeq(all, 1, n) \in Seq(Sans) /\ Len(SubSeq(all, 1, n)) = n
        /\ \A i \in 1..n : SubSeq(all, 1, n)[i] = all[i]
    BY <1>1, <2>1, SubSeqProperties DEF n
  <2>3. line = SubSeq(all, 1, n) <=> \A i \in 1..n : line[i] = all[i]
    BY <1>1, <2>2, SeqEqual DEF n
  <2>4. \A i \in 1..n : all[i] = h[i].san
    BY <1>1, <1>2, <1>4 DEF n, all
  <2> QED BY <1>2, <1>3, <1>4, <2>3, <2>4 DEF IsPrefix, HeadedBy, n, all
<1>5. CASE ~(n <= Len(h))
  BY <1>2, <1>5 DEF IsPrefix, HeadedBy, n
<1> QED BY <1>4, <1>5

(* A line of play at the head of a list is within its legal part.          *)
LEMMA HeadIsLegal ==
  ASSUME NEW h \in Seq(MoveRecord), NEW line \in Lines, HeadedBy(line, h)
  PROVE  Len(line) <= longestLegalPrefix(h)
<1>1. line \in Seq(Sans) /\ Len(line) \in 0..Len(h)
  BY RelayAssumption, LenProperties DEF HeadedBy
<1> DEFINE head == SubSeq(h, 1, Len(line))
<1>2. /\ head \in Seq(MoveRecord) /\ Len(head) = Len(line)
      /\ \A i \in 1..Len(line) : head[i] = h[i]
  BY <1>1, PrefixFacts
<1> HIDE DEF head
<1>3. /\ Line(head) \in Seq(Sans) /\ Len(Line(head)) = Len(line)
      /\ \A i \in 1..Len(line) : Line(head)[i] = line[i]
  BY <1>2, LineFacts DEF HeadedBy
<1>4. Line(head) = line
  BY <1>1, <1>3, SeqEqual
<1>5. Len(line) \in LegalPrefixes(h)
  BY <1>1, <1>4 DEF LegalPrefixes, Legal, head
<1> QED BY <1>5, LongestLegal

LEMMA LineKeptStep ==
  ASSUME RelayTypeOK, [RelayOp]_relayVars, NEW g \in Games, NEW line \in Lines, LineKept(line, g)
  PROVE  LineKept(line, g)'
<1>1. history[g] \in Seq(MoveRecord) /\ Len(history[g]) \in Nat /\ Len(line) \in Nat
  BY RelayAssumption, LenProperties DEF RelayTypeOK
<1>2. ASSUME UNCHANGED <<history, repairs>>
      PROVE  LineKept(line, g)'
  BY <1>2 DEF LineKept, HeadedBy
<1>3. ASSUME NEW p \in Posters, appendMove(p)
      PROVE  LineKept(line, g)'
  <2>1. UNCHANGED repairs
    BY <1>3 DEF appendMove
  <2>2. history'[g] = history[g] \/ history'[g] = Append(history[g], Recorded(posts[p]))
    BY <1>3 DEF appendMove, RelayTypeOK
  <2>3. HeadedBy(line, Append(history[g], Recorded(posts[p])))
    <3> DEFINE h == history[g]
               move == Recorded(posts[p])
    <3>1. Len(Append(h, move)) = Len(h) + 1 /\ \A i \in 1..Len(h) : Append(h, move)[i] = h[i]
      BY <1>1
    <3> HIDE DEF h, move
    <3>2. Len(line) <= Len(h) /\ \A i \in 1..Len(line) : h[i].san = line[i]
      BY DEF LineKept, HeadedBy, h
    <3>3. HeadedBy(line, Append(h, move))
      BY <1>1, <3>1, <3>2 DEF HeadedBy, h
    <3> QED BY <3>3 DEF h, move
  <2> QED BY <2>1, <2>2, <2>3 DEF LineKept
<1>4. ASSUME NEW r \in Repairers, NEW f \in Games, repairReads(r, f)
      PROVE  LineKept(line, g)'
  <2>1. UNCHANGED history
    BY <1>4 DEF repairReads
  <2>2. Len(line) <= longestLegalPrefix(history[g])
    BY <1>1, HeadIsLegal DEF LineKept
  <2>3. ASSUME NEW s \in Repairers, repairs'[s] # Idle, repairs'[s].game = g
        PROVE  Len(line) <= repairs'[s].keep
    <3>1. CASE s = r
      <4>1. repairs'[s].game = f /\ repairs'[s].keep = longestLegalPrefix(history[f])
        BY <1>4, <3>1 DEF repairReads, RelayTypeOK
      <4> QED BY <2>2, <2>3, <4>1
    <3>2. CASE s # r
      <4>1. repairs'[s] = repairs[s]
        BY <1>4, <3>2 DEF repairReads, RelayTypeOK
      <4> QED BY <2>3, <4>1 DEF LineKept
    <3> QED BY <3>1, <3>2
  <2> QED BY <2>1, <2>3 DEF LineKept
<1>5. ASSUME NEW r \in Repairers, repairTrims(r)
      PROVE  LineKept(line, g)'
  <2>1. repairs[r] # Idle /\ repairs[r].keep \in Nat /\ repairs[r].game \in Games
    BY <1>5 DEF repairTrims, RelayTypeOK, Idle, Repair
  <2>2. \A s \in Repairers : repairs'[s] = Idle \/ repairs'[s] = repairs[s]
    BY <1>5 DEF repairTrims, RelayTypeOK
  <2>3. HeadedBy(line, history'[g])
    <3>1. CASE repairs[r].game # g
      <4>1. history'[g] = history[g]
        BY <1>5, <3>1 DEF repairTrims, RelayTypeOK
      <4> QED BY <4>1 DEF LineKept
    <3>2. CASE repairs[r].game = g
      <4> DEFINE n == IF Len(history[g]) < repairs[r].keep THEN Len(history[g]) ELSE repairs[r].keep
      <4>1. Len(line) <= repairs[r].keep /\ Len(line) <= Len(history[g])
        BY <2>1, <3>2 DEF LineKept, HeadedBy
      <4>2. n \in 0..Len(history[g]) /\ Len(line) <= n
        BY <1>1, <2>1, <4>1
      <4>3. history'[g] = SubSeq(history[g], 1, n)
        BY <1>5, <3>2 DEF repairTrims, RelayTypeOK
      <4> HIDE DEF n
      <4>4. Len(history'[g]) = n /\ \A i \in 1..n : history'[g][i] = history[g][i]
        BY <1>1, <4>2, <4>3, PrefixFacts
      <4>5. \A i \in 1..Len(line) : i \in 1..n /\ history[g][i].san = line[i]
        BY <1>1, <4>2 DEF LineKept, HeadedBy
      <4> QED BY <4>2, <4>4, <4>5 DEF HeadedBy
    <3> QED BY <3>1, <3>2
  <2> QED BY <2>2, <2>3 DEF LineKept
<1>6. CASE RelayOp
  <2>1. \/ UNCHANGED <<history, repairs>>
        \/ \E p \in Posters : appendMove(p)
        \/ \E r \in Repairers : repairTrims(r) \/ \E f \in Games : repairReads(r, f)
    BY <1>6 DEF RelayOp, ReadHistory, BindPlayer, registerActiveGame, PostFails,
                CreateGame, JoinGame, EndGame
  <2> QED BY <1>2, <1>3, <1>4, <1>5, <2>1
<1>7. CASE UNCHANGED relayVars
  BY <1>2, <1>7 DEF relayVars
<1> QED BY <1>6, <1>7

(* However many repairs of one list overlap, with each other and with      *)
(* posts, they only lose moves that were made while one of them was under  *)
(* way: a line that stood when none was stands for good.                   *)
THEOREM LinesStand == RelaySpec => LineStands
<1> SUFFICES ASSUME NEW g \in Games, NEW line \in Lines
             PROVE  RelaySpec => []((IsPrefix(line, Line(history[g])) /\ ~Repairing(g))
                                      => []IsPrefix(line, Line(history[g])))
  BY DEF LineStands
<1>1. RelayInit => TurnsInv
  BY TurnsInit
<1>2. TurnsInv /\ [RelayOp]_relayVars => TurnsInv'
  BY TurnsStep
<1>3. TurnsInv => RelayTypeOK
  BY DEF TurnsInv
<1>4. RelayTypeOK => (IsPrefix(line, Line(history[g])) <=> HeadedBy(line, history[g]))
  BY HeadIsPrefix DEF RelayTypeOK
<1>5. RelayTypeOK /\ IsPrefix(line, Line(history[g])) /\ ~Repairing(g) => LineKept(line, g)
  BY <1>4 DEF LineKept, Repairing
<1>6. RelayTypeOK /\ LineKept(line, g) => IsPrefix(line, Line(history[g]))
  BY <1>4 DEF LineKept
<1>7. RelayTypeOK /\ LineKept(line, g) /\ [RelayOp]_relayVars => LineKept(line, g)'
  BY LineKeptStep
<1> QED BY <1>1, <1>2, <1>3, <1>5, <1>6, <1>7, PTL DEF RelaySpec

-----------------------------------------------------------------------------
(* The line h supports the result: as ResultIsEarned says of a prefix. *)
Supports(h, result, fast) ==
  LET winner == IF fast THEN Last(h).player ELSE SideToMove(Len(h) - 1)
  IN  IF result = "draw" THEN Line(h) \in Drawn
      ELSE result = SeatResult(winner) /\ (Line(h) \in Mated \/ Last(h).old)

(* A legal part of the history supports the result. *)
EarnedIn(h, result, fast) ==
  \E n \in 1..Len(h) : Legal(SubSeq(h, 1, n)) /\ Supports(SubSeq(h, 1, n), result, fast)

(* Moves that were read and are a legal line still begin the history. *)
SnapshotFits(moves, h) ==
  Legal(moves) => Len(moves) <= Len(h) /\ moves = SubSeq(h, 1, Len(moves))

(* What a settlement knows: its moves fit, and the result it is sending    *)
(* was derived from them.                                                  *)
WorkFits(s, h) ==
  /\ SnapshotFits(s.moves, h)
  /\ s.stage \in {"send", "wait"} => s.result \in DeriveResult(s.moves)

WorksFit == \A w \in Workers : work[w] # Idle => WorkFits(work[w], history[work[w].game])

TxsEarned ==
  \A tx \in txs : EarnedIn(history[tx.game], tx.result, isFastFinality(tx.game))

SettledEarned ==
  \A g \in Games : settled[g] # "none" => EarnedIn(history[g], settled[g], isFastFinality(g))

SettlementInv ==
  /\ IInv /\ SettlementTypeOK
  /\ WorksFit /\ TxsEarned /\ SettledEarned

-----------------------------------------------------------------------------
(* The clock ages a history and changes nothing else about it *)

LEMMA AgingFacts ==
  ASSUME NEW h \in Seq(MoveRecord)
  PROVE  /\ Aging(h) \in Seq(MoveRecord) /\ Len(Aging(h)) = Len(h)
         /\ DOMAIN Aging(h) = DOMAIN h
         /\ \A i \in 1..Len(h) :
              /\ Aging(h)[i] = [h[i] EXCEPT !.old = TRUE]
              /\ Aging(h)[i].san = h[i].san /\ Aging(h)[i].player = h[i].player
              /\ Aging(h)[i].over = h[i].over /\ Aging(h)[i].old = TRUE
         /\ Line(Aging(h)) = Line(h)
         /\ Legal(Aging(h)) <=> Legal(h)
<1>1. DOMAIN h = 1..Len(h) /\ Len(h) \in Nat /\ \A i \in 1..Len(h) : h[i] \in MoveRecord
  BY ElementOfSeq, LenProperties
<1>2. Aging(h) = [i \in 1..Len(h) |-> [h[i] EXCEPT !.old = TRUE]]
  BY <1>1 DEF Aging
<1>3. \A i \in 1..Len(h) :
        /\ Aging(h)[i] = [h[i] EXCEPT !.old = TRUE] /\ Aging(h)[i] \in MoveRecord
        /\ Aging(h)[i].san = h[i].san /\ Aging(h)[i].player = h[i].player
        /\ Aging(h)[i].over = h[i].over /\ Aging(h)[i].old = TRUE
  BY <1>1, <1>2 DEF MoveRecord
<1>4. Aging(h) \in Seq(MoveRecord) /\ Len(Aging(h)) = Len(h) /\ DOMAIN Aging(h) = DOMAIN h
  BY <1>1, <1>2, <1>3, IsASeq
<1>5. Line(Aging(h)) = Line(h)
  BY <1>1, <1>3, <1>4 DEF Line
<1> QED BY <1>3, <1>4, <1>5 DEF Legal

LEMMA AgingPrefix ==
  ASSUME NEW h \in Seq(MoveRecord), NEW n \in 0..Len(h)
  PROVE  SubSeq(Aging(h), 1, n) = Aging(SubSeq(h, 1, n))
<1> DEFINE t == SubSeq(h, 1, n)
           a == Aging(h)
<1>1. /\ t \in Seq(MoveRecord) /\ Len(t) = n /\ \A i \in 1..n : t[i] = h[i]
      /\ Len(h) \in Nat /\ n \in Nat /\ n <= Len(h)
  BY PrefixFacts, LenProperties
<1>2. /\ a \in Seq(MoveRecord) /\ Len(a) = Len(h)
      /\ \A i \in 1..Len(h) : a[i] = [h[i] EXCEPT !.old = TRUE]
  BY AgingFacts
<1> HIDE DEF t, a
<1>3. /\ Aging(t) \in Seq(MoveRecord) /\ Len(Aging(t)) = n
      /\ \A i \in 1..n : Aging(t)[i] = [t[i] EXCEPT !.old = TRUE]
  BY <1>1, AgingFacts
<1>4. /\ SubSeq(a, 1, n) \in Seq(MoveRecord) /\ Len(SubSeq(a, 1, n)) = n
      /\ \A i \in 1..n : SubSeq(a, 1, n)[i] = a[i]
  BY <1>1, <1>2, PrefixFacts
<1>5. \A i \in 1..n : i \in 1..Len(h)
  BY <1>1
<1>6. \A i \in 1..n : SubSeq(a, 1, n)[i] = Aging(t)[i]
  BY <1>1, <1>2, <1>3, <1>4, <1>5
<1>7. SubSeq(a, 1, n) = Aging(t)
  BY <1>3, <1>4, <1>6, SeqEqual
<1> QED BY <1>7 DEF t, a

LEMMA AgingLegalPart ==
  ASSUME NEW h \in Seq(MoveRecord)
  PROVE  /\ longestLegalPrefix(Aging(h)) = longestLegalPrefix(h)
         /\ LegalPart(Aging(h)) = Aging(LegalPart(h))
<1>1. Aging(h) \in Seq(MoveRecord) /\ Len(Aging(h)) = Len(h)  BY AgingFacts
<1>2. \A k \in 0..Len(h) : Legal(SubSeq(Aging(h), 1, k)) <=> Legal(SubSeq(h, 1, k))
  <2> TAKE k \in 0..Len(h)
  <2> DEFINE t == SubSeq(h, 1, k)
  <2>1. t \in Seq(MoveRecord)  BY PrefixFacts
  <2>2. SubSeq(Aging(h), 1, k) = Aging(t)  BY AgingPrefix
  <2> HIDE DEF t
  <2>3. Legal(Aging(t)) <=> Legal(t)  BY <2>1, AgingFacts
  <2> QED BY <2>2, <2>3 DEF t
<1>3. LegalPrefixes(Aging(h)) = LegalPrefixes(h)
  BY <1>1, <1>2 DEF LegalPrefixes
<1>4. longestLegalPrefix(Aging(h)) = longestLegalPrefix(h)
  BY <1>3 DEF longestLegalPrefix
<1>5. longestLegalPrefix(h) \in 0..Len(h)  BY LegalPartFacts
<1> QED BY <1>4, <1>5, AgingPrefix DEF LegalPart

LEMMA AgingKeeps ==
  ASSUME NEW h \in Seq(MoveRecord)
  PROVE  /\ SignedForItsPlace(h) => SignedForItsPlace(Aging(h))
         /\ Alternates(h) => Alternates(Aging(h))
<1>1. /\ DOMAIN Aging(h) = 1..Len(h) /\ DOMAIN h = 1..Len(h) /\ Len(h) \in Nat
      /\ \A i \in 1..Len(h) : Aging(h)[i].over = h[i].over /\ Aging(h)[i].player = h[i].player
  BY AgingFacts, LenProperties
<1>2. \A i \in 1..Len(h) : Line(SubSeq(Aging(h), 1, i)) = Line(SubSeq(h, 1, i))
  <2> TAKE i \in 1..Len(h)
  <2>1. i \in 0..Len(h)  BY <1>1
  <2>2. SubSeq(h, 1, i) \in Seq(MoveRecord)  BY <2>1, PrefixFacts
  <2> QED BY <2>1, <2>2, AgingPrefix, AgingFacts
<1>3. SignedForItsPlace(h) => SignedForItsPlace(Aging(h))
  BY <1>1, <1>2 DEF SignedForItsPlace
<1>4. /\ LegalPart(h) \in Seq(MoveRecord)
      /\ DOMAIN LegalPart(h) = 1..longestLegalPrefix(h)
      /\ longestLegalPrefix(h) \in 0..Len(h)
  BY LegalPartFacts
<1>5. DOMAIN LegalPart(Aging(h)) = DOMAIN LegalPart(h)
  BY <1>4, AgingLegalPart, AgingFacts
<1>6. DOMAIN LegalPart(h) \subseteq 1..Len(h)
  BY <1>1, <1>4
<1>7. Alternates(h) => Alternates(Aging(h))
  BY <1>1, <1>5, <1>6 DEF Alternates
<1> QED BY <1>3, <1>7

(* The relay's invariant does not see the clock. *)
LEMMA AgingStep ==
  ASSUME IInv, history' = [g \in Games |-> Aging(history[g])],
         UNCHANGED <<chain, registered, onchain, posts, repairs>>
  PROVE  IInv'
<1>1. \A g \in Games : history[g] \in Seq(MoveRecord)
  BY DEF IInv, RelayTypeOK
<1>2. RelayTypeOK'
  <2>1. \A g \in Games : Aging(history[g]) \in Seq(MoveRecord)
    BY <1>1, AgingFacts
  <2> QED BY <2>1 DEF IInv, RelayTypeOK
<1>3. \A g \in Games :
        /\ Len(history'[g]) = Len(history[g]) /\ Line(history'[g]) = Line(history[g])
        /\ Legal(history'[g]) <=> Legal(history[g])
        /\ longestLegalPrefix(history'[g]) = longestLegalPrefix(history[g])
  BY <1>1, AgingFacts, AgingLegalPart
<1>4. PostsFit'
  <2>1. \A p \in Posters : posts[p] # Idle => posts[p].game \in Games
    BY PostFields DEF IInv, RelayTypeOK
  <2> QED BY <1>3, <2>1 DEF IInv, PostsFit, PostFits, isFastFinality
<1>5. RepairsFit'
  <2>1. \A r \in Repairers : repairs[r] # Idle => repairs[r].game \in Games
    BY DEF IInv, RelayTypeOK, Repair
  <2> QED BY <1>3, <2>1 DEF IInv, RepairsFit, RepairFits
<1>6. SignaturesHold'
  BY <1>1, AgingKeeps DEF IInv, SignaturesHold
<1>7. TurnsAlternate'
  BY <1>1, AgingKeeps DEF IInv, TurnsAlternate, isFastFinality
<1> QED BY <1>2, <1>4, <1>5, <1>6, <1>7 DEF IInv

-----------------------------------------------------------------------------
(* What supports a result today supports it tomorrow *)

LEMMA LastFacts ==
  ASSUME NEW h \in Seq(MoveRecord), h # <<>>
  PROVE  /\ Len(h) \in 1..Len(h) /\ Len(h) \in Nat /\ Len(h) >= 1
         /\ Last(h) = h[Len(h)] /\ Last(h) \in MoveRecord
<1>1. Len(h) \in Nat /\ Len(h) # 0  BY EmptySeq, LenProperties
<1>2. Len(h) \in 1..Len(h)  BY <1>1
<1> QED BY <1>1, <1>2, ElementOfSeq DEF Last

(* The relay never takes back or rewrites a legal line it has stored. *)
LEMMA LegalLineStays ==
  ASSUME IInv, [RelayOp]_relayVars, NEW g \in Games,
         NEW n \in 0..Len(history[g]), Legal(SubSeq(history[g], 1, n))
  PROVE  /\ n <= Len(history'[g])
         /\ SubSeq(history'[g], 1, n) = SubSeq(history[g], 1, n)
<1> DEFINE h == history[g]
<1>1. h \in Seq(MoveRecord) /\ Len(h) \in Nat /\ n \in Nat /\ n <= Len(h)
  BY LenProperties DEF IInv, RelayTypeOK
<1>2. CASE history'[g] = h
  BY <1>1, <1>2
<1>3. ASSUME NEW move \in MoveRecord, history'[g] = Append(h, move)
      PROVE  n <= Len(history'[g]) /\ SubSeq(history'[g], 1, n) = SubSeq(h, 1, n)
  <2>1. SubSeq(Append(h, move), 1, n) = SubSeq(h, 1, n)
    BY <1>1, PrefixOfAppend
  <2>2. Len(Append(h, move)) = Len(h) + 1
    BY <1>1, AppendProperties
  <2> HIDE DEF h
  <2> QED BY <1>1, <1>3, <2>1, <2>2
<1>4. CASE history'[g] = LegalPart(h)
  <2>1. n \in LegalPrefixes(h)
    BY <1>1 DEF LegalPrefixes
  <2>2. n <= longestLegalPrefix(h) /\ longestLegalPrefix(h) \in 0..Len(h)
    BY <1>1, <2>1, LongestLegal, LegalPartFacts
  <2>3. Len(LegalPart(h)) = longestLegalPrefix(h)
    BY <1>1, LegalPartFacts
  <2>4. n \in 0..longestLegalPrefix(h)
    BY <1>1, <2>2
  <2>5. SubSeq(LegalPart(h), 1, n) = SubSeq(h, 1, n)
    BY <1>1, <2>2, <2>4, PrefixOfPrefix DEF LegalPart
  <2> QED BY <1>4, <2>2, <2>3, <2>5
<1> QED BY <1>2, <1>3, <1>4, HistoryStep

LEMMA RelayKeepsSnapshots ==
  ASSUME IInv, [RelayOp]_relayVars, NEW g \in Games, NEW moves \in Seq(MoveRecord),
         SnapshotFits(moves, history[g])
  PROVE  SnapshotFits(moves, history'[g])
<1>1. Len(moves) \in Nat /\ Len(history[g]) \in Nat
  BY LenProperties DEF IInv, RelayTypeOK
<1>2. ASSUME Legal(moves)
      PROVE  Len(moves) <= Len(history'[g]) /\ moves = SubSeq(history'[g], 1, Len(moves))
  <2>1. Len(moves) <= Len(history[g]) /\ moves = SubSeq(history[g], 1, Len(moves))
    BY <1>2 DEF SnapshotFits
  <2>2. Len(moves) \in 0..Len(history[g])
    BY <1>1, <2>1
  <2> QED BY <1>2, <2>1, <2>2, LegalLineStays
<1> QED BY <1>2 DEF SnapshotFits

LEMMA RelayKeepsEarned ==
  ASSUME IInv, [RelayOp]_relayVars, NEW g \in Games, NEW result, NEW fast \in BOOLEAN,
         EarnedIn(history[g], result, fast)
  PROVE  EarnedIn(history'[g], result, fast)
<1>1. PICK n \in 1..Len(history[g]) :
        Legal(SubSeq(history[g], 1, n)) /\ Supports(SubSeq(history[g], 1, n), result, fast)
  BY DEF EarnedIn
<1>2. Len(history[g]) \in Nat /\ history[g] \in Seq(MoveRecord)
  BY LenProperties DEF IInv, RelayTypeOK
<1>3. n \in 0..Len(history[g])
  BY <1>1, <1>2
<1>4. n <= Len(history'[g]) /\ SubSeq(history'[g], 1, n) = SubSeq(history[g], 1, n)
  BY <1>1, <1>3, LegalLineStays
<1>5. Len(history'[g]) \in Nat
  <2>1. \A move \in MoveRecord : Append(history[g], move) \in Seq(MoveRecord)
    BY <1>2, AppendProperties
  <2>2. history'[g] \in Seq(MoveRecord)
    BY <1>2, <2>1, HistoryStep, LegalPartFacts
  <2> QED BY <2>2, LenProperties
<1>6. n \in 1..Len(history'[g])
  BY <1>2, <1>4, <1>5
<1> QED BY <1>1, <1>4, <1>6 DEF EarnedIn

(* What deriveResult finds in moves that were read has been earned. *)
LEMMA DerivedIsEarned ==
  ASSUME NEW h \in Seq(MoveRecord), NEW moves \in Seq(MoveRecord), NEW fast \in BOOLEAN,
         NEW result \in DeriveResult(moves), SnapshotFits(moves, h), fast => Alternates(h)
  PROVE  EarnedIn(h, result, fast)
<1> DEFINE n == Len(moves)
<1>1. Legal(moves)
  BY DEF DeriveResult
<1>2. n <= Len(h) /\ moves = SubSeq(h, 1, n) /\ Len(h) \in Nat /\ n \in Nat
  BY <1>1, LenProperties DEF SnapshotFits
<1>3. moves # <<>>
  <2>1. CASE Line(moves) \in Mated \cup Drawn
    <3>1. Line(<<>>) = <<>>
      BY LineFacts, EmptyHistory, EmptySeq
    <3> QED BY <2>1, <3>1, RelayAssumption
  <2> QED BY <1>1, <2>1 DEF DeriveResult, TimedOut
<1>4. n >= 1 /\ Last(moves) = moves[n]
  BY <1>3, LastFacts
<1>5. n \in 1..Len(h)
  BY <1>2, <1>4
<1>6. fast => Last(moves).player = SideToMove(n - 1)
  <2> SUFFICES ASSUME fast PROVE Last(moves).player = SideToMove(n - 1)
    OBVIOUS
  <2>1. n \in LegalPrefixes(h)
    <3>1. Legal(SubSeq(h, 1, n))
      BY <1>1, <1>2, Zenon
    <3> HIDE DEF n
    <3>2. n \in 0..Len(h)
      BY <1>2
    <3> QED BY <3>1, <3>2 DEF LegalPrefixes
  <2>2. n <= longestLegalPrefix(h) /\ longestLegalPrefix(h) \in 0..Len(h)
    BY <2>1, LongestLegal, LegalPartFacts
  <2>3. n \in DOMAIN LegalPart(h)
    BY <1>2, <1>4, <2>2, LegalPartFacts
  <2>4. h[n].player = SideToMove(n - 1)
    BY <2>3 DEF Alternates
  <2>5. n \in 0..Len(h) /\ n \in 1..n
    BY <1>2, <1>4
  <2>6. moves[n] = h[n]
    BY <1>2, <2>5, PrefixFacts
  <2> QED BY <1>4, <2>4, <2>6
<1>7. Supports(moves, result, fast)
  <2>1. \A seat : SeatResult(seat) # "draw"
    BY DEF SeatResult
  <2>2. CASE Line(moves) \in Mated
    <3>1. result = SeatResult(SideToMove(n - 1))
      BY <1>1, <2>2 DEF DeriveResult, LastMover
    <3> QED BY <1>6, <2>1, <2>2, <3>1 DEF Supports
  <2>3. CASE Line(moves) \notin Mated /\ Line(moves) \in Drawn
    <3>1. result = "draw"
      BY <1>1, <2>3 DEF DeriveResult
    <3> QED BY <2>3, <3>1 DEF Supports
  <2>4. CASE Line(moves) \notin Mated /\ Line(moves) \notin Drawn
    <3>1. TimedOut(moves) /\ result = SeatResult(SideToMove(n - 1))
      BY <1>1, <2>4 DEF DeriveResult, LastMover
    <3>2. Last(moves).old
      BY <3>1 DEF TimedOut
    <3> QED BY <1>6, <2>1, <3>1, <3>2 DEF Supports
  <2> QED BY <2>2, <2>3, <2>4
<1> QED BY <1>1, <1>2, <1>5, <1>7 DEF EarnedIn

LEMMA AgingSupports ==
  ASSUME NEW h \in Seq(MoveRecord), h # <<>>, NEW result, NEW fast \in BOOLEAN,
         Supports(h, result, fast)
  PROVE  Supports(Aging(h), result, fast)
<1>1. /\ Aging(h) \in Seq(MoveRecord) /\ Len(Aging(h)) = Len(h) /\ Line(Aging(h)) = Line(h)
      /\ \A i \in 1..Len(h) : Aging(h)[i].player = h[i].player /\ Aging(h)[i].old = TRUE
  BY AgingFacts
<1>2. Aging(h) # <<>>
  BY <1>1, EmptySeq
<1>3. Last(Aging(h)).player = Last(h).player /\ Last(Aging(h)).old = TRUE
  BY <1>1, <1>2, LastFacts
<1> QED BY <1>1, <1>3 DEF Supports

LEMMA AgingEarned ==
  ASSUME NEW h \in Seq(MoveRecord), NEW result, NEW fast \in BOOLEAN, EarnedIn(h, result, fast)
  PROVE  EarnedIn(Aging(h), result, fast)
<1>1. PICK n \in 1..Len(h) : Legal(SubSeq(h, 1, n)) /\ Supports(SubSeq(h, 1, n), result, fast)
  BY DEF EarnedIn
<1> DEFINE t == SubSeq(h, 1, n)
<1>2. Len(h) \in Nat /\ n \in 0..Len(h) /\ n >= 1
  BY LenProperties
<1>3. t \in Seq(MoveRecord) /\ Len(t) = n /\ SubSeq(Aging(h), 1, n) = Aging(t)
  BY <1>2, PrefixFacts, AgingPrefix
<1>4. Legal(t) /\ Supports(t, result, fast)
  BY <1>1
<1> HIDE DEF t
<1>5. t # <<>>
  BY <1>2, <1>3, EmptySeq
<1>6. Legal(Aging(t)) /\ Supports(Aging(t), result, fast)
  BY <1>3, <1>4, <1>5, AgingFacts, AgingSupports
<1>7. n \in 1..Len(Aging(h))
  BY AgingFacts
<1> QED BY <1>3, <1>6, <1>7 DEF EarnedIn

LEMMA AgingSnapshot ==
  ASSUME NEW h \in Seq(MoveRecord), NEW moves \in Seq(MoveRecord), SnapshotFits(moves, h)
  PROVE  SnapshotFits(Aging(moves), Aging(h))
<1>1. Len(Aging(moves)) = Len(moves) /\ Len(Aging(h)) = Len(h)
  BY AgingFacts
<1>2. ASSUME Legal(Aging(moves))
      PROVE  /\ Len(Aging(moves)) <= Len(Aging(h))
             /\ Aging(moves) = SubSeq(Aging(h), 1, Len(Aging(moves)))
  <2>1. Legal(moves)
    BY <1>2, AgingFacts
  <2>2. Len(moves) <= Len(h) /\ moves = SubSeq(h, 1, Len(moves))
    BY <2>1 DEF SnapshotFits
  <2>3. Len(moves) \in 0..Len(h)
    BY <2>2, LenProperties
  <2>4. SubSeq(Aging(h), 1, Len(moves)) = Aging(SubSeq(h, 1, Len(moves)))
    BY <2>3, AgingPrefix
  <2> QED BY <1>1, <2>2, <2>4
<1> QED BY <1>2 DEF SnapshotFits

LEMMA AgingDerives ==
  ASSUME NEW moves \in Seq(MoveRecord)
  PROVE  DeriveResult(moves) \subseteq DeriveResult(Aging(moves))
<1>1. /\ Aging(moves) \in Seq(MoveRecord) /\ Len(Aging(moves)) = Len(moves)
      /\ Line(Aging(moves)) = Line(moves) /\ (Legal(Aging(moves)) <=> Legal(moves))
      /\ \A i \in 1..Len(moves) :
           Aging(moves)[i].player = moves[i].player /\ Aging(moves)[i].old = TRUE
  BY AgingFacts
<1>2. TimedOut(moves) => TimedOut(Aging(moves))
  <2> SUFFICES ASSUME TimedOut(moves) PROVE TimedOut(Aging(moves))
    OBVIOUS
  <2>1. moves # <<>> /\ Aging(moves) # <<>>
    BY <1>1, EmptySeq DEF TimedOut
  <2>2. Last(Aging(moves)).player = Last(moves).player /\ Last(Aging(moves)).old = TRUE
    BY <1>1, <2>1, LastFacts
  <2> QED BY <1>1, <2>1, <2>2 DEF TimedOut
<1> QED BY <1>1, <1>2 DEF DeriveResult

-----------------------------------------------------------------------------
(* The steps *)

LEMMA WorkFields ==
  ASSUME NEW s \in Work
  PROVE  /\ s # Idle /\ s.stage \in {"read", "decide", "send", "wait", "unregister", "release"}
         /\ s.game \in Games /\ s.moves \in Seq(MoveRecord)
         /\ s.stage \in {"send", "wait", "release"} => s.result \in Results
         /\ s.stage = "read" =>
              \A t \in {"decide", "unregister"} : [s EXCEPT !.stage = t] \in Work
         /\ s.stage \in {"send", "wait"} =>
              \A t \in {"wait", "unregister", "release"} : [s EXCEPT !.stage = t] \in Work
         /\ Locking(s) => [s EXCEPT !.stage = "release"] \in Work
<1> DEFINE A == [stage: {"read", "decide", "unregister"}, game: Games, moves: Seq(MoveRecord)]
           B == [stage: {"send", "wait", "unregister", "release"}, game: Games,
                 moves: Seq(MoveRecord), result: Results]
<1>1. Work = A \cup B
  BY DEF Work
<1>2. CASE s \in A
  <2>1. \A t \in {"decide", "unregister"} : [s EXCEPT !.stage = t] \in A
    BY <1>2
  <2>2. ~Locking(s)
    BY <1>2 DEF Locking
  <2> QED BY <1>1, <1>2, <2>1, <2>2 DEF Idle
<1>3. CASE s \in B
  <2>1. \A t \in {"wait", "unregister", "release"} : [s EXCEPT !.stage = t] \in B
    BY <1>3
  <2> QED BY <1>1, <1>3, <2>1 DEF Idle
<1> QED BY <1>1, <1>2, <1>3

LEMMA ActiveWork ==
  ASSUME SettlementTypeOK, NEW w \in Workers, work[w].stage # "idle"
  PROVE  work[w] \in Work /\ work[w] # Idle
BY DEF SettlementTypeOK, Idle

(* A step that leaves the histories alone preserves the invariant if what  *)
(* it makes a settlement know or send fits.                                *)
LEMMA QuietStep ==
  ASSUME SettlementInv, UNCHANGED <<chain, history, posts, repairs, settled>>,
         registered' \subseteq Games,
         onchain' \in [Games -> {"absent", "waiting", "active", "closed"}],
         locked' \subseteq Games, sweep' \subseteq Games, authorized' \in BOOLEAN,
         work' \in [Workers -> Work \cup {Idle}],
         \A w \in Workers :
           \/ work'[w] \in {work[w], Idle}
           \/ WorkFits(work'[w], history[work'[w].game]),
         txs' \subseteq Tx,
         \A tx \in txs' \ txs : EarnedIn(history[tx.game], tx.result, isFastFinality(tx.game))
  PROVE  SettlementInv'
<1>1. IInv'
  BY DEF SettlementInv, IInv, RelayTypeOK, PostsFit, RepairsFit, SignaturesHold,
         TurnsAlternate, isFastFinality
<1>2. SettlementTypeOK'
  BY <1>1 DEF SettlementInv, SettlementTypeOK, IInv
<1>3. WorksFit'
  BY DEF SettlementInv, WorksFit
<1>4. TxsEarned'
  BY DEF SettlementInv, TxsEarned, isFastFinality
<1>5. SettledEarned'
  BY DEF SettlementInv, SettledEarned, isFastFinality
<1> QED BY <1>1, <1>2, <1>3, <1>4, <1>5 DEF SettlementInv

(* The same, for one settlement's step. *)
LEMMA SettlerStep ==
  ASSUME SettlementInv, UNCHANGED <<chain, history, onchain, posts, repairs, settled, authorized>>,
         registered' \subseteq Games, locked' \subseteq Games, sweep' \subseteq Games,
         NEW w \in Workers, NEW job \in Work \cup {Idle}, work' = [work EXCEPT ![w] = job],
         job = Idle \/ WorkFits(job, history[job.game]),
         txs' \subseteq Tx,
         \A tx \in txs' \ txs : EarnedIn(history[tx.game], tx.result, isFastFinality(tx.game))
  PROVE  SettlementInv'
<1>1. SettlementTypeOK /\ RelayTypeOK
  BY DEF SettlementInv, SettlementTypeOK
<1>2. work' \in [Workers -> Work \cup {Idle}]
  BY <1>1 DEF SettlementTypeOK
<1>3. \A v \in Workers : \/ work'[v] \in {work[v], Idle}
                         \/ WorkFits(work'[v], history[work'[v].game])
  BY <1>1 DEF SettlementTypeOK
<1>4. onchain' \in [Games -> {"absent", "waiting", "active", "closed"}] /\ authorized' \in BOOLEAN
  BY <1>1 DEF SettlementTypeOK, RelayTypeOK
<1> QED BY <1>2, <1>3, <1>4, QuietStep

LEMMA GetMovesStep ==
  ASSUME SettlementInv, NEW w \in Workers, NEW g \in Games, GetMoves(w, g), sweep' \subseteq Games,
         UNCHANGED <<relayVars, locked, txs, authorized, settled>>
  PROVE  SettlementInv'
<1> DEFINE job == [stage |-> "read", game |-> g, moves |-> history[g]]
<1>1. SettlementTypeOK /\ RelayTypeOK
  BY DEF SettlementInv, SettlementTypeOK
<1>2. history[g] \in Seq(MoveRecord)
  BY <1>1 DEF RelayTypeOK
<1>3. job \in Work
  BY <1>2 DEF Work
<1>4. SnapshotFits(history[g], history[g])
  <2>1. Len(history[g]) <= Len(history[g])
    BY <1>2, LenProperties
  <2> QED BY <1>2, <2>1, SubSeqFull DEF SnapshotFits
<1>5. WorkFits(job, history[job.game])
  BY <1>4 DEF WorkFits
<1>6. work' = [work EXCEPT ![w] = job]
  BY DEF GetMoves
<1>7. /\ UNCHANGED <<chain, history, onchain, posts, repairs, settled, authorized>>
      /\ registered' \subseteq Games /\ locked' \subseteq Games
      /\ txs' \subseteq Tx /\ txs' \ txs = {}
  BY <1>1 DEF relayVars, SettlementTypeOK, RelayTypeOK
<1> HIDE DEF job
<1> QED BY <1>3, <1>5, <1>6, <1>7, SettlerStep

(* A settlement that only moves on to another stage still knows the same.  *)
LEMMA StageStep ==
  ASSUME SettlementInv, NEW w \in Workers, NEW t \in {"decide", "unregister", "wait", "release"},
         [work[w] EXCEPT !.stage = t] \in Work, work[w] \in Work,
         t = "wait" => work[w].stage \in {"send", "wait"}
  PROVE  LET job == [work[w] EXCEPT !.stage = t] IN WorkFits(job, history[job.game])
<1> DEFINE s == work[w]
           job == [s EXCEPT !.stage = t]
<1>1. WorkFits(s, history[s.game])
  BY WorkFields DEF SettlementInv, WorksFit
<1>2. CASE s.stage \in {"send", "wait"}
  <2>1. /\ job.stage = t /\ job.game = s.game /\ job.moves = s.moves
        /\ s.result \in DeriveResult(s.moves) /\ job.result = s.result
    BY <1>1, <1>2 DEF WorkFits, Work
  <2> QED BY <1>1, <2>1 DEF WorkFits
<1>3. CASE s.stage \notin {"send", "wait"}
  <2>1. job.stage = t /\ t \notin {"send", "wait"} /\ job.game = s.game /\ job.moves = s.moves
    BY <1>3 DEF Work
  <2> QED BY <1>1, <2>1 DEF WorkFits
<1> QED BY <1>2, <1>3

(* The steps in which a settlement sends nothing. *)
LEMMA UnsentStep ==
  ASSUME SettlementInv, NEW w \in Workers,
         ReadGame(w) \/ Receipt(w) \/ SettleThrows(w)
  PROVE  SettlementInv'
<1>1. SettlementTypeOK /\ RelayTypeOK
  BY DEF SettlementInv, SettlementTypeOK
<1>2. PICK t \in {"decide", "unregister", "release"} :
        /\ work' = [work EXCEPT ![w] = [work[w] EXCEPT !.stage = t]]
        /\ \/ work[w].stage = "read" /\ t # "release"
           \/ work[w].stage = "wait" /\ t = "unregister"
           \/ Locking(work[w]) /\ t = "release"
  <2>1. \A t : [work EXCEPT ![w].stage = t] = [work EXCEPT ![w] = [work[w] EXCEPT !.stage = t]]
    OBVIOUS
  <2> QED BY <2>1 DEF ReadGame, Receipt, SettleThrows
<1> DEFINE job == [work[w] EXCEPT !.stage = t]
<1>3. work[w] \in Work
  BY <1>1, <1>2, ActiveWork DEF Locking
<1>4. job \in Work
  BY <1>2, <1>3, WorkFields
<1>5. WorkFits(job, history[job.game])
  BY <1>3, <1>4, StageStep
<1>6. /\ UNCHANGED <<chain, history, onchain, posts, repairs, settled, authorized>>
      /\ registered' \subseteq Games /\ locked' \subseteq Games /\ sweep' \subseteq Games
      /\ txs' \subseteq Tx /\ txs' \ txs = {}
  BY <1>1 DEF relayVars, SettlementTypeOK, RelayTypeOK, ReadGame, Receipt, SettleThrows
<1>7. work' = [work EXCEPT ![w] = job]
  BY <1>2
<1> HIDE DEF job
<1> QED BY <1>4, <1>5, <1>6, <1>7, SettlerStep

LEMMA TakeLockStep ==
  ASSUME SettlementInv, NEW w \in Workers, TakeLock(w)
  PROVE  SettlementInv'
<1> DEFINE s == work[w]
           job(result) == [stage |-> "send", game |-> s.game, moves |-> s.moves, result |-> result]
<1>1. SettlementTypeOK /\ RelayTypeOK
  BY DEF SettlementInv, SettlementTypeOK
<1>2. s \in Work
  BY <1>1, ActiveWork DEF TakeLock
<1>3. s.game \in Games /\ s.moves \in Seq(MoveRecord) /\ s # Idle
  BY <1>2, WorkFields
<1>4. PICK result \in DeriveResult(s.moves) : work' = [work EXCEPT ![w] = job(result)]
  BY DEF TakeLock
<1>5. result \in Results
  BY DEF DeriveResult, SeatResult, Results
<1>6. job(result) \in Work
  BY <1>3, <1>5 DEF Work
<1>7. SnapshotFits(s.moves, history[s.game])
  BY <1>3 DEF SettlementInv, WorksFit, WorkFits
<1>8. WorkFits(job(result), history[job(result).game])
  BY <1>7 DEF WorkFits
<1>9. /\ UNCHANGED <<chain, history, onchain, posts, repairs, settled, authorized>>
      /\ registered' \subseteq Games /\ locked' \subseteq Games /\ sweep' \subseteq Games
      /\ txs' \subseteq Tx /\ txs' \ txs = {}
  BY <1>1, <1>3 DEF relayVars, SettlementTypeOK, RelayTypeOK, TakeLock
<1> HIDE DEF job
<1> QED BY <1>4, <1>6, <1>8, <1>9, SettlerStep

LEMMA SendStep ==
  ASSUME SettlementInv, NEW w \in Workers, Send(w)
  PROVE  SettlementInv'
<1> DEFINE s == work[w]
           t == IF isFastFinality(s.game) THEN "wait" ELSE "unregister"
           job == [s EXCEPT !.stage = t]
           tx == [game |-> s.game, result |-> s.result, by |-> w]
<1>1. SettlementTypeOK /\ RelayTypeOK /\ IInv
  BY DEF SettlementInv, SettlementTypeOK
<1>2. s \in Work /\ s # Idle /\ s.stage = "send"
  BY <1>1, ActiveWork DEF Send
<1>3. s.game \in Games /\ s.moves \in Seq(MoveRecord) /\ s.result \in Results
  BY <1>2, WorkFields
<1>4. job \in Work
  BY <1>2, WorkFields
<1>5. WorkFits(job, history[job.game])
  BY <1>2, <1>4, StageStep
<1>6. work' = [work EXCEPT ![w] = job]
  BY DEF Send
<1>7. EarnedIn(history[s.game], s.result, isFastFinality(s.game))
  <2>1. WorkFits(s, history[s.game])
    BY <1>2 DEF SettlementInv, WorksFit
  <2>2. history[s.game] \in Seq(MoveRecord)
    BY <1>1, <1>3 DEF RelayTypeOK
  <2>3. isFastFinality(s.game) => Alternates(history[s.game])
    BY <1>1, <1>3 DEF IInv, TurnsAlternate
  <2>4. isFastFinality(s.game) \in BOOLEAN
    BY DEF isFastFinality
  <2>5. SnapshotFits(s.moves, history[s.game]) /\ s.result \in DeriveResult(s.moves)
    BY <1>2, <2>1 DEF WorkFits
  <2> HIDE DEF s
  <2> QED BY <1>3, <2>2, <2>3, <2>4, <2>5, DerivedIsEarned
<1>8. tx \in Tx
  BY <1>3 DEF Tx
<1>9. txs' = txs \cup {tx}
  BY DEF Send
<1>10. \A x \in txs' \ txs : EarnedIn(history[x.game], x.result, isFastFinality(x.game))
  BY <1>7, <1>9
<1>11. txs' \subseteq Tx
  BY <1>1, <1>8, <1>9 DEF SettlementTypeOK
<1>12. /\ UNCHANGED <<chain, history, onchain, posts, repairs, settled, authorized>>
       /\ registered' \subseteq Games /\ locked' \subseteq Games /\ sweep' \subseteq Games
  BY <1>1 DEF relayVars, SettlementTypeOK, RelayTypeOK, Send
<1> HIDE DEF job, tx
<1> QED BY <1>4, <1>5, <1>6, <1>10, <1>11, <1>12, SettlerStep

(* The steps that end a settlement. *)
LEMMA EndedStep ==
  ASSUME SettlementInv, NEW w \in Workers,
         Refuse(w) \/ Release(w) \/ unregisterActiveGame(w) \/ SettleDies(w)
  PROVE  SettlementInv'
<1>1. SettlementTypeOK /\ RelayTypeOK
  BY DEF SettlementInv, SettlementTypeOK
<1>2. work' = [work EXCEPT ![w] = Idle]
  BY DEF Refuse, Release, unregisterActiveGame, SettleDies
<1>3. /\ UNCHANGED <<chain, history, onchain, posts, repairs, settled, authorized>>
      /\ registered' \subseteq Games /\ locked' \subseteq Games /\ sweep' \subseteq Games
      /\ txs' \subseteq Tx /\ txs' \ txs = {}
  BY <1>1 DEF relayVars, SettlementTypeOK, RelayTypeOK, Refuse, Release, unregisterActiveGame,
              SettleDies
<1> QED BY <1>2, <1>3, SettlerStep

(* The sweep, the lock's own expiry and the rotation of the key. *)
LEMMA AsideStep ==
  ASSUME SettlementInv,
         \/ StartSweep \/ SweepDies \/ RotateOracle
         \/ \E g \in Games : LockExpires(g)
  PROVE  SettlementInv'
<1>1. SettlementTypeOK /\ RelayTypeOK /\ Cron \in Workers
  BY DEF SettlementInv, SettlementTypeOK, Workers
<1>2. work' = work \/ work' = [work EXCEPT ![Cron] = Idle]
  BY DEF StartSweep, SweepDies, RotateOracle, LockExpires
<1>3. /\ work' \in [Workers -> Work \cup {Idle}]
      /\ \A w \in Workers : work'[w] \in {work[w], Idle}
  BY <1>1, <1>2 DEF SettlementTypeOK
<1>4. /\ UNCHANGED <<chain, history, onchain, posts, repairs, settled>>
      /\ registered' \subseteq Games /\ locked' \subseteq Games /\ sweep' \subseteq Games
      /\ txs' \subseteq Tx /\ txs' \ txs = {} /\ authorized' \in BOOLEAN
      /\ onchain' \in [Games -> {"absent", "waiting", "active", "closed"}]
  BY <1>1 DEF relayVars, SettlementTypeOK, RelayTypeOK, StartSweep, SweepDies, RotateOracle, LockExpires
<1> QED BY <1>3, <1>4, QuietStep

LEMMA ExecuteStep ==
  ASSUME SettlementInv, NEW tx \in txs, Execute(tx)
  PROVE  SettlementInv'
<1>1. SettlementTypeOK /\ RelayTypeOK /\ tx \in Tx
  BY DEF SettlementInv, SettlementTypeOK
<1>2. tx.game \in Games /\ tx.result \in Results
  BY <1>1 DEF Tx
<1>3. /\ onchain' \in [Games -> {"absent", "waiting", "active", "closed"}]
      /\ settled' \in [Games -> Results \cup {"none"}]
      /\ \A g \in Games : settled'[g] # settled[g] => g = tx.game /\ settled'[g] = tx.result
  BY <1>1, <1>2 DEF Execute, SettlementTypeOK, RelayTypeOK
<1>4. /\ UNCHANGED <<chain, history, registered, posts, repairs, locked, work, sweep, authorized>>
      /\ txs' \subseteq txs
  BY DEF Execute
<1>5. IInv'
  BY <1>3, <1>4 DEF SettlementInv, IInv, RelayTypeOK, PostsFit, RepairsFit, SignaturesHold,
                    TurnsAlternate, isFastFinality
<1>6. SettlementTypeOK'
  BY <1>1, <1>3, <1>4, <1>5 DEF SettlementTypeOK, IInv
<1>7. WorksFit' /\ TxsEarned'
  BY <1>4 DEF SettlementInv, WorksFit, TxsEarned, isFastFinality
<1>8. SettledEarned'
  <2>1. EarnedIn(history[tx.game], tx.result, isFastFinality(tx.game))
    BY DEF SettlementInv, TxsEarned
  <2> QED BY <1>3, <1>4, <2>1 DEF SettlementInv, SettledEarned, isFastFinality
<1> QED BY <1>5, <1>6, <1>7, <1>8 DEF SettlementInv

LEMMA ClockStep ==
  ASSUME SettlementInv, ClockRunsOut
  PROVE  SettlementInv'
<1>1. SettlementTypeOK /\ RelayTypeOK /\ IInv
  BY DEF SettlementInv, SettlementTypeOK
<1>2. /\ history' = [g \in Games |-> Aging(history[g])]
      /\ UNCHANGED <<chain, registered, onchain, posts, repairs, locked, sweep, txs, authorized, settled>>
  BY DEF ClockRunsOut
<1>3. \A g \in Games : history[g] \in Seq(MoveRecord) /\ history'[g] = Aging(history[g])
  BY <1>1, <1>2 DEF RelayTypeOK
<1>4. IInv'
  BY <1>1, <1>2, AgingStep
<1>5. \A w \in Workers : work[w] # Idle =>
        /\ work[w] \in Work /\ work[w].game \in Games /\ work[w].moves \in Seq(MoveRecord)
        /\ WorkFits(work[w], history[work[w].game])
        /\ work'[w] = [work[w] EXCEPT !.moves = Aging(work[w].moves)]
        /\ work'[w] \in Work /\ work'[w].stage = work[w].stage /\ work'[w].game = work[w].game
        /\ work'[w].moves = Aging(work[w].moves)
        /\ work[w].stage \in {"send", "wait"} => work'[w].result = work[w].result
  <2> SUFFICES ASSUME NEW w \in Workers, work[w] # Idle
               PROVE  /\ work[w] \in Work /\ work[w].game \in Games
                      /\ work[w].moves \in Seq(MoveRecord)
                      /\ WorkFits(work[w], history[work[w].game])
                      /\ work'[w] = [work[w] EXCEPT !.moves = Aging(work[w].moves)]
                      /\ work'[w] \in Work /\ work'[w].stage = work[w].stage
                      /\ work'[w].game = work[w].game
                      /\ work'[w].moves = Aging(work[w].moves)
                      /\ work[w].stage \in {"send", "wait"} => work'[w].result = work[w].result
    OBVIOUS
  <2> DEFINE s == work[w]
  <2>1. s \in Work
    BY <1>1 DEF SettlementTypeOK
  <2>2. s.game \in Games /\ s.moves \in Seq(MoveRecord) /\ WorkFits(s, history[s.game])
    BY <2>1, WorkFields DEF SettlementInv, WorksFit
  <2>3. Aging(s.moves) \in Seq(MoveRecord)
    BY <2>2, AgingFacts
  <2>4. work'[w] = [s EXCEPT !.moves = Aging(s.moves)]
    BY DEF ClockRunsOut
  <2>5. /\ work'[w] \in Work /\ work'[w].stage = s.stage /\ work'[w].game = s.game
        /\ work'[w].moves = Aging(s.moves)
        /\ s.stage \in {"send", "wait"} => work'[w].result = s.result
    BY <2>1, <2>3, <2>4 DEF Work
  <2> QED BY <2>1, <2>2, <2>4, <2>5
<1>6. \A w \in Workers : work[w] = Idle => work'[w] = Idle
  BY DEF ClockRunsOut
<1>7. SettlementTypeOK'
  <2>1. work' \in [Workers -> Work \cup {Idle}]
    BY <1>5, <1>6 DEF ClockRunsOut
  <2> QED BY <1>1, <1>2, <1>4, <2>1 DEF SettlementTypeOK, IInv
<1>8. WorksFit'
  <2> SUFFICES ASSUME NEW w \in Workers, work'[w] # Idle
               PROVE  WorkFits(work'[w], history'[work'[w].game])
    BY DEF WorksFit
  <2>1. work[w] # Idle
    BY <1>6
  <2>2. SnapshotFits(Aging(work[w].moves), Aging(history[work[w].game]))
    BY <1>3, <1>5, <2>1, AgingSnapshot DEF WorkFits
  <2>3. SnapshotFits(work'[w].moves, history'[work'[w].game])
    BY <1>3, <1>5, <2>1, <2>2
  <2>4. work'[w].stage \in {"send", "wait"} => work'[w].result \in DeriveResult(work'[w].moves)
    BY <1>5, <2>1, AgingDerives DEF WorkFits
  <2> QED BY <2>3, <2>4 DEF WorkFits
<1>9. \A g \in Games : \A result :
        EarnedIn(history[g], result, isFastFinality(g)) =>
          EarnedIn(history'[g], result, isFastFinality(g)')
  <2> SUFFICES ASSUME NEW g \in Games, NEW result, EarnedIn(history[g], result, isFastFinality(g))
               PROVE  EarnedIn(history'[g], result, isFastFinality(g)')
    OBVIOUS
  <2>1. isFastFinality(g) \in BOOLEAN /\ isFastFinality(g)' = isFastFinality(g)
    BY <1>2 DEF isFastFinality
  <2> QED BY <1>3, <2>1, AgingEarned
<1>10. TxsEarned'
  BY <1>1, <1>2, <1>9 DEF SettlementInv, TxsEarned, SettlementTypeOK, Tx
<1>11. SettledEarned'
  BY <1>2, <1>9 DEF SettlementInv, SettledEarned
<1> QED BY <1>4, <1>7, <1>8, <1>10, <1>11 DEF SettlementInv

LEMMA RelayStep ==
  ASSUME SettlementInv, RepairsApart, [RelayOp]_relayVars, UNCHANGED settleVars
  PROVE  SettlementInv'
<1>1. SettlementTypeOK /\ RelayTypeOK /\ IInv
  BY DEF SettlementInv, SettlementTypeOK
<1>2. IInv'
  BY <1>1, StepIInv
<1>3. UNCHANGED <<locked, work, sweep, txs, authorized, settled, chain>>
  BY DEF settleVars, RelayOp, relayVars
<1>4. SettlementTypeOK'
  BY <1>1, <1>2, <1>3 DEF SettlementTypeOK, IInv
<1>5. WorksFit'
  <2> SUFFICES ASSUME NEW w \in Workers, work[w] # Idle
               PROVE  WorkFits(work[w], history'[work[w].game])
    BY <1>3 DEF WorksFit
  <2>1. work[w].game \in Games /\ work[w].moves \in Seq(MoveRecord)
    BY <1>1, WorkFields DEF SettlementTypeOK
  <2> QED BY <1>1, <2>1, RelayKeepsSnapshots DEF SettlementInv, WorksFit, WorkFits
<1>6. \A g \in Games : \A result :
        EarnedIn(history[g], result, isFastFinality(g)) =>
          EarnedIn(history'[g], result, isFastFinality(g)')
  <2> SUFFICES ASSUME NEW g \in Games, NEW result, EarnedIn(history[g], result, isFastFinality(g))
               PROVE  EarnedIn(history'[g], result, isFastFinality(g)')
    OBVIOUS
  <2>1. isFastFinality(g) \in BOOLEAN /\ isFastFinality(g)' = isFastFinality(g)
    BY <1>3 DEF isFastFinality
  <2> QED BY <1>1, <2>1, RelayKeepsEarned
<1>7. TxsEarned'
  BY <1>1, <1>3, <1>6 DEF SettlementInv, TxsEarned, SettlementTypeOK, Tx
<1>8. SettledEarned'
  BY <1>3, <1>6 DEF SettlementInv, SettledEarned
<1> QED BY <1>2, <1>4, <1>5, <1>7, <1>8 DEF SettlementInv

LEMMA SettlementInit == Init => SettlementInv
<1> SUFFICES ASSUME Init PROVE SettlementInv
  OBVIOUS
<1>1. IInv
  BY InitIInv DEF Init
<1>2. SettlementTypeOK
  BY <1>1 DEF Init, SettlementTypeOK, IInv
<1> QED BY <1>1, <1>2 DEF Init, SettlementInv, WorksFit, TxsEarned, SettledEarned

LEMMA SettlementNext ==
  ASSUME SettlementInv, RepairsApart, [Next]_vars
  PROVE  SettlementInv'
<1>1. CASE UNCHANGED vars
  BY <1>1, RelayStep DEF vars
<1>2. CASE RelayOp /\ UNCHANGED settleVars
  BY <1>2, RelayStep
<1>3. ASSUME NEW w \in Workers, SettleStep(w) \/ SettleDies(w)
      PROVE  SettlementInv'
  BY <1>3, UnsentStep, TakeLockStep, SendStep, EndedStep DEF SettleStep
<1>4. ASSUME NEW w \in Settlers, NEW g \in Games, SettleRoute(w, g)
      PROVE  SettlementInv'
  <2>1. w \in Workers /\ GetMoves(w, g)
    BY <1>4 DEF SettleRoute, Workers
  <2>2. UNCHANGED <<relayVars, locked, sweep, txs, authorized, settled>> /\ sweep' \subseteq Games
    BY <1>4 DEF SettleRoute, SettlementInv, SettlementTypeOK
  <2> QED BY <2>1, <2>2, GetMovesStep
<1>5. ASSUME NEW g \in Games, SweepNext(g)
      PROVE  SettlementInv'
  <2>1. Cron \in Workers /\ GetMoves(Cron, g)
    BY <1>5 DEF SweepNext, Workers
  <2>2. UNCHANGED <<relayVars, locked, txs, authorized, settled>> /\ sweep' \subseteq Games
    BY <1>5 DEF SweepNext, SettlementInv, SettlementTypeOK
  <2> QED BY <2>1, <2>2, GetMovesStep
<1>6. CASE StartSweep \/ SweepDies \/ RotateOracle \/ \E g \in Games : LockExpires(g)
  BY <1>6, AsideStep
<1>7. ASSUME NEW tx \in txs, Execute(tx)
      PROVE  SettlementInv'
  BY <1>7, ExecuteStep
<1>8. CASE ClockRunsOut
  BY <1>8, ClockStep
<1> QED BY <1>1, <1>2, <1>3, <1>4, <1>5, <1>6, <1>7, <1>8 DEF Next

(* The settlement's types hold, what it read before its awaits stays true  *)
(* of the stored history, and whatever it sends has been earned.           *)
THEOREM SettlementInvariant == Spec /\ []RepairsApart => []SettlementInv
<1>1. SettlementInv /\ RepairsApart /\ [Next]_vars => SettlementInv'
  BY SettlementNext
<1> QED BY <1>1, SettlementInit, PTL DEF Spec

(* The oracle pays whoever earned it, over every await between the reading *)
(* of the moves and the execution of the transaction, while handlers post, *)
(* repairs trim, other settlements race and the clock runs, as long as no  *)
(* two repairs of one list overlap.                                        *)
THEOREM OraclePaysTheWinner == Spec /\ []RepairsApart => []ResultIsEarned
<1>1. SettlementInv => ResultIsEarned
  <2> SUFFICES ASSUME SettlementInv PROVE ResultIsEarned
    OBVIOUS
  <2> SUFFICES ASSUME NEW g \in Games, settled[g] # "none"
               PROVE  \E n \in 1..Len(history[g]) :
                        LET h == SubSeq(history[g], 1, n)
                            winner == IF isFastFinality(g) THEN Last(h).player ELSE SideToMove(n - 1)
                        IN  IF settled[g] = "draw" THEN Line(h) \in Drawn
                            ELSE settled[g] = SeatResult(winner) /\ (Line(h) \in Mated \/ Last(h).old)
    BY Zenon DEF ResultIsEarned
  <2>1. PICK n \in 1..Len(history[g]) :
          Supports(SubSeq(history[g], 1, n), settled[g], isFastFinality(g))
    BY DEF SettlementInv, SettledEarned, EarnedIn
  <2>2. history[g] \in Seq(MoveRecord) /\ Len(history[g]) \in Nat
    BY LenProperties DEF SettlementInv, SettlementTypeOK, RelayTypeOK
  <2>3. n \in 0..Len(history[g])
    BY <2>1, <2>2
  <2>4. Len(SubSeq(history[g], 1, n)) = n
    BY <2>2, <2>3, PrefixFacts
  <2> QED BY <2>1, <2>4 DEF Supports
<1> QED BY <1>1, SettlementInvariant, PTL

-----------------------------------------------------------------------------
(* However many repairs run, the types hold *)

LEMMA SettlerTypes ==
  ASSUME SettlementTypeOK, NEW w \in Workers, NEW job \in Work \cup {Idle},
         work' = [work EXCEPT ![w] = job],
         UNCHANGED <<chain, history, onchain, posts, repairs, settled, authorized>>,
         registered' \subseteq Games, locked' \subseteq Games, sweep' \subseteq Games,
         txs' \subseteq Tx
  PROVE  SettlementTypeOK'
BY DEF SettlementTypeOK, RelayTypeOK

LEMMA SettleTypes ==
  ASSUME SettlementTypeOK, NEW w \in Workers, SettleStep(w) \/ SettleDies(w)
  PROVE  SettlementTypeOK'
<1> DEFINE s == work[w]
<1>1. /\ UNCHANGED <<chain, history, onchain, posts, repairs, settled, authorized>>
      /\ sweep' \subseteq Games /\ registered' \subseteq Games
  BY DEF SettleStep, SettleDies, ReadGame, TakeLock, Refuse, Send, Receipt, SettleThrows, Release,
         unregisterActiveGame, relayVars, SettlementTypeOK, RelayTypeOK
<1>2. CASE Refuse(w) \/ Release(w) \/ unregisterActiveGame(w) \/ SettleDies(w)
  BY <1>1, <1>2, SettlerTypes
     DEF Refuse, Release, unregisterActiveGame, SettleDies, SettlementTypeOK
<1>3. CASE ReadGame(w) \/ Receipt(w) \/ SettleThrows(w)
  <2>1. PICK t \in {"decide", "unregister", "release"} :
          /\ work' = [work EXCEPT ![w] = [s EXCEPT !.stage = t]]
          /\ \/ s.stage = "read" /\ t # "release"
             \/ s.stage = "wait" /\ t = "unregister"
             \/ Locking(s) /\ t = "release"
    BY <1>3 DEF ReadGame, Receipt, SettleThrows
  <2>2. [s EXCEPT !.stage = t] \in Work
    BY <2>1, ActiveWork, WorkFields DEF Locking
  <2>3. locked' \subseteq Games /\ txs' \subseteq Tx
    BY <1>3 DEF ReadGame, Receipt, SettleThrows, SettlementTypeOK
  <2> QED BY <1>1, <2>1, <2>2, <2>3, SettlerTypes
<1>4. CASE TakeLock(w)
  <2>1. s \in Work /\ s.game \in Games /\ s.moves \in Seq(MoveRecord)
    BY <1>4, ActiveWork, WorkFields DEF TakeLock
  <2>2. PICK result \in DeriveResult(s.moves) :
          work' = [work EXCEPT ![w] = [stage |-> "send", game |-> s.game,
                                       moves |-> s.moves, result |-> result]]
    BY <1>4 DEF TakeLock
  <2>3. result \in Results
    BY DEF DeriveResult, SeatResult, Results
  <2>4. [stage |-> "send", game |-> s.game, moves |-> s.moves, result |-> result] \in Work
    BY <2>1, <2>3 DEF Work
  <2>5. locked' \subseteq Games /\ txs' \subseteq Tx
    BY <1>4, <2>1 DEF TakeLock, SettlementTypeOK
  <2> QED BY <1>1, <2>2, <2>4, <2>5, SettlerTypes
<1>5. CASE Send(w)
  <2> DEFINE t == IF isFastFinality(s.game) THEN "wait" ELSE "unregister"
  <2>1. s \in Work /\ s.game \in Games /\ s.result \in Results /\ s.stage = "send"
    BY <1>5, ActiveWork, WorkFields DEF Send
  <2>2. [s EXCEPT !.stage = t] \in Work
    BY <2>1, WorkFields
  <2>3. locked' \subseteq Games /\ txs' \subseteq Tx
    BY <1>5, <2>1 DEF Send, SettlementTypeOK, Tx
  <2>4. work' = [work EXCEPT ![w] = [s EXCEPT !.stage = t]]
    BY <1>5 DEF Send
  <2> HIDE DEF t
  <2> QED BY <1>1, <2>2, <2>3, <2>4, SettlerTypes
<1> QED BY <1>2, <1>3, <1>4, <1>5 DEF SettleStep

LEMMA ClockTypes ==
  ASSUME SettlementTypeOK, ClockRunsOut
  PROVE  /\ SettlementTypeOK'
         /\ \A w \in Workers : /\ work'[w].stage = work[w].stage
                               /\ work[w] # Idle => work'[w].game = work[w].game
<1>1. ASSUME NEW w \in Workers, work[w] # Idle
      PROVE  /\ work'[w] \in Work /\ work'[w].stage = work[w].stage
             /\ work'[w].game = work[w].game
  <2>1. work[w] \in Work /\ work[w].moves \in Seq(MoveRecord)
    BY <1>1, WorkFields DEF SettlementTypeOK
  <2>2. Aging(work[w].moves) \in Seq(MoveRecord)
    BY <2>1, AgingFacts
  <2>3. work'[w] = [work[w] EXCEPT !.moves = Aging(work[w].moves)]
    BY <1>1 DEF ClockRunsOut
  <2> QED BY <2>1, <2>2, <2>3 DEF Work
<1>2. \A w \in Workers : work[w] = Idle => work'[w] = Idle
  BY DEF ClockRunsOut
<1>3. work' \in [Workers -> Work \cup {Idle}]
  BY <1>1, <1>2 DEF ClockRunsOut
<1>4. history' \in [Games -> Seq(MoveRecord)]
  <2>1. \A g \in Games : Aging(history[g]) \in Seq(MoveRecord)
    BY AgingFacts DEF SettlementTypeOK, RelayTypeOK
  <2> QED BY <2>1 DEF ClockRunsOut
<1>5. SettlementTypeOK'
  BY <1>3, <1>4 DEF ClockRunsOut, SettlementTypeOK, RelayTypeOK
<1> QED BY <1>1, <1>2, <1>5

LEMMA TypesStep ==
  ASSUME SettlementTypeOK, TurnsInv, [Next]_vars
  PROVE  SettlementTypeOK' /\ TurnsInv'
<1> USE DEF SettlementTypeOK
<1>1. ASSUME UNCHANGED <<chain, history, posts, repairs>>, RelayTypeOK'
      PROVE  TurnsInv'
  BY <1>1 DEF TurnsInv, PostsInTurn, TurnsAlternate, isFastFinality
<1>2. CASE (RelayOp /\ UNCHANGED settleVars) \/ UNCHANGED vars
  <2>1. [RelayOp]_relayVars /\ UNCHANGED settleVars
    BY <1>2 DEF vars
  <2>2. TurnsInv'
    BY <2>1, TurnsStep
  <2> QED BY <2>1, <2>2 DEF settleVars, TurnsInv
<1>3. ASSUME NEW w \in Workers, SettleStep(w) \/ SettleDies(w)
      PROVE  SettlementTypeOK' /\ TurnsInv'
  <2>1. SettlementTypeOK'
    BY <1>3, SettleTypes
  <2>2. UNCHANGED <<chain, history, posts, repairs>>
    BY <1>3 DEF SettleStep, SettleDies, ReadGame, TakeLock, Refuse, Send, Receipt, SettleThrows,
                Release, unregisterActiveGame, relayVars
  <2> QED BY <1>1, <2>1, <2>2
<1>4. ASSUME NEW w \in Workers, NEW g \in Games, GetMoves(w, g), sweep' \subseteq Games,
             UNCHANGED <<relayVars, locked, txs, authorized, settled>>
      PROVE  SettlementTypeOK' /\ TurnsInv'
  <2>1. [stage |-> "read", game |-> g, moves |-> history[g]] \in Work
    BY DEF RelayTypeOK, Work
  <2>2. UNCHANGED <<chain, history, registered, onchain, posts, repairs>>
    BY <1>4 DEF relayVars
  <2>3. registered' \subseteq Games /\ locked' \subseteq Games /\ txs' \subseteq Tx
    BY <1>4, <2>2 DEF RelayTypeOK
  <2>4. SettlementTypeOK'
    BY <1>4, <2>1, <2>2, <2>3, SettlerTypes DEF GetMoves
  <2> QED BY <1>1, <2>2, <2>4
<1>5. CASE \E w \in Settlers, g \in Games : SettleRoute(w, g)
  BY <1>4, <1>5 DEF SettleRoute, Workers
<1>6. CASE \E g \in Games : SweepNext(g)
  BY <1>4, <1>6 DEF SweepNext, Workers
<1>7. CASE StartSweep \/ SweepDies \/ RotateOracle \/ \E g \in Games : LockExpires(g)
  <2>1. UNCHANGED relayVars /\ Cron \in Workers
    BY <1>7 DEF StartSweep, SweepDies, RotateOracle, LockExpires, Workers
  <2>2. work' = work \/ work' = [work EXCEPT ![Cron] = Idle]
    BY <1>7 DEF StartSweep, SweepDies, RotateOracle, LockExpires
  <2>3. work' \in [Workers -> Work \cup {Idle}]
    BY <2>1, <2>2
  <2>4. SettlementTypeOK'
    BY <1>7, <2>1, <2>3
       DEF StartSweep, SweepDies, RotateOracle, LockExpires, relayVars, RelayTypeOK
  <2> QED BY <1>1, <2>1, <2>4 DEF relayVars
<1>8. ASSUME NEW tx \in txs, Execute(tx)
      PROVE  SettlementTypeOK' /\ TurnsInv'
  <2>1. tx.game \in Games /\ tx.result \in Results
    BY DEF Tx
  <2>2. SettlementTypeOK'
    BY <1>8, <2>1 DEF Execute, RelayTypeOK
  <2> QED BY <1>1, <1>8, <2>2 DEF Execute
<1>9. CASE ClockRunsOut
  <2>1. SettlementTypeOK'
    BY <1>9, ClockTypes
  <2>2. \A g \in Games : Alternates(history[g]) => Alternates(history'[g])
    BY <1>9, AgingKeeps DEF ClockRunsOut, RelayTypeOK
  <2>3. TurnsAlternate'
    BY <1>9, <2>2 DEF TurnsInv, TurnsAlternate, ClockRunsOut, isFastFinality
  <2> QED BY <1>9, <2>1, <2>3 DEF TurnsInv, PostsInTurn, ClockRunsOut, isFastFinality
<1> QED BY <1>2, <1>3, <1>5, <1>6, <1>7, <1>8, <1>9 DEF Next

(* Whatever settlements, sweeps, repairs and handlers do to each other,    *)
(* the state has its types and no stored move is out of turn.              *)
THEOREM SettlementTypes == Spec => [](SettlementTypeOK /\ TurnsAlternate)
<1>1. Init => SettlementTypeOK /\ TurnsInv
  BY TurnsInit DEF Init, SettlementTypeOK, TurnsInv
<1>2. SettlementTypeOK /\ TurnsInv /\ [Next]_vars => SettlementTypeOK' /\ TurnsInv'
  BY TypesStep
<1>3. TurnsInv => TurnsAlternate
  BY DEF TurnsInv
<1> QED BY <1>1, <1>2, <1>3, PTL DEF Spec

-----------------------------------------------------------------------------
(* The lock, while it outlives its holder *)

HoldsLock(w) == Locking(work[w]) \/ work[w].stage = "release"

(* No lock runs out under a settlement that is still sending, waiting for  *)
(* its receipt, unregistering or about to release: the 120 seconds are     *)
(* enough.                                                                 *)
LockOutlives ==
  \A g \in Games : LockExpires(g) => \A w \in Workers : HoldsLock(w) => work[w].game # g

(* Whoever holds the lock of a game has it set, and nobody else holds it.  *)
LocksHeld ==
  /\ \A w \in Workers : HoldsLock(w) => work[w].game \in locked
  /\ \A v, w \in Workers :
       v # w /\ HoldsLock(v) /\ HoldsLock(w) => work[v].game # work[w].game

(* A step in which only w moves on and no lock but its own may go.         *)
LEMMA HolderMoves ==
  ASSUME SettlementTypeOK, LocksHeld, NEW w \in Workers,
         \A v \in Workers : v # w => work'[v] = work[v],
         HoldsLock(w)' => HoldsLock(w) /\ work'[w].game = work[w].game /\ locked \subseteq locked',
         HoldsLock(w) /\ ~HoldsLock(w)' => locked \ {work[w].game} \subseteq locked',
         ~HoldsLock(w) => locked \subseteq locked'
  PROVE  LocksHeld'
<1>1. \A v \in Workers : v # w => (HoldsLock(v)' <=> HoldsLock(v))
  BY DEF HoldsLock
<1>2. \A v \in Workers : HoldsLock(v)' =>
        /\ HoldsLock(v) /\ work'[v].game = work[v].game
        /\ work[v].game \in locked'
  BY <1>1 DEF LocksHeld
<1> QED BY <1>2 DEF LocksHeld

LEMMA TakenLock ==
  ASSUME SettlementTypeOK, LocksHeld, NEW w \in Workers, TakeLock(w)
  PROVE  LocksHeld'
<1>1. /\ ~HoldsLock(w) /\ work[w].game \notin locked
      /\ locked' = locked \cup {work[w].game}
  BY DEF TakeLock, HoldsLock, Locking
<1>2. /\ work'[w].game = work[w].game
      /\ \A v \in Workers : v # w => work'[v] = work[v]
  BY DEF TakeLock, SettlementTypeOK
<1>3. \A v \in Workers : v # w /\ HoldsLock(v)' =>
        HoldsLock(v) /\ work'[v].game = work[v].game /\ work[v].game \in locked
  BY <1>2 DEF LocksHeld, HoldsLock
<1> QED BY <1>1, <1>2, <1>3 DEF LocksHeld

LEMMA LocksStep ==
  ASSUME SettlementTypeOK, LocksHeld, [Next]_vars, [LockOutlives]_vars
  PROVE  LocksHeld'
<1>1. ASSUME UNCHANGED <<locked, work>>
      PROVE  LocksHeld'
  BY <1>1 DEF LocksHeld, HoldsLock
<1>2. CASE \/ RelayOp /\ UNCHANGED settleVars
           \/ StartSweep \/ RotateOracle \/ \E tx \in txs : Execute(tx)
  BY <1>1, <1>2 DEF settleVars, StartSweep, RotateOracle, Execute
<1>3. ASSUME NEW w \in Workers, SettleStep(w) \/ SettleDies(w)
      PROVE  LocksHeld'
  <2>1. \A v \in Workers : v # w => work'[v] = work[v]
    BY <1>3 DEF SettleStep, SettleDies, ReadGame, TakeLock, Refuse, Send, Receipt, SettleThrows,
                Release, unregisterActiveGame, SettlementTypeOK
  <2>2. CASE TakeLock(w)
    BY <2>2, TakenLock
  <2>3. CASE Refuse(w) \/ Release(w) \/ unregisterActiveGame(w) \/ SettleDies(w)
    <3>1. work'[w] = Idle
      BY <2>3 DEF Refuse, Release, unregisterActiveGame, SettleDies, SettlementTypeOK
    <3>2. /\ ~HoldsLock(w)'
          /\ locked \ {work[w].game} \subseteq locked'
          /\ ~HoldsLock(w) => locked \subseteq locked'
      BY <2>3, <3>1 DEF Refuse, Release, unregisterActiveGame, SettleDies, HoldsLock, Locking, Idle
    <3> QED BY <2>1, <3>2, HolderMoves
  <2>4. CASE ReadGame(w) \/ Send(w) \/ Receipt(w) \/ SettleThrows(w)
    <3>1. UNCHANGED locked
      BY <2>4 DEF ReadGame, Send, Receipt, SettleThrows
    <3>2. work[w] \in Work
      BY <2>4, ActiveWork DEF ReadGame, Send, Receipt, SettleThrows, Locking
    <3>3. PICK t : /\ work' = [work EXCEPT ![w] = [work[w] EXCEPT !.stage = t]]
                   /\ \/ work[w].stage = "read" /\ t \in {"decide", "unregister"}
                      \/ Locking(work[w])
      BY <2>4 DEF ReadGame, Send, Receipt, SettleThrows, Locking
    <3>4. work'[w] = [work[w] EXCEPT !.stage = t]
      BY <3>3 DEF SettlementTypeOK
    <3>5. work'[w].stage = t /\ work'[w].game = work[w].game
      BY <3>2, <3>4 DEF Work
    <3>6. HoldsLock(w)' => HoldsLock(w)
      <4>1. work[w].stage = "read" => "result" \notin DOMAIN work[w]
        BY <3>2 DEF Work
      <4>2. DOMAIN work'[w] = DOMAIN work[w]
        BY <3>4
      <4> QED BY <3>3, <3>5, <4>1, <4>2 DEF HoldsLock, Locking
    <3> QED BY <2>1, <3>1, <3>5, <3>6, HolderMoves
  <2> QED BY <1>3, <2>2, <2>3, <2>4 DEF SettleStep
<1>4. ASSUME NEW w \in Workers, NEW g \in Games, GetMoves(w, g), UNCHANGED locked
      PROVE  LocksHeld'
  <2>1. /\ work'[w].stage = "read" /\ \A v \in Workers : v # w => work'[v] = work[v]
    BY <1>4 DEF GetMoves, SettlementTypeOK
  <2> QED BY <1>4, <2>1, HolderMoves DEF HoldsLock, Locking
<1>5. CASE \E w \in Settlers, g \in Games : SettleRoute(w, g)
  BY <1>4, <1>5 DEF SettleRoute, Workers
<1>6. CASE \E g \in Games : SweepNext(g)
  BY <1>4, <1>6 DEF SweepNext, Workers
<1>7. CASE SweepDies
  <2>1. Cron \in Workers
    BY DEF Workers
  <2>2. /\ UNCHANGED locked /\ work'[Cron].stage = "idle"
        /\ \A v \in Workers : v # Cron => work'[v] = work[v]
    BY <1>7, <2>1 DEF SweepDies, SettlementTypeOK, Idle
  <2> QED BY <2>1, <2>2, HolderMoves DEF HoldsLock, Locking
<1>8. ASSUME NEW g \in Games, LockExpires(g)
      PROVE  LocksHeld'
  <2>1. UNCHANGED work /\ locked' = locked \ {g} /\ g \in locked
    BY <1>8 DEF LockExpires
  <2>2. LockOutlives
    BY <2>1 DEF vars, settleVars
  <2>3. \A w \in Workers : HoldsLock(w) => work[w].game # g
    BY <1>8, <2>2 DEF LockOutlives
  <2> QED BY <2>1, <2>3 DEF LocksHeld, HoldsLock
<1>9. CASE ClockRunsOut
  <2>1. \A w \in Workers : /\ work'[w].stage = work[w].stage
                           /\ work[w] # Idle => work'[w].game = work[w].game
    BY <1>9, ClockTypes
  <2>2. \A w \in Workers : HoldsLock(w) => work[w] # Idle
    BY DEF HoldsLock, Locking, Idle
  <2>3. UNCHANGED locked
    BY <1>9 DEF ClockRunsOut
  <2>4. \A w \in Workers : DOMAIN work'[w] = DOMAIN work[w]
    BY <1>9 DEF ClockRunsOut, SettlementTypeOK
  <2>5. \A w \in Workers : HoldsLock(w)' <=> HoldsLock(w)
    BY <2>1, <2>4 DEF HoldsLock, Locking
  <2> QED BY <2>1, <2>2, <2>3, <2>5 DEF LocksHeld
<1>10. CASE UNCHANGED vars
  BY <1>1, <1>10 DEF vars, settleVars
<1>11. CASE Next
  BY <1>2, <1>3, <1>5, <1>6, <1>7, <1>8, <1>9, <1>11 DEF Next
<1> QED BY <1>10, <1>11

(* The lock does what the comment in settle-game.ts says as long as it     *)
(* outlives its holder: with the expiry of a lock in use ruled out, no two *)
(* settlements send or wait for the same game, whatever dies, throws or    *)
(* times out, however many settlements and sweeps run.  So the expiry is   *)
(* the only cause of the race that the run of LockExclusive shows.         *)
THEOREM LockExcludes == Spec /\ [][LockOutlives]_vars => []LockExclusive
<1>1. Init => LocksHeld
  BY DEF Init, LocksHeld, HoldsLock, Locking, Idle
<1>2. SettlementTypeOK /\ LocksHeld /\ [Next]_vars /\ [LockOutlives]_vars => LocksHeld'
  BY LocksStep
<1>3. LocksHeld => LockExclusive
  BY DEF LocksHeld, LockExclusive, HoldsLock, Locking
<1> QED BY <1>1, <1>2, <1>3, SettlementTypes, PTL DEF Spec
=============================================================================
