----------------------------- MODULE SyncProofs -----------------------------
(***************************************************************************)
(* Two boards over the relay.  On every chain, for any moves and any       *)
(* length of game, what a browser shows is the relay's list but for its    *)
(* own move on its way, and the two browsers never read different results  *)
(* off their boards.                                                       *)
(***************************************************************************)
EXTENDS MoveSync, SequenceTheorems, TLAPS

(* The first moves of a list or a line, place by place.                    *)
Part(some, all) == Len(some) <= Len(all) /\ \A i \in 1..Len(some) : some[i] = all[i]
ShownPart(sans, n, list) == n <= Len(list) /\ \A i \in 1..n : sans[i] = list[i].san

(* LegalLine, place by place, of a line and of the moves of a list.        *)
LegalSans(sans) ==
  /\ Len(sans) <= GamePlies
  /\ \A i \in 1..Len(sans) :
       sans[i] \in MovesOf(SideAfter(i - 1)) /\ (i > 1 => sans[i - 1] \notin DrawingMoves)
LegalList(list) ==
  /\ Len(list) <= GamePlies
  /\ \A i \in 1..Len(list) :
       list[i].san \in MovesOf(SideAfter(i - 1)) /\ (i > 1 => list[i - 1].san \notin DrawingMoves)

TakesTurns(list) == \A i \in 1..Len(list) : list[i].by = SideAfter(i - 1)

SyncTyped ==
  /\ activeChain \in {"celo", "base", "stacks"}
  /\ relayList \in Lists /\ aged \in Nat
  /\ held \in [BothSides -> Lists] /\ line \in [BothSides -> Seq(Sans)]
  /\ posts \in [BothSides -> SUBSET Post] /\ polls \in [BothSides -> SUBSET Lists]
  /\ clockRanOut \in [BothSides -> BOOLEAN] /\ troubled \in BOOLEAN

(* The relay's list is a game in which the players take turns, on every    *)
(* chain.                                                                  *)
RelayGood(relay) == LegalList(relay) /\ TakesTurns(relay) /\ \A i \in 1..Len(relay) : relay[i].at = i

(* What comes back from the relay has been there.                          *)
Relayed(list, relay) == list # <<>> /\ Part(list, relay)

(* A post on stacks, which the relay would store whoever's turn it is, is  *)
(* for a place of its player's.                                            *)
PostGood(chain, post, c, relay) ==
  /\ post.number >= 1
  /\ post.stage = "stored" => Relayed(post.answer, relay) /\ post.answer[Len(post.answer)].by = c
  /\ post.stage = "conflict" => Relayed(post.answer, relay)
  /\ chain = "stacks" /\ post.stage \in {"signing", "sent"} =>
       SideAfter(post.number - 1) = c /\ post.number - 1 <= Len(relay)

(* A browser's list starts like the relay's; what follows are own moves.   *)
Starts(list, c, relay, k) ==
  /\ k <= Len(relay) /\ \A i \in 1..k : list[i] = relay[i]
  /\ \A i \in k + 1..Len(list) : list[i].by = c
  /\ k >= 1 \/ c = "white"
HeldGood(list, c, relay) ==
  /\ \A i \in 1..Len(list) : list[i].at \in 1..Len(relay) /\ list[i] = relay[list[i].at]
  /\ list # <<>> => \E k \in 0..Len(list) : Starts(list, c, relay, k)

ReplayFits(chain, list) == list # <<>> /\ LegalList(list) /\ (chain # "celo" => TakesTurns(list))

GameEnded(sans) == Len(sans) = GamePlies \/ (Len(sans) >= 1 /\ sans[Len(sans)] \in DrawingMoves)

(* Before the first list arrives.                                          *)
FirstMove(c, list, sans, sent) ==
  list = <<>> => IF c = "white" THEN Len(sans) <= 1 ELSE sans = <<>> /\ sent = {}

(* On base and stacks the board shows the list, or has nothing to move.    *)
BoardFollows(chain, c, list, sans) ==
  chain # "celo" =>
    /\ ReplayFits(chain, list) => sans = SansOf(list)
    /\ list # <<>> /\ ~ReplayFits(chain, list) => GameEnded(sans) \/ SideAfter(Len(sans)) # c

BoardGood(chain, c, list, sans, relay) ==
  \/ ShownPart(sans, Len(sans), relay)
  \/ Len(sans) >= 1 /\ ShownPart(sans, Len(sans) - 1, relay) /\ SideAfter(Len(sans) - 1) = c
  \/ chain = "celo" /\ TwiceInARow(list)

(* A quiet browser whose list is the relay's shows it.                     *)
Quiet(bad, sent, list, sans, relay) == ~bad /\ sent = {} /\ Part(list, relay) => sans = SansOf(list)

(* A clock runs out for the opponent's move after the last one listed.     *)
ClockGood(bad, out, list, relay, old, c) ==
  ~bad /\ out /\ Part(list, relay) => Len(list) <= old /\ SideAfter(Len(list)) # c

Browser(c) ==
  /\ \A list \in polls[c] : Relayed(list, relayList)
  /\ \A post \in posts[c] : PostGood(activeChain, post, c, relayList)
  /\ HeldGood(held[c], c, relayList)
  /\ FirstMove(c, held[c], line[c], posts[c])
  /\ BoardFollows(activeChain, c, held[c], line[c])
  /\ BoardGood(activeChain, c, held[c], line[c], relayList)
  /\ Quiet(troubled, posts[c], held[c], line[c], relayList)
  /\ ClockGood(troubled, clockRanOut[c], held[c], relayList, aged, c)

SyncInv ==
  /\ SyncTyped /\ RelayGood(relayList) /\ aged <= Len(relayList)
  /\ \A c \in BothSides : Browser(c)

-----------------------------------------------------------------------------
LEMMA Alternates ==
  /\ SideAfter(0) = "white" /\ \A n \in Nat : SideAfter(n) \in BothSides
  /\ \A n \in Nat : SideAfter(n + 1) = OtherSeat(SideAfter(n)) /\ SideAfter(n + 1) # SideAfter(n)
  /\ \A n \in Nat \ {0} : SideAfter(n) # SideAfter(n - 1)
BY DEF SideAfter, OtherSeat, BothSides

LEMMA LegalLineIs ==
  ASSUME NEW sans \in Seq(Sans)
  PROVE  LegalLine(sans) <=> LegalSans(sans)
<1>1. DOMAIN sans = 1..Len(sans)
  OBVIOUS
<1>2. ASSUME NEW i \in 1..Len(sans), i > 1, Len(sans) <= GamePlies
      PROVE  Finished(SubSeq(sans, 1, i - 1)) <=> sans[i - 1] \in DrawingMoves
  <2> DEFINE part == SubSeq(sans, 1, i - 1)
  <2>1. i - 1 \in 1..Len(sans) /\ i - 1 < Len(sans)
    BY <1>2
  <2>2. part \in Seq(Sans) /\ Len(part) = i - 1 /\ part[i - 1] = sans[i - 1]
    BY <2>1, SubSeqProperties
  <2>3. part # <<>> /\ Last(part) = sans[i - 1]
    BY <2>1, <2>2 DEF Last
  <2>4. Len(part) # GamePlies
    BY <2>1, <2>2, <1>2, SyncAssumption
  <2> QED
    BY <2>3, <2>4 DEF Finished
<1> QED
  BY <1>1, <1>2 DEF LegalLine, LegalSans

LEMMA SansOfIs ==
  ASSUME NEW list \in Lists
  PROVE  /\ SansOf(list) \in Seq(Sans) /\ Len(SansOf(list)) = Len(list)
         /\ \A i \in 1..Len(list) : SansOf(list)[i] = list[i].san
<1>1. DOMAIN list = 1..Len(list) /\ Len(list) \in Nat
  BY DEF Lists
<1>2. \A i \in 1..Len(list) : list[i] \in Listed
  BY ElementOfSeq DEF Lists
<1>3. \A i \in 1..Len(list) : list[i].san \in Sans
  BY <1>2 DEF Listed
<1> QED
  BY <1>1, <1>3 DEF SansOf

LEMMA ReplayableIs ==
  ASSUME NEW list \in Lists, NEW chain, chain = activeChain
  PROVE  Replayable(list) <=> ReplayFits(chain, list)
<1>1. LegalLine(SansOf(list)) <=> LegalList(list)
  <2>1. LegalLine(SansOf(list)) <=> LegalSans(SansOf(list))
    BY SansOfIs, LegalLineIs
  <2>2. LegalSans(SansOf(list)) <=> LegalList(list)
    BY SansOfIs DEF LegalSans, LegalList
  <2> QED
    BY <2>1, <2>2
<1>2. DOMAIN list = 1..Len(list)
  BY DEF Lists
<1> QED
  BY <1>1, <1>2 DEF Replayable, ReplayFits, TakesTurns

LEMMA FinishedIs ==
  ASSUME NEW sans \in Seq(Sans)
  PROVE  Finished(sans) <=> GameEnded(sans)
<1>1. sans # <<>> <=> Len(sans) >= 1
  BY EmptySeq
<1> QED
  BY <1>1 DEF Finished, GameEnded, Last

LEMMA ListedAt ==
  ASSUME NEW list \in Lists
  PROVE  /\ Len(list) \in Nat /\ (list = <<>> <=> Len(list) = 0)
         /\ \A i \in 1..Len(list) :
              list[i] \in Listed /\ list[i].san \in Sans /\ list[i].by \in BothSides /\ list[i].at \in 1..GamePlies
<1>1. \A i \in 1..Len(list) : list[i] \in Listed
  BY ElementOfSeq DEF Lists
<1> QED
  BY <1>1, EmptySeq DEF Lists, Listed

LEMMA AppendIs ==
  ASSUME NEW S, NEW s \in Seq(S), NEW x \in S
  PROVE  /\ Append(s, x) \in Seq(S) /\ Len(Append(s, x)) = Len(s) + 1 /\ Len(s) \in Nat
         /\ \A i \in 1..Len(s) : Append(s, x)[i] = s[i]
         /\ Append(s, x)[Len(s) + 1] = x
BY AppendProperties

-----------------------------------------------------------------------------
(* What the relay had stays true of a longer relay's list.                 *)
LEMMA LongerRelay ==
  ASSUME NEW relay \in Lists, NEW move \in Listed, RelayGood(relay),
         NEW longer, longer = Append(relay, move), move.at = Len(relay) + 1, NEW c \in BothSides
  PROVE  /\ \A list \in Lists : Relayed(list, relay) => Relayed(list, longer)
         /\ \A list \in Lists : HeldGood(list, c, relay) => HeldGood(list, c, longer)
         /\ \A list \in Lists : HeldGood(list, c, relay) /\ Part(list, longer) => Part(list, relay)
         /\ \A chain, list, sans : sans \in Seq(Sans) /\ BoardGood(chain, c, list, sans, relay)
              => BoardGood(chain, c, list, sans, longer)
<1>1. Len(longer) = Len(relay) + 1 /\ Len(relay) \in Nat /\ longer[Len(relay) + 1] = move
  BY AppendIs DEF Lists
<1>2. \A i \in 1..Len(relay) : longer[i] = relay[i]
  BY AppendIs DEF Lists
<1>3. ASSUME NEW list \in Lists, Relayed(list, relay)
      PROVE  Relayed(list, longer)
  BY <1>1, <1>2, <1>3, ListedAt DEF Relayed, Part
<1>4. ASSUME NEW list \in Lists, HeldGood(list, c, relay)
      PROVE  HeldGood(list, c, longer)
  <2>1. \A i \in 1..Len(list) : list[i].at \in 1..Len(longer) /\ list[i] = longer[list[i].at]
    BY <1>1, <1>2, <1>4 DEF HeldGood
  <2>2. ASSUME NEW k \in 0..Len(list), Starts(list, c, relay, k)
        PROVE  Starts(list, c, longer, k)
    BY <1>1, <1>2, <2>2, ListedAt DEF Starts
  <2> QED
    BY <1>4, <2>1, <2>2 DEF HeldGood
<1>5. ASSUME NEW list \in Lists, HeldGood(list, c, relay), Part(list, longer)
      PROVE  Part(list, relay)
  <2>1. Len(list) # Len(relay) + 1
    <3> SUFFICES ASSUME Len(list) = Len(relay) + 1 PROVE FALSE
      OBVIOUS
    <3>1. list[Len(list)] = move
      BY <1>1, <1>5 DEF Part
    <3>2. list[Len(list)].at \in 1..Len(relay)
      BY <1>1, <1>5 DEF HeldGood
    <3> QED
      BY <1>1, <3>1, <3>2
  <2> QED
    BY <1>1, <1>2, <1>5, <2>1, ListedAt DEF Part
<1>6. ASSUME NEW chain, NEW list, NEW sans \in Seq(Sans), BoardGood(chain, c, list, sans, relay)
      PROVE  BoardGood(chain, c, list, sans, longer)
  <2>1. Len(sans) \in Nat
    OBVIOUS
  <2>2. ASSUME NEW n \in Nat, ShownPart(sans, n, relay)
        PROVE  ShownPart(sans, n, longer)
    BY <1>1, <1>2, <2>2 DEF ShownPart
  <2>3. Len(sans) >= 1 => Len(sans) - 1 \in Nat
    BY <2>1
  <2> QED
    BY <1>6, <2>1, <2>2, <2>3 DEF BoardGood
<1> QED
  BY <1>3, <1>4, <1>5, <1>6

(* A list from the relay is a game in which the players take turns.        *)
LEMMA RelayedFits ==
  ASSUME NEW relay \in Lists, RelayGood(relay), NEW list \in Lists, Part(list, relay), NEW c \in BothSides
  PROVE  /\ LegalList(list) /\ TakesTurns(list)
         /\ list # <<>> => HeldGood(list, c, relay)
         /\ ShownPart(SansOf(list), Len(list), relay)
<1>1. Len(list) \in Nat /\ Len(relay) \in Nat /\ Len(list) <= Len(relay) /\ (list # <<>> => Len(list) >= 1)
  BY ListedAt DEF Part
<1>2. \A i \in 1..Len(list) : i \in 1..Len(relay) /\ list[i] = relay[i]
  BY <1>1 DEF Part
<1>3. LegalList(list)
  <2>1. Len(list) <= GamePlies
    BY <1>1, SyncAssumption DEF RelayGood, LegalList
  <2>2. ASSUME NEW i \in 1..Len(list)
        PROVE  list[i].san \in MovesOf(SideAfter(i - 1)) /\ (i > 1 => list[i - 1].san \notin DrawingMoves)
    <3>1. i > 1 => i - 1 \in 1..Len(list)
      BY <1>1
    <3> QED
      BY <1>2, <3>1 DEF RelayGood, LegalList
  <2> QED
    BY <2>1, <2>2 DEF LegalList
<1>4. TakesTurns(list)
  BY <1>2 DEF RelayGood, TakesTurns
<1>5. ASSUME list # <<>>
      PROVE  HeldGood(list, c, relay)
  <2>1. \A i \in 1..Len(list) : list[i].at \in 1..Len(relay) /\ list[i] = relay[list[i].at]
    BY <1>2 DEF RelayGood
  <2>2. Starts(list, c, relay, Len(list)) /\ Len(list) \in 0..Len(list)
    BY <1>1, <1>2, <1>5 DEF Starts
  <2> QED
    BY <2>1, <2>2 DEF HeldGood
<1>6. ShownPart(SansOf(list), Len(list), relay)
  BY <1>1, <1>2, SansOfIs DEF ShownPart
<1> QED
  BY <1>3, <1>4, <1>5, <1>6

(* In a list whose players take turns at most one own move follows what is *)
(* the relay's; two of them are two own moves in a row.                    *)
LEMMA OwnMoves ==
  ASSUME NEW relay \in Lists, RelayGood(relay), NEW list \in Lists, NEW c \in BothSides,
         NEW k \in 0..Len(list), Starts(list, c, relay, k)
  PROVE  /\ k + 2 <= Len(list) => TwiceInARow(list)
         /\ k + 1 = Len(list) /\ SideAfter(k) # c => TwiceInARow(list)
         /\ TakesTurns(list) => ~TwiceInARow(list)
         /\ TakesTurns(list) /\ k < Len(list) => k + 1 = Len(list) /\ SideAfter(k) = c
<1>1. Len(list) \in Nat /\ Len(relay) \in Nat
  BY ListedAt
<1>2. ASSUME k + 2 <= Len(list)
      PROVE  TwiceInARow(list)
  <2>1. k + 2 \in 2..Len(list) /\ (k + 2) - 1 = k + 1 /\ k + 1 \in k + 1..Len(list) /\ k + 2 \in k + 1..Len(list)
    BY <1>1, <1>2
  <2>2. list[k + 2].by = c /\ list[k + 1].by = c
    BY <2>1 DEF Starts
  <2> QED
    BY <2>1, <2>2 DEF TwiceInARow
<1>3. ASSUME k + 1 = Len(list), SideAfter(k) # c
      PROVE  TwiceInARow(list)
  <2>1. k >= 1
    BY <1>3, Alternates DEF Starts
  <2>2. k \in 1..Len(relay) /\ k \in 1..k /\ k + 1 \in k + 1..Len(list) /\ k + 1 \in 2..Len(list) /\ (k + 1) - 1 = k
    BY <1>1, <1>3, <2>1 DEF Starts
  <2>3. list[k].by = SideAfter(k - 1) /\ list[k + 1].by = c
    BY <2>2 DEF Starts, RelayGood, TakesTurns
  <2>4. SideAfter(k - 1) = c
    BY <1>3, <2>1, Alternates DEF OtherSeat, BothSides
  <2> QED
    BY <2>2, <2>3, <2>4 DEF TwiceInARow
<1>4. ASSUME TakesTurns(list)
      PROVE  ~TwiceInARow(list)
  <2> SUFFICES ASSUME NEW i \in 2..Len(list) PROVE list[i].by # list[i - 1].by
    BY DEF TwiceInARow
  <2>1. i \in 1..Len(list) /\ i - 1 \in 1..Len(list) /\ i - 1 \in Nat \ {0}
    BY <1>1
  <2> QED
    BY <1>4, <2>1, Alternates DEF TakesTurns
<1>5. ASSUME TakesTurns(list), k < Len(list)
      PROVE  k + 1 = Len(list) /\ SideAfter(k) = c
  BY <1>1, <1>2, <1>3, <1>4, <1>5
<1> QED
  BY <1>2, <1>3, <1>4, <1>5

(* Replaying a list shows the relay's game and at most an own move more.   *)
LEMMA ReplayShows ==
  ASSUME NEW relay \in Lists, RelayGood(relay), NEW list \in Lists, NEW c \in BothSides,
         HeldGood(list, c, relay), NEW chain, ReplayFits(chain, list)
  PROVE  BoardGood(chain, c, list, SansOf(list), relay)
<1> DEFINE sans == SansOf(list)
<1>1. PICK k \in 0..Len(list) : Starts(list, c, relay, k)
  BY DEF HeldGood, ReplayFits
<1>2. Len(list) \in Nat /\ Len(sans) = Len(list) /\ Len(relay) \in Nat /\ k <= Len(relay)
  BY <1>1, ListedAt, SansOfIs DEF Starts
<1>3. ShownPart(sans, k, relay)
  BY <1>1, <1>2, SansOfIs DEF ShownPart, Starts
<1>4. CASE k = Len(list)
  BY <1>2, <1>3, <1>4 DEF BoardGood
<1>5. CASE k + 1 = Len(list) /\ SideAfter(k) = c
  BY <1>2, <1>3, <1>5 DEF BoardGood
<1>6. CASE TwiceInARow(list)
  BY <1>1, <1>6, OwnMoves DEF BoardGood, ReplayFits
<1> QED
  BY <1>1, <1>2, <1>4, <1>5, <1>6, OwnMoves

(* The answer to an own post is one own move more, and the board still     *)
(* follows.                                                                *)
LEMMA OwnAnswer ==
  ASSUME NEW relay \in Lists, RelayGood(relay), NEW list \in Lists, NEW c \in BothSides, NEW chain,
         NEW sans \in Seq(Sans), NEW sent, sent # {},
         HeldGood(list, c, relay), FirstMove(c, list, sans, sent),
         BoardFollows(chain, c, list, sans), BoardGood(chain, c, list, sans, relay),
         NEW x \in Listed, x.by = c, x.at \in 1..Len(relay), x = relay[x.at],
         NEW next, next = Append(list, x),
         NEW shown, shown = IF ReplayFits(chain, next) THEN SansOf(next) ELSE sans
  PROVE  /\ next \in Lists /\ next # <<>> /\ Len(next) = Len(list) + 1
         /\ HeldGood(next, c, relay) /\ BoardFollows(chain, c, next, shown) /\ BoardGood(chain, c, next, shown, relay)
<1>1. next \in Lists /\ Len(next) = Len(list) + 1 /\ Len(list) \in Nat /\ next[Len(list) + 1] = x
  BY AppendIs DEF Lists
<1>2. \A i \in 1..Len(list) : next[i] = list[i]
  BY AppendIs DEF Lists
<1>3. next # <<>>
  BY <1>1, ListedAt
<1>4. list = <<>> => c = "white"
  BY DEF FirstMove, BothSides
<1>5. HeldGood(next, c, relay)
  <2>1. \A i \in 1..Len(next) : next[i].at \in 1..Len(relay) /\ next[i] = relay[next[i].at]
    BY <1>1, <1>2 DEF HeldGood
  <2>2. CASE list = <<>>
    <3>1. Starts(next, c, relay, 0)
      BY <1>1, <1>4, <2>2, ListedAt DEF Starts
    <3> QED
      BY <1>1, <2>1, <3>1 DEF HeldGood
  <2>3. CASE list # <<>>
    <3>1. PICK k \in 0..Len(list) : Starts(list, c, relay, k)
      BY <2>3 DEF HeldGood
    <3>2. \A i \in 1..k : next[i] = relay[i]
      BY <1>1, <1>2, <3>1 DEF Starts
    <3>3. \A i \in k + 1..Len(next) : next[i].by = c
      BY <1>1, <1>2, <3>1 DEF Starts
    <3>4. Starts(next, c, relay, k) /\ k \in 0..Len(next)
      BY <1>1, <3>1, <3>2, <3>3 DEF Starts
    <3> QED
      BY <2>1, <3>4 DEF HeldGood
  <2> QED
    BY <2>2, <2>3
<1>6. x.san \in MovesOf(c) /\ GamePlies >= 1
  <2>1. x.san \in MovesOf(SideAfter(x.at - 1)) /\ x.by = SideAfter(x.at - 1)
    BY DEF RelayGood, LegalList, TakesTurns
  <2>2. Len(relay) >= 1 /\ Len(relay) <= GamePlies
    BY ListedAt DEF RelayGood, LegalList
  <2> QED
    BY <2>1, <2>2, ListedAt, SyncAssumption
<1>7. ASSUME chain # "celo", list = <<>>
      PROVE  ReplayFits(chain, next)
  <2>1. Len(next) = 1 /\ next[1] = x /\ SideAfter(1 - 1) = c
    BY <1>1, <1>4, <1>7, ListedAt, Alternates
  <2> QED
    BY <1>3, <1>6, <2>1, SyncAssumption DEF ReplayFits, LegalList, TakesTurns
<1>8. ASSUME chain # "celo", ReplayFits(chain, list), ~GameEnded(sans), SideAfter(Len(sans)) = c
      PROVE  ReplayFits(chain, next)
  <2>1. sans = SansOf(list)
    BY <1>8 DEF BoardFollows
  <2>2. Len(sans) = Len(list) /\ SideAfter(Len(list)) = c
    BY <1>8, <2>1, SansOfIs
  <2>3. Len(list) >= 1 /\ sans[Len(list)] = list[Len(list)].san
    BY <1>1, <1>8, <2>1, SansOfIs, ListedAt DEF ReplayFits
  <2>4. Len(next) <= GamePlies
    BY <1>1, <1>8, <2>2, SyncAssumption DEF GameEnded, ReplayFits, LegalList
  <2>5. list[Len(list)].san \notin DrawingMoves
    BY <1>8, <2>2, <2>3 DEF GameEnded
  <2>6. ASSUME NEW i \in 1..Len(next)
        PROVE  /\ next[i].san \in MovesOf(SideAfter(i - 1)) /\ (i > 1 => next[i - 1].san \notin DrawingMoves)
               /\ next[i].by = SideAfter(i - 1)
    <3>1. CASE i \in 1..Len(list)
      <4>1. i > 1 => i - 1 \in 1..Len(list)
        BY <1>1, <3>1
      <4>2. list[i].san \in MovesOf(SideAfter(i - 1)) /\ (i > 1 => list[i - 1].san \notin DrawingMoves)
        BY <1>8, <3>1 DEF ReplayFits, LegalList
      <4>3. list[i].by = SideAfter(i - 1)
        BY <1>8, <3>1 DEF ReplayFits, TakesTurns
      <4> QED
        BY <1>2, <3>1, <4>1, <4>2, <4>3
    <3>2. CASE i = Len(list) + 1
      <4>1. i - 1 = Len(list) /\ next[i] = x /\ i - 1 \in 1..Len(list)
        BY <1>1, <2>3, <3>2
      <4>2. next[i - 1] = list[Len(list)]
        BY <1>2, <4>1
      <4> QED
        BY <1>6, <2>2, <2>5, <4>1, <4>2
    <3> QED
      BY <1>1, <3>1, <3>2
  <2> QED
    BY <1>3, <2>4, <2>6 DEF ReplayFits, LegalList, TakesTurns
<1>9. BoardFollows(chain, c, next, shown)
  <2>1. ASSUME chain # "celo", ~ReplayFits(chain, next)
        PROVE  GameEnded(shown) \/ SideAfter(Len(shown)) # c
    <3>1. shown = sans /\ list # <<>>
      BY <1>7, <2>1
    <3> QED
      BY <1>8, <2>1, <3>1 DEF BoardFollows
  <2> QED
    BY <2>1 DEF BoardFollows
<1>10. BoardGood(chain, c, next, shown, relay)
  <2>1. CASE ReplayFits(chain, next)
    BY <1>1, <1>5, <2>1, ReplayShows
  <2>2. CASE ~ReplayFits(chain, next)
    <3>1. TwiceInARow(list) => TwiceInARow(next)
      BY <1>1, <1>2 DEF TwiceInARow
    <3> QED
      BY <2>2, <3>1 DEF BoardGood
  <2> QED
    BY <2>1, <2>2
<1> QED
  BY <1>1, <1>3, <1>5, <1>9, <1>10

(* A player who may move and whose list is not empty has the relay's list. *)
LEMMA MoverIsCurrent ==
  ASSUME NEW relay \in Lists, RelayGood(relay), NEW list \in Lists, NEW c \in BothSides, NEW chain, chain # "celo",
         NEW sans \in Seq(Sans), NEW sent,
         HeldGood(list, c, relay), FirstMove(c, list, sans, sent), BoardFollows(chain, c, list, sans),
         ~GameEnded(sans), SideAfter(Len(sans)) = c
  PROVE  /\ SideAfter(Len(list)) = c /\ Len(list) <= Len(relay)
         /\ list # <<>> => ReplayFits(chain, list) /\ sans = SansOf(list)
<1>1. CASE list = <<>>
  <2>1. c = "white"
    <3> SUFFICES ASSUME c = "black" PROVE FALSE
      BY DEF BothSides
    <3>1. Len(sans) = 0
      BY <1>1 DEF FirstMove
    <3> QED
      BY <3>1, Alternates
  <2> QED
    BY <1>1, <2>1, Alternates, ListedAt
<1>2. CASE list # <<>>
  <2>1. ReplayFits(chain, list) /\ sans = SansOf(list)
    BY <1>2 DEF BoardFollows
  <2>2. Len(list) \in Nat /\ SideAfter(Len(list)) = c
    BY <2>1, SansOfIs, ListedAt
  <2>3. PICK k \in 0..Len(list) : Starts(list, c, relay, k)
    BY <1>2 DEF HeldGood
  <2>4. k = Len(list)
    <3> SUFFICES ASSUME k < Len(list) PROVE FALSE
      BY <2>2, <2>3
    <3>1. k + 1 = Len(list) /\ SideAfter(k) = c /\ k \in Nat
      BY <2>1, <2>2, <2>3, OwnMoves DEF ReplayFits
    <3> QED
      BY <2>2, <3>1, Alternates
  <2> QED
    BY <2>1, <2>2, <2>3, <2>4 DEF Starts
<1> QED
  BY <1>1, <1>2

-----------------------------------------------------------------------------
(* A browser that nothing reaches stays as it is.                          *)
LEMMA Untouched ==
  ASSUME SyncTyped, SyncTyped', NEW d \in BothSides, Browser(d),
         activeChain' = activeChain, relayList' = relayList, aged' = aged, troubled => troubled',
         held'[d] = held[d], line'[d] = line[d], posts'[d] = posts[d], polls'[d] = polls[d],
         clockRanOut'[d] = clockRanOut[d]
  PROVE  Browser(d)'
<1>1. Quiet(troubled, posts[d], held[d], line[d], relayList) => Quiet(troubled', posts[d], held[d], line[d], relayList)
  BY DEF Quiet
<1>2. ClockGood(troubled, clockRanOut[d], held[d], relayList, aged, d)
        => ClockGood(troubled', clockRanOut[d], held[d], relayList, aged, d)
  BY DEF ClockGood
<1> QED
  BY <1>1, <1>2 DEF Browser

(* What setMoves leaves behind.                                            *)
LEMMA SetMoves ==
  ASSUME SyncTyped, NEW c \in BothSides, NEW list \in Lists, setMoves(c, list)
  PROVE  /\ held' \in [BothSides -> Lists] /\ line' \in [BothSides -> Seq(Sans)]
         /\ clockRanOut' \in [BothSides -> BOOLEAN]
         /\ held'[c] = list /\ line'[c] = IF ReplayFits(activeChain, list) THEN SansOf(list) ELSE line[c]
         /\ clockRanOut'[c] => clockRanOut[c] /\ Len(list) = Len(held[c])
         /\ \A d \in BothSides : d # c =>
              held'[d] = held[d] /\ line'[d] = line[d] /\ clockRanOut'[d] = clockRanOut[d]
<1> DEFINE shown == IF ReplayFits(activeChain, list) THEN SansOf(list) ELSE line[c]
<1>1. Replayed(list, line[c]) = shown /\ shown \in Seq(Sans)
  BY ReplayableIs, SansOfIs DEF Replayed, SyncTyped
<1>2. line' = [line EXCEPT ![c] = shown]
  BY <1>1 DEF setMoves
<1> HIDE DEF shown
<1>3. line' \in [BothSides -> Seq(Sans)] /\ line'[c] = shown /\ \A d \in BothSides : d # c => line'[d] = line[d]
  BY <1>1, <1>2 DEF SyncTyped
<1>4. /\ held' \in [BothSides -> Lists] /\ held'[c] = list
      /\ \A d \in BothSides : d # c => held'[d] = held[d]
  BY DEF SyncTyped, setMoves
<1> DEFINE out == clockRanOut[c] /\ Len(list) = Len(held[c])
<1>5. clockRanOut' = [clockRanOut EXCEPT ![c] = out] /\ out \in BOOLEAN
  BY DEF setMoves, SyncTyped
<1> HIDE DEF out
<1>6. /\ clockRanOut' \in [BothSides -> BOOLEAN] /\ clockRanOut'[c] = out
      /\ \A d \in BothSides : d # c => clockRanOut'[d] = clockRanOut[d]
  BY <1>5 DEF SyncTyped
<1> QED
  BY <1>3, <1>4, <1>6 DEF shown, out

(* A list that the relay had is taken over.                                *)
LEMMA TakesRelays ==
  ASSUME SyncTyped, RelayGood(relayList), NEW c \in BothSides, NEW list \in Lists, setMoves(c, list),
         Relayed(list, relayList), troubled' \/ Len(list) # Len(held[c])
  PROVE  /\ HeldGood(held'[c], c, relayList)
         /\ \A sent : FirstMove(c, held'[c], line'[c], sent)
         /\ BoardFollows(activeChain, c, held'[c], line'[c])
         /\ BoardGood(activeChain, c, held'[c], line'[c], relayList)
         /\ \A sent : Quiet(troubled', sent, held'[c], line'[c], relayList)
         /\ ClockGood(troubled', clockRanOut'[c], held'[c], relayList, aged, c)
<1>1. held'[c] = list /\ list # <<>> /\ Part(list, relayList) /\ relayList \in Lists
  BY SetMoves DEF Relayed, SyncTyped
<1>2. HeldGood(list, c, relayList) /\ ShownPart(SansOf(list), Len(list), relayList)
  BY <1>1, RelayedFits
<1>3. ReplayFits(activeChain, list)
  BY <1>1, RelayedFits DEF ReplayFits
<1>4. line'[c] = SansOf(list) /\ Len(SansOf(list)) = Len(list)
  BY <1>3, SetMoves, SansOfIs
<1>5. clockRanOut'[c] => troubled'
  BY SetMoves
<1>6. BoardFollows(activeChain, c, list, SansOf(list)) /\ BoardGood(activeChain, c, list, SansOf(list), relayList)
  BY <1>2, <1>3, <1>4 DEF BoardFollows, BoardGood
<1>7. ClockGood(troubled', clockRanOut'[c], list, relayList, aged, c)
  BY <1>5 DEF ClockGood
<1> QED
  BY <1>1, <1>2, <1>4, <1>6, <1>7 DEF FirstMove, Quiet

-----------------------------------------------------------------------------
(* The moves of a player                                                   *)
LEMMA MoveTyped ==
  ASSUME SyncTyped, NEW c \in BothSides, NEW san \in Sans, executeMove(c, san)
  PROVE  /\ SyncTyped'
         /\ line'[c] = IF activeChain # "celo" /\ ReplayFits(activeChain, held[c]) THEN SansOf(held[c])
                       ELSE Append(line[c], san)
         /\ \A d \in BothSides : d # c => line'[d] = line[d] /\ posts'[d] = posts[d]
         /\ posts'[c] # {}
         /\ \A post \in posts'[c] :
              \/ post \in posts[c]
              \/ post.stage \in {"signing", "sent"} /\ post.number = Len(held[c]) + 1
<1> DEFINE sans == Append(line[c], san)
           shown == IF activeChain # "celo" /\ ReplayFits(activeChain, held[c]) THEN SansOf(held[c]) ELSE sans
           next == [stage |-> IF activeChain = "base" THEN "signing" ELSE "sent", san |-> san,
                    number |-> Len(held[c]) + 1, over |-> IF activeChain = "base" THEN sans ELSE <<>>, answer |-> <<>>]
<1>1. held[c] \in Lists /\ line[c] \in Seq(Sans) /\ Len(held[c]) \in Nat
  BY DEF SyncTyped, Lists
<1>2. sans \in Seq(Sans) /\ shown \in Seq(Sans)
  BY <1>1, AppendIs, SansOfIs
<1>3. ShownAfterMove(c, sans) = shown
  BY <1>1, ReplayableIs DEF ShownAfterMove, Replayed
<1>4. line' = [line EXCEPT ![c] = shown] /\ posts' = [posts EXCEPT ![c] = @ \cup {next}]
  BY <1>3 DEF executeMove
<1>5. next \in Post
  <2>1. <<>> \in Seq(Sans) /\ <<>> \in Lists
    BY DEF Lists
  <2> QED
    BY <1>1, <1>2, <2>1 DEF Post
<1>6. next.stage \in {"signing", "sent"} /\ next.number = Len(held[c]) + 1
  OBVIOUS
<1> HIDE DEF shown, next, sans
<1>7. line' \in [BothSides -> Seq(Sans)] /\ line'[c] = shown /\ \A d \in BothSides : d # c => line'[d] = line[d]
  BY <1>2, <1>4 DEF SyncTyped
<1>8. posts' \in [BothSides -> SUBSET Post]
  BY <1>4, <1>5 DEF SyncTyped
<1>9. posts'[c] = posts[c] \cup {next} /\ \A d \in BothSides : d # c => posts'[d] = posts[d]
  BY <1>4 DEF SyncTyped
<1>10. SyncTyped'
  BY <1>7, <1>8 DEF SyncTyped, executeMove
<1> QED
  BY <1>6, <1>7, <1>9, <1>10 DEF shown, sans

LEMMA MoveKeepsSync ==
  ASSUME SyncInv, NEW c \in BothSides, NEW san \in Sans, executeMove(c, san)
  PROVE  SyncInv'
<1> USE DEF SyncInv
<1>1. SyncTyped'
  BY MoveTyped
<1>2. UNCHANGED <<activeChain, relayList, aged, held, polls, clockRanOut, troubled>>
  BY DEF executeMove
<1>3. /\ held[c] \in Lists /\ line[c] \in Seq(Sans) /\ relayList \in Lists /\ Len(held[c]) \in Nat
      /\ Len(line[c]) \in Nat /\ Len(relayList) \in Nat
  BY DEF SyncTyped, Lists
<1>4. ~GameEnded(line[c]) /\ SideAfter(Len(line[c])) = c
  BY <1>3, FinishedIs DEF executeMove, boardOver, hasTurn
<1>5. Browser(c)
  OBVIOUS
<1>6. activeChain # "celo" =>
        /\ SideAfter(Len(held[c])) = c /\ Len(held[c]) <= Len(relayList)
        /\ held[c] # <<>> => ReplayFits(activeChain, held[c]) /\ line[c] = SansOf(held[c])
  <2>1. SUFFICES ASSUME activeChain # "celo"
                 PROVE  /\ SideAfter(Len(held[c])) = c /\ Len(held[c]) <= Len(relayList)
                        /\ held[c] # <<>> => ReplayFits(activeChain, held[c]) /\ line[c] = SansOf(held[c])
    OBVIOUS
  <2>2. HeldGood(held[c], c, relayList) /\ FirstMove(c, held[c], line[c], posts[c])
          /\ BoardFollows(activeChain, c, held[c], line[c])
    BY <1>5 DEF Browser
  <2> QED
    BY <1>3, <1>4, <2>1, <2>2, MoverIsCurrent
<1>7. Append(line[c], san) \in Seq(Sans) /\ Len(Append(line[c], san)) = Len(line[c]) + 1
        /\ \A i \in 1..Len(line[c]) : Append(line[c], san)[i] = line[c][i]
  BY <1>3, AppendIs
<1>8. line'[c] = Append(line[c], san) \/ (activeChain # "celo" /\ held[c] # <<>> /\ line'[c] = line[c])
  <2>1. CASE activeChain # "celo" /\ ReplayFits(activeChain, held[c])
    BY <1>6, <2>1, MoveTyped DEF ReplayFits
  <2> QED
    BY <2>1, MoveTyped
<1>9. activeChain # "celo" /\ line'[c] = Append(line[c], san) /\ line'[c] # line[c] => held[c] = <<>>
  BY <1>6, MoveTyped DEF ReplayFits
<1>10. \A post \in posts'[c] : PostGood(activeChain, post, c, relayList)
  <2>1. \A post \in posts[c] : PostGood(activeChain, post, c, relayList)
    BY <1>5 DEF Browser
  <2>2. ASSUME NEW post \in posts'[c], post.stage \in {"signing", "sent"}, post.number = Len(held[c]) + 1
        PROVE  PostGood(activeChain, post, c, relayList)
    <3>1. post.number - 1 = Len(held[c]) /\ post.number >= 1
      BY <1>3, <2>2
    <3> QED
      BY <1>6, <2>2, <3>1 DEF PostGood
  <2> QED
    BY <2>1, <2>2, MoveTyped
<1>11. FirstMove(c, held[c], line'[c], posts'[c])
  <2> SUFFICES ASSUME held[c] = <<>>
               PROVE  c = "white" /\ Len(line'[c]) <= 1
    BY DEF FirstMove
  <2>1. IF c = "white" THEN Len(line[c]) <= 1 ELSE line[c] = <<>>
    BY <1>5 DEF Browser, FirstMove
  <2>2. c = "white"
    BY <1>4, <2>1, Alternates DEF BothSides
  <2>3. Len(line[c]) = 0
    <3>1. SideAfter(1) # "white"
      BY DEF SideAfter
    <3> QED
      BY <1>3, <1>4, <2>1, <2>2, <3>1
  <2> QED
    BY <1>7, <1>8, <2>2, <2>3
<1>12. BoardFollows(activeChain, c, held[c], line'[c])
  <2> SUFFICES ASSUME activeChain # "celo"
               PROVE  BoardFollows(activeChain, c, held[c], line'[c])
    BY DEF BoardFollows
  <2>1. CASE held[c] = <<>>
    BY <2>1 DEF BoardFollows, ReplayFits
  <2>2. CASE held[c] # <<>>
    <3>1. ReplayFits(activeChain, held[c]) /\ line'[c] = SansOf(held[c])
      BY <1>6, <2>2, MoveTyped
    <3> QED
      BY <3>1 DEF BoardFollows
  <2> QED
    BY <2>1, <2>2
<1>13. BoardGood(activeChain, c, held[c], line'[c], relayList)
  <2>1. BoardGood(activeChain, c, held[c], line[c], relayList)
    BY <1>5 DEF Browser
  <2>2. CASE line'[c] = Append(line[c], san)
    <3>1. CASE ShownPart(line[c], Len(line[c]), relayList)
      <4>1. ShownPart(line'[c], Len(line[c]), relayList)
        BY <1>7, <2>2, <3>1 DEF ShownPart
      <4>2. Len(line'[c]) >= 1 /\ Len(line'[c]) - 1 = Len(line[c])
        BY <1>3, <1>7, <2>2
      <4> QED
        BY <1>4, <4>1, <4>2 DEF BoardGood
    <3>2. CASE Len(line[c]) >= 1 /\ SideAfter(Len(line[c]) - 1) = c
      BY <1>3, <1>4, <3>2, Alternates
    <3>3. CASE activeChain = "celo" /\ TwiceInARow(held[c])
      BY <3>3 DEF BoardGood
    <3> QED
      BY <2>1, <3>1, <3>2, <3>3 DEF BoardGood
  <2> QED
    BY <1>8, <2>1, <2>2
<1>14. posts'[c] # {}
  BY MoveTyped
<1>15. Browser(c)'
  <2>1. Quiet(troubled, posts'[c], held[c], line'[c], relayList)
    BY <1>14 DEF Quiet
  <2> QED
    BY <1>2, <1>5, <1>10, <1>11, <1>12, <1>13, <2>1 DEF Browser
<1>16. ASSUME NEW d \in BothSides, d # c
       PROVE  Browser(d)'
  <2>1. line'[d] = line[d] /\ posts'[d] = posts[d]
    BY <1>16, MoveTyped
  <2>2. held'[d] = held[d] /\ polls'[d] = polls[d] /\ clockRanOut'[d] = clockRanOut[d]
    BY <1>2
  <2> QED
    BY <1>1, <1>2, <2>1, <2>2, Untouched
<1> QED
  BY <1>1, <1>2, <1>15, <1>16

-----------------------------------------------------------------------------
(* The relay, and the network                                              *)
LEMMA MovedPosts ==
  ASSUME SyncTyped, NEW c \in BothSides, NEW post \in posts[c], NEW next \in SUBSET Post, Moved(c, post, next)
  PROVE  /\ posts' \in [BothSides -> SUBSET Post] /\ posts'[c] = (posts[c] \ {post}) \cup next
         /\ \A d \in BothSides : d # c => posts'[d] = posts[d]
         /\ post \in Post
BY DEF SyncTyped, Moved

LEMMA SignKeepsSync ==
  ASSUME SyncInv, NEW c \in BothSides, NEW post \in posts[c], NEW signed \in BOOLEAN, signMove(c, post, signed)
  PROVE  SyncInv'
<1> USE DEF SyncInv
<1> DEFINE next == [post EXCEPT !.stage = "sent", !.over = IF signed THEN @ ELSE <<>>]
<1>1. post \in Post /\ post.stage = "signing"
  BY DEF signMove, SyncTyped
<1>2. next \in Post /\ next.stage = "sent" /\ next.number = post.number
  <2>1. <<>> \in Seq(Sans)
    OBVIOUS
  <2> QED
    BY <1>1, <2>1 DEF Post
<1>3. Moved(c, post, {next})
  BY DEF signMove
<1> HIDE DEF next
<1>4. /\ posts' \in [BothSides -> SUBSET Post] /\ posts'[c] = (posts[c] \ {post}) \cup {next}
      /\ \A d \in BothSides : d # c => posts'[d] = posts[d]
  BY <1>2, <1>3, MovedPosts
<1>5. UNCHANGED <<activeChain, relayList, aged, held, line, polls, clockRanOut, troubled>>
  BY DEF signMove
<1>6. SyncTyped'
  BY <1>4, <1>5 DEF SyncTyped
<1>7. Browser(c)
  OBVIOUS
<1>8. PostGood(activeChain, next, c, relayList)
  BY <1>1, <1>2, <1>7 DEF Browser, PostGood
<1>9. Browser(c)'
  <2>1. posts'[c] # {} /\ posts[c] # {}
    BY <1>4
  <2>2. \A p \in posts'[c] : PostGood(activeChain, p, c, relayList)
    BY <1>4, <1>7, <1>8 DEF Browser
  <2>3. FirstMove(c, held[c], line[c], posts'[c]) /\ Quiet(troubled, posts'[c], held[c], line[c], relayList)
    BY <1>7, <2>1 DEF Browser, FirstMove, Quiet
  <2> QED
    BY <1>5, <1>7, <2>2, <2>3 DEF Browser
<1>10. ASSUME NEW d \in BothSides, d # c
       PROVE  Browser(d)'
  BY <1>4, <1>5, <1>6, <1>10, Untouched
<1> QED
  BY <1>5, <1>6, <1>9, <1>10

(* A post that fails leaves a troubled browser with what it had.           *)
LEMMA FailureKeepsSync ==
  ASSUME SyncInv, NEW c \in BothSides, NEW post \in posts[c], Moved(c, post, {}), troubled' = TRUE,
         UNCHANGED <<activeChain, relayList, aged, held, line, polls, clockRanOut>>
  PROVE  SyncInv'
<1> USE DEF SyncInv
<1>1. /\ posts' \in [BothSides -> SUBSET Post] /\ posts'[c] = posts[c] \ {post}
      /\ \A d \in BothSides : d # c => posts'[d] = posts[d]
  BY MovedPosts
<1>2. SyncTyped'
  BY <1>1 DEF SyncTyped
<1>3. Browser(c)
  OBVIOUS
<1>4. Browser(c)'
  <2>1. FirstMove(c, held[c], line[c], posts'[c])
    BY <1>3, MovedPosts DEF Browser, FirstMove
  <2>2. /\ Quiet(troubled', posts'[c], held[c], line[c], relayList)
        /\ ClockGood(troubled', clockRanOut[c], held[c], relayList, aged, c)
    BY DEF Quiet, ClockGood
  <2>3. \A p \in posts'[c] : PostGood(activeChain, p, c, relayList)
    BY <1>1, <1>3 DEF Browser
  <2> QED
    BY <1>3, <2>1, <2>2, <2>3 DEF Browser
<1>5. ASSUME NEW d \in BothSides, d # c
      PROVE  Browser(d)'
  BY <1>1, <1>2, <1>5, Untouched
<1> QED
  BY <1>2, <1>4, <1>5

(* The list is replayed, whatever it was that brought it.                  *)
LEMMA AnswerKeepsSync ==
  ASSUME SyncInv, NEW c \in BothSides, NEW post \in posts[c], postAnswered(c, post)
  PROVE  SyncInv'
<1> USE DEF SyncInv
<1>1. /\ posts' \in [BothSides -> SUBSET Post] /\ posts'[c] = posts[c] \ {post}
      /\ \A d \in BothSides : d # c => posts'[d] = posts[d]
      /\ post \in Post /\ Moved(c, post, {})
  BY MovedPosts DEF postAnswered
<1>2. UNCHANGED <<activeChain, relayList, aged, polls>> /\ troubled' = (troubled \/ post.stage # "stored")
  BY DEF postAnswered
<1>3. Browser(c) /\ PostGood(activeChain, post, c, relayList)
  BY DEF Browser
<1>4. post.answer \in Lists /\ relayList \in Lists /\ held[c] \in Lists /\ line[c] \in Seq(Sans)
  BY <1>1 DEF Post, SyncTyped
<1>5. \A p \in posts'[c] : PostGood(activeChain, p, c, relayList)
  BY <1>1, <1>3 DEF Browser
<1>6. CASE post.stage = "stored"
  <2> DEFINE x == Last(post.answer)
             next == Append(held[c], x)
  <2>1. setMoves(c, next)
    BY <1>6 DEF postAnswered
  <2>2. x \in Listed /\ x.by = c /\ x.at \in 1..Len(relayList) /\ x = relayList[x.at]
    <3>1. Relayed(post.answer, relayList) /\ post.answer[Len(post.answer)].by = c
      BY <1>3, <1>6 DEF PostGood
    <3>2. Len(post.answer) \in 1..Len(post.answer) /\ Len(post.answer) \in 1..Len(relayList)
      BY <1>4, <3>1, ListedAt DEF Relayed, Part
    <3>3. x = relayList[Len(post.answer)] /\ x = post.answer[Len(post.answer)]
      BY <3>1, <3>2 DEF Relayed, Part, Last
    <3> QED
      BY <1>4, <3>1, <3>2, <3>3, ListedAt DEF RelayGood
  <2> HIDE DEF x
  <2>3. next \in Lists /\ next # <<>> /\ Len(next) = Len(held[c]) + 1 /\ Len(held[c]) \in Nat
    <3>1. held[c] \in Seq(Listed) /\ x \in Listed
      BY <1>4, <2>2 DEF Lists
    <3>2. next \in Lists /\ Len(next) = Len(held[c]) + 1 /\ Len(held[c]) \in Nat
      BY <3>1, AppendIs DEF Lists
    <3> HIDE DEF next
    <3> QED
      BY <3>2, ListedAt
  <2>4. /\ held'[c] = next /\ line'[c] = (IF ReplayFits(activeChain, next) THEN SansOf(next) ELSE line[c])
        /\ ~clockRanOut'[c]
    <3>1. Len(next) # Len(held[c])
      BY <2>3
    <3> HIDE DEF next
    <3> QED
      BY <2>1, <2>3, <3>1, SetMoves
  <2>5. /\ HeldGood(next, c, relayList) /\ BoardFollows(activeChain, c, next, line'[c])
        /\ BoardGood(activeChain, c, next, line'[c], relayList)
    <3>1. posts[c] # {}
      OBVIOUS
    <3>2. /\ HeldGood(held[c], c, relayList) /\ FirstMove(c, held[c], line[c], posts[c])
          /\ BoardFollows(activeChain, c, held[c], line[c])
          /\ BoardGood(activeChain, c, held[c], line[c], relayList)
      BY <1>3 DEF Browser
    <3> HIDE DEF next
    <3>3. next = Append(held[c], x)
      BY DEF next
    <3> QED
      BY <1>4, <2>2, <2>4, <3>1, <3>2, <3>3, OwnAnswer, ZenonT(40)
  <2> HIDE DEF next
  <2>6. SyncTyped'
    BY <1>1, <1>2, <2>1, <2>3, SetMoves DEF SyncTyped
  <2>7. Browser(c)'
    <3>1. Part(next, relayList) => line'[c] = SansOf(next)
      <4> SUFFICES ASSUME Part(next, relayList) PROVE line'[c] = SansOf(next)
        OBVIOUS
      <4>1. ReplayFits(activeChain, next)
        BY <1>4, <2>3, RelayedFits DEF ReplayFits
      <4> QED
        BY <2>4, <4>1
    <3>2. FirstMove(c, next, line'[c], posts'[c]) /\ Quiet(troubled', posts'[c], next, line'[c], relayList)
      BY <2>3, <3>1 DEF FirstMove, Quiet
    <3>3. ClockGood(troubled', clockRanOut'[c], next, relayList, aged, c)
      BY <2>4 DEF ClockGood
    <3> QED
      BY <1>2, <1>3, <1>5, <2>4, <2>5, <3>2, <3>3 DEF Browser
  <2>8. ASSUME NEW d \in BothSides, d # c
        PROVE  Browser(d)'
    BY <1>1, <1>2, <2>1, <2>3, <2>6, <2>8, SetMoves, Untouched
  <2> QED
    BY <1>2, <2>6, <2>7, <2>8
<1>7. CASE post.stage = "conflict"
  <2>1. setMoves(c, post.answer) /\ troubled' = TRUE
    BY <1>7 DEF postAnswered
  <2>2. Relayed(post.answer, relayList)
    BY <1>3, <1>7 DEF PostGood
  <2>3. SyncTyped'
    BY <1>1, <1>2, <1>4, <2>1, SetMoves DEF SyncTyped
  <2>4. Browser(c)'
    <3>1. /\ HeldGood(held'[c], c, relayList)
          /\ FirstMove(c, held'[c], line'[c], posts'[c])
          /\ BoardFollows(activeChain, c, held'[c], line'[c])
          /\ BoardGood(activeChain, c, held'[c], line'[c], relayList)
          /\ Quiet(troubled', posts'[c], held'[c], line'[c], relayList)
          /\ ClockGood(troubled', clockRanOut'[c], held'[c], relayList, aged, c)
      BY <1>4, <2>1, <2>2, TakesRelays
    <3> QED
      BY <1>2, <1>3, <1>5, <3>1 DEF Browser
  <2>5. ASSUME NEW d \in BothSides, d # c
        PROVE  Browser(d)'
    BY <1>1, <1>2, <1>4, <2>1, <2>3, <2>5, SetMoves, Untouched
  <2> QED
    BY <1>2, <2>3, <2>4, <2>5
<1>8. CASE post.stage = "refused"
  BY <1>1, <1>2, <1>8, FailureKeepsSync DEF postAnswered
<1> QED
  BY <1>6, <1>7, <1>8 DEF postAnswered

LEMMA PollKeepsSync ==
  ASSUME SyncInv, NEW c \in BothSides
  PROVE  /\ pollRead(c) => SyncInv'
         /\ \A list \in polls[c] : pollAnswered(c, list) \/ pollLost(c, list) => SyncInv'
<1> USE DEF SyncInv
<1>1. Browser(c) /\ relayList \in Lists
  BY DEF SyncTyped
<1>2. ASSUME pollRead(c)
      PROVE  SyncInv'
  <2>1. UNCHANGED <<activeChain, relayList, aged, held, line, posts, clockRanOut, troubled>>
    BY <1>2 DEF pollRead
  <2>2. /\ polls' \in [BothSides -> SUBSET Lists] /\ polls'[c] = polls[c] \cup {relayList}
        /\ \A d \in BothSides : d # c => polls'[d] = polls[d]
    BY <1>2 DEF pollRead, SyncTyped
  <2>3. SyncTyped'
    BY <2>1, <2>2 DEF SyncTyped
  <2>4. Relayed(relayList, relayList)
    BY <1>1, <1>2, ListedAt DEF pollRead, Relayed, Part
  <2>5. Browser(c)'
    BY <1>1, <2>1, <2>2, <2>4 DEF Browser
  <2>6. ASSUME NEW d \in BothSides, d # c
        PROVE  Browser(d)'
    BY <2>1, <2>2, <2>3, <2>6, Untouched
  <2> QED
    BY <2>1, <2>3, <2>5, <2>6
<1>3. ASSUME NEW list \in polls[c], pollAnswered(c, list) \/ pollLost(c, list)
      PROVE  SyncInv'
  <2>1. UNCHANGED <<activeChain, relayList, aged, posts, troubled>> /\ polls' = [polls EXCEPT ![c] = @ \ {list}]
    BY <1>3 DEF pollAnswered, pollLost
  <2>2. /\ polls' \in [BothSides -> SUBSET Lists] /\ polls'[c] = polls[c] \ {list}
        /\ \A d \in BothSides : d # c => polls'[d] = polls[d]
    BY <2>1 DEF SyncTyped
  <2>3. list \in Lists /\ Relayed(list, relayList)
    BY <1>1 DEF Browser, SyncTyped
  <2>4. CASE UNCHANGED <<held, line, clockRanOut>>
    <3>1. SyncTyped'
      BY <2>1, <2>2, <2>4 DEF SyncTyped
    <3>2. Browser(c)'
      BY <1>1, <2>1, <2>2, <2>4 DEF Browser
    <3>3. ASSUME NEW d \in BothSides, d # c
          PROVE  Browser(d)'
      BY <2>1, <2>2, <2>4, <3>1, <3>3, Untouched
    <3> QED
      BY <2>1, <3>1, <3>2, <3>3
  <2>5. CASE setMoves(c, list) /\ Len(list) > Len(held[c])
    <3>1. SyncTyped'
      BY <2>1, <2>2, <2>3, <2>5, SetMoves DEF SyncTyped
    <3>2. Len(list) # Len(held[c])
      BY <2>3, <2>5, ListedAt DEF SyncTyped
    <3>3. /\ HeldGood(held'[c], c, relayList)
          /\ FirstMove(c, held'[c], line'[c], posts[c])
          /\ BoardFollows(activeChain, c, held'[c], line'[c])
          /\ BoardGood(activeChain, c, held'[c], line'[c], relayList)
          /\ Quiet(troubled', posts[c], held'[c], line'[c], relayList)
          /\ ClockGood(troubled', clockRanOut'[c], held'[c], relayList, aged, c)
      BY <2>3, <2>5, <3>2, TakesRelays
    <3>4. Browser(c)'
      BY <1>1, <2>1, <2>2, <3>3 DEF Browser
    <3>5. ASSUME NEW d \in BothSides, d # c
          PROVE  Browser(d)'
      BY <2>1, <2>2, <2>3, <2>5, <3>1, <3>5, SetMoves, Untouched
    <3> QED
      BY <2>1, <3>1, <3>4, <3>5
  <2> QED
    BY <1>3, <2>4, <2>5 DEF pollAnswered, pollLost
<1> QED
  BY <1>2, <1>3

(* The relay takes the players in turn on stacks too, where it does not    *)
(* ask whose turn it is.                                                   *)
Stores(san, c, n) == [san |-> san, by |-> c, at |-> n]

LEMMA StoreIsGood ==
  ASSUME SyncTyped, RelayGood(relayList), NEW c \in BothSides, NEW post \in posts[c],
         PostGood(activeChain, post, c, relayList), post.stage = "sent", post.san \in Sans, post.number \in Nat,
         ~(Len(relayList) >= post.number), LegalLine(Append(SansOf(relayList), post.san)),
         activeChain # "stacks" => c = SideAfter(Len(relayList)),
         NEW move, move = Stores(post.san, c, Len(relayList) + 1),
         NEW longer, longer = Append(relayList, move)
  PROVE  move \in Listed /\ longer \in Lists /\ RelayGood(longer) /\ Relayed(longer, longer)
         /\ longer[Len(longer)].by = c
<1> DEFINE sans == Append(SansOf(relayList), post.san)
           n == Len(relayList)
<1>1. relayList \in Lists /\ n \in Nat /\ SansOf(relayList) \in Seq(Sans) /\ Len(SansOf(relayList)) = n
        /\ \A i \in 1..n : SansOf(relayList)[i] = relayList[i].san
  BY SansOfIs, ListedAt DEF SyncTyped
<1>2. /\ sans \in Seq(Sans) /\ Len(sans) = n + 1 /\ sans[n + 1] = post.san
      /\ \A i \in 1..n : sans[i] = relayList[i].san
  <2>1. /\ sans \in Seq(Sans) /\ Len(sans) = n + 1 /\ sans[n + 1] = post.san
        /\ \A i \in 1..n : sans[i] = SansOf(relayList)[i]
    BY <1>1, AppendIs
  <2> QED
    BY <1>1, <2>1
<1>3. LegalSans(sans)
  BY <1>2, LegalLineIs
<1> HIDE DEF sans
<1>4. n + 1 <= GamePlies
  BY <1>2, <1>3 DEF LegalSans
<1>5. move \in Listed /\ move.san = post.san /\ move.by = c /\ move.at = n + 1
  BY <1>1, <1>4, SyncAssumption DEF Listed, Stores
<1>6. /\ longer \in Lists /\ Len(longer) = n + 1 /\ longer[n + 1] = move
      /\ \A i \in 1..n : longer[i] = relayList[i]
  BY <1>1, <1>5, AppendIs DEF Lists
<1>7. SideAfter(n) = c
  <2>1. CASE activeChain = "stacks"
    <3>1. SideAfter(post.number - 1) = c /\ post.number - 1 <= n
      BY <2>1 DEF PostGood
    <3>2. post.number - 1 = n
      BY <1>1, <3>1
    <3> QED
      BY <3>1, <3>2
  <2> QED
    BY <2>1
<1>8. ASSUME NEW i \in 1..Len(longer)
      PROVE  /\ longer[i].san \in MovesOf(SideAfter(i - 1)) /\ (i > 1 => longer[i - 1].san \notin DrawingMoves)
             /\ longer[i].by = SideAfter(i - 1) /\ longer[i].at = i
  <2>1. sans[i] = longer[i].san /\ (i > 1 => sans[i - 1] = longer[i - 1].san)
    BY <1>1, <1>2, <1>5, <1>6
  <2>2. sans[i] \in MovesOf(SideAfter(i - 1)) /\ (i > 1 => sans[i - 1] \notin DrawingMoves)
    BY <1>2, <1>3, <1>6 DEF LegalSans
  <2>3. CASE i \in 1..n
    BY <1>6, <2>1, <2>2, <2>3 DEF RelayGood, TakesTurns
  <2>4. CASE i = n + 1
    <3>1. i - 1 = n
      BY <1>1, <2>4
    <3> QED
      BY <1>5, <1>6, <1>7, <2>1, <2>2, <2>4, <3>1
  <2> QED
    BY <1>1, <1>6, <2>3, <2>4
<1>9. RelayGood(longer)
  BY <1>4, <1>6, <1>8 DEF RelayGood, LegalList, TakesTurns
<1>10. longer # <<>> /\ Part(longer, longer)
  BY <1>1, <1>6, EmptySeq DEF Part, Lists
<1> QED
  BY <1>1, <1>5, <1>6, <1>9, <1>10 DEF Relayed

LEMMA StoreKeepsSync ==
  ASSUME SyncInv, NEW c \in BothSides, NEW post \in posts[c], relayStores(c, post)
  PROVE  SyncInv'
<1> USE DEF SyncInv
<1> DEFINE sans == Append(SansOf(relayList), post.san)
           taken == Len(relayList) >= post.number
           fits == /\ LegalLine(sans) /\ post.over \in {<<>>, sans}
                   /\ activeChain # "stacks" => c = SideAfter(Len(relayList))
           move == [san |-> post.san, by |-> c, at |-> Len(sans)]
           next == [post EXCEPT !.stage = IF taken THEN "conflict" ELSE IF fits THEN "stored" ELSE "refused",
                                !.answer = IF ~taken /\ ~fits THEN <<>> ELSE relayList']
<1>1. /\ relayList' = (IF ~taken /\ fits THEN Append(relayList, move) ELSE relayList)
      /\ Moved(c, post, {next}) /\ post.stage = "sent"
  BY DEF relayStores
<1>2. UNCHANGED <<activeChain, aged, held, line, polls, clockRanOut, troubled>>
  BY DEF relayStores
<1>3. post \in Post /\ post.san \in Sans /\ post.number \in Nat /\ relayList \in Lists /\ Len(relayList) \in Nat
  BY ListedAt DEF SyncTyped, Post
<1>4. \A d \in BothSides : Browser(d)
  OBVIOUS
<1>5. PostGood(activeChain, post, c, relayList) /\ post.number >= 1
  BY <1>4 DEF Browser, PostGood
<1>6. next.number = post.number /\ next.stage = (IF taken THEN "conflict" ELSE IF fits THEN "stored" ELSE "refused")
        /\ next.answer = (IF ~taken /\ ~fits THEN <<>> ELSE relayList')
  BY <1>3 DEF Post
<1>7. relayList' \in Lists => next \in Post
  <2> SUFFICES ASSUME relayList' \in Lists PROVE next \in Post
    OBVIOUS
  <2> DEFINE stage == IF taken THEN "conflict" ELSE IF fits THEN "stored" ELSE "refused"
             answer == IF ~taken /\ ~fits THEN <<>> ELSE relayList'
  <2>1. stage \in {"conflict", "stored", "refused"} /\ answer \in Lists
    BY DEF Lists
  <2>2. next = [post EXCEPT !.stage = stage, !.answer = answer]
    OBVIOUS
  <2> HIDE DEF stage, answer, next
  <2> QED
    BY <1>3, <2>1, <2>2 DEF Post
<1>8. Len(sans) = Len(relayList) + 1
  <2>1. SansOf(relayList) \in Seq(Sans) /\ Len(SansOf(relayList)) = Len(relayList)
    BY <1>3, SansOfIs
  <2> QED
    BY <1>3, <2>1, AppendIs
<1> HIDE DEF next
<1>9. CASE ~taken /\ fits
  <2>1. /\ move = Stores(post.san, c, Len(relayList) + 1) /\ move.at = Len(relayList) + 1
        /\ relayList' = Append(relayList, move)
    BY <1>1, <1>8, <1>9 DEF Stores
  <2>2. LegalLine(sans) /\ (activeChain # "stacks" => c = SideAfter(Len(relayList)))
    BY <1>9
  <2> HIDE DEF fits, move
  <2>3. move \in Listed /\ relayList' \in Lists /\ RelayGood(relayList') /\ Relayed(relayList', relayList')
          /\ relayList'[Len(relayList')].by = c
    <3>1. ~(Len(relayList) >= post.number) /\ LegalLine(Append(SansOf(relayList), post.san))
      BY <1>9, <2>2
    <3>2. SyncTyped /\ RelayGood(relayList) /\ post.stage = "sent"
      BY <1>1
    <3>3. ASSUME NEW m, m = Stores(post.san, c, Len(relayList) + 1),
                 NEW longer, longer = Append(relayList, m)
          PROVE  m \in Listed /\ longer \in Lists /\ RelayGood(longer) /\ Relayed(longer, longer)
                   /\ longer[Len(longer)].by = c
      BY ONLY <1>3, <1>5, <2>2, <3>1, <3>2, <3>3, post \in posts[c], c \in BothSides, StoreIsGood, ZenonT(40)
    <3> QED
      BY <2>1, <3>3
  <2>4. Len(relayList') = Len(relayList) + 1 /\ move.at = Len(relayList) + 1
    BY <1>3, <2>1, <2>3, AppendIs DEF Lists
  <2>5. /\ posts' \in [BothSides -> SUBSET Post] /\ posts'[c] = (posts[c] \ {post}) \cup {next}
        /\ \A d \in BothSides : d # c => posts'[d] = posts[d]
    BY <1>1, <1>7, <2>3, MovedPosts
  <2>6. SyncTyped'
    BY <1>2, <2>3, <2>5 DEF SyncTyped
  <2>7. ASSUME NEW d \in BothSides
        PROVE  /\ \A list \in polls[d] : Relayed(list, relayList')
               /\ \A p \in posts[d] : PostGood(activeChain, p, d, relayList')
               /\ HeldGood(held[d], d, relayList')
               /\ BoardGood(activeChain, d, held[d], line[d], relayList')
               /\ Part(held[d], relayList') => Part(held[d], relayList)
    <3>1. /\ \A list \in Lists : Relayed(list, relayList) => Relayed(list, relayList')
          /\ \A list \in Lists : HeldGood(list, d, relayList) => HeldGood(list, d, relayList')
          /\ \A list \in Lists : HeldGood(list, d, relayList) /\ Part(list, relayList') => Part(list, relayList)
          /\ \A chain, list, s : s \in Seq(Sans) /\ BoardGood(chain, d, list, s, relayList)
                                   => BoardGood(chain, d, list, s, relayList')
      BY <1>3, <2>1, <2>3, <2>4, LongerRelay
    <3>2. Browser(d) /\ held[d] \in Lists /\ line[d] \in Seq(Sans) /\ polls[d] \in SUBSET Lists
      BY DEF SyncTyped
    <3>3. ASSUME NEW p \in posts[d]
          PROVE  PostGood(activeChain, p, d, relayList')
      <4>1. p.answer \in Lists /\ p.number \in Nat
        BY DEF SyncTyped, Post
      <4>2. PostGood(activeChain, p, d, relayList)
        BY <3>2 DEF Browser
      <4>3. p.number - 1 <= Len(relayList) => p.number - 1 <= Len(relayList')
        BY <1>3, <2>4, <4>1
      <4> QED
        BY <3>1, <4>1, <4>2, <4>3 DEF PostGood
    <3> QED
      BY <3>1, <3>2, <3>3 DEF Browser
  <2>8. PostGood(activeChain, next, c, relayList')
    BY <1>5, <1>6, <1>9, <2>3 DEF PostGood
  <2>9. ASSUME NEW d \in BothSides
        PROVE  Browser(d)'
    <3>1. \A p \in posts'[d] : PostGood(activeChain, p, d, relayList')
      BY <2>5, <2>7, <2>8
    <3>2. (posts[d] = {} <=> posts'[d] = {})
      BY <2>5
    <3>3. FirstMove(d, held[d], line[d], posts'[d]) /\ Quiet(troubled, posts'[d], held[d], line[d], relayList')
      BY <1>4, <2>7, <3>2 DEF Browser, FirstMove, Quiet
    <3>4. ClockGood(troubled, clockRanOut[d], held[d], relayList', aged, d)
      BY <1>4, <2>7 DEF Browser, ClockGood
    <3> QED
      BY <1>2, <1>4, <2>7, <3>1, <3>3, <3>4 DEF Browser
  <2>10. aged' <= Len(relayList')
    BY <1>2, <1>3, <2>4 DEF SyncTyped
  <2> QED
    BY <2>3, <2>6, <2>9, <2>10
<1>10. CASE ~(~taken /\ fits)
  <2>1. relayList' = relayList
    BY <1>1, <1>10
  <2>2. /\ posts' \in [BothSides -> SUBSET Post] /\ posts'[c] = (posts[c] \ {post}) \cup {next}
        /\ \A d \in BothSides : d # c => posts'[d] = posts[d]
    BY <1>1, <1>3, <1>7, <2>1, MovedPosts
  <2>3. SyncTyped'
    BY <1>2, <2>1, <2>2 DEF SyncTyped
  <2>4. PostGood(activeChain, next, c, relayList)
    <3>1. taken => Relayed(relayList, relayList)
      BY <1>3, <1>5, ListedAt DEF Relayed, Part
    <3>2. next.stage = (IF taken THEN "conflict" ELSE "refused") /\ (taken => next.answer = relayList)
      BY <1>6, <1>10, <2>1
    <3> HIDE DEF taken
    <3> QED
      BY <1>5, <1>6, <3>1, <3>2 DEF PostGood
  <2>5. Browser(c)'
    <3>1. \A p \in posts'[c] : PostGood(activeChain, p, c, relayList)
      BY <1>4, <2>2, <2>4 DEF Browser
    <3>2. posts'[c] # {} /\ posts[c] # {}
      BY <2>2
    <3>3. FirstMove(c, held[c], line[c], posts'[c]) /\ Quiet(troubled, posts'[c], held[c], line[c], relayList)
      BY <1>4, <3>2 DEF Browser, FirstMove, Quiet
    <3> QED
      BY <1>2, <1>4, <2>1, <3>1, <3>3 DEF Browser
  <2>6. ASSUME NEW d \in BothSides, d # c
        PROVE  Browser(d)'
    BY <1>2, <1>4, <2>1, <2>2, <2>3, <2>6, Untouched
  <2> QED
    BY <1>2, <2>1, <2>3, <2>5, <2>6
<1> QED
  BY <1>9, <1>10

-----------------------------------------------------------------------------
LEMMA ExpiryKeepsSync ==
  ASSUME SyncInv, turnExpires
  PROVE  SyncInv'
<1> USE DEF SyncInv
<1>1. UNCHANGED <<activeChain, relayList, held, line, posts, polls, troubled>> /\ aged' = Len(relayList)
        /\ Len(relayList) \in Nat
  BY ListedAt DEF turnExpires, SyncTyped
<1>2. /\ clockRanOut' \in [BothSides -> BOOLEAN]
      /\ \A c \in BothSides : clockRanOut'[c] => clockRanOut[c] \/ ~hasTurn(c)
  <2> DEFINE out(c) == clockRanOut[c] \/ (~hasTurn(c) /\ ~boardOver(c))
  <2>1. clockRanOut' = [c \in BothSides |-> out(c)]
    BY DEF turnExpires
  <2>2. \A c \in BothSides : out(c) \in BOOLEAN
    OBVIOUS
  <2>3. \A c \in BothSides : out(c) => clockRanOut[c] \/ ~hasTurn(c)
    OBVIOUS
  <2> HIDE DEF out
  <2> QED
    BY <2>1, <2>2, <2>3
<1>3. SyncTyped' /\ aged' <= Len(relayList')
  BY <1>1, <1>2 DEF SyncTyped
<1>4. ASSUME NEW c \in BothSides
      PROVE  Browser(c)'
  <2>1. Browser(c) /\ posts[c] = {} /\ held[c] \in Lists
    BY DEF turnExpires, SyncTyped
  <2>2. ASSUME ~troubled, clockRanOut'[c], Part(held[c], relayList)
        PROVE  Len(held[c]) <= Len(relayList) /\ SideAfter(Len(held[c])) # c
    <3>1. CASE clockRanOut[c]
      BY <2>1, <2>2, <3>1 DEF Browser, ClockGood, Part
    <3>2. CASE ~hasTurn(c)
      <4>1. line[c] = SansOf(held[c]) /\ Len(SansOf(held[c])) = Len(held[c])
        BY <2>1, <2>2, SansOfIs DEF Browser, Quiet
      <4> QED
        BY <2>2, <3>2, <4>1 DEF hasTurn, Part
    <3> QED
      BY <1>2, <2>2, <3>1, <3>2
  <2>3. ClockGood(troubled, clockRanOut'[c], held[c], relayList, Len(relayList), c)
    BY <2>2 DEF ClockGood
  <2> QED
    BY <1>1, <2>1, <2>3 DEF Browser
<1> QED
  BY <1>1, <1>3, <1>4

-----------------------------------------------------------------------------
(* However the two browsers' requests and answers interleave, the relay's  *)
(* list is a game in which the players take turns, and each list and board *)
(* starts like it.                                                         *)
THEOREM SyncInvariant == SyncSpec => []SyncInv
<1>1. SyncInit => SyncInv
  <2> SUFFICES ASSUME SyncInit PROVE SyncInv
    OBVIOUS
  <2>1. SyncTyped
    <3>1. <<>> \in Lists /\ <<>> \in Seq(Sans)
      BY DEF Lists
    <3>2. held \in [BothSides -> Lists] /\ line \in [BothSides -> Seq(Sans)]
      BY <3>1 DEF SyncInit
    <3>3. posts \in [BothSides -> SUBSET Post] /\ polls \in [BothSides -> SUBSET Lists]
      BY DEF SyncInit
    <3> QED
      BY <3>1, <3>2, <3>3 DEF SyncInit, SyncTyped
  <2>2. RelayGood(relayList) /\ aged <= Len(relayList)
    BY SyncAssumption DEF SyncInit, RelayGood, LegalList, TakesTurns
  <2>3. ASSUME NEW c \in BothSides
        PROVE  Browser(c)
    <3>1. held[c] = <<>> /\ line[c] = <<>> /\ posts[c] = {} /\ polls[c] = {} /\ ~clockRanOut[c] /\ relayList = <<>>
      BY DEF SyncInit
    <3>2. HeldGood(<<>>, c, <<>>) /\ FirstMove(c, <<>>, <<>>, {}) /\ BoardFollows(activeChain, c, <<>>, <<>>)
      BY DEF HeldGood, FirstMove, BoardFollows, ReplayFits
    <3>3. BoardGood(activeChain, c, <<>>, <<>>, <<>>)
      BY DEF BoardGood, ShownPart
    <3>4. Quiet(troubled, {}, <<>>, <<>>, <<>>)
      <4>1. <<>> \in Lists /\ Len(<<>>) = 0
        BY DEF Lists
      <4>2. SansOf(<<>>) \in Seq(Sans) /\ Len(SansOf(<<>>)) = 0
        BY ONLY <4>1, SansOfIs
      <4> QED
        BY <4>2, EmptySeq DEF Quiet
    <3>5. ClockGood(troubled, clockRanOut[c], <<>>, <<>>, aged, c)
      BY <3>1 DEF ClockGood
    <3> QED
      BY <3>1, <3>2, <3>3, <3>4, <3>5 DEF Browser
  <2> QED
    BY <2>1, <2>2, <2>3 DEF SyncInv
<1>2. SyncInv /\ [SyncOp]_syncVars => SyncInv'
  <2> SUFFICES ASSUME SyncInv, [SyncOp]_syncVars PROVE SyncInv'
    OBVIOUS
  <2>1. CASE UNCHANGED syncVars
    <3>1. SyncTyped'
      BY <2>1 DEF SyncInv, SyncTyped, syncVars
    <3>2. ASSUME NEW c \in BothSides
          PROVE  Browser(c)'
      BY <2>1, <3>1, <3>2, Untouched DEF SyncInv, syncVars
    <3> QED
      BY <2>1, <3>1, <3>2 DEF SyncInv, syncVars
  <2>2. ASSUME NEW c \in BothSides, NEW san \in Sans, executeMove(c, san)
        PROVE  SyncInv'
    BY <2>2, MoveKeepsSync
  <2>3. ASSUME NEW c \in BothSides, NEW post \in posts[c], relayStores(c, post)
        PROVE  SyncInv'
    BY <2>3, StoreKeepsSync
  <2>4. ASSUME NEW c \in BothSides, NEW post \in posts[c], postLost(c, post)
        PROVE  SyncInv'
    BY <2>4, FailureKeepsSync DEF postLost
  <2>5. ASSUME NEW c \in BothSides, NEW post \in posts[c], NEW signed \in BOOLEAN, signMove(c, post, signed)
        PROVE  SyncInv'
    BY <2>5, SignKeepsSync
  <2>6. ASSUME NEW c \in BothSides, PostOf(c)
        PROVE  SyncInv'
    BY <2>6, AnswerKeepsSync DEF PostOf
  <2>7. ASSUME NEW c \in BothSides, pollRead(c) \/ PollOf(c) \/ \E list \in polls[c] : pollLost(c, list)
        PROVE  SyncInv'
    BY <2>7, PollKeepsSync DEF PollOf
  <2>8. CASE turnExpires
    BY <2>8, ExpiryKeepsSync
  <2> QED
    BY <2>1, <2>2, <2>3, <2>4, <2>5, <2>6, <2>7, <2>8 DEF SyncOp
<1> QED
  BY <1>1, <1>2, PTL DEF SyncSpec

-----------------------------------------------------------------------------
LEMMA PrefixIs ==
  ASSUME NEW some \in Seq(Sans), NEW list \in Lists, ShownPart(some, Len(some), list)
  PROVE  IsPrefix(some, SansOf(list))
<1> DEFINE all == SansOf(list)
<1>1. all \in Seq(Sans) /\ Len(all) = Len(list) /\ Len(some) \in Nat /\ Len(list) \in Nat
  BY SansOfIs, ListedAt
<1>2. Len(some) <= Len(all) /\ \A i \in 1..Len(some) : some[i] = all[i]
  BY <1>1, SansOfIs DEF ShownPart
<1> HIDE DEF all
<1>3. SubSeq(all, 1, Len(some)) \in Seq(Sans) /\ Len(SubSeq(all, 1, Len(some))) = Len(some)
        /\ \A i \in 1..Len(some) : SubSeq(all, 1, Len(some))[i] = all[i]
  BY <1>1, <1>2
<1>4. some = SubSeq(all, 1, Len(some))
  BY <1>1, <1>2, <1>3
<1> QED
  BY <1>2, <1>4 DEF IsPrefix, all

LEMMA SyncImpliesBoard == SyncInv => BoardIsRelays
<1> SUFFICES ASSUME SyncInv, NEW c \in BothSides
             PROVE  \/ IsPrefix(line[c], SansOf(relayList))
                    \/ IsPrefix(Front(line[c]), SansOf(relayList)) /\ SideAfter(Len(line[c]) - 1) = c
                    \/ activeChain = "celo" /\ TwiceInARow(held[c])
  BY DEF BoardIsRelays
<1>1. BoardGood(activeChain, c, held[c], line[c], relayList) /\ line[c] \in Seq(Sans) /\ relayList \in Lists
  BY DEF SyncInv, Browser, SyncTyped
<1>2. CASE ShownPart(line[c], Len(line[c]), relayList)
  BY <1>1, <1>2, PrefixIs
<1>3. CASE Len(line[c]) >= 1 /\ ShownPart(line[c], Len(line[c]) - 1, relayList) /\ SideAfter(Len(line[c]) - 1) = c
  <2> DEFINE front == Front(line[c])
  <2>1. front \in Seq(Sans) /\ Len(front) = Len(line[c]) - 1 /\ \A i \in 1..Len(front) : front[i] = line[c][i]
    BY <1>1, <1>3 DEF Front
  <2> HIDE DEF front
  <2>2. ShownPart(front, Len(front), relayList)
    BY <1>3, <2>1 DEF ShownPart
  <2>3. IsPrefix(front, SansOf(relayList))
    BY <1>1, <2>1, <2>2, PrefixIs
  <2> QED
    BY <1>3, <2>3 DEF front
<1> QED
  BY <1>1, <1>2, <1>3 DEF BoardGood

LEMMA SyncImpliesResults == SyncInv => ResultsAgree
<1> SUFFICES ASSUME SyncInv, ~troubled, \A c \in BothSides : posts[c] = {} /\ held[c] = relayList, NEW c \in BothSides
             PROVE  LET other == screenResult(OtherSeat(c))
                    IN  /\ screenResult(c) = "won" => other = "lost" \/ (other = "none" /\ relayList = <<>>)
                        /\ screenResult(c) = "draw" => other = "draw"
  BY DEF ResultsAgree
<1> DEFINE o == OtherSeat(c)
<1>1. o \in BothSides /\ c # o /\ \A n \in Nat : SideAfter(n) = c <=> SideAfter(n) # o
  BY Alternates DEF OtherSeat, BothSides
<1>2. relayList \in Lists /\ Len(relayList) \in Nat /\ Part(relayList, relayList)
  BY ListedAt DEF SyncInv, SyncTyped, Part
<1>3. ASSUME NEW d \in BothSides
      PROVE  line[d] = SansOf(relayList) /\ (clockRanOut[d] => Len(relayList) <= aged /\ SideAfter(Len(relayList)) # d)
  <2>1. Browser(d) /\ held[d] = relayList /\ posts[d] = {}
    BY DEF SyncInv
  <2> QED
    BY <1>2, <2>1 DEF Browser, Quiet, ClockGood
<1>4. Len(SansOf(relayList)) = Len(relayList)
  BY <1>2, SansOfIs
<1>5. boardOver(c) <=> boardOver(o)
  BY <1>1, <1>3 DEF boardOver
<1>6. hasTurn(c) <=> ~hasTurn(o)
  BY <1>1, <1>2, <1>3, <1>4 DEF hasTurn
<1>7. line[c] = line[o]
  BY <1>1, <1>3
<1>8. clockRanOut[c] => hasTurn(o) /\ ~clockRanOut[o]
  BY <1>1, <1>2, <1>3, <1>4 DEF hasTurn
<1>9. clockRanOut[o] => hasTurn(c)
  BY <1>1, <1>2, <1>3, <1>4 DEF hasTurn
<1>10. movesTimedOut(c) <=> movesTimedOut(o)
  BY <1>1 DEF movesTimedOut
<1>11. clockRanOut[c] => relayList = <<>> \/ movesTimedOut(o)
  <2> SUFFICES ASSUME clockRanOut[c], relayList # <<>> PROVE movesTimedOut(o)
    OBVIOUS
  <2>1. Len(relayList) \in 1..Len(relayList)
    BY <1>2, ListedAt
  <2>2. relayList[Len(relayList)].at = Len(relayList)
    BY <2>1 DEF SyncInv, RelayGood
  <2> QED
    BY <1>1, <1>3, <2>2 DEF movesTimedOut, Last
<1>12. relayList = <<>> => ~movesTimedOut(o)
  BY <1>1 DEF movesTimedOut
<1> HIDE DEF o
<1>13. screenResult(c) = "won" => screenResult(o) = "lost" \/ (screenResult(o) = "none" /\ relayList = <<>>)
  BY <1>5, <1>6, <1>7, <1>8, <1>9, <1>10, <1>11, <1>12 DEF screenResult
<1>14. screenResult(c) = "draw" => screenResult(o) = "draw"
  BY <1>5, <1>6, <1>7 DEF screenResult
<1> QED
  BY <1>13, <1>14 DEF o

(* BoardIsRelays: a board shows the relay's game, or part of it, and at    *)
(* most one move more, its own player's at his turn, however requests and  *)
(* answers of useGameMoves overtake each other, for any number of moves,   *)
(* posts and polls.                                                        *)
THEOREM BoardStaysRelays == SyncSpec => []BoardIsRelays
BY SyncInvariant, SyncImpliesBoard, PTL

(* ResultsAgree: two browsers that have the relay's list, with no post     *)
(* under way or failed, do not both announce a win.                        *)
THEOREM ResultsStayAgreed == SyncSpec => []ResultsAgree
BY SyncInvariant, SyncImpliesResults, PTL

(* No browser ever shows a board that chess.js would not play.             *)
BoardsLegal == \A c \in BothSides : LegalLine(line[c])

LEMMA MoveIsLegal ==
  ASSUME NEW sans \in Seq(Sans), LegalLine(sans), ~Finished(sans),
         NEW san \in MovesOf(SideAfter(Len(sans)))
  PROVE  LegalLine(Append(sans, san))
<1>1. san \in Sans
  BY DEF MovesOf, Sans
<1>2. LegalSans(sans) /\ ~GameEnded(sans)
  BY LegalLineIs, FinishedIs
<1>3. PICK longer \in Seq(Sans) :
        /\ longer = Append(sans, san) /\ Len(longer) = Len(sans) + 1 /\ Len(sans) \in Nat
        /\ \A i \in 1..Len(sans) : longer[i] = sans[i]
        /\ longer[Len(sans) + 1] = san
  BY <1>1, AppendIs
<1>4. LegalSans(longer)
  <2>1. Len(longer) <= GamePlies
    BY <1>2, <1>3, SyncAssumption DEF LegalSans, GameEnded
  <2>2. ASSUME NEW i \in 1..Len(longer)
        PROVE  longer[i] \in MovesOf(SideAfter(i - 1)) /\ (i > 1 => longer[i - 1] \notin DrawingMoves)
    <3>1. CASE i \in 1..Len(sans)
      BY <1>2, <1>3, <3>1 DEF LegalSans
    <3>2. CASE i = Len(sans) + 1
      BY <1>2, <1>3, <3>2 DEF GameEnded
    <3> QED
      BY <1>3, <3>1, <3>2
  <2> QED
    BY <2>1, <2>2 DEF LegalSans
<1> QED
  BY <1>3, <1>4, LegalLineIs

LEMMA ReplayIsLegal == \A list, sans : LegalLine(sans) => LegalLine(Replayed(list, sans))
BY DEF Replayed, Replayable

LEMMA BoardSet ==
  ASSUME SyncTyped, BoardsLegal, NEW c \in BothSides, NEW sans, LegalLine(sans), line' = [line EXCEPT ![c] = sans]
  PROVE  BoardsLegal'
<1>1. \A d \in BothSides : line'[d] = IF d = c THEN sans ELSE line[d]
  BY DEF SyncTyped
<1> QED
  BY <1>1 DEF BoardsLegal

LEMMA ListSet ==
  ASSUME SyncTyped, BoardsLegal, NEW c \in BothSides, NEW list, setMoves(c, list)
  PROVE  BoardsLegal'
<1>1. LegalLine(line[c])
  BY DEF BoardsLegal
<1>2. LegalLine(Replayed(list, line[c]))
  BY <1>1, ReplayIsLegal
<1> QED
  BY <1>2, BoardSet DEF setMoves

LEMMA LegalSteps == SyncTyped /\ BoardsLegal /\ SyncOp => BoardsLegal'
<1> SUFFICES ASSUME SyncTyped, BoardsLegal, SyncOp PROVE BoardsLegal'
  OBVIOUS
<1>1. ASSUME NEW c \in BothSides, NEW san \in Sans, executeMove(c, san) PROVE BoardsLegal'
  <2>1. LegalLine(line[c]) /\ line[c] \in Seq(Sans) /\ ~Finished(line[c]) /\ san \in MovesOf(SideAfter(Len(line[c])))
    BY <1>1 DEF executeMove, boardOver, hasTurn, BoardsLegal, SyncTyped
  <2>2. LegalLine(Append(line[c], san))
    BY <2>1, MoveIsLegal
  <2>3. LegalLine(ShownAfterMove(c, Append(line[c], san)))
    BY <2>2, ReplayIsLegal DEF ShownAfterMove
  <2> QED
    BY <1>1, <2>3, BoardSet DEF executeMove
<1>2. ASSUME NEW c \in BothSides, NEW post \in posts[c], postAnswered(c, post) PROVE BoardsLegal'
  <2>1. CASE post.stage = "refused"
    BY <1>2, <2>1 DEF postAnswered, BoardsLegal
  <2> QED
    BY <1>2, <2>1, ListSet DEF postAnswered, BoardsLegal
<1>3. ASSUME NEW c \in BothSides, NEW list \in polls[c], pollAnswered(c, list) PROVE BoardsLegal'
  BY <1>3, ListSet DEF pollAnswered, BoardsLegal
<1>4. ASSUME UNCHANGED line PROVE BoardsLegal'
  BY <1>4 DEF BoardsLegal
<1> QED
  BY <1>1, <1>2, <1>3, <1>4 DEF SyncOp, PostOf, PollOf, relayStores, postLost, signMove, pollRead, pollLost, turnExpires

(* Whatever the network brings back, every list is made of moves the relay *)
(* has stored, and no browser ever shows a position outside the game.      *)
THEOREM SyncStaysTyped == SyncSpec => []SyncTypeOK
<1>1. SyncInit => BoardsLegal
  <2>1. LegalLine(<<>>)
    BY EmptySeq, SyncAssumption DEF LegalLine
  <2> QED
    BY <2>1 DEF SyncInit, BoardsLegal
<1>2. SyncInv /\ BoardsLegal /\ [SyncOp]_syncVars => BoardsLegal'
  <2>1. BoardsLegal /\ UNCHANGED syncVars => BoardsLegal'
    BY DEF BoardsLegal, syncVars
  <2>2. SyncInv => SyncTyped
    BY DEF SyncInv
  <2> QED
    BY <2>1, <2>2, LegalSteps
<1>3. SyncInv /\ BoardsLegal => SyncTypeOK
  <2> SUFFICES ASSUME SyncInv, BoardsLegal PROVE SyncTypeOK
    OBVIOUS
  <2>1. Len(relayList) <= GamePlies /\ Len(relayList) \in Nat
    BY ListedAt DEF SyncInv, SyncTyped, RelayGood, LegalList
  <2>2. aged \in 0..GamePlies
    BY <2>1, SyncAssumption DEF SyncInv, SyncTyped
  <2> QED
    BY <2>2 DEF SyncInv, SyncTyped, BoardsLegal, SyncTypeOK
<1> QED
  BY <1>1, <1>2, <1>3, SyncInvariant, PTL DEF SyncSpec
=============================================================================
