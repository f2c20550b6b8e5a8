------------------------------ MODULE MoveSync ------------------------------
(***************************************************************************)
(* Two browsers play one game over the move relay: hooks/useGameMoves.ts   *)
(* keeps a list of the relay's moves by polling and from the answers to    *)
(* its own posts, and the game client (GameClientCelo, or                  *)
(* GameClientMultichain on base and stacks) replays that list on a board   *)
(* on which the own move is shown before the relay has it.  Requests and   *)
(* answers are delayed, overtake each other and are lost.                  *)
(*                                                                         *)
(* A stored move carries its player and the place at which the relay       *)
(* stored it, which stands for its time stamp.  The relay itself is the    *)
(* atomic one that MoveRelay shows it to be, for a game that is active on  *)
(* chain.                                                                  *)
(***************************************************************************)
EXTENDS Integers, Sequences, SequencesExt, FiniteSets

CONSTANTS
  WhiteMoves, BlackMoves, \* moves each side has in a position; some may be both sides'
  GamePlies,   \* bound: half-moves until somebody is mated
  DrawingMoves,\* moves that end the game in a draw
  MaxPosts,    \* bound: posts of a browser on their way at once
  MaxPolls     \* bound: poll answers on their way to a browser at once

ASSUME SyncAssumption == GamePlies \in Nat

BothSides == {"white", "black"}

VARIABLES
  activeChain, \* "celo" (GameClientCelo), "base" or "stacks" (GameClientMultichain)
  relayList,   \* the relay's list
  aged,        \* how many of its moves are older than the time limit
  held,        \* relayMoves, movesRef: the list a browser has
  line,        \* game and moveHistory: the moves on its board
  posts,       \* its POST requests on the way
  polls,       \* lists on the way back to it
  clockRanOut,
  troubled     \* history: a post failed

syncVars == <<activeChain, relayList, aged, held, line, posts, polls, clockRanOut, troubled>>

Sans == WhiteMoves \cup BlackMoves
SideAfter(n) == IF n % 2 = 0 THEN "white" ELSE "black"     \* to move after n moves
MovesOf(c) == IF c = "white" THEN WhiteMoves ELSE BlackMoves
OtherSeat(c) == IF c = "white" THEN "black" ELSE "white"

SansOf(list) == [i \in DOMAIN list |-> list[i].san]

Finished(sans) == Len(sans) = GamePlies \/ (sans # <<>> /\ Last(sans) \in DrawingMoves)

(* What chess.js lets through: moves of the side to move, and none after   *)
(* the end.  A move that both sides have (castling, an exchange on one     *)
(* square) is legal twice in a row.                                        *)
LegalLine(sans) ==
  /\ Len(sans) <= GamePlies
  /\ \A i \in DOMAIN sans :
       sans[i] \in MovesOf(SideAfter(i - 1)) /\ (i > 1 => ~Finished(SubSeq(sans, 1, i - 1)))

Listed == [san: Sans, by: BothSides, at: 1..GamePlies]
Lists == Seq(Listed)
Post == [stage: {"signing", "sent", "stored", "conflict", "refused"}, san: Sans, number: Nat,
         over: Seq(Sans), answer: Lists]

SyncTypeOK ==
  /\ activeChain \in {"celo", "base", "stacks"}
  /\ relayList \in Lists /\ aged \in 0..GamePlies
  /\ held \in [BothSides -> Lists] /\ \A c \in BothSides : LegalLine(line[c])
  /\ \A c \in BothSides : posts[c] \subseteq Post /\ polls[c] \subseteq Lists
  /\ clockRanOut \in [BothSides -> BOOLEAN] /\ troubled \in BOOLEAN

SyncInit ==
  /\ activeChain \in {"celo", "base", "stacks"}
  /\ relayList = <<>> /\ aged = 0
  /\ held = [c \in BothSides |-> <<>>] /\ line = [c \in BothSides |-> <<>>]
  /\ posts = [c \in BothSides |-> {}] /\ polls = [c \in BothSides |-> {}]
  /\ clockRanOut = [c \in BothSides |-> FALSE]
  /\ troubled = FALSE

-----------------------------------------------------------------------------
(* The game client *)

boardOver(c) == Finished(line[c])
hasTurn(c) == SideAfter(Len(line[c])) = c

(* On base and stacks a move must also be by the player whose turn it is  *)
(* (the game on chain, which names the players, has been read by then).   *)
Replayable(list) ==
  /\ list # <<>> /\ LegalLine(SansOf(list))
  /\ activeChain # "celo" => \A i \in DOMAIN list : list[i].by = SideAfter(i - 1)

(* The effect that replays a list once it has changed: one that is not a   *)
(* game leaves the board as it was.                                        *)
Replayed(list, sans) == IF Replayable(list) THEN SansOf(list) ELSE sans

(* GameClientMultichain replays it whenever the board changes, too, so the *)
(* own move disappears again as soon as it is shown, unless it is the first*)
ShownAfterMove(c, sans) == IF activeChain = "celo" THEN sans ELSE Replayed(held[c], sans)

(* setMoves: the list is replayed, and a list of another length restarts   *)
(* the opponent's clock.                                                   *)
setMoves(c, list) ==
  /\ held' = [held EXCEPT ![c] = list]
  /\ line' = [line EXCEPT ![c] = Replayed(list, @)]
  /\ clockRanOut' = [clockRanOut EXCEPT ![c] = @ /\ Len(list) = Len(held[c])]

\* mutant
executeMoveAnyTurn(c, san) ==
  /\ ~boardOver(c) /\ san \in MovesOf(SideAfter(Len(line[c]))) /\ Cardinality(posts[c]) < MaxPosts
  /\ LET sans == Append(line[c], san)
     IN  /\ line' = [line EXCEPT ![c] = ShownAfterMove(c, sans)]
         /\ posts' = [posts EXCEPT ![c] = @ \cup
              {[stage |-> IF activeChain = "base" THEN "signing" ELSE "sent", san |-> san,
                number |-> Len(held[c]) + 1, over |-> IF activeChain = "base" THEN sans ELSE <<>>, answer |-> <<>>]}]
  /\ UNCHANGED <<activeChain, relayList, aged, held, polls, clockRanOut, troubled>>

(* The board is updated before the relay answers; the number is that of    *)
(* the list the browser has.  On base the move is signed first.            *)
executeMove(c, san) ==
  /\ ~boardOver(c) /\ hasTurn(c) /\ san \in MovesOf(c) /\ Cardinality(posts[c]) < MaxPosts
  /\ LET sans == Append(line[c], san)
     IN  /\ line' = [line EXCEPT ![c] = ShownAfterMove(c, sans)]
         /\ posts' = [posts EXCEPT ![c] = @ \cup
              {[stage |-> IF activeChain = "base" THEN "signing" ELSE "sent", san |-> san,
                number |-> Len(held[c]) + 1, over |-> IF activeChain = "base" THEN sans ELSE <<>>, answer |-> <<>>]}]
  /\ UNCHANGED <<activeChain, relayList, aged, held, polls, clockRanOut, troubled>>

Moved(c, post, next) == posts' = [posts EXCEPT ![c] = (@ \ {post}) \cup next]

(* signMove answers with a signature, or fails and the move goes unsigned. *)
signMove(c, post, signed) ==
  /\ post.stage = "signing"
  /\ Moved(c, post, {[post EXCEPT !.stage = "sent", !.over = IF signed THEN @ ELSE <<>>]})
  /\ UNCHANGED <<activeChain, relayList, aged, held, line, polls, clockRanOut, troubled>>

-----------------------------------------------------------------------------
(* The relay, and the network *)

(* A move is stored if its number is not taken, it is legal, the seat is   *)
(* the one to move (stacks lets any through, but only legal ones), and it  *)
(* was signed for this position.                                           *)
relayStores(c, post) ==
  /\ post.stage = "sent"
  /\ LET sans == Append(SansOf(relayList), post.san)
         taken == Len(relayList) >= post.number
         fits == /\ LegalLine(sans) /\ post.over \in {<<>>, sans}
                 /\ activeChain # "stacks" => c = SideAfter(Len(relayList))
     IN  /\ relayList' = IF ~taken /\ fits THEN Append(relayList, [san |-> post.san, by |-> c, at |-> Len(sans)]) ELSE relayList
         /\ Moved(c, post, {[post EXCEPT !.stage = IF taken THEN "conflict" ELSE IF fits THEN "stored" ELSE "refused",
                                         !.answer = IF ~taken /\ ~fits THEN <<>> ELSE relayList']})
  /\ UNCHANGED <<activeChain, aged, held, line, polls, clockRanOut, troubled>>

(* submitMove gets its answer: a stored move is appended to whatever list  *)
(* is there by now, a conflict brings the relay's list.                    *)
postAnswered(c, post) ==
  /\ post.stage \in {"stored", "conflict", "refused"}
  /\ Moved(c, post, {})
  /\ \/ post.stage = "stored" /\ setMoves(c, Append(held[c], Last(post.answer)))
     \/ post.stage = "conflict" /\ setMoves(c, post.answer)
     \/ post.stage = "refused" /\ UNCHANGED <<held, line, clockRanOut>>
  /\ troubled' = (troubled \/ post.stage # "stored")
  /\ UNCHANGED <<activeChain, relayList, aged, polls>>

(* The request or its answer is lost: submitMove answers false. *)
postLost(c, post) ==
  /\ post.stage # "signing"
  /\ Moved(c, post, {})
  /\ troubled' = TRUE
  /\ UNCHANGED <<activeChain, relayList, aged, held, line, polls, clockRanOut>>

(* refresh, every 1.5 seconds *)
pollRead(c) ==
  /\ relayList # <<>> /\ Cardinality(polls[c]) < MaxPolls
  /\ polls' = [polls EXCEPT ![c] = @ \cup {relayList}]
  /\ UNCHANGED <<activeChain, relayList, aged, held, line, posts, clockRanOut, troubled>>

(* Only a longer list is taken. *)
pollAnswered(c, list) ==
  /\ polls' = [polls EXCEPT ![c] = @ \ {list}]
  /\ IF Len(list) > Len(held[c]) THEN setMoves(c, list)
     ELSE UNCHANGED <<held, line, clockRanOut>>
  /\ UNCHANGED <<activeChain, relayList, aged, posts, troubled>>

pollLost(c, list) ==
  /\ polls' = [polls EXCEPT ![c] = @ \ {list}]
  /\ UNCHANGED <<activeChain, relayList, aged, held, line, posts, clockRanOut, troubled>>

-----------------------------------------------------------------------------
(* The clock of GameClientCelo *)

\* mutant
turnExpiresForBoth ==
  /\ activeChain = "celo"
  /\ \A c \in BothSides : posts[c] = {} /\ polls[c] = {} /\ Len(held[c]) >= Len(relayList)
  /\ aged' = Len(relayList)
  /\ clockRanOut' = [c \in BothSides |-> TRUE]
  /\ UNCHANGED <<activeChain, relayList, held, line, posts, polls, troubled>>

(* Five minutes without a move: the network is quicker than that.  Each    *)
(* browser for which it is the opponent's turn counts down to zero.        *)
turnExpires ==
  /\ activeChain = "celo"
  /\ \A c \in BothSides : posts[c] = {} /\ polls[c] = {} /\ Len(held[c]) >= Len(relayList)
  /\ aged' = Len(relayList)
  /\ clockRanOut' = [c \in BothSides |-> clockRanOut[c] \/ (~hasTurn(c) /\ ~boardOver(c))]
  /\ UNCHANGED <<activeChain, relayList, held, line, posts, polls, troubled>>

movesTimedOut(c) == held[c] # <<>> /\ Last(held[c]).at <= aged

(* screenResult before the game is settled on chain. *)
screenResult(c) ==
  LET drawn == boardOver(c) /\ Last(line[c]) \in DrawingMoves
  IN  CASE boardOver(c) /\ ~drawn -> IF hasTurn(c) THEN "lost" ELSE "won"
        [] drawn -> "draw"
        [] ~boardOver(c) /\ clockRanOut[c] -> "won"
        [] ~boardOver(c) /\ ~clockRanOut[c] /\ movesTimedOut(c) ->
             IF hasTurn(c) THEN "lost" ELSE "won"
        [] OTHER -> "none"

-----------------------------------------------------------------------------
PostOf(c) == \E post \in posts[c] : postAnswered(c, post)
PollOf(c) == \E list \in polls[c] : pollAnswered(c, list)

SyncOp ==
  \/ \E c \in BothSides :
       \/ \E san \in Sans : executeMove(c, san)
       \/ \E post \in posts[c] :
            relayStores(c, post) \/ postLost(c, post) \/ \E signed \in BOOLEAN : signMove(c, post, signed)
       \/ PostOf(c)
       \/ pollRead(c) \/ PollOf(c) \/ \E list \in polls[c] : pollLost(c, list)
  \/ turnExpires

SyncSpec == SyncInit /\ [][SyncOp]_syncVars

(* The interval keeps polling, and polls are answered again and again. *)
PollFairness ==
  \A c \in BothSides :
    /\ WF_syncVars(pollRead(c))
    /\ SF_syncVars(PollOf(c))

FairSyncSpec == SyncSpec /\ PollFairness

-----------------------------------------------------------------------------
(* The comment in GameClientCelo about a list that cannot be replayed:     *)
(* "Abort the replay and keep the last good state; the next relay poll     *)
(* will resync."  A browser whose list is not a legal game does not keep   *)
(* it for good.                                                            *)
PollResyncs ==
  \A c \in BothSides : ~LegalLine(SansOf(held[c])) ~> LegalLine(SansOf(held[c]))

(* The answer to an own move may put it into a list that has it already.   *)
TwiceInARow(list) == \E i \in 2..Len(list) : list[i].by = list[i - 1].by

(* However requests and answers overtake each other or are lost, a board   *)
(* shows the relay's game, or part of it, and at most one move more, made  *)
(* by its own player at his turn.  On celo that takes a list without two   *)
(* own moves in a row: the second may pass for the opponent's.             *)
BoardIsRelays ==
  \A c \in BothSides :
    \/ IsPrefix(line[c], SansOf(relayList))
    \/ IsPrefix(Front(line[c]), SansOf(relayList)) /\ SideAfter(Len(line[c]) - 1) = c
    \/ activeChain = "celo" /\ TwiceInARow(held[c])

(* Once the moves have arrived and unless a post failed, the two screens   *)
(* agree: who is told to have won has an opponent who is told to have lost *)
(* (or who has not made the first move), and a draw is one for both.       *)
ResultsAgree ==
  ~troubled /\ (\A c \in BothSides : posts[c] = {} /\ held[c] = relayList) =>
    \A c \in BothSides :
      LET other == screenResult(OtherSeat(c))
      IN  /\ screenResult(c) = "won" => other = "lost" \/ (other = "none" /\ relayList = <<>>)
          /\ screenResult(c) = "draw" => other = "draw"
=============================================================================
