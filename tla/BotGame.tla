------------------------------ MODULE BotGame ------------------------------
(***************************************************************************)
(* A game against the bot: GameClientCelo with the id "bot", the search of *)
(* lib/chess-engine.ts, and the save in the browser's storage that brings  *)
(* the game back after a reload.  The player is white.  A position is the  *)
(* line of moves that led to it; which lines end in mate is chosen in the  *)
(* first state, so that every small game tree is met.                      *)
(***************************************************************************)
EXTENDS Integers, Sequences, SequencesExt, FiniteSets

CONSTANTS
  BotLines,    \* the positions, closed under prefixes
  MateLines,   \* those in which the side to move may be mated
  Ordered,     \* orderMoves: all moves in the order in which they are tried
  Worth,       \* the material in a position, for white
  Infinity     \* more than any material

BotMoves == {Ordered[i] : i \in DOMAIN Ordered}
NoSave == <<"no save">>
NoReply == <<"no reply">>
NoPiece == <<"no piece">>

ASSUME TreeAssumption ==
  /\ Ordered \in Seq(BotMoves) /\ BotLines \subseteq Seq(BotMoves)
  /\ <<>> \in BotLines /\ \A line \in BotLines \ {<<>>} : Front(line) \in BotLines
  /\ MateLines \subseteq BotLines \ {<<>>}
  /\ {NoSave, NoReply, NoPiece} \cap BotLines = {}

ASSUME WorthAssumption ==
  Infinity \in Nat \ {0} /\ \A line \in BotLines : Worth[line] \in 1 - Infinity..Infinity - 1

VARIABLES
  mates,       \* the mates of this tree
  botBoard,    \* game and moveHistory
  botSave,     \* localStorage[BOT_SAVE_KEY], or NoSave
  botTimer,    \* botReplyTimer: the position it was set for, or NoReply
  pendingPromotion,
  botIntroDone, botPage,
  interrupted  \* history: the page was opened in the middle of this game

botVars == <<mates, botBoard, botSave, botTimer, pendingPromotion, botIntroDone, botPage, interrupted>>

BotTypeOK ==
  /\ mates \subseteq MateLines /\ botBoard \in BotLines
  /\ botSave \in BotLines \cup {NoSave} /\ botTimer \in BotLines \cup {NoReply}
  /\ pendingPromotion \in BotLines \cup {NoPiece}
  /\ botIntroDone \in BOOLEAN /\ interrupted \in BOOLEAN /\ botPage \in {"game", "elsewhere"}

BotInit ==
  /\ mates \in SUBSET MateLines
  /\ botBoard = <<>> /\ botSave = NoSave /\ botTimer = NoReply /\ pendingPromotion = NoPiece
  /\ botIntroDone = FALSE /\ botPage = "game" /\ interrupted = FALSE

-----------------------------------------------------------------------------
(* chess-engine.ts *)

BlackMovesIn(line) == Len(line) % 2 = 1
Replies(line) == {Append(line, Ordered[i]) : i \in DOMAIN Ordered} \cap BotLines
BotOver(line) == line \in mates \/ Replies(line) = {}
Scores == -Infinity..Infinity

(* The moves in the order in which they are tried, if the position has them. *)
orderMoves(line) == [n \in 1..Len(Ordered) |-> Append(line, Ordered[n])]

(* Mate is decisive, a draw is worth nothing, and everything else is a     *)
(* matter of material.                                                     *)
evaluateBoard(line) ==
  IF line \in mates THEN IF BlackMovesIn(line) THEN Infinity ELSE -Infinity
  ELSE IF BotOver(line) THEN 0 ELSE Worth[line]

Larger(a, b) == IF a > b THEN a ELSE b
Smaller(a, b) == IF a < b THEN a ELSE b

\* mutant
BoundedBoth(acc, best, black) ==
  [best |-> best, alpha |-> Larger(acc.alpha, best), beta |-> Smaller(acc.beta, best)]

(* A new best value is a bound for the side that can choose it. *)
Bounded(acc, best, black) ==
  [best |-> best, alpha |-> IF black THEN acc.alpha ELSE Larger(acc.alpha, best),
                  beta |-> IF black THEN Smaller(acc.beta, best) ELSE acc.beta]

(* White maximizes and black minimizes over the moves in their order,     *)
(* given what the search deeper down finds; no more moves are tried once   *)
(* the bounds meet.                                                        *)
searchMoves(deeper, line, alpha, beta) ==
  LET black == BlackMovesIn(line)
      tried[n \in 0..Len(Ordered)] ==
        IF n = 0 THEN [best |-> IF black THEN Infinity ELSE -Infinity, alpha |-> alpha, beta |-> beta]
        ELSE LET acc  == tried[n - 1]
                 next == orderMoves(line)[n]
             IN  IF next \notin BotLines \/ acc.beta <= acc.alpha THEN acc
                 ELSE LET value == deeper[next][acc.alpha][acc.beta]
                      IN  Bounded(acc, IF black THEN Smaller(acc.best, value) ELSE Larger(acc.best, value), black)
  IN  tried[Len(Ordered)].best

minimax[depth \in 0..2] ==
  [line \in BotLines |-> [alpha \in Scores |-> [beta \in Scores |->
     IF depth = 0 \/ BotOver(line) THEN evaluateBoard(line)
     ELSE searchMoves(minimax[depth - 1], line, alpha, beta)]]]

(* The first move whose value is below all before it; none is, if every    *)
(* move loses by force.                                                    *)
getBestMove(line, depth) ==
  LET found[n \in 0..Len(Ordered)] ==
        IF n = 0 THEN [move |-> NoReply, value |-> Infinity]
        ELSE LET acc  == found[n - 1]
                 next == orderMoves(line)[n]
             IN  IF next \notin BotLines THEN acc
                 ELSE LET value == minimax[depth - 1][next][-Infinity][Infinity]
                      IN  IF value < acc.value THEN [move |-> next, value |-> value] ELSE acc
  IN  found[Len(Ordered)].move

-----------------------------------------------------------------------------
(* GameClientCelo *)

botIntroOpen == ~botIntroDone /\ botBoard = <<>>

BotScreen ==
  IF botPage # "game" THEN {}
  ELSE IF pendingPromotion # NoPiece THEN {"promotion"}
  ELSE IF botIntroOpen THEN {"leave", "skip"}
  ELSE {"leave"} \cup (IF BotOver(botBoard) THEN {"new game"}
                       ELSE IF BlackMovesIn(botBoard) THEN {} ELSE {"board"})

(* executeMove with a piece chosen or none needed: the game is saved, and  *)
(* forgotten once it is over, unless the move gives check and draws.       *)
executeBotMove(next) ==
  /\ botBoard' = next
  /\ \/ botSave' = NoSave /\ BotOver(next)
     \/ botSave' = next /\ next \notin mates
  /\ botTimer' = IF BotOver(next) THEN botTimer ELSE next
  /\ UNCHANGED <<mates, botIntroDone, botPage, interrupted>>

(* A piece is dropped on a square, and asks which piece it becomes if it   *)
(* is a pawn on the last rank.                                             *)
playerDrops(next, promotes) ==
  /\ "board" \in BotScreen /\ next \in Replies(botBoard)
  /\ \/ promotes /\ pendingPromotion' = next
        /\ UNCHANGED <<mates, botBoard, botSave, botTimer, botIntroDone, botPage, interrupted>>
     \/ ~promotes /\ executeBotMove(next) /\ UNCHANGED pendingPromotion

handlePromotionSelect ==
  /\ "promotion" \in BotScreen
  /\ executeBotMove(pendingPromotion)
  /\ pendingPromotion' = NoPiece

PromotionCancelled ==
  /\ "promotion" \in BotScreen
  /\ pendingPromotion' = NoPiece
  /\ UNCHANGED <<mates, botBoard, botSave, botTimer, botIntroDone, botPage, interrupted>>

\* mutant
botRepliesUnsaved(depth) ==
  /\ botTimer # NoReply
  /\ botTimer' = NoReply
  /\ LET reply == getBestMove(botTimer, depth)
     IN  IF reply = NoReply THEN UNCHANGED botBoard ELSE botBoard' = reply
  /\ UNCHANGED <<mates, botSave, pendingPromotion, botIntroDone, botPage, interrupted>>

(* The timer fires.  React runs the updater that saves the new history     *)
(* only after the handler, so a game that the reply ends is saved although *)
(* the handler has removed the save.                                       *)
botReplies(depth) ==
  /\ botTimer # NoReply
  /\ botTimer' = NoReply
  /\ LET reply == getBestMove(botTimer, depth)
     IN  IF reply = NoReply THEN UNCHANGED <<botBoard, botSave>>
         ELSE botBoard' = reply /\ botSave' = reply
  /\ UNCHANGED <<mates, pendingPromotion, botIntroDone, botPage, interrupted>>

resetBotGame ==
  /\ "new game" \in BotScreen
  /\ botTimer' = NoReply /\ botSave' = NoSave /\ botBoard' = <<>>
  /\ botIntroDone' = FALSE /\ interrupted' = FALSE
  /\ UNCHANGED <<mates, pendingPromotion, botPage>>

finishBotIntro ==
  /\ "skip" \in BotScreen
  /\ botIntroDone' = TRUE
  /\ UNCHANGED <<mates, botBoard, botSave, botTimer, pendingPromotion, botPage, interrupted>>

(* Leaving or reloading, also with the modal open; the timer is cleared.   *)
CloseBotPage ==
  /\ botPage = "game"
  /\ botPage' = "elsewhere" /\ botTimer' = NoReply /\ pendingPromotion' = NoPiece
  /\ UNCHANGED <<mates, botBoard, botSave, botIntroDone, interrupted>>

OpenBotPage ==
  /\ botPage = "elsewhere"
  /\ botPage' = "game" /\ botIntroDone' = FALSE
  /\ botBoard' = IF botSave = NoSave THEN <<>> ELSE botSave
  /\ interrupted' = (botSave # NoSave)
  /\ UNCHANGED <<mates, botSave, botTimer, pendingPromotion>>

BotOp ==
  \/ \E next \in BotLines, promotes \in BOOLEAN : playerDrops(next, promotes)
  \/ handlePromotionSelect \/ PromotionCancelled
  \/ \E depth \in 1..3 : botReplies(depth)
  \/ resetBotGame \/ finishBotIntro \/ CloseBotPage \/ OpenBotPage

BotSpec == BotInit /\ [][BotOp]_botVars

-----------------------------------------------------------------------------
(* The value of a position by definition. *)
GameValue[depth \in 0..2] ==
  [line \in BotLines |->
     IF depth = 0 \/ BotOver(line) THEN evaluateBoard(line)
     ELSE LET values == {GameValue[depth - 1][next] : next \in Replies(line)}
          IN  IF BlackMovesIn(line) THEN CHOOSE v \in values : \A u \in values : v <= u
              ELSE CHOOSE v \in values : \A u \in values : v >= u]

(* The pruned search finds a move of the least value there is, whatever    *)
(* the tree; and the bot falls silent in a game that goes on only where it *)
(* is mated by force, or where a reload has lost its turn.                 *)
BotPlaysBest ==
  /\ botTimer # NoReply =>
       \A depth \in 1..3 :
         LET reply  == getBestMove(botTimer, depth)
             values == {GameValue[depth - 1][next] : next \in Replies(botTimer)}
         IN  IF reply = NoReply THEN values = {Infinity}
             ELSE \A v \in values : GameValue[depth - 1][reply] <= v
  /\ botPage = "game" /\ BlackMovesIn(botBoard) /\ ~BotOver(botBoard) /\ botTimer = NoReply /\ ~interrupted =>
       \A next \in Replies(botBoard) : GameValue[2][next] = Infinity

(* A reload brings back the game that is on the screen: what is saved is   *)
(* what is shown, move by move, and every game under way is saved.         *)
BotGameResumes ==
  botPage = "game" =>
    /\ botSave \in {NoSave, botBoard}
    /\ botBoard # <<>> /\ ~BotOver(botBoard) => botSave = botBoard
=============================================================================
