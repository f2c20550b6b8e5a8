----------------------------- MODULE GameClient -----------------------------
(***************************************************************************)
(* One player's game page: GameClientCelo with its sidebar, action bar,    *)
(* intro, join room and result overlay on celo, GameClientMultichain on    *)
(* base and stacks.  It shows what it last read of the chain next to the   *)
(* board that MoveSync keeps, and sends transactions that are mined later. *)
(* Callbacks run with the values of the rendering that created them.       *)
(***************************************************************************)
EXTENDS Integers, FiniteSets

CONSTANT PageMoves  \* bound: half-moves seen on the page

ASSUME PageMovesAssumption == PageMoves \in Nat

VARIABLES
  home,       \* the chain the game is on
  active,     \* activeChain
  seat,       \* myColor, once on chain: "white", "black" or "none"
  chainGame,  \* [status, result, proposer] as the contract has it
  cached,     \* what wagmi's hooks read last
  seen,       \* gameData, or NoData
  plies, ending,     \* the board: half-moves, and "none", "mate" or "draw"
  opponentTimedOut,  \* the countdown of the opponent's move ran out on this page
  lastMoveOld,       \* the last move of the relay is older than the limit: movesTimedOut
  didResign, settleRef,
  txs,        \* transactions the page waits for; txPending
  mempool,    \* transactions of this player not yet mined
  hold,       \* the running timer of the hold-to-quit button and its closure
  pressed,    \* the player's finger is on the screen
  introDone, route,
  quitUnheld  \* history: the page was quit by a button that had been let go

clientVars == <<home, active, seat, chainGame, cached, seen, plies, ending, opponentTimedOut,
                lastMoveOld, didResign, settleRef, txs, mempool, hold, pressed, introDone, route, quitUnheld>>

NoData == [status |-> "none", result |-> "none", proposer |-> "none"]
NoHold == [held |-> FALSE]
Hold == [held: {TRUE}, forfeits: BOOLEAN, busy: BOOLEAN]
GameData == [status: {"none", "waiting", "active", "finished", "draw", "cancelled"},
             result: {"none", "white", "black", "draw", "cancelled"}, proposer: {"none", "white", "black"}]
Kinds == {"join", "cancel", "resign", "propose", "accept", "claim", "report"}

ClientTypeOK ==
  /\ home \in {"celo", "base", "stacks"} /\ active \in {"celo", "base", "stacks"}
  /\ seat \in {"white", "black", "none"}
  /\ {chainGame, cached, seen} \subseteq GameData
  /\ plies \in 0..PageMoves /\ ending \in {"none", "mate", "draw"}
  /\ {opponentTimedOut, lastMoveOld, didResign, introDone, pressed, quitUnheld} \subseteq BOOLEAN
  /\ settleRef \in {"no", "asked", "done"}
  /\ txs \subseteq Kinds /\ mempool \subseteq Kinds
  /\ hold \in Hold \cup {NoHold} /\ route \in {"game", "lobby"}

ClientInit ==
  /\ home \in {"celo", "base", "stacks"} /\ active = home
  /\ seat \in {"white", "black", "none"}
  /\ chainGame = [status |-> IF seat = "black" THEN "active" ELSE "waiting",
                  result |-> "none", proposer |-> "none"]
  /\ cached = NoData /\ seen = NoData
  /\ plies = 0 /\ ending = "none"
  /\ opponentTimedOut = FALSE /\ lastMoveOld = FALSE /\ didResign = FALSE /\ settleRef = "no"
  /\ txs = {} /\ mempool = {} /\ hold = NoHold
  /\ introDone = FALSE /\ route = "game" /\ pressed = FALSE /\ quitUnheld = FALSE

-----------------------------------------------------------------------------
(* What is derived from the record and from the board *)

Other(c) == IF c = "white" THEN "black" ELSE "white"
turn == IF plies % 2 = 0 THEN "white" ELSE "black"
gameOver == ending # "none"

gameIsWaiting == seen.status = "waiting"
contractActive == seen.status = "active"
payoutSettled == seen.status \in {"finished", "draw"}

(* A joiner is a participant once the record says so. *)
isParticipant == seat = "white" \/ (seat = "black" /\ seen.status \notin {"none", "waiting"})
isMyTurn == isParticipant /\ turn = seat
canJoinFromPage == gameIsWaiting /\ ~isParticipant
canAct == txs = {} /\ isParticipant

opponentProposedDraw == seen.proposer # "none" /\ seen.proposer # seat
iProposedDraw == seen.proposer = seat

resultForColor == IF seen.result \in {"draw", "none"} THEN seen.result
                  ELSE IF seen.result = seat THEN "won" ELSE "lost"

BoardResult ==
  CASE ending = "mate" -> IF turn = seat THEN "lost" ELSE "won"
    [] ending # "mate" /\ didResign -> "lost"
    [] ending = "draw" /\ ~didResign -> "draw"
    [] ending = "none" /\ ~didResign /\ opponentTimedOut -> "won"
    [] ending = "none" /\ ~didResign /\ ~opponentTimedOut /\ lastMoveOld /\ contractActive ->
         IF turn = seat THEN "lost" ELSE "won"
    [] OTHER -> "none"

\* mutant
gameResultOfBoard ==
  IF ~isParticipant THEN "none"
  ELSE IF BoardResult # "none" THEN BoardResult
  ELSE IF payoutSettled THEN resultForColor ELSE "none"

(* Once settled, the chain's result; before, what the page can tell. *)
gameResult ==
  IF ~isParticipant THEN "none" ELSE IF payoutSettled THEN resultForColor ELSE BoardResult

introOpen == ~introDone /\ isParticipant /\ (gameIsWaiting \/ contractActive)

-----------------------------------------------------------------------------
(* What the player can press *)

JoinRoom == IF txs = {} THEN {"join", "leave"} ELSE {"leave"}

(* The intro can be left while it searches, and skipped after. *)
MatchIntro == IF contractActive THEN {"skip"} ELSE {"leave"}

GameResultOverlay == {"leave"}

GameSidebar ==
  IF gameOver \/ ~contractActive \/ ~canAct \/ iProposedDraw THEN {}
  ELSE IF opponentProposedDraw THEN {"accept"} ELSE {"propose"}

(* The button says "Hold to Resign" when quitting forfeits the wager. *)
quitForfeits == contractActive /\ ~gameOver
GameActionBar == IF gameOver THEN {"leave"} ELSE {"hold"}

BoardPanel == IF canAct /\ ~gameOver /\ isMyTurn THEN {"move"} ELSE {}

CeloButtons ==
  IF seen = NoData THEN {"leave"}
  ELSE IF canJoinFromPage THEN JoinRoom
  ELSE IF introOpen THEN MatchIntro
  ELSE IF gameResult # "none" THEN GameResultOverlay
  ELSE {"leave"} \cup GameSidebar \cup GameActionBar \cup BoardPanel

(* stacks does not read the proposer of a draw, base has no cancelGame. *)
DrawControls ==
  IF ~contractActive \/ ~isParticipant \/ txs # {} THEN {}
  ELSE IF opponentProposedDraw THEN {"accept"} ELSE IF iProposedDraw THEN {} ELSE {"propose"}

Operations ==
  (IF canAct /\ ~gameOver THEN {"report", "resign"} ELSE {}) \cup DrawControls
  \cup (IF active = "stacks" /\ contractActive /\ isParticipant /\ ~isMyTurn /\ txs = {} THEN {"claim"} ELSE {})

MultichainButtons ==
  IF seen = NoData THEN {"leave", "search"}
  ELSE {"leave"} \cup BoardPanel \cup
       (IF canJoinFromPage THEN IF txs = {} THEN {"join"} ELSE {}
        ELSE IF gameIsWaiting /\ seat = "white" THEN IF txs = {} THEN {"cancel"} ELSE {}
        ELSE Operations)

Buttons == IF route # "game" THEN {} ELSE IF active = "celo" THEN CeloButtons ELSE MultichainButtons

-----------------------------------------------------------------------------
(* The page reads the chain *)

Chain == <<home, active, seat, chainGame, mempool>>
Board == <<plies, ending>>
Clock == <<opponentTimedOut, lastMoveOld>>
Press == <<txs, hold, pressed, introDone, route, quitUnheld, didResign>>

(* useGameData every 4 seconds; base reads the record and the proposer     *)
(* with two hooks, stacks the record without the proposer.                 *)
pollCelo ==
  /\ active = "celo" /\ home = "celo"
  /\ cached' = chainGame /\ seen' = chainGame

(* gameData is set only when one of the hooks has something new.  The      *)
(* proposer is read while the game is active.                              *)
pollBase ==
  /\ active = "base" /\ home = "base"
  /\ \/ cached' = [chainGame EXCEPT !.proposer = cached.proposer]
     \/ contractActive /\ cached' = [cached EXCEPT !.proposer = chainGame.proposer]
  /\ seen' = IF cached' # cached THEN cached' ELSE seen

pollStacks ==
  /\ active = "stacks" /\ home = "stacks"
  /\ seen' = [chainGame EXCEPT !.proposer = "none"]
  /\ UNCHANGED cached

ReadChain ==
  /\ route = "game"
  /\ pollCelo \/ pollBase \/ pollStacks
  /\ UNCHANGED <<Chain, Board, Press, Clock>>

(* SEARCH ON the other chain forgets the record, but not what was cached.  *)
setActiveChain ==
  /\ "search" \in Buttons
  /\ active' = IF active = "stacks" THEN "base" ELSE "stacks"
  /\ seen' = NoData
  /\ UNCHANGED <<home, seat, chainGame, mempool, cached, Board, Press, Clock>>

(* A move of either side reaches the board; the clock starts again. *)
BoardMoves(next) ==
  /\ chainGame.status # "waiting" /\ seen.status \notin {"none", "waiting"} /\ ~gameOver /\ plies < PageMoves
  /\ isMyTurn => "move" \in Buttons
  /\ plies' = plies + 1 /\ ending' = next /\ opponentTimedOut' = FALSE /\ lastMoveOld' = FALSE
  /\ UNCHANGED <<Chain, cached, seen, Press>>

opponentExpires ==
  /\ active = "celo" /\ route = "game" /\ contractActive /\ ~isMyTurn /\ ~gameOver
  /\ opponentTimedOut' = TRUE
  /\ UNCHANGED <<Chain, cached, seen, Board, Press, lastMoveOld>>

(* The limit of the move passes by the relay's clock, also for a player    *)
(* who comes back to the page only after that.                             *)
RelayClockRunsOut ==
  /\ active = "celo" /\ plies > 0 /\ ~gameOver
  /\ lastMoveOld' = TRUE
  /\ UNCHANGED <<Chain, cached, seen, Board, Press, opponentTimedOut>>

(* The effect asks the server to settle once the board is terminal; it     *)
(* runs again only when one of its dependencies has changed.               *)
Terminal == active = "celo" /\ isParticipant /\ contractActive /\ (gameOver \/ opponentTimedOut)
SettleDeps == <<isParticipant, contractActive, gameOver, opponentTimedOut>>

SettleEffect ==
  settleRef' = IF route = "game" /\ Terminal' /\ SettleDeps' # SettleDeps /\ settleRef = "no"
               THEN "asked" ELSE settleRef

(* requestSettle answers. *)
settleAnswered(ok) ==
  /\ settleRef = "asked"
  /\ settleRef' = IF ok THEN "done" ELSE "no"
  /\ UNCHANGED <<Chain, cached, seen, Board, Press, Clock>>

-----------------------------------------------------------------------------
(* The player *)

(* withTx, from a button that is shown. *)
withTx(kind) ==
  /\ kind \in Buttons \cap Kinds /\ txs = {}
  /\ txs' = {kind}
  /\ UNCHANGED <<Chain, cached, seen, Board, Clock, hold, introDone, route, pressed, quitUnheld, didResign>>

(* The wallet sends it, or the player refuses.  A join waits for its       *)
(* receipt; on stacks and base a win is reported to the server.            *)
sendWrite(kind, sent) ==
  /\ kind \in txs
  /\ mempool' = IF sent THEN mempool \cup {kind} ELSE mempool
  /\ txs' = IF sent /\ kind = "join" THEN txs ELSE txs \ {kind}
  /\ didResign' = (didResign \/ (active = "celo" /\ kind = "resign" /\ sent /\ route = "game"))
  /\ UNCHANGED <<home, active, seat, chainGame, cached, seen, Board, Clock,
                 hold, pressed, introDone, route, quitUnheld>>

(* The action bar: the timer keeps the onQuit of this rendering. *)
startHold ==
  /\ "hold" \in Buttons /\ hold = NoHold
  /\ hold' = [held |-> TRUE, forfeits |-> quitForfeits, busy |-> txs # {}] /\ pressed' = TRUE
  /\ UNCHANGED <<Chain, cached, seen, Board, Clock, txs, introDone, route, quitUnheld, didResign>>

(* The finger is lifted, which the timer hears of only while the button is *)
(* on the page and has not become "New Game".                              *)
cancelHold ==
  /\ pressed
  /\ pressed' = FALSE
  /\ hold' = IF route = "game" /\ seen # NoData /\ ~gameOver THEN NoHold ELSE hold
  /\ UNCHANGED <<Chain, cached, seen, Board, Clock, txs, introDone, route, quitUnheld, didResign>>

(* The timer fires, whatever has become of the page since. *)
onQuit ==
  /\ hold # NoHold
  /\ hold' = NoHold /\ route' = "lobby"
  /\ txs' = IF hold.forfeits /\ ~hold.busy THEN txs \cup {"resign"} ELSE txs
  /\ quitUnheld' = (quitUnheld \/ ~pressed)
  /\ UNCHANGED <<Chain, cached, seen, Board, Clock, pressed, introDone, didResign>>

LeavePage ==
  /\ "leave" \in Buttons
  /\ route' = "lobby"
  /\ UNCHANGED <<Chain, cached, seen, Board, Clock, txs, hold, introDone, pressed, quitUnheld, didResign>>

(* The countdown of the intro ends, or it is skipped. *)
finishIntro ==
  /\ "skip" \in Buttons
  /\ introDone' = TRUE
  /\ UNCHANGED <<Chain, cached, seen, Board, Clock, txs, hold, route, pressed, quitUnheld, didResign>>

-----------------------------------------------------------------------------
(* The contract, the opponent and the oracle *)

Closed(status, result) == [chainGame EXCEPT !.status = status, !.result = result]

(* A transaction is mined, and reverts where the contract does not allow it.*)
Effect(kind) ==
  IF seat = "none" /\ kind # "join" THEN chainGame
  ELSE
  CASE kind = "join" /\ chainGame.status = "waiting" -> [chainGame EXCEPT !.status = "active"]
    [] kind = "cancel" /\ chainGame.status = "waiting" -> Closed("cancelled", "cancelled")
    [] kind = "resign" /\ chainGame.status = "active" -> Closed("finished", Other(seat))
    [] kind = "propose" /\ chainGame.status = "active" -> [chainGame EXCEPT !.proposer = seat]
    [] kind = "accept" /\ chainGame.status = "active" /\ chainGame.proposer = Other(seat) -> Closed("draw", "draw")
    [] OTHER -> chainGame

Mined(kind) ==
  /\ kind \in mempool
  /\ mempool' = mempool \ {kind} /\ txs' = txs \ {kind}
  /\ chainGame' = Effect(kind)
  /\ seat' = IF kind = "join" /\ chainGame' # chainGame THEN "black" ELSE seat
  /\ UNCHANGED <<home, active, cached, seen, Board, Clock, hold, introDone, route, pressed, quitUnheld, didResign>>

OthersAct ==
  /\ \/ chainGame.status = "waiting" /\ chainGame' = [chainGame EXCEPT !.status = "active"]
     \/ chainGame.status = "waiting" /\ seat = "none" /\ chainGame' = Closed("cancelled", "cancelled")
     \/ /\ chainGame.status = "active" /\ seat # "none"
        /\ chainGame' \in {Closed("finished", seat), [chainGame EXCEPT !.proposer = Other(seat)]}
     \/ chainGame.status = "active" /\ chainGame.proposer = seat /\ chainGame' = Closed("draw", "draw")
     \/ /\ chainGame.status = "active"                                 \* the oracle
        /\ \E c \in {"white", "black"} : chainGame' \in {Closed("finished", c), Closed("draw", "draw")}
  /\ UNCHANGED <<home, active, seat, mempool, cached, seen, Board, Press, Clock>>

-----------------------------------------------------------------------------
PageOp ==
  \/ ReadChain \/ setActiveChain \/ opponentExpires \/ RelayClockRunsOut
  \/ \E next \in {"none", "mate", "draw"} : BoardMoves(next)
  \/ \E kind \in Kinds : withTx(kind) \/ Mined(kind) \/ \E sent \in BOOLEAN : sendWrite(kind, sent)
  \/ startHold \/ cancelHold \/ onQuit \/ LeavePage \/ finishIntro
  \/ OthersAct

ClientOp == (PageOp /\ SettleEffect) \/ \E ok \in BOOLEAN : settleAnswered(ok)

ClientSpec == ClientInit /\ [][ClientOp]_clientVars

-----------------------------------------------------------------------------
(* The comment on onQuit in GameActionBar: "Fired only after the user      *)
(* holds the CTA to completion."                                           *)
HeldToCompletion == ~quitUnheld

(* The verdict on the screen is final once it is the chain's: no late      *)
(* move, clock or resignation of this page turns it over.                  *)
VerdictIsFinal ==
  [][payoutSettled /\ isParticipant /\ seen' # NoData => gameResult' = gameResult]_clientVars
=============================================================================
