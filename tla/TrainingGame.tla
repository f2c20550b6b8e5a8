---------------------------- MODULE TrainingGame ----------------------------
(***************************************************************************)
(* TrainingGame.tsx: a game against a coach who watches every move         *)
(* ("guided") or just plays ("match").  After the learner's move a         *)
(* continuation waits for the engine and for a thinking beat, then stops   *)
(* the game to offer the move back or lets the coach reply.  The buttons   *)
(* "New game" and the mode switch work at any time, also while it waits.   *)
(* A position is the line of moves that led to it; the learner is white.   *)
(***************************************************************************)
EXTENDS AnalysisEngine

CONSTANTS
  TrainMoves,  \* moves to choose from in a position
  Mates,       \* lines after which the game is over
  TrainPlies,  \* bound: half-moves of a game; every longer one is over too
  Beats        \* continuations that can wait at once

ASSUME TrainPliesAssumption == TrainPlies \in Nat \ {0}

VARIABLES
  board,       \* game, the position shown
  trainPhase, mode, preFen, pendingMove, evalBefore, live,
  note,        \* NoNote, or the move a comment of the coach is about
  blunders,    \* conceptDeltaRef has something to save
  persisted, saves, \* persistedRef; history: saves of this game
  beats,       \* the waiting continuations
  trainQuiet   \* history: no game was reset or switched while the coach was thinking

gameVars == <<board, trainPhase, mode, preFen, pendingMove, evalBefore, live, note,
              blunders, persisted, saves, beats, trainQuiet>>

TrainLines == UNION {[1..n -> TrainMoves] : n \in 0..TrainPlies}
Over(line) == line \in Mates \/ Len(line) >= TrainPlies
WhiteToMove(line) == Len(line) % 2 = 0
NoLine == <<"no line">>
NoNote == <<"no note">>
Awaited == <<"awaited">>
NoResult == <<"null">>
NoBeat == [stage |-> "none"]

(* The markers are no moves, and no continuation is called like one.       *)
ASSUME MarkersAssumption == {"no line", "no note", "awaited", "null"} \cap TrainMoves = {} /\ NoLine \notin Beats

(* post: the analysis of the moved position, as far as it has come. *)
Beat == [stage: {"waiting", "rested"}, mode: {"guided", "match"}, pre: TrainLines,
         moved: TrainLines, post: TrainLines \cup {Awaited, NoResult}, kind: {"reply", "enrich"}]

TrainGameTypeOK ==
  /\ boot \in {"none", "booting", "ready", "failed"} /\ Len(queue) <= MaxQueue
  /\ board \in TrainLines /\ preFen \in TrainLines
  /\ trainPhase \in {"learner", "thinking", "intercept", "over"} /\ mode \in {"guided", "match"}
  /\ pendingMove \in TrainLines \cup {NoLine} /\ note \in TrainLines \cup {NoNote}
  /\ evalBefore \in TrainLines
  /\ live \in BOOLEAN /\ blunders \in BOOLEAN /\ persisted \in BOOLEAN /\ trainQuiet \in BOOLEAN
  /\ saves \in Nat
  /\ beats \in [Beats -> Beat \cup {NoBeat}]

Job(kind, fen, b) == [kind |-> kind, fen |-> fen, beat |-> b]

(* Warming the engine up, and the evaluation of the first position. *)
TrainGameInit ==
  /\ EngineInit
  /\ board = <<>> /\ preFen = <<>> /\ evalBefore = <<>>
  /\ trainPhase = "learner" /\ mode \in {"guided", "match"}
  /\ pendingMove = NoLine /\ note = NoNote
  /\ live = TRUE /\ blunders = FALSE /\ persisted = FALSE /\ saves = 0
  /\ beats = [b \in Beats |-> NoBeat]
  /\ trainQuiet = TRUE

-----------------------------------------------------------------------------
(* Also reached from a reply; loaded: the learner's record is there. *)
endGame(m, loaded) ==
  /\ live' = FALSE /\ trainPhase' = "over" /\ note' = NoNote
  /\ LET save == ~persisted /\ loaded /\ m = "guided"
     IN  /\ persisted' = (persisted \/ save)
         /\ saves' = IF save /\ blunders THEN saves + 1 ELSE saves

\* mutant
coachMoveKeepsBoard(from, m, others) ==
  \E move \in TrainMoves :
    LET reply == Append(from, move)
    IN  /\ preFen' = reply /\ pendingMove' = others
        /\ \/ /\ Over(reply) /\ board' = reply
              /\ \E loaded \in BOOLEAN : endGame(m, loaded)
              /\ UNCHANGED <<engineVars, evalBefore>>
           \/ /\ ~Over(reply) /\ board' = from
              /\ trainPhase' = "learner" /\ note' = NoNote
              /\ Room(1) /\ analyze(<<Job("before", reply, NoLine)>>)
              /\ UNCHANGED <<evalBefore, live, persisted, saves>>

(* The coach moves on the line from; afterwards the position is evaluated  *)
(* for the judgement of the learner's next move.                           *)
coachMove(from, m, others) ==
  \E move \in TrainMoves :
    LET reply == Append(from, move)
    IN  /\ board' = reply /\ preFen' = reply /\ pendingMove' = others
        /\ \/ /\ Over(reply)
              /\ \E loaded \in BOOLEAN : endGame(m, loaded)
              /\ UNCHANGED <<engineVars, evalBefore>>
           \/ /\ ~Over(reply)
              /\ trainPhase' = "learner" /\ note' = NoNote
              /\ Room(1) /\ analyze(<<Job("before", reply, NoLine)>>)
              /\ UNCHANGED <<evalBefore, live, persisted, saves>>

(* What can be pressed: the board takes moves in the learner's phase, and  *)
(* the buttons of the header are there in every phase.                     *)
TrainGameScreen ==
  {"new game", "other mode"} \cup
  CASE trainPhase = "learner" -> {"board"}
    [] trainPhase = "intercept" -> {"take it back", "play it anyway"}
    [] trainPhase = "over" -> {"play again"}
    [] OTHER -> {}

(* On mount the engine is warmed up and the start position evaluated. *)
MountGame ==
  /\ boot = "none"
  /\ analyze(<<Job("warm", <<>>, NoLine), Job("before", <<>>, NoLine)>>)
  /\ UNCHANGED gameVars

onMove(move, b) ==
  LET moved == Append(board, move)
  IN  /\ boot # "none" /\ "board" \in TrainGameScreen
      /\ preFen' = board /\ board' = moved
      /\ \/ /\ Over(moved)
            /\ \E loaded \in BOOLEAN : endGame(mode, loaded)
            /\ UNCHANGED <<engineVars, beats>>
         \/ /\ ~Over(moved) /\ beats[b] = NoBeat
            /\ live' = TRUE /\ trainPhase' = "thinking" /\ note' = NoNote
            /\ beats' = [beats EXCEPT ![b] =
                 [stage |-> "waiting", mode |-> mode, pre |-> board, moved |-> moved,
                  post |-> IF mode = "guided" THEN Awaited ELSE NoResult, kind |-> "reply"]]
            /\ IF mode = "guided" THEN Room(1) /\ analyze(<<Job("post", moved, b)>>)
                                  ELSE UNCHANGED engineVars
            /\ UNCHANGED <<persisted, saves>>
      /\ UNCHANGED <<mode, pendingMove, evalBefore, blunders, trainQuiet>>

(* The thinking beat is over. *)
Rest(b) ==
  /\ beats[b].stage = "waiting"
  /\ beats' = [beats EXCEPT ![b].stage = "rested"]
  /\ UNCHANGED <<engineVars, board, trainPhase, mode, preFen, pendingMove, evalBefore, live,
                 note, blunders, persisted, saves, trainQuiet>>

(* The continuation goes on; loss is the verdict on the move, and may be   *)
(* any if the engine answered: 150 centipawns lost stop the game.          *)
Continue(b) ==
  LET beat == beats[b]
  IN  /\ beat.stage = "rested" /\ beat.kind = "reply" /\ beat.post # Awaited
      /\ \/ /\ ~live
            /\ beats' = [beats EXCEPT ![b] = NoBeat]
            /\ UNCHANGED <<engineVars, board, trainPhase, preFen, pendingMove, evalBefore,
                           live, note, blunders, persisted, saves>>
         \/ /\ live /\ beat.post # NoResult      \* a blunder
            /\ Room(1) /\ analyze(<<Job("pre", beat.pre, b)>>)
            /\ blunders' = TRUE /\ pendingMove' = beat.moved
            /\ note' = NoNote /\ trainPhase' = "intercept"
            /\ beats' = [beats EXCEPT ![b].kind = "enrich", ![b].post = Awaited]
            /\ UNCHANGED <<board, preFen, evalBefore, live, persisted, saves>>
         \/ /\ live
            /\ blunders' \in (IF beat.post = NoResult THEN {blunders} ELSE {blunders, TRUE})
            /\ beats' = [beats EXCEPT ![b] = NoBeat]
            /\ coachMove(beat.moved, beat.mode, pendingMove)
      /\ UNCHANGED <<mode, trainQuiet>>

(* The coach's own words about the move on hold arrive. *)
Enrich(b) ==
  /\ beats[b] # NoBeat /\ beats[b].kind = "enrich" /\ beats[b].post # Awaited
  /\ note' = IF live /\ pendingMove = beats[b].moved THEN beats[b].moved ELSE note
  /\ beats' = [beats EXCEPT ![b] = NoBeat]
  /\ UNCHANGED <<engineVars, board, trainPhase, mode, preFen, pendingMove, evalBefore, live,
                 blunders, persisted, saves, trainQuiet>>

takeBack ==
  /\ "take it back" \in TrainGameScreen
  /\ board' = preFen /\ pendingMove' = NoLine /\ live' = TRUE
  /\ trainPhase' = "learner" /\ note' = NoNote
  /\ UNCHANGED <<engineVars, mode, preFen, evalBefore, blunders, persisted, saves, beats, trainQuiet>>

playAnyway ==
  /\ "play it anyway" \in TrainGameScreen
  /\ \/ /\ pendingMove = NoLine
        /\ trainPhase' = "learner"
        /\ UNCHANGED <<engineVars, board, preFen, pendingMove, evalBefore, live, note, persisted, saves>>
     \/ pendingMove # NoLine /\ coachMove(pendingMove, mode, NoLine)
  /\ UNCHANGED <<mode, blunders, beats, trainQuiet>>

(* "New game", "Play again", or the other mode.  Waiting continuations are *)
(* not cancelled, and live is true again when they go on.                  *)
reset(m) ==
  /\ boot # "none" /\ (IF m = mode THEN "new game" ELSE "other mode") \in TrainGameScreen
  /\ mode' = m
  /\ board' = <<>> /\ preFen' = <<>> /\ evalBefore' = <<>>
  /\ pendingMove' = NoLine /\ live' = TRUE /\ persisted' = FALSE /\ saves' = 0 /\ blunders' = FALSE
  /\ trainPhase' = "learner" /\ note' = NoNote
  /\ Room(1) /\ analyze(<<Job("before", <<>>, NoLine)>>)
  /\ trainQuiet' = (trainQuiet /\ trainPhase # "thinking")
  /\ UNCHANGED beats

(* An analysis is settled; fen is its position, or NoResult.           *)
Deliver(job, fen) ==
  /\ evalBefore' = IF job.kind = "before" /\ fen # NoResult THEN fen ELSE evalBefore
  /\ beats' = IF job.beat # NoLine /\ beats[job.beat] # NoBeat
              THEN [beats EXCEPT ![job.beat].post = fen] ELSE beats
  /\ UNCHANGED <<board, trainPhase, mode, preFen, pendingMove, live, note, blunders,
                 persisted, saves, trainQuiet>>

TrainGameOp ==
  \/ MountGame
  \/ \E b \in Beats :
       \/ \E move \in TrainMoves : onMove(move, b)
       \/ Rest(b) \/ Continue(b) \/ Enrich(b)
  \/ takeBack \/ playAnyway
  \/ \E m \in {"guided", "match"} : reset(m)
  \/ UNCHANGED gameVars /\ (StartSearch \/ \E ok \in BOOLEAN : WorkerBoots(ok))
  \/ resolver # NoJob /\ BestMove(resolver, Head(told)) /\ Deliver(resolver, Head(told))
  \/ queue # <<>> /\ SearchRejected(Head(queue)) /\ Deliver(Head(queue), NoResult)

TrainGameSpec == TrainGameInit /\ [][TrainGameOp]_<<engineVars, gameVars>>

-----------------------------------------------------------------------------
(* The screen never contradicts the board: when the learner is asked for a *)
(* move it is white's turn, when a move is on hold the button "Play it     *)
(* anyway" has that move, and a comment shown with it is about it.  This   *)
(* holds although a reset does not cancel the continuations under way.     *)
PhaseFitsBoard ==
  /\ trainPhase = "learner" => WhiteToMove(board)
  /\ trainPhase = "intercept" => pendingMove # NoLine /\ note \in {NoNote, pendingMove}

(* A move is judged by the difference of two evaluations that arrive       *)
(* separately: when the verdict falls they are those of the positions      *)
(* before and after this very move, unless a game was thrown away while    *)
(* the coach was thinking.                                                 *)
LossIsOfThisMove ==
  trainQuiet =>
    \A b \in Beats :
      beats[b] # NoBeat /\ beats[b].kind = "reply" /\ beats[b].post \notin {Awaited, NoResult} =>
        beats[b].post = beats[b].moved /\ evalBefore = beats[b].pre
=============================================================================
