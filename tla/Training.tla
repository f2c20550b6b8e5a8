------------------------------ MODULE Training ------------------------------
(***************************************************************************)
(* The two pages on which progress is earned, over the store that keeps it *)
(* (TrainStore).  A move is judged by Stockfish while the page waits; the  *)
(* verdict comes later, from the engine or, without one, from the key.     *)
(***************************************************************************)
EXTENDS TrainStore

StepsOf(lesson) == Curriculum[CHOOSE i \in DOMAIN Curriculum : Curriculum[i].id = lesson].steps
ConceptOf(lesson) == Curriculum[CHOOSE i \in DOMAIN Curriculum : Curriculum[i].id = lesson].concept

PageOnly == UNCHANGED <<learner, trainCalls, learnerView, navCoach, trainCalm>>

(* What the two pages show: a board that takes moves or not, the text of   *)
(* the phase, and the button that leads on from a judged position.         *)
Onward(last) ==
  IF page.phase # "right" THEN "none" ELSE IF page.step < last THEN "next" ELSE "finish"

LessonScreen ==
  IF page.screen # "lesson" THEN [button |-> "none", board |-> FALSE]
  ELSE [board |-> page.phase \in {"solving", "wrong"}, button |-> Onward(StepsOf(page.lesson)),
        intro |-> page.step = 1 /\ page.phase = "solving", text |-> page.phase]

PlacementScreen ==
  IF page.screen # "placement" THEN [button |-> "none", board |-> FALSE]
  ELSE [board |-> page.phase = "solving", button |-> Onward(Len(PlacementItems)),
        solved |-> Cardinality({i \in DOMAIN page.results : page.results[i]}), text |-> page.phase]

\* mutant
LessonMoveWhileChecking(key) ==
  /\ page.screen = "lesson" /\ page.phase # "complete"
  /\ page' = [page EXCEPT !.phase = "checking", !.judging = @ \cup {<<page.step, key>>}]
  /\ PageOnly /\ UNCHANGED <<solved, placements>>

(* A legal move on the board of a lesson: the key move or another one. *)
LessonMove(key) ==
  /\ LessonScreen.board
  /\ page' = [page EXCEPT !.phase = "checking", !.judging = @ \cup {<<page.step, key>>}]
  /\ PageOnly /\ UNCHANGED <<solved, placements>>

(* judge: the engine's verdict, or the key's when the engine is down. *)
Verdict(move, engine) == IF engine THEN BOOLEAN ELSE {move[2]}

LessonVerdict(move, ok) ==
  /\ page.screen = "lesson" /\ move \in page.judging
  /\ page' = [page EXCEPT !.judging = @ \ {move}, !.phase = IF ok THEN "right" ELSE "wrong",
                          !.rights = IF ok THEN @ \cup {move[1]} ELSE @]
  /\ PageOnly /\ UNCHANGED <<solved, placements>>

NextStep ==
  /\ LessonScreen.button = "next"
  /\ page' = [page EXCEPT !.step = @ + 1, !.phase = "solving"]
  /\ PageOnly /\ UNCHANGED <<solved, placements>>

(* "Finish lesson": a quarter is added to the mastery the page knows of,   *)
(* nothing if its copy of the record has not come yet.                     *)
FinishLesson(c) ==
  LET known == IF learnerView = NoLearner THEN 0 ELSE learnerView.mastery[ConceptOf(page.lesson)]
  IN  /\ LessonScreen.button = "finish"
      /\ Ask(c, "PATCH", [NoPatch EXCEPT !.lesson = page.lesson,
                            !.mastery = [k \in {ConceptOf(page.lesson)} |-> Clamp(known + 25)]], TRUE)
      /\ page' = [page EXCEPT !.phase = "complete"]
      /\ solved' = IF page.rights = 1..StepsOf(page.lesson) THEN solved \cup {page.lesson} ELSE solved
      /\ UNCHANGED <<learner, learnerView, navCoach, placements, trainCalm>>

-----------------------------------------------------------------------------
(* The placement test; a judged item is appended to the results. *)
PlacementMove(key) ==
  /\ PlacementScreen.board
  /\ page' = [page EXCEPT !.phase = "checking", !.judging = @ \cup {<<page.step, key>>}]
  /\ PageOnly /\ UNCHANGED <<solved, placements>>

PlacementVerdict(move, ok) ==
  /\ page.screen = "placement" /\ move \in page.judging
  /\ page' = [page EXCEPT !.judging = @ \ {move}, !.phase = "right", !.results = Append(@, ok)]
  /\ PageOnly /\ UNCHANGED <<solved, placements>>

NextItem ==
  /\ PlacementScreen.button = "next"
  /\ page' = [page EXCEPT !.step = @ + 1, !.phase = "solving"]
  /\ PageOnly /\ UNCHANGED <<solved, placements>>

FinishPlacement(c) ==
  LET outcome == scorePlacement(page.results)
  IN  /\ PlacementScreen.button = "finish"
      /\ Ask(c, "PATCH", [NoPatch EXCEPT !.placed = TRUE, !.level = outcome.level,
                            !.mastery = outcome.mastery], TRUE)
      /\ page' = [page EXCEPT !.phase = "complete"]
      /\ placements' = placements \cup {PlacementScreen.solved}
      /\ UNCHANGED <<learner, learnerView, navCoach, solved, trainCalm>>

TrainOp ==
  \/ \E c \in TrainCalls :
       \/ getOrCreateLearner(c) \/ CreateLearner(c) \/ saveLearner(c) \/ TrainAnswer(c) \/ TrainCallEnds(c)
       \/ Refresh(c) \/ AdoptCoach(c) \/ FinishLesson(c) \/ FinishPlacement(c)
       \/ \E coach \in Coaches : ChooseCoach(c, coach)
  \/ \E q \in Coaches \cup {None} : OpenHub(q)
  \/ \E screen \in {"settings", "elsewhere"} : LeaveTraining(screen)
  \/ OpenPlacement
  \/ \E lesson \in Lessons : OpenLesson(lesson)
  \/ \E key \in BOOLEAN : LessonMove(key) \/ PlacementMove(key)
  \/ \E move \in page.judging, engine \in BOOLEAN : \E ok \in Verdict(move, engine) :
       LessonVerdict(move, ok) \/ PlacementVerdict(move, ok)
  \/ NextStep \/ NextItem

TrainSpec == TrainInit /\ [][TrainOp]_trainVars

-----------------------------------------------------------------------------
(* Progress is earned: a lesson is ever marked as completed, in the record *)
(* or in a copy a handler or a page holds, only if all its steps were      *)
(* judged right one after the other in one visit, and the level is only    *)
(* lifted by a finished test with enough items solved.                     *)
EarnedProgress(m) ==
  m # NoLearner =>
    /\ m.completed \subseteq solved
    /\ m.level = "intermediate" => \E n \in placements : n >= EnoughSolved

ProgressIsEarned ==
  /\ EarnedProgress(learner) /\ EarnedProgress(learnerView)
  /\ \A c \in TrainCalls : trainCalls[c] # NoTrainCall => EarnedProgress(trainCalls[c].model)

(* Progress is kept: calls fail, die half-way and answer pages that are    *)
(* gone, but while no handler read the record as another one was about to  *)
(* write it, no step takes a completed lesson or the placement away.       *)
ProgressKept ==
  [][trainCalm' /\ learner # NoLearner =>
       learner' # NoLearner /\ learner.completed \subseteq learner'.completed
       /\ (learner.placed => learner'.placed)]_trainVars
=============================================================================
