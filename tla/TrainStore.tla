----------------------------- MODULE TrainStore -----------------------------
(***************************************************************************)
(* The training record of one player (lib/train-store.ts behind the route  *)
(* /api/train) and the pages that change it: the hub, a lesson and the     *)
(* placement test.  The server reads the record and writes it back in two  *)
(* steps, nothing guards the steps in between; a page posts a change,      *)
(* waits, and then sends the player to the hub, wherever he is by then.    *)
(* Mastery is counted in percent.                                          *)
(***************************************************************************)
EXTENDS Integers, FiniteSets, Sequences

CONSTANTS
  Coaches, DefaultCoach,  \* COACHES, and the one an empty record names
  Curriculum,             \* the lessons in order: [id, concept, steps]
  Taxonomy,               \* CONCEPTS in order: [id, level]
  PlacementItems,         \* the placement test: a sequence of [concept, level]
  EnoughSolved,           \* solved items that lift the level, 4 in the code
  TrainCalls              \* concurrent request handlers

Lessons == {Curriculum[i].id : i \in DOMAIN Curriculum}
AllConcepts == {Taxonomy[i].id : i \in DOMAIN Taxonomy}
Levels == {"basics", "intermediate"}

ASSUME TrainAssumption == DefaultCoach \in Coaches /\ EnoughSolved \in Nat

(* No lesson and no test is empty, and both only name listed concepts. *)
ASSUME CurriculumAssumption ==
  /\ \A i \in DOMAIN Curriculum : Curriculum[i].steps \in Nat \ {0} /\ Curriculum[i].concept \in AllConcepts
  /\ PlacementItems \in Seq([concept: AllConcepts, level: Levels]) \ {<<>>}

VARIABLES
  learner,     \* chess:train:learner:<address>, or NoLearner
  trainCalls,  \* what each handler is doing
  learnerView, \* useLearner's copy in the browser, or NoLearner
  page,        \* the page the browser shows
  navCoach,    \* useCoachStore: the coach whose face the navigation shows
  solved,      \* history: lessons whose every step was judged right in one visit
  placements,  \* history: solved items of each test that was finished
  trainCalm    \* history: no handler read the record while another one held a copy

trainVars == <<learner, trainCalls, learnerView, page, navCoach, solved, placements, trainCalm>>

NoLearner == [coach |-> "none"]
NoTrainCall == [stage |-> "idle"]
None == "none"

Learner == [coach: Coaches, level: Levels, mastery: [AllConcepts -> 0..100],
            completed: SUBSET Lessons, placed: BOOLEAN]

\* mutant
emptyLearnerAsAsked(coach) ==
  [coach |-> coach, level |-> "basics", mastery |-> [k \in AllConcepts |-> 0], completed |-> {},
   placed |-> FALSE]

emptyLearner(coach) ==
  [coach |-> IF coach = None THEN DefaultCoach ELSE coach, level |-> "basics",
   mastery |-> [k \in AllConcepts |-> 0], completed |-> {}, placed |-> FALSE]

(* A change: what it leaves alone is absent from it. *)
NoPatch == [coach |-> None, level |-> None, placed |-> FALSE,
            mastery |-> [k \in {} |-> 0], lesson |-> None]

Clamp(v) == IF v < 0 THEN 0 ELSE IF v > 100 THEN 100 ELSE v

\* mutant
applyPlacedLevel(model, patch) ==
  [coach |-> IF patch.coach = None THEN model.coach ELSE patch.coach,
   level |-> IF patch.placed THEN "intermediate" ELSE model.level,
   placed |-> model.placed \/ patch.placed,
   mastery |-> [k \in AllConcepts |-> IF k \in DOMAIN patch.mastery
                                      THEN Clamp(patch.mastery[k]) ELSE model.mastery[k]],
   completed |-> IF patch.lesson = None THEN model.completed ELSE model.completed \cup {patch.lesson}]

(* The merge of updateLearner. *)
applyPatch(model, patch) ==
  [coach |-> IF patch.coach = None THEN model.coach ELSE patch.coach,
   level |-> IF patch.level = None THEN model.level ELSE patch.level,
   placed |-> model.placed \/ patch.placed,
   mastery |-> [k \in AllConcepts |-> IF k \in DOMAIN patch.mastery
                                      THEN Clamp(patch.mastery[k]) ELSE model.mastery[k]],
   completed |-> IF patch.lesson = None THEN model.completed ELSE model.completed \cup {patch.lesson}]

(* The n weakest concepts up to the learner's level; the sort is stable.   *)
weakestConcepts(m, n) ==
  LET shown == {i \in DOMAIN Taxonomy : Taxonomy[i].level \in {"basics", m.level}}
      score(i) == m.mastery[Taxonomy[i].id]
      before(i, k) == score(i) < score(k) \/ (score(i) = score(k) /\ i < k)
  IN  {Taxonomy[k].id : k \in {k \in shown : Cardinality({i \in shown : before(i, k)}) < n}}

(* The first lesson left that drills a weak concept, else the first left.  *)
suggestLesson(m, weak) ==
  LET left(i) == Curriculum[i].id \notin m.completed
      first(I) == CHOOSE i \in I : \A j \in I : i <= j
      byWeak == {i \in DOMAIN Curriculum : left(i) /\ Curriculum[i].concept \in weak}
      any == {i \in DOMAIN Curriculum : left(i)}
  IN  IF byWeak # {} THEN Curriculum[first(byWeak)].id
      ELSE IF any # {} THEN Curriculum[first(any)].id ELSE None

(* Mastery is seeded with 60 for a concept solved once, 15 otherwise.  The *)
(* code also asks for a solved item of the next level, which EnoughSolved  *)
(* of them always include.                                                 *)
scorePlacement(results) ==
  LET items(k) == {i \in DOMAIN results : PlacementItems[i].concept = k}
      right == {i \in DOMAIN results : results[i]}
  IN  [level |-> IF Cardinality(right) >= EnoughSolved
                    /\ \E i \in right : PlacementItems[i].level = "intermediate"
                 THEN "intermediate" ELSE "basics",
       mastery |-> [k \in {PlacementItems[i].concept : i \in DOMAIN results} |->
                      IF items(k) \cap right # {} THEN 60 ELSE 15]]

-----------------------------------------------------------------------------
Phases == {"solving", "checking", "wrong", "right", "complete"}

(* asked: the page has sent its GET; judging: the steps and moves whose    *)
(* verdict is still to come; rights: the steps judged right in this visit. *)
PageAt(screen, adopt, lesson) ==
  [screen |-> screen, asked |-> FALSE, adopt |-> adopt, lesson |-> lesson, step |-> 1,
   phase |-> "solving", judging |-> {}, results |-> <<>>, rights |-> {}]

TrainStages == {"asked", "fresh", "saving", "answered"}

TrainTypeOK ==
  /\ learner \in Learner \cup {NoLearner}
  /\ learnerView \in Learner \cup {NoLearner}
  /\ \A c \in TrainCalls : trainCalls[c] # NoTrainCall =>
       trainCalls[c].stage \in TrainStages /\ trainCalls[c].model \in Learner \cup {NoLearner}
  /\ page.screen \in {"hub", "lesson", "placement", "settings", "elsewhere"}
  /\ page.phase \in Phases /\ page.adopt \in Coaches \cup {None}
  /\ page.judging \subseteq (Nat \X BOOLEAN) /\ page.results \in Seq(BOOLEAN)
  /\ navCoach \in Coaches \cup {None}
  /\ solved \subseteq Lessons
  /\ placements \subseteq (0..Len(PlacementItems))
  /\ trainCalm \in BOOLEAN

TrainInit ==
  /\ learner = NoLearner /\ learnerView = NoLearner
  /\ trainCalls = [c \in TrainCalls |-> NoTrainCall]
  /\ page = PageAt("elsewhere", None, None)
  /\ navCoach = None
  /\ solved = {} /\ placements = {}
  /\ trainCalm = TRUE

-----------------------------------------------------------------------------
(* A page asks.  The call remembers whether the page that sent it is still *)
(* mounted (mine) and whether it leads to the hub when it ends (home).     *)
Ask(c, method, patch, home) ==
  /\ trainCalls[c] = NoTrainCall
  /\ trainCalls' = [trainCalls EXCEPT ![c] =
       [stage |-> "asked", method |-> method, patch |-> patch, home |-> home, mine |-> TRUE,
        model |-> NoLearner]]

Holding(c) == trainCalls[c].stage \in {"fresh", "saving"}

(* Handler c goes on with model as its copy of the record. *)
With(c, stage, model) == trainCalls' = [trainCalls EXCEPT ![c].stage = stage, ![c].model = model]

ReadsAlone(c) == trainCalm' = (trainCalm /\ \A d \in TrainCalls \ {c} : ~Holding(d))

\* mutant
getOrCreateAlways(c) ==
  /\ trainCalls[c].stage = "asked"
  /\ With(c, "fresh", emptyLearner(trainCalls[c].patch.coach)) /\ ReadsAlone(c)
  /\ UNCHANGED <<learner, learnerView, page, navCoach, solved, placements>>

(* getOrCreateLearner, the read; a PATCH was counted and let through. *)
getOrCreateLearner(c) ==
  LET call == trainCalls[c]
  IN  /\ call.stage = "asked"
      /\ \/ learner = NoLearner /\ With(c, "fresh", emptyLearner(call.patch.coach)) /\ ReadsAlone(c)
         \/ learner # NoLearner /\ call.method = "GET" /\ With(c, "answered", learner) /\ UNCHANGED trainCalm
         \/ /\ learner # NoLearner /\ call.method = "PATCH"
            /\ With(c, "saving", applyPatch(learner, call.patch)) /\ ReadsAlone(c)
      /\ UNCHANGED <<learner, learnerView, page, navCoach, solved, placements>>

(* The SET of the empty record; a PATCH goes on from it. *)
CreateLearner(c) ==
  LET call == trainCalls[c]
  IN  /\ call.stage = "fresh"
      /\ learner' = call.model
      /\ IF call.method = "GET" THEN With(c, "answered", call.model)
                                ELSE With(c, "saving", applyPatch(call.model, call.patch))
      /\ UNCHANGED <<learnerView, page, navCoach, solved, placements, trainCalm>>

saveLearner(c) ==
  /\ trainCalls[c].stage = "saving"
  /\ learner' = trainCalls[c].model
  /\ With(c, "answered", trainCalls[c].model)
  /\ UNCHANGED <<learnerView, page, navCoach, solved, placements, trainCalm>>

-----------------------------------------------------------------------------
(* The browser shows another page: what the old one still waits for does   *)
(* not reach the new one.                                                  *)
Orphans == [d \in TrainCalls |-> IF trainCalls[d] = NoTrainCall THEN NoTrainCall
                                 ELSE [trainCalls[d] EXCEPT !.mine = FALSE]]

GoTo(newPage) == page' = newPage /\ trainCalls' = Orphans /\ learnerView' = NoLearner

(* A call is over; whoever waited for it leads to the hub. *)
Ended(c) ==
  IF trainCalls[c].home /\ page.screen # "hub"
  THEN /\ page' = PageAt("hub", None, None) /\ learnerView' = NoLearner
       /\ trainCalls' = [Orphans EXCEPT ![c] = NoTrainCall]
  ELSE /\ UNCHANGED page
       /\ trainCalls' = [trainCalls EXCEPT ![c] = NoTrainCall]

(* setLearner; the hub hands the coach to the navigation. *)
TrainAnswer(c) ==
  LET call == trainCalls[c]
  IN  /\ call.stage = "answered"
      /\ Ended(c)
      /\ page' = page => learnerView' = IF call.mine THEN call.model ELSE learnerView
      /\ navCoach' = IF call.mine /\ page.screen = "hub" THEN call.model.coach ELSE navCoach
      /\ UNCHANGED <<learner, solved, placements, trainCalm>>

(* Refused by the rate limit, failed, died, or the answer is lost. *)
TrainCallEnds(c) ==
  /\ trainCalls[c] # NoTrainCall
  /\ Ended(c)
  /\ page' = page => UNCHANGED learnerView
  /\ UNCHANGED <<learner, navCoach, solved, placements, trainCalm>>

Refresh(c) ==
  /\ page.screen # "elsewhere" /\ ~page.asked
  /\ Ask(c, "GET", NoPatch, FALSE)
  /\ page' = [page EXCEPT !.asked = TRUE]
  /\ UNCHANGED <<learner, learnerView, navCoach, solved, placements, trainCalm>>

(* The hub; with ?coach= when it is entered from a coach's page, which     *)
(* also sets the coach of the navigation.                                  *)
OpenHub(q) ==
  /\ page.screen # "hub"
  /\ GoTo(PageAt("hub", q, None))
  /\ navCoach' = IF q = None THEN navCoach ELSE q
  /\ UNCHANGED <<learner, solved, placements, trainCalm>>

(* The coach chosen on the landing page is adopted once. *)
AdoptCoach(c) ==
  /\ page.screen = "hub" /\ page.adopt # None
  /\ learnerView # NoLearner /\ page.adopt # learnerView.coach
  /\ Ask(c, "PATCH", [NoPatch EXCEPT !.coach = page.adopt], FALSE)
  /\ page' = [page EXCEPT !.adopt = None]
  /\ UNCHANGED <<learner, learnerView, navCoach, solved, placements, trainCalm>>

(* The settings page changes the coach at once and posts it. *)
ChooseCoach(c, coach) ==
  /\ page.screen = "settings"
  /\ navCoach' = coach
  /\ Ask(c, "PATCH", [NoPatch EXCEPT !.coach = coach], FALSE)
  /\ UNCHANGED <<learner, learnerView, page, solved, placements, trainCalm>>

LeaveTraining(screen) ==
  /\ page.screen # screen
  /\ GoTo(PageAt(screen, None, None))
  /\ UNCHANGED <<learner, navCoach, solved, placements, trainCalm>>

(* What the hub offers: nothing while it loads, the placement until it is  *)
(* taken and to be retaken, and then a lesson and games.                   *)
HubOffers ==
  LET loading == \E c \in TrainCalls :
                   trainCalls[c] # NoTrainCall /\ trainCalls[c].mine /\ trainCalls[c].method = "GET"
  IN  IF learnerView = NoLearner /\ loading THEN {}
      ELSE IF learnerView = NoLearner \/ ~learnerView.placed THEN {"placement"}
      ELSE {"placement", "game"}

NextLesson ==
  IF "game" \in HubOffers THEN suggestLesson(learnerView, weakestConcepts(learnerView, 3)) ELSE None

OpenPlacement ==
  /\ page.screen = "hub" /\ "placement" \in HubOffers
  /\ GoTo(PageAt("placement", None, None))
  /\ UNCHANGED <<learner, navCoach, solved, placements, trainCalm>>

OpenLesson(lesson) ==
  /\ \/ page.screen = "hub" /\ lesson = NextLesson
     \/ page.screen = "elsewhere"   \* by its address
  /\ GoTo(PageAt("lesson", None, lesson))
  /\ UNCHANGED <<learner, navCoach, solved, placements, trainCalm>>
=============================================================================
