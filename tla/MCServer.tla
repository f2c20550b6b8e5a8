------------------------------ MODULE MCServer ------------------------------
(***************************************************************************)
(* The stores behind the API routes share nothing but Redis, where their   *)
(* keys are disjoint: the component that moves in a behaviour is chosen in *)
(* its first state.                                                        *)
(***************************************************************************)
EXTENDS GasSponsor, StacksSponsor, ClaimModal, Streak, Training, GameIndex, TLC

Requests == {<<"minipay", "celo">>, <<"eoa", "base">>}

CONSTANTS user, c1, c2, a1, a2, n1, n2, form, marco, vera, forks, fork

TwoStepLesson == <<[id |-> forks, concept |-> fork, steps |-> 2]>>
OneConcept == <<[id |-> fork, level |-> "basics"]>>
TwoItems == <<[concept |-> fork, level |-> "basics"], [concept |-> fork, level |-> "intermediate"]>>

VARIABLE part

Parts == {"usdm", "native-base", "stacks", "profile", "claim", "streak", "overlay",
          "train", "coach", "index"}

ServerInit ==
  /\ part \in Parts \cup {"none"}
  /\ GasInit /\ StxInit /\ ClaimInit /\ StreakInit /\ TrainInit /\ IndexInit
  /\ part \notin {"streak", "overlay"} => storage
  /\ part # "stacks" => stxRedis

GasPart == SponsorOp /\ \A c \in SponsorCalls : IF gasCalls'[c] = NoCall THEN TRUE ELSE gasCalls'[c].scope = part

(* At most two profiles are numbered, one address asks within a single     *)
(* window of its rate limits, and only the other one updates its profile.  *)
ProfilePart ==
  /\ ProfileOp
  /\ total' <= 2 /\ rate'["claim"][a2] >= rate["claim"][a2] /\ rate'["update"][a2] = 0
  /\ UNCHANGED modalVars

(* The dialog meets claims of one name only.                   *)
ClaimPart ==
  /\ ClaimOp
  /\ total' <= 2
  /\ modal'.username # n2
  /\ \A c \in ProfileCalls :
       IF profCalls'[c] = NoProfileCall THEN TRUE ELSE profCalls'[c].kind = "claim" /\ profCalls'[c].name = n1

RecordPart == RecordOp /\ \A c \in StreakCalls : IF streakCalls'[c] = NoStreakCall THEN TRUE ELSE ~streakCalls'[c].bot

OverlayPart == StreakOp /\ clock' <= 2 /\ \E c \in StreakCalls : streakCalls'[c] = NoStreakCall

(* No coach is changed; a lesson and a test are finished once. *)
FirstTime ==
  IF page.screen = "lesson"
  THEN page.lesson \notin solved /\ (learner # NoLearner => page.lesson \notin learner.completed)
  ELSE placements = {}

LearnPart ==
  /\ TrainOp
  /\ page'.adopt = None /\ page'.screen # "settings"
  /\ IF page'.phase = "complete" /\ page.phase # "complete" THEN FirstTime ELSE TRUE

CoachPart == TrainOp /\ page'.screen \notin {"lesson", "placement"}

(* Two requests may fill the index at once, but only one the leaderboard. *)
IndexPart ==
  IndexOp /\ Cardinality({c \in Syncs : syncs'[c] # NoSync /\ syncs'[c].route = "leaderboard"}) <= 1

OnlyIndex == UNCHANGED <<gasVars, stxVars, profileVars, modalVars, streakVars, trainVars>>
OnlyGas == UNCHANGED <<profileVars, modalVars, streakVars, trainVars, indexVars>>

ServerNext ==
  /\ UNCHANGED part
  /\ \/ part \in {"usdm", "native-base"} /\ GasPart /\ UNCHANGED stxVars /\ OnlyGas
     \/ part = "stacks" /\ StxOp /\ UNCHANGED gasVars /\ OnlyGas
     \/ /\ (part = "profile" /\ ProfilePart) \/ (part = "claim" /\ ClaimPart)
        /\ UNCHANGED <<gasVars, stxVars, streakVars, trainVars, indexVars>>
     \/ /\ (part = "streak" /\ RecordPart) \/ (part = "overlay" /\ OverlayPart)
        /\ UNCHANGED <<gasVars, stxVars, profileVars, modalVars, trainVars, indexVars>>
     \/ /\ (part = "train" /\ LearnPart) \/ (part = "coach" /\ CoachPart)
        /\ UNCHANGED <<gasVars, stxVars, profileVars, modalVars, streakVars, indexVars>>
     \/ part = "index" /\ IndexPart /\ OnlyIndex

serverVars == <<part, gasVars, stxVars, profileVars, modalVars, streakVars, trainVars, indexVars>>

CallSymmetry == Permutations({c1, c2})

(* Every component's state has its type. *)
ServerTypeOK ==
  GasTypeOK /\ StxTypeOK /\ ProfileTypeOK /\ ModalTypeOK /\ StreakTypeOK /\ TrainTypeOK /\ IndexTypeOK
=============================================================================
