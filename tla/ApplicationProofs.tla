-------------------------- MODULE ApplicationProofs --------------------------
(***************************************************************************)
(* The whole application.  A behaviour of the stores and pages together is *)
(* one of each store and of each page: whatever was proved of a component  *)
(* alone holds where it stands beside all others, for every value of all   *)
(* their constants.                                                        *)
(***************************************************************************)
EXTENDS MCApplication, ServerProofs, SyncProofs, PageProofs

appVars == <<serverVars, browserVars>>

(* Unless it is the dialog's turn, nobody waits for an answer in it.       *)
NobodyWaits == part # "claim" => \A s \in Submissions : submissions[s].stage # "waiting"

-----------------------------------------------------------------------------
(* One step of the whole is a step of a component, or leaves it alone.     *)

LEMMA AppStarts ==
  AppInit => /\ GasInit /\ StxInit /\ ClaimInit /\ StreakInit /\ TrainInit /\ IndexInit
             /\ TrainGameInit /\ SyncInit /\ ClientInit /\ BotInit /\ LobbyInit
BY DEF AppInit, ServerInit, BrowserInit

LEMMA ServerMoves ==
  ASSUME ServerNext
  PROVE  /\ [SponsorOp]_gasVars /\ [StxOp]_stxVars /\ [StreakOp]_streakVars
         /\ [TrainOp]_trainVars /\ [IndexOp]_indexVars
         /\ UNCHANGED part
         /\ \/ UNCHANGED <<profileVars, modalVars>>
            \/ part = "profile" /\ ProfileOp /\ UNCHANGED modalVars
            \/ part = "claim" /\ ClaimOp
BY DEF ServerNext, GasPart, ProfilePart, ClaimPart, RecordPart, OverlayPart, LearnPart, CoachPart,
       IndexPart, OnlyGas, OnlyIndex, StreakOp

LEMMA ServerRests ==
  ASSUME UNCHANGED serverVars
  PROVE  UNCHANGED <<part, gasVars, stxVars, profileVars, modalVars, streakVars, trainVars, indexVars>>
BY DEF serverVars

LEMMA BrowserMoves ==
  ASSUME BrowserNext
  PROVE  /\ [TrainGameOp]_<<engineVars, gameVars>> /\ [SyncOp]_syncVars /\ [ClientOp]_clientVars
         /\ [BotOp]_botVars /\ [LobbyOp]_lobbyVars
BY DEF BrowserNext, SyncPart, LobbyPart, CallsPart, trainingVars

LEMMA BrowserRests ==
  ASSUME UNCHANGED browserVars
  PROVE  UNCHANGED <<engineVars, gameVars, syncVars, clientVars, botVars, lobbyVars>>
BY DEF browserVars, trainingVars

LEMMA AppMoves ==
  ASSUME [AppNext]_appVars
  PROVE  /\ [SponsorOp]_gasVars /\ [StxOp]_stxVars /\ [StreakOp]_streakVars
         /\ [TrainOp]_trainVars /\ [IndexOp]_indexVars
         /\ [TrainGameOp]_<<engineVars, gameVars>> /\ [SyncOp]_syncVars /\ [ClientOp]_clientVars
         /\ [BotOp]_botVars /\ [LobbyOp]_lobbyVars
         /\ UNCHANGED part
         /\ \/ UNCHANGED <<profileVars, modalVars>>
            \/ part = "profile" /\ ProfileOp /\ UNCHANGED modalVars
            \/ part = "claim" /\ ClaimOp
<1>1. CASE ServerNext /\ UNCHANGED browserVars
  BY <1>1, ServerMoves, BrowserRests
<1>2. CASE BrowserNext /\ UNCHANGED serverVars
  BY <1>2, BrowserMoves, ServerRests
<1>3. CASE UNCHANGED appVars
  BY <1>3, BrowserRests, ServerRests DEF appVars
<1> QED BY <1>1, <1>2, <1>3 DEF AppNext

(* The store moves without the dialog only while nobody waits in it.       *)
LEMMA StoreMoves ==
  ASSUME NobodyWaits, [AppNext]_appVars
  PROVE  [ClaimOp]_<<profileVars, modalVars>> /\ NobodyWaits'
<1>1. CASE UNCHANGED <<profileVars, modalVars>>
  BY <1>1, AppMoves DEF modalVars, NobodyWaits
<1>2. CASE part = "profile" /\ ProfileOp /\ UNCHANGED modalVars
  <2>1. StoreStep
    BY <1>2 DEF NobodyWaits, StoreStep
  <2> QED BY <1>2, <2>1, AppMoves DEF ClaimOp, NobodyWaits, modalVars
<1>3. CASE part = "claim" /\ ClaimOp
  BY <1>3, AppMoves DEF NobodyWaits
<1> QED BY <1>1, <1>2, <1>3, AppMoves

LEMMA NobodyWaitsAtFirst == AppInit => NobodyWaits
<1>1. AppInit => \A s \in Submissions : submissions[s].stage # "waiting"
  BY AppStarts DEF ClaimInit, ModalInit, NoSubmission
<1> QED BY <1>1 DEF NobodyWaits

-----------------------------------------------------------------------------
(* A behaviour of the application, seen by one of its components, is one   *)
(* that the component's own specification allows.                          *)
THEOREM ComponentsRun ==
  AppSpec => /\ SponsorSpec /\ StxSpec /\ ClaimSpec /\ StreakSpec /\ TrainSpec /\ IndexSpec
             /\ TrainGameSpec /\ SyncSpec /\ ClientSpec /\ BotSpec /\ LobbySpec
<1>1. AppInit => NobodyWaits
  BY NobodyWaitsAtFirst
<1>2. NobodyWaits /\ [AppNext]_appVars => NobodyWaits' /\ [ClaimOp]_<<profileVars, modalVars>>
  BY StoreMoves
<1>3. [AppNext]_appVars => /\ [SponsorOp]_gasVars /\ [StxOp]_stxVars /\ [StreakOp]_streakVars
                           /\ [TrainOp]_trainVars /\ [IndexOp]_indexVars
                           /\ [TrainGameOp]_<<engineVars, gameVars>> /\ [SyncOp]_syncVars
                           /\ [ClientOp]_clientVars /\ [BotOp]_botVars /\ [LobbyOp]_lobbyVars
  BY AppMoves
<1>4. AppSpec => AppInit /\ [][AppNext]_appVars
  BY DEF AppSpec, appVars
<1>5. AppSpec => ClaimSpec
  BY <1>1, <1>2, <1>4, AppStarts, PTL DEF ClaimSpec
<1>6. AppSpec => SponsorSpec /\ StxSpec
  BY <1>3, <1>4, AppStarts, PTL DEF SponsorSpec, StxSpec
<1>7. AppSpec => StreakSpec /\ TrainSpec /\ IndexSpec
  BY <1>3, <1>4, AppStarts, PTL DEF StreakSpec, TrainSpec, IndexSpec
<1>8. AppSpec => TrainGameSpec /\ SyncSpec
  BY <1>3, <1>4, AppStarts, PTL DEF TrainGameSpec, SyncSpec
<1>9. AppSpec => ClientSpec /\ BotSpec /\ LobbySpec
  BY <1>3, <1>4, AppStarts, PTL DEF ClientSpec, BotSpec, LobbySpec
<1> QED BY <1>5, <1>6, <1>7, <1>8, <1>9

(* Every component's state has its type in every state of the application. *)
THEOREM ApplicationStaysTyped == AppSpec => []AppTypeOK
<1>1. ClaimSpec => [](ProfileTypeOK /\ ModalTypeOK)
  <2>1. ClaimInv => ProfileTypeOK /\ ModalTypeOK
    BY DEF ClaimInv, ProfileInv
  <2> QED BY <2>1, ClaimInvInit, ClaimInvNext, PTL DEF ClaimSpec
<1>2. StreakSpec => []StreakTypeOK
  <2>1. StreakInv => StreakTypeOK
    BY DEF StreakInv
  <2> QED BY <2>1, StreakInvInit, StreakInvNext, PTL DEF StreakSpec
<1>3. BotSpec => []BotTypeOK
  <2>1. BotInv => BotTypeOK
    BY DEF BotInv
  <2> QED BY <2>1, BotInvariant, PTL
<1>4. AppSpec => []ServerTypeOK
  <2>1. /\ GasTypeOK /\ StxTypeOK /\ ProfileTypeOK /\ ModalTypeOK /\ StreakTypeOK /\ TrainTypeOK /\ IndexTypeOK
        => ServerTypeOK
    BY DEF ServerTypeOK
  <2> QED BY <1>1, <1>2, <2>1, ComponentsRun, GasStaysTyped, StxStaysTyped, ProgressStaysEarned, IndexStaysTyped, PTL
<1>5. AppSpec => []BrowserTypeOK
  <2>1. TrainGameTypeOK /\ SyncTypeOK /\ ClientTypeOK /\ BotTypeOK /\ LobbyTypeOK => BrowserTypeOK
    BY DEF BrowserTypeOK
  <2> QED BY <1>3, <2>1, ComponentsRun, TrainGameStaysTyped, SyncStaysTyped, ClientStaysTyped, LobbyStaysTyped, PTL
<1>6. ServerTypeOK /\ BrowserTypeOK => AppTypeOK
  BY DEF AppTypeOK
<1> QED BY <1>4, <1>5, <1>6, PTL

(* The promises of the stores hold of the application: no budget of gas is *)
(* overdrawn, names and badges are whose they are said to be, a streak and *)
(* a lesson were earned, progress is kept, and the cursor of the index     *)
(* passes over no chunk that was not written.                              *)
THEOREM StoresKeepPromises ==
  AppSpec => /\ [](BudgetKept /\ CallCapKept /\ NameIsMine /\ OgIsScarce /\ SuccessIsReal)
             /\ [](StreakIsEarned /\ ProgressIsEarned /\ CursorCovers) /\ ProgressKept
<1>1. AppSpec => [](BudgetKept /\ CallCapKept /\ NameIsMine /\ OgIsScarce /\ SuccessIsReal)
  BY ComponentsRun, BudgetAlwaysKept, CallCapAlwaysKept, DialogKeepsStore, SuccessStaysReal, PTL
<1>2. AppSpec => [](StreakIsEarned /\ ProgressIsEarned /\ CursorCovers)
  BY ComponentsRun, StreaksEarned, ProgressStaysEarned, CursorAlwaysCovers, PTL
<1> QED BY <1>1, <1>2, ComponentsRun, ProgressStaysKept

(* The promises of the pages hold of the application: the coach's screen   *)
(* fits his board, a board is the relay's, both sides see one result that  *)
(* stays, the bot plays best and its game survives, and the lobby tells    *)
(* the truth and loses no wager.                                           *)
THEOREM PagesKeepPromises ==
  AppSpec => /\ [](PhaseFitsBoard /\ LossIsOfThisMove /\ BoardIsRelays /\ ResultsAgree)
             /\ [](BotPlaysBest /\ BotGameResumes /\ AnswerIsTrue /\ StakeIsKnown /\ OneCallPerVisit)
             /\ VerdictIsFinal
<1>1. AppSpec => [](PhaseFitsBoard /\ LossIsOfThisMove /\ BoardIsRelays /\ ResultsAgree)
  BY ComponentsRun, PhaseStaysFit, LossStaysOfThisMove, BoardStaysRelays, ResultsStayAgreed, PTL
<1>2. AppSpec => [](BotPlaysBest /\ BotGameResumes /\ AnswerIsTrue /\ StakeIsKnown /\ OneCallPerVisit)
  BY ComponentsRun, BotIsOptimal, BotGameIsKept, AnswersStayTrue, StakesStayKnown, OneCallAtATime, PTL
<1> QED BY <1>1, <1>2, ComponentsRun, VerdictStaysFinal
=============================================================================
