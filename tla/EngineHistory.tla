--------------------------- MODULE EngineHistory ---------------------------
(***************************************************************************)
(* The engine with a memory of what its state forgets: how long each game  *)
(* has been active, who consented to a draw in it, and which games the     *)
(* oracle settled.  The history variables constrain nothing.               *)
(***************************************************************************)
EXTENDS PlaychessifyEngine

VARIABLES
  activeFor,  \* blocks since each game became active, saturating
  consent,    \* per game, the players who proposed or accepted a draw
  settled     \* the games settled by the oracle

historyVars == <<activeFor, consent, settled>>

HInit ==
  /\ Init
  /\ activeFor = [id \in 0..MaxGames - 1 |-> 0]
  /\ consent = [id \in 0..MaxGames - 1 |-> {}]
  /\ settled = {}

HBlock ==
  /\ Block
  /\ activeFor' = [id \in 0..MaxGames - 1 |->
                     IF ActiveGame(id) THEN Aged(activeFor[id], ExpiryBlocks)
                                       ELSE activeFor[id]]
  /\ UNCHANGED <<consent, settled>>

HConsent(u, id) ==
  /\ ProposeDraw(u, id) \/ AcceptDraw(u, id)
  /\ consent' = [consent EXCEPT ![id] = @ \cup {u}]
  /\ UNCHANGED <<activeFor, settled>>

HSettle(u, id) ==
  /\ \E result \in Results : SettleGame(u, id, result)
  /\ settled' = settled \cup {id}
  /\ UNCHANGED <<activeFor, consent>>

HOther ==
  /\ \/ \E u \in Users :
          \/ \E n \in Wagers : CreateGame(u, n)
          \/ \E id \in GameIds :
               \/ JoinGame(u, id) \/ Resign(u, id)
               \/ CancelGame(u, id) \/ ReclaimExpired(u, id)
          \/ \E new \in Oracles : SetOracle(u, new)
     \/ TokenOp /\ UNCHANGED engineVars
  /\ UNCHANGED historyVars

HNext ==
  \/ HBlock
  \/ HOther
  \/ \E u \in Users, id \in GameIds : HConsent(u, id) \/ HSettle(u, id)

HSpec == HInit /\ [][HNext]_<<vars, historyVars>>

HFairSpec == HSpec /\ Fairness

-----------------------------------------------------------------------------
(* "Both agree -> split refund": a game that ended in a draw was either    *)
(* settled by the oracle or both of its players consented.  Offers never   *)
(* expire and may be overwritten by the other player's, so the consent is  *)
(* spread over many transactions.                                          *)
DrawNeedsBoth ==
  \A id \in GameIds :
    games[id].status = "draw" /\ id \notin settled => Playing(id) \subseteq consent[id]

(* PLAYCHESSIFY_ORACLE.md says of reclaim-expired "After ~1 day ACTIVE":   *)
(* a game is reclaimed only after it has been active for the whole expiry  *)
(* time, so that a game in progress cannot be called off.                  *)
ReclaimAfterActiveDay ==
  [][\A id \in GameIds :
       ActiveGame(id) /\ games'[id].status = "cancelled"
         => activeFor[id] >= ExpiryBlocks]_<<vars, historyVars>>
=============================================================================
