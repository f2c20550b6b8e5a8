----------------------------- MODULE Settlement -----------------------------
(***************************************************************************)
(* The oracle's server side: settleGameById of lib/settle-game.ts, called  *)
(* by POST /api/games/:chain/:id/settle and by the cron sweep, beside the  *)
(* move relay that feeds it and the chain that takes its transactions.     *)
(*                                                                         *)
(* A settlement reads the history, reads the chain, decides, takes a Redis *)
(* lock that expires by itself, sends settleGame, waits for the receipt    *)
(* without looking at its status, and takes the game off the live set.     *)
(* Every arrow between two of these steps is an await.                     *)
(***************************************************************************)
EXTENDS MoveRelay

CONSTANTS
  Settlers,  \* concurrent calls of the settle route
  Cron       \* the cron sweep, one at a time

ASSUME SettlementAssumption == Cron \notin Settlers

VARIABLES
  locked,      \* games whose settle lock is set
  work,        \* what each settlement is doing
  sweep,       \* games the running sweep has still to visit
  txs,         \* settle transactions sent and not yet executed
  authorized,  \* the chain's oracle is the key this server holds
  settled      \* result the oracle settled each game with

settleVars == <<locked, work, sweep, txs, authorized, settled>>
vars == <<relayVars, settleVars>>

Workers == Settlers \cup {Cron}
Results == {"white", "black", "draw"}
Tx == [game: Games, result: Results, by: Workers]

Work ==
  [stage: {"read", "decide", "unregister"}, game: Games, moves: Seq(MoveRecord)]
    \cup [stage: {"send", "wait", "unregister", "release"}, game: Games,
          moves: Seq(MoveRecord), result: Results]

SettlementTypeOK ==
  /\ RelayTypeOK
  /\ locked \subseteq Games
  /\ work \in [Workers -> Work \cup {Idle}]
  /\ sweep \subseteq Games
  /\ txs \subseteq Tx
  /\ authorized \in BOOLEAN
  /\ settled \in [Games -> Results \cup {"none"}]

Init ==
  /\ RelayInit
  /\ locked = {}
  /\ work = [w \in Workers |-> Idle]
  /\ sweep = {}
  /\ txs = {}
  /\ authorized = TRUE
  /\ settled = [g \in Games |-> "none"]

-----------------------------------------------------------------------------
(* deriveResult *)

SeatResult(seat) == IF seat = White THEN "white" ELSE "black"

(* The seat that made the last of n moves. *)
LastMover(n) == SideToMove(n - 1)

TimedOut(h) == h # <<>> /\ Last(h).old /\ Last(h).player = LastMover(Len(h))

\* mutant
DeriveForMover(h) ==
  IF ~Legal(h) THEN {}
  ELSE IF Line(h) \in Mated THEN {SeatResult(SideToMove(Len(h)))}
  ELSE IF Line(h) \in Drawn THEN {"draw"}
  ELSE IF TimedOut(h) THEN {SeatResult(LastMover(Len(h)))}
  ELSE {}

(* The results a history supports: none, or exactly one. *)
DeriveResult(h) ==
  IF ~Legal(h) THEN {}
  ELSE IF Line(h) \in Mated THEN {SeatResult(LastMover(Len(h)))}
  ELSE IF Line(h) \in Drawn THEN {"draw"}
  ELSE IF TimedOut(h) THEN {SeatResult(LastMover(Len(h)))}
  ELSE {}

signedMovesValid(h) == Legal(h) /\ SignedForItsPlace(h)

-----------------------------------------------------------------------------
(* settleGameById *)

GetMoves(w, g) ==
  /\ work[w] = Idle
  /\ work' = [work EXCEPT ![w] = [stage |-> "read", game |-> g, moves |-> history[g]]]

(* Called by a client. *)
SettleRoute(w, g) ==
  /\ w \in Settlers
  /\ GetMoves(w, g)
  /\ UNCHANGED <<relayVars, locked, sweep, txs, authorized, settled>>

(* An EVM getGame answers for an unknown id with an empty, waiting game;   *)
(* on Stacks the read throws.                                              *)
ReadGame(w) ==
  /\ work[w].stage = "read"
  /\ isFastFinality(work[w].game) \/ onchain[work[w].game] # "absent"
  /\ work' = [work EXCEPT ![w].stage =
                IF onchain[work[w].game] = "active" THEN "decide" ELSE "unregister"]
  /\ UNCHANGED <<relayVars, locked, sweep, txs, authorized, settled>>

(* Signatures (on EVM chains), result, then the lock: set nx ex 120. *)
TakeLock(w) ==
  LET s == work[w]
  IN  /\ s.stage = "decide"
      /\ s.game \notin locked
      /\ isFastFinality(s.game) => signedMovesValid(s.moves)
      /\ \E result \in DeriveResult(s.moves) :
           work' = [work EXCEPT ![w] = [stage |-> "send", game |-> s.game,
                                        moves |-> s.moves, result |-> result]]
      /\ locked' = locked \cup {s.game}
      /\ UNCHANGED <<relayVars, sweep, txs, authorized, settled>>

(* forged-signature, illegal, not-terminal or in-progress. *)
Refuse(w) ==
  LET s == work[w]
  IN  /\ s.stage = "decide"
      /\ \/ s.game \in locked
         \/ isFastFinality(s.game) /\ ~signedMovesValid(s.moves)
         \/ DeriveResult(s.moves) = {}
      /\ work' = [work EXCEPT ![w] = Idle]
      /\ UNCHANGED <<relayVars, locked, sweep, txs, authorized, settled>>

(* On an EVM chain writeContract estimates gas first and throws if the     *)
(* call would revert; a Stacks broadcast does not run the call.            *)
WouldSettle(g) == onchain[g] = "active" /\ authorized

Send(w) ==
  LET s == work[w]
      tx == [game |-> s.game, result |-> s.result, by |-> w]
  IN  /\ s.stage = "send"
      /\ isFastFinality(s.game) => WouldSettle(s.game)
      /\ txs' = txs \cup {tx}
      /\ work' = [work EXCEPT ![w].stage = IF isFastFinality(s.game) THEN "wait" ELSE "unregister"]
      /\ UNCHANGED <<relayVars, locked, sweep, authorized, settled>>

(* The receipt is there; its status is not looked at. *)
Receipt(w) ==
  LET s == work[w]
  IN  /\ s.stage = "wait"
      /\ [game |-> s.game, result |-> s.result, by |-> w] \notin txs
      /\ work' = [work EXCEPT ![w].stage = "unregister"]
      /\ UNCHANGED <<relayVars, locked, sweep, txs, authorized, settled>>

(* Between the lock and the end of the try block. *)
Locking(s) ==
  s.stage \in {"send", "wait"} \/ (s.stage = "unregister" /\ "result" \in DOMAIN s)

(* Sending, waiting for the receipt or unregistering the game throws.      *)
SettleThrows(w) ==
  /\ Locking(work[w])
  /\ work' = [work EXCEPT ![w].stage = "release"]
  /\ UNCHANGED <<relayVars, locked, sweep, txs, authorized, settled>>

Release(w) ==
  /\ work[w].stage = "release"
  /\ locked' = locked \ {work[w].game}
  /\ work' = [work EXCEPT ![w] = Idle]
  /\ UNCHANGED <<relayVars, sweep, txs, authorized, settled>>

unregisterActiveGame(w) ==
  /\ work[w].stage = "unregister"
  /\ registered' = registered \ {work[w].game}
  /\ work' = [work EXCEPT ![w] = Idle]
  /\ UNCHANGED <<chain, history, onchain, posts, repairs, locked, sweep, txs, authorized, settled>>

(* A read fails, or the function is killed: the catch block does not run.  *)
SettleDies(w) ==
  /\ work[w] # Idle
  /\ work' = [work EXCEPT ![w] = Idle]
  /\ UNCHANGED <<relayVars, locked, sweep, txs, authorized, settled>>

SettleStep(w) ==
  \/ ReadGame(w) \/ TakeLock(w) \/ Refuse(w) \/ Send(w) \/ Receipt(w)
  \/ SettleThrows(w) \/ Release(w) \/ unregisterActiveGame(w)

-----------------------------------------------------------------------------
(* GET /api/cron/settle: celo and base only, one game after the other.     *)

StartSweep ==
  /\ sweep = {} /\ work[Cron] = Idle
  /\ sweep' = {g \in registered : isFastFinality(g)}
  /\ sweep' # {}
  /\ UNCHANGED <<relayVars, locked, work, txs, authorized, settled>>

SweepNext(g) ==
  /\ g \in sweep
  /\ GetMoves(Cron, g)
  /\ sweep' = sweep \ {g}
  /\ UNCHANGED <<relayVars, locked, txs, authorized, settled>>

SweepDies ==
  /\ sweep' = {}
  /\ work' = [work EXCEPT ![Cron] = Idle]
  /\ UNCHANGED <<relayVars, locked, txs, authorized, settled>>

-----------------------------------------------------------------------------
(* The chain and the clock *)

(* settleGame runs: it settles an active game for its oracle, or reverts.  *)
Execute(tx) ==
  /\ tx \in txs
  /\ txs' = txs \ {tx}
  /\ IF WouldSettle(tx.game)
     THEN /\ onchain' = [onchain EXCEPT ![tx.game] = "closed"]
          /\ settled' = [settled EXCEPT ![tx.game] = tx.result]
     ELSE UNCHANGED <<onchain, settled>>
  /\ UNCHANGED <<chain, history, registered, posts, repairs, locked, work, sweep, authorized>>

(* The owner rotates the oracle key, or the server is given the new key.   *)
RotateOracle ==
  /\ authorized' = ~authorized
  /\ UNCHANGED <<relayVars, locked, work, sweep, txs, settled>>

\* mutant
LockNeverExpires(g) == FALSE /\ g \in locked /\ UNCHANGED vars

(* The 120 seconds of the lock are over. *)
LockExpires(g) ==
  /\ g \in locked
  /\ locked' = locked \ {g}
  /\ UNCHANGED <<relayVars, work, sweep, txs, authorized, settled>>

(* MOVE_TIMEOUT_MS pass since every move stored or already read.           *)
ClockRunsOut ==
  /\ history' = [g \in Games |-> Aging(history[g])]
  /\ work' = [w \in Workers |-> IF work[w] = Idle THEN Idle
                                ELSE [work[w] EXCEPT !.moves = Aging(@)]]
  /\ UNCHANGED <<chain, registered, onchain, posts, repairs, locked, sweep, txs, authorized, settled>>

Next ==
  \/ RelayOp /\ UNCHANGED settleVars
  \/ \E w \in Workers : SettleStep(w) \/ SettleDies(w)
  \/ \E w \in Settlers, g \in Games : SettleRoute(w, g)
  \/ StartSweep \/ SweepDies
  \/ \E g \in Games : SweepNext(g) \/ LockExpires(g)
  \/ \E tx \in txs : Execute(tx)
  \/ RotateOracle
  \/ ClockRunsOut

Spec == Init /\ [][Next]_vars

(* The sweep's own step A while it is settling g. *)
CronFor(g, A) == work[Cron] # Idle /\ work[Cron].game = g /\ A

(***************************************************************************)
(* The cron is invoked again and again, and its calls do not all fail at   *)
(* the same step; sent transactions execute and the time of a lock passes. *)
(* Nothing is assumed of players, of the settle route or of the owner.     *)
(***************************************************************************)
Fairness ==
  /\ WF_vars(StartSweep)
  /\ WF_vars(SettleStep(Cron))
  /\ \A g \in Games :
       /\ WF_vars(LockExpires(g))
       /\ SF_vars(SweepNext(g))
       /\ SF_vars(CronFor(g, ReadGame(Cron)))
       /\ SF_vars(CronFor(g, TakeLock(Cron)))
       /\ SF_vars(CronFor(g, Send(Cron)))
  /\ \A tx \in Tx : WF_vars(Execute(tx))

FairSpec == Spec /\ Fairness

-----------------------------------------------------------------------------
(* The oracle pays whoever earned it: the result it settles is a draw that *)
(* stood on the board, or a win of the player (on a slow chain, where any  *)
(* address may post, of the seat) who played the mating move or the move   *)
(* left unanswered for too long.  It holds over every await between the    *)
(* reading of the moves and the transaction.                               *)
ResultIsEarned ==
  \A g \in Games : settled[g] # "none" =>
    \E n \in 1..Len(history[g]) :
      LET h == SubSeq(history[g], 1, n)
          winner == IF isFastFinality(g) THEN Last(h).player ELSE SideToMove(n - 1)
      IN  IF settled[g] = "draw" THEN Line(h) \in Drawn
          ELSE settled[g] = SeatResult(winner) /\ (Line(h) \in Mated \/ Last(h).old)

Decided(g) == onchain[g] = "active" /\ DeriveResult(history[g]) # {}

(* Settlement does not get stuck: if in the end the oracle's key is good   *)
(* and the settle route is not called, a decided game of the sweep's       *)
(* chains on the live set is settled or leaves the set, whatever died      *)
(* while it held the lock.                                                 *)
SweptIsSettled ==
  <>[](authorized /\ \A w \in Settlers : work[w] = Idle) =>
    \A g \in Games :
      (isFastFinality(g) /\ g \in registered /\ Decided(g))
        ~> (g \notin registered \/ ~Decided(g))

(* settle-game.ts: "a Redis lock prevents two settlements racing". *)
LockExclusive ==
  \A v, w \in Workers :
    /\ v # w
    /\ work[v].stage \in {"send", "wait"} /\ work[w].stage \in {"send", "wait"}
    => work[v].game # work[w].game

(* cron/settle/route.ts: "so a finished game is always settled even if     *)
(* both players closed their tabs".                                        *)
FinishedIsSettled ==
  <>[]authorized =>
    \A g \in Games : (onchain[g] = "active" /\ Line(history[g]) \in Mated) ~> onchain[g] = "closed"
=============================================================================
