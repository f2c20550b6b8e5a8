------------------------------- MODULE Lobby -------------------------------
(***************************************************************************)
(* The lobby: LobbyContent, its list of open challenges (useLobby), and    *)
(* createGame and joinGame of useCeloChess with its three wallet tiers, of *)
(* useBaseChess and of useStacksChess.  A call is a chain of awaits that   *)
(* goes on when the player has left the page, and a transaction is mined   *)
(* whether or not anybody waits for it.  All wagers are equal, and none is *)
(* zero: a free game would need neither balance nor allowance.             *)
(***************************************************************************)
EXTENDS Integers, Sequences, SequencesExt, FiniteSets

CONSTANTS
  LobbyCalls,    \* concurrent calls of createGame and joinGame
  LobbyGames,    \* bound: games on the chain
  FirstPurse,    \* what the player owns, in wagers
  ItemsPerPage,  \* ITEMS_PER_PAGE, 3 in the code
  LobbyWindow    \* games a refresh looks at, 10 in the code

ASSUME LobbyAssumption ==
  LobbyGames \in Nat \ {0} /\ FirstPurse \in Nat /\ ItemsPerPage \in Nat \ {0} /\ LobbyWindow \in Nat \ {0}

VARIABLES
  lobbyChain, walletTier,
  matches,          \* the game contract: who created and who joined each game
  purse, allowance, \* the token contract: what the player has, and lets the game take
  fuel, drip,       \* there is gas on celo to pay a transaction; more gas is on its way
  calls,            \* the calls that run
  lobby,            \* the page: the state of LobbyContent and useLobby, and the route
  accounted         \* history: the games an answer took the player to, and those of which no call could tell

lobbyVars == <<lobbyChain, walletTier, matches, purse, allowance, fuel, drip, calls, lobby, accounted>>

NoGame == -1
NoCallYet == [stage |-> "none"]
NoScan == [next |-> NoGame, last |-> NoGame, found |-> <<>>]
GameIdsHere == 0..LobbyGames - 1

(* excused: the call could not know what became of its transaction.        *)
LobbyCall ==
  [stage: {"gas", "polling", "balance", "allowance", "approving", "predict", "write", "waiting", "answered", "gone"},
   kind: {"create", "join"}, id: GameIdsHere \cup {NoGame}, tx: {"none", "pending", "ok", "reverted"},
   ok: BOOLEAN, mounted: BOOLEAN, excused: BOOLEAN]

FreshLobby == [route |-> "lobby", pending |-> FALSE, modal |-> FALSE, currentPage |-> 1,
               enough |-> FALSE, listed |-> <<>>, scan |-> NoScan]

LobbyTypeOK ==
  /\ lobbyChain \in {"celo", "base", "stacks"} /\ walletTier \in {"smart", "minipay", "eoa"}
  /\ matches \in Seq([creator: {"me", "other"}, joiner: {"me", "other", "nobody"}])
  /\ purse \in 0..FirstPurse /\ allowance \in 0..FirstPurse /\ {fuel, drip} \subseteq BOOLEAN
  /\ calls \in [LobbyCalls -> LobbyCall \cup {NoCallYet}]
  /\ lobby.route \in {"lobby", "elsewhere"} /\ {lobby.pending, lobby.modal, lobby.enough} \subseteq BOOLEAN
  /\ lobby.currentPage \in 1..LobbyGames
  /\ {lobby.listed, lobby.scan.found} \subseteq Seq(GameIdsHere) /\ {lobby.scan.next, lobby.scan.last} \subseteq GameIdsHere \cup {NoGame}
  /\ accounted \subseteq GameIdsHere

LobbyInit ==
  /\ lobbyChain \in {"celo", "base", "stacks"} /\ walletTier \in {"smart", "minipay", "eoa"} /\ fuel \in BOOLEAN
  /\ lobbyChain # "celo" => walletTier = "eoa" /\ fuel
  /\ matches = <<>> /\ purse = FirstPurse /\ allowance = 0 /\ drip = FALSE
  /\ calls = [c \in LobbyCalls |-> NoCallYet]
  /\ lobby = FreshLobby /\ accounted = {}

-----------------------------------------------------------------------------
(* What can be pressed *)

PageItems == SubSeq(lobby.listed, (lobby.currentPage - 1) * ItemsPerPage + 1,
                    IF lobby.currentPage * ItemsPerPage <= Len(lobby.listed)
                    THEN lobby.currentPage * ItemsPerPage ELSE Len(lobby.listed))

(* The last page; the pager is shown when there is more than one. *)
LastPage == (Len(lobby.listed) + ItemsPerPage - 1) \div ItemsPerPage

Pager == IF Len(lobby.listed) <= ItemsPerPage THEN {}
         ELSE (IF lobby.currentPage > 1 THEN {"prev"} ELSE {})
              \cup (IF lobby.currentPage # LastPage THEN {"next"} ELSE {})

(* The backdrop closes the dialog at any time. *)
CreateMatchModal ==
  {"close"} \cup
  (IF lobby.pending THEN {} ELSE IF lobby.enough THEN {"initialize"} ELSE {})

Challenges == IF lobby.pending \/ lobby.modal THEN {} ELSE ToSet(PageItems)

LobbyScreen ==
  IF lobby.route # "lobby" THEN {} ELSE IF lobby.modal THEN CreateMatchModal
  ELSE {"create"} \cup Pager

-----------------------------------------------------------------------------
(* The calls *)

Running(c) == calls[c] # NoCallYet
GoOn(c, stage) == calls' = [calls EXCEPT ![c].stage = stage]
Throws(c) == calls' = [calls EXCEPT ![c].stage = "answered", ![c].ok = FALSE]
LobbyChainVars == <<lobbyChain, walletTier, matches, purse>>
NotPage == <<LobbyChainVars, allowance, fuel, drip, accounted>>

FirstStage(kind) ==
  CASE lobbyChain = "celo" -> "gas"
    [] lobbyChain = "base" -> "balance"
    [] lobbyChain = "stacks" -> IF kind = "create" THEN "predict" ELSE "write"

StartCall(c, kind, id) ==
  /\ ~Running(c)
  /\ calls' = [calls EXCEPT ![c] = [stage |-> FirstStage(kind), kind |-> kind, id |-> id, tx |-> "none",
                                    ok |-> FALSE, mounted |-> TRUE, excused |-> FALSE]]
  /\ UNCHANGED NotPage

handleCreateGame(c) ==
  /\ "initialize" \in LobbyScreen
  /\ StartCall(c, "create", NoGame)
  /\ lobby' = [lobby EXCEPT !.pending = TRUE]

\* mutant
handleJoinGameUnlocked(c, id) ==
  /\ lobby.route = "lobby" /\ id \in Challenges
  /\ StartCall(c, "join", id)
  /\ UNCHANGED lobby

handleJoinGame(c, id) ==
  /\ lobby.route = "lobby" /\ id \in Challenges
  /\ StartCall(c, "join", id)
  /\ lobby' = [lobby EXCEPT !.pending = TRUE]

(* A smart account is sponsored, any other wallet asks for a drip when it  *)
(* has no gas; refused, it cannot pay for itself either.                   *)
ensureGasSponsored(c) ==
  /\ calls[c].stage = "gas"
  /\ \/ (fuel \/ walletTier = "smart") /\ GoOn(c, "balance") /\ UNCHANGED drip
     \/ ~fuel /\ walletTier # "smart" /\ GoOn(c, "polling") /\ drip' = TRUE
     \/ ~fuel /\ walletTier # "smart" /\ Throws(c) /\ UNCHANGED drip
  /\ UNCHANGED <<LobbyChainVars, allowance, fuel, lobby, accounted>>

(* The poll ends once the drip is there; assertCanSelfPay looks again when *)
(* it has given up.                                                        *)
pollUntilGas(c) ==
  /\ calls[c].stage = "polling"
  /\ IF fuel THEN GoOn(c, "balance") ELSE Throws(c)
  /\ UNCHANGED <<LobbyChainVars, allowance, fuel, drip, lobby, accounted>>

(* The balance is too low, or cannot be read. *)
ensureBalance(c) ==
  /\ calls[c].stage = "balance"
  /\ (purse >= 1 /\ GoOn(c, "allowance")) \/ Throws(c)
  /\ UNCHANGED <<LobbyChainVars, allowance, fuel, drip, lobby, accounted>>

(* The wallet takes a transaction, and on celo it must be able to pay it.  *)
CanSend == lobbyChain # "celo" \/ walletTier = "smart" \/ fuel

(* On celo the allowance is for many games, on base for this one.  It may  *)
(* not be read, and the player may refuse to give it.                      *)
ensureApproval(c) ==
  /\ calls[c].stage = "allowance"
  /\ \/ allowance >= 1 /\ GoOn(c, "write")
     \/ allowance = 0 /\ CanSend /\ GoOn(c, "approving")
     \/ Throws(c)
  /\ UNCHANGED <<LobbyChainVars, allowance, fuel, drip, lobby, accounted>>

GasSpent == fuel' \in IF lobbyChain = "celo" /\ walletTier # "smart" THEN {fuel, FALSE} ELSE {fuel}

(* The approval is mined, or reverts; its receipt may be lost. *)
approvalMined(c) ==
  /\ calls[c].stage = "approving"
  /\ \/ /\ allowance' = IF lobbyChain = "celo" THEN FirstPurse ELSE 1
        /\ GoOn(c, "write") \/ Throws(c)
     \/ Throws(c) /\ UNCHANGED allowance
  /\ GasSpent
  /\ UNCHANGED <<LobbyChainVars, drip, lobby, accounted>>

\* mutant
fetchTotalGamesPast(c) ==
  /\ calls[c].stage = "predict"
  /\ calls' = [calls EXCEPT ![c].stage = "write", ![c].id = IF matches = <<>> THEN 0 ELSE Len(matches) - 1]
  /\ UNCHANGED <<LobbyChainVars, allowance, fuel, drip, lobby, accounted>>

(* On stacks the id of the new game is guessed from the number of games,   *)
(* which is 0 where it cannot be read.                                     *)
fetchTotalGames(c) ==
  /\ calls[c].stage = "predict"
  /\ \/ calls' = [calls EXCEPT ![c].stage = "write", ![c].id = Len(matches)]
     \/ calls' = [calls EXCEPT ![c].stage = "write", ![c].id = 0, ![c].excused = TRUE]
  /\ Len(matches) < LobbyGames
  /\ UNCHANGED <<LobbyChainVars, allowance, fuel, drip, lobby, accounted>>

(* The player confirms in the wallet or refuses; on stacks nobody waits    *)
(* for the transaction after that.                                         *)
sendTransaction(c) ==
  /\ calls[c].stage = "write"
  /\ \/ Throws(c)
     \/ /\ CanSend
        /\ calls' = [calls EXCEPT ![c].tx = "pending", ![c].ok = (lobbyChain = "stacks"),
                                  ![c].stage = IF lobbyChain = "stacks" THEN "answered" ELSE "waiting"]
  /\ UNCHANGED <<LobbyChainVars, allowance, fuel, drip, lobby, accounted>>

\* mutant
receiptUnchecked(c) ==
  /\ calls[c].stage = "waiting" /\ calls[c].tx # "pending"
  /\ calls' = [calls EXCEPT ![c].stage = "answered", ![c].ok = TRUE]
  /\ UNCHANGED <<LobbyChainVars, allowance, fuel, drip, lobby, accounted>>

(* waitForTransactionReceipt; the id of a new game is in its event. *)
receiptRead(c) ==
  /\ calls[c].stage = "waiting" /\ calls[c].tx # "pending"
  /\ calls' = [calls EXCEPT ![c].stage = "answered", ![c].ok = (calls[c].tx = "ok")]
  /\ UNCHANGED <<LobbyChainVars, allowance, fuel, drip, lobby, accounted>>

(* The node does not answer in time: the call throws, and the transaction  *)
(* may be mined all the same.                                              *)
receiptLost(c) ==
  /\ calls[c].stage = "waiting"
  /\ calls' = [calls EXCEPT ![c].stage = "answered", ![c].excused = TRUE]
  /\ accounted' = IF calls[c].tx = "ok" THEN accounted \cup {calls[c].id} ELSE accounted
  /\ UNCHANGED <<LobbyChainVars, allowance, fuel, drip, lobby>>

(* Once it is neither running nor pending, the call is forgotten. *)
Remains(call) == IF call.tx = "pending" THEN [call EXCEPT !.stage = "gone"] ELSE NoCallYet
Unmounted(call) == IF call = NoCallYet THEN call ELSE [call EXCEPT !.mounted = FALSE]

\* mutant
answeredOnlyMounted(c) ==
  LET call == calls[c] IN
  /\ call.stage = "answered"
  /\ IF call.ok /\ call.mounted
     THEN /\ lobby' = [FreshLobby EXCEPT !.route = "elsewhere"] /\ accounted' = accounted \cup {call.id}
          /\ calls' = [d \in LobbyCalls |-> Unmounted(IF d = c THEN Remains(call) ELSE calls[d])]
     ELSE /\ lobby' = IF call.mounted THEN [lobby EXCEPT !.pending = FALSE] ELSE lobby
          /\ calls' = [calls EXCEPT ![c] = Remains(call)]
          /\ UNCHANGED accounted
  /\ UNCHANGED <<LobbyChainVars, allowance, fuel, drip>>

(* Back in handleCreateGame or handleJoinGame: the player is taken to the  *)
(* game from wherever in the application he is by now.                     *)
callAnswered(c) ==
  LET call == calls[c] IN
  /\ call.stage = "answered"
  /\ IF call.ok
     THEN /\ lobby' = [FreshLobby EXCEPT !.route = "elsewhere"] /\ accounted' = accounted \cup {call.id}
          /\ calls' = [d \in LobbyCalls |-> Unmounted(IF d = c THEN Remains(call) ELSE calls[d])]
     ELSE /\ lobby' = IF call.mounted THEN [lobby EXCEPT !.pending = FALSE] ELSE lobby
          /\ calls' = [calls EXCEPT ![c] = Remains(call)]
          /\ UNCHANGED accounted
  /\ UNCHANGED <<LobbyChainVars, allowance, fuel, drip>>

-----------------------------------------------------------------------------
(* The chain *)

Funded == purse >= 1 /\ (lobbyChain = "stacks" \/ allowance >= 1)
Fits(call) == IF call.kind = "create" THEN Len(matches) < LobbyGames
              ELSE matches[call.id + 1] = [creator |-> "other", joiner |-> "nobody"]

(* A game that somebody creates has the number that calls have guessed. *)
Misled(cs, others) ==
  [c \in LobbyCalls |->
     IF lobbyChain = "stacks" /\ c \in others /\ cs[c] # NoCallYet /\ cs[c].kind = "create" /\ cs[c].stage # "predict"
     THEN [cs[c] EXCEPT !.excused = TRUE] ELSE cs[c]]

(* The contract takes the wager and gives the next number to a new game.   *)
transactionMined(c) ==
  LET call == calls[c]
  IN  /\ Running(c) /\ call.tx = "pending"
      /\ Funded /\ Fits(call)
      /\ matches' = IF call.kind = "create" THEN Append(matches, [creator |-> "me", joiner |-> "nobody"])
                    ELSE [matches EXCEPT ![call.id + 1].joiner = "me"]
      /\ LET id == IF call.kind = "create" THEN Len(matches) ELSE call.id
             next == [call EXCEPT !.tx = "ok", !.id = IF lobbyChain = "stacks" THEN @ ELSE id]
             now == [calls EXCEPT ![c] = IF call.stage = "gone" THEN NoCallYet ELSE next]
         IN  /\ calls' = IF call.kind = "create" THEN Misled(now, LobbyCalls \ {c}) ELSE now
             /\ accounted' = IF call.excused THEN accounted \cup {id} ELSE accounted
      /\ purse' = purse - 1
      /\ allowance' = IF lobbyChain = "stacks" THEN allowance ELSE allowance - 1
      /\ GasSpent
      /\ UNCHANGED <<lobbyChain, walletTier, drip, lobby>>

transactionReverts(c) ==
  LET call == calls[c]
  IN  /\ Running(c) /\ call.tx = "pending"
      /\ ~(Funded /\ Fits(call))
      /\ calls' = [calls EXCEPT ![c] = IF call.stage = "gone" THEN NoCallYet ELSE [call EXCEPT !.tx = "reverted"]]
      /\ GasSpent
      /\ UNCHANGED <<LobbyChainVars, allowance, drip, lobby, accounted>>

OthersCreate ==
  /\ Len(matches) < LobbyGames
  /\ matches' = Append(matches, [creator |-> "other", joiner |-> "nobody"])
  /\ calls' = Misled(calls, LobbyCalls)
  /\ UNCHANGED <<lobbyChain, walletTier, purse, allowance, fuel, drip, lobby, accounted>>

OthersJoin(id) ==
  /\ matches[id + 1].joiner = "nobody"
  /\ matches' = [matches EXCEPT ![id + 1].joiner = "other"]
  /\ UNCHANGED <<lobbyChain, walletTier, purse, allowance, fuel, drip, calls, lobby, accounted>>

DripLands ==
  /\ drip /\ drip' = FALSE /\ fuel' = TRUE
  /\ UNCHANGED <<LobbyChainVars, allowance, calls, lobby, accounted>>

-----------------------------------------------------------------------------
(* The page *)

OpenCreateModal ==
  /\ "create" \in LobbyScreen
  /\ lobby' = [lobby EXCEPT !.modal = TRUE]
  /\ UNCHANGED <<NotPage, calls>>

CloseCreateModal ==
  /\ "close" \in LobbyScreen
  /\ lobby' = [lobby EXCEPT !.modal = FALSE]
  /\ UNCHANGED <<NotPage, calls>>

TurnPage ==
  /\ \/ "prev" \in LobbyScreen /\ lobby' = [lobby EXCEPT !.currentPage = @ - 1]
     \/ "next" \in LobbyScreen /\ lobby' = [lobby EXCEPT !.currentPage = IF @ < LastPage THEN @ + 1 ELSE LastPage]
  /\ UNCHANGED <<NotPage, calls>>

(* The search takes the player to a game, as every link takes him          *)
(* somewhere; the browser's own buttons do so from the dialog, too.        *)
LeaveLobby ==
  /\ lobby.route = "lobby"
  /\ lobby' = [FreshLobby EXCEPT !.route = "elsewhere"]
  /\ calls' = [c \in LobbyCalls |-> Unmounted(calls[c])]
  /\ UNCHANGED NotPage

OpenLobby ==
  /\ lobby.route # "lobby"
  /\ lobby' = FreshLobby
  /\ UNCHANGED <<NotPage, calls>>

(* The balance is polled every 5 seconds, and compared with the wager.     *)
BalanceRead ==
  /\ lobby.route = "lobby"
  /\ lobby' = [lobby EXCEPT !.enough = (purse >= 1)]
  /\ UNCHANGED <<NotPage, calls>>

(* useLobby looks at the newest games, one after the other, and forgets    *)
(* what it has found when a read fails, that of the number included.       *)
refresh ==
  /\ lobby.route = "lobby" /\ lobby.scan = NoScan
  /\ \/ lobby' = [lobby EXCEPT !.listed = <<>>]
     \/ /\ matches # <<>>
        /\ lobby' = [lobby EXCEPT !.scan =
                       [next |-> Len(matches) - 1, found |-> <<>>,
                        last |-> IF Len(matches) < LobbyWindow THEN 0 ELSE Len(matches) - LobbyWindow]]
  /\ UNCHANGED <<NotPage, calls>>

ScanOn(found) ==
  LET id == lobby.scan.next IN
  /\ lobby' = IF id > lobby.scan.last THEN [lobby EXCEPT !.scan.next = id - 1, !.scan.found = found]
              ELSE [lobby EXCEPT !.scan = NoScan, !.listed = found]
  /\ UNCHANGED <<NotPage, calls>>

fetchGame ==
  LET id == lobby.scan.next IN
  /\ lobby.scan # NoScan
  /\ ScanOn(IF matches[id + 1].joiner = "nobody" THEN Append(lobby.scan.found, id) ELSE lobby.scan.found)

(* On stacks the failing read of a game only leaves that game out.         *)
fetchFails ==
  /\ lobby.scan # NoScan
  /\ IF lobbyChain = "stacks" THEN ScanOn(lobby.scan.found)
     ELSE /\ lobby' = [lobby EXCEPT !.scan = NoScan, !.listed = <<>>]
          /\ UNCHANGED <<NotPage, calls>>

LobbyOp ==
  \/ \E c \in LobbyCalls :
       \/ handleCreateGame(c) \/ \E id \in GameIdsHere : handleJoinGame(c, id)
       \/ ensureGasSponsored(c) \/ pollUntilGas(c) \/ ensureBalance(c) \/ ensureApproval(c) \/ approvalMined(c)
       \/ fetchTotalGames(c) \/ sendTransaction(c) \/ receiptRead(c) \/ receiptLost(c) \/ callAnswered(c)
       \/ transactionMined(c) \/ transactionReverts(c)
  \/ OthersCreate \/ \E id \in 0..Len(matches) - 1 : OthersJoin(id)
  \/ DripLands \/ OpenCreateModal \/ CloseCreateModal \/ TurnPage
  \/ LeaveLobby \/ OpenLobby \/ BalanceRead \/ refresh \/ fetchGame \/ fetchFails

LobbySpec == LobbyInit /\ [][LobbyOp]_lobbyVars

-----------------------------------------------------------------------------
Seated(id) == id < Len(matches) /\ "me" \in {matches[id + 1].creator, matches[id + 1].joiner}

(* What a call answers is true, whatever became of balance, allowance, gas *)
(* and the game since they were read: who is told of success sits in the   *)
(* game, or will when the transaction is mined, and who is told of failure *)
(* has no transaction that may still be mined, unless no node would say.   *)
AnswerIsTrue ==
  \A c \in LobbyCalls :
    calls[c].stage = "answered" /\ ~calls[c].excused =>
      IF ~calls[c].ok THEN calls[c].tx \in {"none", "reverted"}
      ELSE IF lobbyChain = "stacks" THEN calls[c].tx = "ok" => Seated(calls[c].id)
      ELSE calls[c].tx = "ok" /\ Seated(calls[c].id)

(* No wager disappears: every game the player sits in is one to which an   *)
(* answer has taken him, or the call that must do so still runs, even if   *)
(* he has left the lobby or started another call.                          *)
StakeIsKnown ==
  \A id \in 0..Len(matches) - 1 :
    Seated(id) => id \in accounted \/ \E c \in LobbyCalls : Running(c) /\ calls[c].id = id /\ calls[c].tx = "ok"

(* One visit of the lobby spends one wager at a time: both kinds of call   *)
(* share the flag, which is set as long as a call of this visit runs.      *)
OneCallPerVisit ==
  LET mine == {c \in LobbyCalls : Running(c) /\ calls[c].mounted /\ calls[c].stage # "gone"}
  IN  Cardinality(mine) = (IF lobby.pending THEN 1 ELSE 0)
=============================================================================
