----------------------------- MODULE MCBrowser -----------------------------
(***************************************************************************)
(* The pages of the application share no state that these modules model:   *)
(* the page that is open in a behaviour is chosen in its first state.      *)
(***************************************************************************)
EXTENDS MCMoveSync, TrainingGame, GameClient, BotGame, Lobby

CONSTANTS beat1, beat2, m1, m2

(* A mate on the first move, and one after a reply. *)
TwoMates == {<<m1>>, <<m2, m1, m1>>}

(* A game of two moves each, in which white always starts the same way.    *)
FourPlies == {p \in UNION {[1..n -> {m1, m2}] : n \in 0..4} : p = <<>> \/ p[1] = m1}
LatePlies == {p \in FourPlies : Len(p) >= 3}
InOrder == <<m1, m2>>
BlackLoses == [p \in FourPlies |-> Cardinality({i \in DOMAIN p : i % 2 = 0 /\ p[i] = m2})]

VARIABLE open

Pages == {"training", "sync", "client", "bot", "lobby", "calls"}

trainingVars == <<engineVars, gameVars>>

(* The lobby with its list and one call at a time, or with two calls and   *)
(* no list; the list is refreshed between the calls.                       *)
LobbyPart ==
  /\ LobbyOp
  /\ Cardinality({c \in LobbyCalls : calls'[c] # NoCallYet}) <= (IF lobby'.scan = NoScan THEN 1 ELSE 0)
CallsPart ==
  LobbyOp /\ lobby'.scan = NoScan /\ lobby'.listed = <<>> /\ (\A i \in DOMAIN matches' : matches'[i].joiner = "nobody")

(* A page that is not open rests in one of its first states. *)
BrowserInit ==
  /\ open \in Pages \cup {"none"}
  /\ TrainGameInit /\ (open # "training" => mode = "guided")
  /\ SyncInit /\ (open # "sync" => activeChain = "celo")
  /\ ClientInit /\ (open # "client" => home = "celo" /\ seat = "none")
  /\ BotInit /\ (open # "bot" => mates = {})
  /\ LobbyInit /\ (open \notin {"lobby", "calls"} => lobbyChain = "base")

(* On base, where moves are signed, each side waits for the answer. *)
SyncPart == SyncOp /\ \A c \in BothSides : Cardinality(posts'[c]) <= (IF activeChain = "base" THEN 1 ELSE MaxPosts)

BrowserNext ==
  /\ UNCHANGED open
  /\ \/ open = "training" /\ TrainGameOp /\ UNCHANGED <<syncVars, clientVars, botVars, lobbyVars>>
     \/ open = "sync" /\ SyncPart /\ UNCHANGED <<trainingVars, clientVars, botVars, lobbyVars>>
     \/ open = "client" /\ ClientOp /\ UNCHANGED <<trainingVars, syncVars, botVars, lobbyVars>>
     \/ open = "bot" /\ BotOp /\ UNCHANGED <<trainingVars, syncVars, clientVars, lobbyVars>>
     \/ /\ (open = "lobby" /\ LobbyPart) \/ (open = "calls" /\ CallsPart)
        /\ UNCHANGED <<trainingVars, syncVars, clientVars, botVars>>

browserVars == <<open, trainingVars, syncVars, clientVars, botVars, lobbyVars>>

(* Every page's state has its type. *)
BrowserTypeOK == TrainGameTypeOK /\ SyncTypeOK /\ ClientTypeOK /\ BotTypeOK /\ LobbyTypeOK
=============================================================================
