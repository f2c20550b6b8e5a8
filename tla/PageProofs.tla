---------------------------- MODULE PageProofs -----------------------------
(***************************************************************************)
(* Four pages of the application.  For any number of games, calls and      *)
(* list lengths the lobby answers truly, loses no stake and makes one call *)
(* a visit; for any moves, continuations and length of game the training   *)
(* game's phase fits its board and a loss is that of the move it is said   *)
(* of; a verdict of the chain that the game page shows stays, and it quits *)
(* only after a full hold of a button that stays; and for any tree of      *)
(* games the bot plays best and its game survives a reload.                *)
(***************************************************************************)
EXTENDS Lobby, TrainingGame, GameClient, BotGame, FiniteSetTheorems, SequenceTheorems, WellFoundedInduction, TLAPS

-----------------------------------------------------------------------------
(* The lobby *)

Match == [creator: {"me", "other"}, joiner: {"me", "other", "nobody"}]

Early == {"gas", "polling", "balance", "allowance", "approving", "predict", "write"}

LobbyPage ==
  [route: {"lobby", "elsewhere"}, pending: BOOLEAN, modal: BOOLEAN, currentPage: Nat \ {0},
   enough: BOOLEAN, listed: Seq(Nat), scan: [next: Int, last: Int, found: Seq(Nat)]]

(* The player's seat among the games ms.                                   *)
SeatIn(ms, id) ==
  id \in Nat /\ id < Len(ms) /\ (ms[id + 1].creator = "me" \/ ms[id + 1].joiner = "me")

(* What is known of a call on chain ch when the chain's games are ms and   *)
(* the games acc are accounted for.                                        *)
SoundCall(call, ms, acc, ch) ==
  /\ call.stage \in Early => call.tx = "none" /\ ~call.ok
  /\ call.stage = "predict" => call.kind = "create"
  /\ call.stage = "waiting" => ch # "stacks" /\ call.tx # "none" /\ ~call.ok
  /\ call.stage = "answered" /\ ch = "stacks" => (call.ok <=> call.tx # "none")
  /\ call.stage = "answered" /\ ch # "stacks" /\ call.ok => call.tx = "ok"
  /\ call.stage = "answered" /\ ch # "stacks" /\ ~call.ok =>
       /\ call.tx \in {"none", "reverted"} \/ call.excused
       /\ call.tx = "ok" => call.id \in acc
  /\ call.stage = "gone" => call.tx = "pending"
  /\ call.stage = "gone" /\ ~call.excused => ch = "stacks" /\ call.id \in acc
  /\ call.kind = "join" => call.id \in Nat /\ call.id < Len(ms)
  /\ /\ ch = "stacks" /\ call.kind = "create" /\ ~call.excused
     /\ call.tx \in {"none", "pending"} /\ call.stage # "predict"
     => call.id = Len(ms)
  /\ call.tx = "ok" /\ (~call.excused \/ ch # "stacks") => SeatIn(ms, call.id)

LobbyCallsTyped == calls \in [LobbyCalls -> LobbyCall \cup {NoCallYet}]
CallsSound ==
  \A c \in LobbyCalls : calls[c] # NoCallYet => SoundCall(calls[c], matches, accounted, lobbyChain)

(* The page lists, and a refresh looks at, games that exist.               *)
Existing(list, n) == \A i \in 1..Len(list) : list[i] < n
PageSound(page, n) ==
  /\ page \in LobbyPage /\ (page.route = "lobby" \/ page.pending = FALSE)
  /\ Existing(page.listed, n) /\ Existing(page.scan.found, n)
  /\ page.scan = NoScan \/ (page.scan.next \in 0..n - 1 /\ page.scan.last \in Nat)

(* The stake in game id is in an answer or in a call.                      *)
StakeIn(cs, acc, id) == id \in acc \/ \E c \in LobbyCalls : cs[c] # NoCallYet /\ cs[c].id = id /\ cs[c].tx = "ok"
StakesIn(cs, ms, acc) == \A id \in Nat : SeatIn(ms, id) => StakeIn(cs, acc, id)

Visiting(call) == call # NoCallYet /\ call.mounted /\ call.stage # "gone"
OneVisits(cs, pending) ==
  /\ \A c, d \in LobbyCalls : Visiting(cs[c]) /\ Visiting(cs[d]) => c = d
  /\ pending <=> \E c \in LobbyCalls : Visiting(cs[c])

LobbyInv ==
  /\ lobbyChain \in {"celo", "base", "stacks"}
  /\ LobbyCallsTyped /\ matches \in Seq(Match)
  /\ CallsSound
  /\ PageSound(lobby, Len(matches))
  /\ StakesIn(calls, matches, accounted)
  /\ OneVisits(calls, lobby.pending)

-----------------------------------------------------------------------------
LEMMA NoCallIsNone ==
  /\ NoCallYet \notin LobbyCall
  /\ \A call \in LobbyCall : call # NoCallYet /\ call.stage # "none"
<1>1. \A call \in LobbyCall : call.stage # "none"
  BY DEF LobbyCall
<1>2. NoCallYet.stage = "none"
  BY DEF NoCallYet
<1> QED BY <1>1, <1>2

LEMMA LobbyInitInv == LobbyInit => LobbyInv
<1> SUFFICES ASSUME LobbyInit PROVE LobbyInv
  OBVIOUS
<1>1. LobbyCallsTyped /\ CallsSound
  BY DEF LobbyInit, LobbyCallsTyped, CallsSound
<1>2. matches \in Seq(Match) /\ Len(matches) = 0
  BY DEF LobbyInit
<1>3. PageSound(lobby, 0)
  <2>1. NoScan \in [next: Int, last: Int, found: Seq(Nat)] /\ NoScan.found = <<>>
    BY DEF NoScan, NoGame
  <2> QED BY <2>1 DEF LobbyInit, FreshLobby, PageSound, LobbyPage, Existing
<1>4. StakesIn(calls, matches, accounted)
  BY <1>2 DEF StakesIn, SeatIn
<1>5. OneVisits(calls, lobby.pending)
  BY DEF LobbyInit, OneVisits, Visiting, FreshLobby
<1> QED BY <1>1, <1>2, <1>3, <1>4, <1>5 DEF LobbyInv, LobbyInit

-----------------------------------------------------------------------------
(* What one call keeps when others act.                                    *)

LEMMA AccountsGrow ==
  ASSUME NEW call, NEW ms, NEW acc, NEW acc2, NEW ch, acc \subseteq acc2, SoundCall(call, ms, acc, ch)
  PROVE  SoundCall(call, ms, acc2, ch)
BY DEF SoundCall

(* A call moves on by itself: games and page stay as they are.             *)
LEMMA CallMoves ==
  ASSUME LobbyInv, NEW c \in LobbyCalls, NEW next \in LobbyCall,
         calls[c] # NoCallYet, calls' = [calls EXCEPT ![c] = next],
         UNCHANGED <<lobbyChain, matches, lobby>>, accounted \subseteq accounted',
         SoundCall(next, matches, accounted', lobbyChain),
         next.mounted = calls[c].mounted, calls[c].stage # "gone", next.stage # "gone",
         calls[c].tx = "ok" => next.tx = "ok" /\ next.id = calls[c].id
  PROVE  LobbyInv'
<1> USE DEF LobbyInv
<1>1. next # NoCallYet
  BY NoCallIsNone
<1>2. LobbyCallsTyped'
  BY DEF LobbyCallsTyped
<1>3. CallsSound'
  <2> SUFFICES ASSUME NEW d \in LobbyCalls, calls'[d] # NoCallYet
               PROVE  SoundCall(calls'[d], matches, accounted', lobbyChain)
    BY DEF CallsSound
  <2>1. CASE d = c
    BY <2>1 DEF LobbyCallsTyped
  <2>2. CASE d # c
    <3>1. calls'[d] = calls[d]
      BY <2>2 DEF LobbyCallsTyped
    <3>2. SoundCall(calls[d], matches, accounted, lobbyChain)
      BY <3>1 DEF CallsSound
    <3> QED BY <3>1, <3>2, AccountsGrow
  <2> QED BY <2>1, <2>2
<1>4. StakesIn(calls', matches, accounted')
  <2> SUFFICES ASSUME NEW id \in Nat, SeatIn(matches, id) PROVE StakeIn(calls', accounted', id)
    BY DEF StakesIn
  <2>1. StakeIn(calls, accounted, id)
    BY DEF StakesIn
  <2>2. CASE id \in accounted
    BY <2>2 DEF StakeIn
  <2>3. ASSUME NEW d \in LobbyCalls, calls[d] # NoCallYet, calls[d].id = id, calls[d].tx = "ok"
        PROVE  StakeIn(calls', accounted', id)
    <3>1. calls'[d] # NoCallYet /\ calls'[d].id = id /\ calls'[d].tx = "ok"
      BY <1>1, <2>3 DEF LobbyCallsTyped
    <3> QED BY <3>1 DEF StakeIn
  <2> QED BY <2>1, <2>2, <2>3 DEF StakeIn
<1>5. OneVisits(calls', lobby.pending)
  <2>1. \A d \in LobbyCalls : Visiting(calls'[d]) <=> Visiting(calls[d])
    BY <1>1 DEF Visiting, LobbyCallsTyped
  <2> QED BY <2>1 DEF OneVisits
<1> QED BY <1>2, <1>3, <1>4, <1>5

LEMMA EarlyGoesOn ==
  ASSUME LobbyInv, NEW c \in LobbyCalls, calls[c].stage \in Early \ {"predict"},
         NEW stage \in Early \ {"predict"}, GoOn(c, stage) \/ Throws(c),
         UNCHANGED <<lobbyChain, matches, lobby, accounted>>
  PROVE  LobbyInv'
<1>1. calls[c] \in LobbyCall /\ calls[c] # NoCallYet
  BY DEF LobbyInv, LobbyCallsTyped, NoCallYet, Early
<1>2. SoundCall(calls[c], matches, accounted, lobbyChain)
  BY <1>1 DEF LobbyInv, CallsSound
<1>3. CASE GoOn(c, stage)
  <2> DEFINE next == [calls[c] EXCEPT !.stage = stage]
  <2>1. next \in LobbyCall
    BY <1>1 DEF LobbyCall, Early
  <2>2. /\ next.kind = calls[c].kind /\ next.id = calls[c].id /\ next.tx = calls[c].tx /\ next.ok = calls[c].ok
        /\ next.mounted = calls[c].mounted /\ next.excused = calls[c].excused /\ next.stage = stage
    BY <1>1 DEF LobbyCall
  <2>3. calls' = [calls EXCEPT ![c] = next]
    BY <1>3 DEF GoOn
  <2> HIDE DEF next
  <2>4. SoundCall(next, matches, accounted, lobbyChain)
    BY <1>2, <2>2 DEF SoundCall, Early
  <2> QED BY <1>1, <1>2, <2>1, <2>2, <2>3, <2>4, CallMoves DEF SoundCall, Early
<1>4. CASE Throws(c)
  <2> DEFINE next == [calls[c] EXCEPT !.stage = "answered", !.ok = FALSE]
  <2>1. next \in LobbyCall
    BY <1>1 DEF LobbyCall
  <2>2. /\ next.kind = calls[c].kind /\ next.id = calls[c].id /\ next.tx = calls[c].tx /\ next.ok = FALSE
        /\ next.mounted = calls[c].mounted /\ next.excused = calls[c].excused /\ next.stage = "answered"
    BY <1>1 DEF LobbyCall
  <2>3. calls' = [calls EXCEPT ![c] = next]
    BY <1>4 DEF Throws
  <2> HIDE DEF next
  <2>4. SoundCall(next, matches, accounted, lobbyChain)
    BY <1>2, <2>2 DEF SoundCall, Early
  <2> QED BY <1>1, <1>2, <2>1, <2>2, <2>3, <2>4, CallMoves DEF SoundCall, Early
<1> QED BY <1>3, <1>4

-----------------------------------------------------------------------------
(* The steps of a call.                                                    *)

LEMMA GasStep ==
  ASSUME LobbyInv, NEW c \in LobbyCalls,
         ensureGasSponsored(c) \/ pollUntilGas(c) \/ ensureBalance(c) \/ ensureApproval(c) \/ approvalMined(c)
  PROVE  LobbyInv'
<1>1. calls[c].stage \in Early \ {"predict"} /\ UNCHANGED <<lobbyChain, matches, lobby, accounted>>
  BY DEF ensureGasSponsored, pollUntilGas, ensureBalance, ensureApproval, approvalMined, Early, LobbyChainVars
<1>2. \E stage \in Early \ {"predict"} : GoOn(c, stage) \/ Throws(c)
  BY DEF ensureGasSponsored, pollUntilGas, ensureBalance, ensureApproval, approvalMined, Early
<1> QED BY <1>1, <1>2, EarlyGoesOn

LEMMA PredictStep ==
  ASSUME LobbyInv, NEW c \in LobbyCalls, fetchTotalGames(c)
  PROVE  LobbyInv'
<1>1. calls[c] \in LobbyCall /\ calls[c] # NoCallYet /\ calls[c].stage = "predict"
  BY DEF LobbyInv, LobbyCallsTyped, NoCallYet, fetchTotalGames
<1>2. SoundCall(calls[c], matches, accounted, lobbyChain)
  BY <1>1 DEF LobbyInv, CallsSound
<1>3. Len(matches) \in GameIdsHere /\ 0 \in GameIdsHere
  BY LobbyAssumption, LenProperties DEF LobbyInv, fetchTotalGames, GameIdsHere
<1>4. UNCHANGED <<lobbyChain, matches, lobby, accounted>>
  BY DEF fetchTotalGames, LobbyChainVars
<1>5. CASE calls' = [calls EXCEPT ![c].stage = "write", ![c].id = Len(matches)]
  <2> DEFINE next == [calls[c] EXCEPT !.stage = "write", !.id = Len(matches)]
  <2>1. next \in LobbyCall
    BY <1>1, <1>3 DEF LobbyCall
  <2>2. /\ next.kind = calls[c].kind /\ next.id = Len(matches) /\ next.tx = calls[c].tx /\ next.ok = calls[c].ok
        /\ next.mounted = calls[c].mounted /\ next.excused = calls[c].excused /\ next.stage = "write"
    BY <1>1 DEF LobbyCall
  <2>3. calls' = [calls EXCEPT ![c] = next]
    BY <1>5
  <2> HIDE DEF next
  <2>4. SoundCall(next, matches, accounted, lobbyChain)
    BY <1>1, <1>2, <2>2 DEF SoundCall, Early
  <2> QED BY <1>1, <1>2, <1>4, <2>1, <2>2, <2>3, <2>4, CallMoves DEF SoundCall, Early
<1>6. CASE calls' = [calls EXCEPT ![c].stage = "write", ![c].id = 0, ![c].excused = TRUE]
  <2> DEFINE next == [calls[c] EXCEPT !.stage = "write", !.id = 0, !.excused = TRUE]
  <2>1. next \in LobbyCall
    BY <1>1, <1>3 DEF LobbyCall
  <2>2. /\ next.kind = calls[c].kind /\ next.id = 0 /\ next.tx = calls[c].tx /\ next.ok = calls[c].ok
        /\ next.mounted = calls[c].mounted /\ next.excused = TRUE /\ next.stage = "write"
    BY <1>1 DEF LobbyCall
  <2>3. calls' = [calls EXCEPT ![c] = next]
    BY <1>6
  <2> HIDE DEF next
  <2>4. SoundCall(next, matches, accounted, lobbyChain)
    BY <1>1, <1>2, <2>2 DEF SoundCall, Early
  <2> QED BY <1>1, <1>2, <1>4, <2>1, <2>2, <2>3, <2>4, CallMoves DEF SoundCall, Early
<1> QED BY <1>5, <1>6 DEF fetchTotalGames

LEMMA SendStep ==
  ASSUME LobbyInv, NEW c \in LobbyCalls, sendTransaction(c)
  PROVE  LobbyInv'
<1>1. calls[c] \in LobbyCall /\ calls[c] # NoCallYet /\ calls[c].stage = "write"
  BY DEF LobbyInv, LobbyCallsTyped, NoCallYet, sendTransaction
<1>2. SoundCall(calls[c], matches, accounted, lobbyChain)
  BY <1>1 DEF LobbyInv, CallsSound
<1>4. UNCHANGED <<lobbyChain, matches, lobby, accounted>>
  BY DEF sendTransaction, LobbyChainVars
<1>5. CASE Throws(c)
  BY <1>1, <1>4, <1>5, EarlyGoesOn DEF Early
<1>6. CASE ~Throws(c)
  <2> DEFINE sent == lobbyChain = "stacks"
             next == [calls[c] EXCEPT !.tx = "pending", !.ok = sent, !.stage = IF sent THEN "answered" ELSE "waiting"]
  <2>1. next \in LobbyCall
    BY <1>1 DEF LobbyCall
  <2>2. /\ next.kind = calls[c].kind /\ next.id = calls[c].id /\ next.tx = "pending" /\ next.ok = sent
        /\ next.mounted = calls[c].mounted /\ next.excused = calls[c].excused
        /\ next.stage = IF sent THEN "answered" ELSE "waiting"
    BY <1>1 DEF LobbyCall
  <2>3. calls' = [calls EXCEPT ![c] = next]
    BY <1>6 DEF sendTransaction
  <2> HIDE DEF next
  <2>4. SoundCall(next, matches, accounted, lobbyChain)
    BY <1>1, <1>2, <2>2 DEF SoundCall, Early
  <2> QED BY <1>1, <1>2, <1>4, <2>1, <2>2, <2>3, <2>4, CallMoves DEF SoundCall, Early
<1> QED BY <1>5, <1>6

LEMMA ReceiptStep ==
  ASSUME LobbyInv, NEW c \in LobbyCalls, receiptRead(c) \/ receiptLost(c)
  PROVE  LobbyInv'
<1>1. calls[c] \in LobbyCall /\ calls[c] # NoCallYet /\ calls[c].stage = "waiting"
  BY DEF LobbyInv, LobbyCallsTyped, NoCallYet, receiptRead, receiptLost
<1>2. SoundCall(calls[c], matches, accounted, lobbyChain)
  BY <1>1 DEF LobbyInv, CallsSound
<1>4. UNCHANGED <<lobbyChain, matches, lobby>> /\ accounted \subseteq accounted'
  BY DEF receiptRead, receiptLost, LobbyChainVars
<1>5. CASE receiptRead(c)
  <2> DEFINE mined == calls[c].tx = "ok"
             next == [calls[c] EXCEPT !.stage = "answered", !.ok = mined]
  <2>1. next \in LobbyCall
    BY <1>1 DEF LobbyCall
  <2>2. /\ next.kind = calls[c].kind /\ next.id = calls[c].id /\ next.tx = calls[c].tx /\ next.ok = mined
        /\ next.mounted = calls[c].mounted /\ next.excused = calls[c].excused /\ next.stage = "answered"
    BY <1>1 DEF LobbyCall
  <2>3. calls' = [calls EXCEPT ![c] = next] /\ calls[c].tx \in {"none", "ok", "reverted"}
    BY <1>1, <1>5 DEF receiptRead, LobbyCall
  <2> HIDE DEF next
  <2>4. SoundCall(next, matches, accounted', lobbyChain)
    BY <1>1, <1>2, <1>4, <2>2, <2>3 DEF SoundCall, Early
  <2> QED BY <1>1, <1>2, <1>4, <2>1, <2>2, <2>3, <2>4, CallMoves DEF SoundCall, Early
<1>6. CASE receiptLost(c)
  <2> DEFINE next == [calls[c] EXCEPT !.stage = "answered", !.excused = TRUE]
  <2>1. next \in LobbyCall
    BY <1>1 DEF LobbyCall
  <2>2. /\ next.kind = calls[c].kind /\ next.id = calls[c].id /\ next.tx = calls[c].tx /\ next.ok = calls[c].ok
        /\ next.mounted = calls[c].mounted /\ next.excused = TRUE /\ next.stage = "answered"
    BY <1>1 DEF LobbyCall
  <2>3. calls' = [calls EXCEPT ![c] = next] /\ (calls[c].tx = "ok" => calls[c].id \in accounted')
    BY <1>1, <1>6 DEF receiptLost
  <2> HIDE DEF next
  <2>4. SoundCall(next, matches, accounted', lobbyChain)
    BY <1>1, <1>2, <1>4, <2>2, <2>3 DEF SoundCall, Early
  <2> QED BY <1>1, <1>2, <1>4, <2>1, <2>2, <2>3, <2>4, CallMoves DEF SoundCall, Early
<1> QED BY <1>5, <1>6

LEMMA StartStep ==
  ASSUME LobbyInv, NEW c \in LobbyCalls, NEW kind \in {"create", "join"}, NEW id \in GameIdsHere \cup {NoGame},
         StartCall(c, kind, id), ~lobby.pending, lobby.route = "lobby", lobby' = [lobby EXCEPT !.pending = TRUE],
         kind = "join" => id \in Nat /\ id < Len(matches)
  PROVE  LobbyInv'
<1> DEFINE next == [stage |-> FirstStage(kind), kind |-> kind, id |-> id, tx |-> "none",
                    ok |-> FALSE, mounted |-> TRUE, excused |-> FALSE]
<1>1. calls' = [calls EXCEPT ![c] = next] /\ calls[c] = NoCallYet /\ UNCHANGED <<lobbyChain, matches, accounted>>
  BY DEF StartCall, Running, NotPage, LobbyChainVars
<1>2. FirstStage(kind) \in Early /\ (lobbyChain = "stacks" /\ kind = "create" <=> FirstStage(kind) = "predict")
  BY DEF FirstStage, Early, LobbyInv
<1>3. next \in LobbyCall
  BY <1>2 DEF LobbyCall, Early
<1>4. /\ next.kind = kind /\ next.id = id /\ next.tx = "none" /\ next.ok = FALSE
      /\ next.mounted = TRUE /\ next.excused = FALSE /\ next.stage = FirstStage(kind)
  OBVIOUS
<1> HIDE DEF next
<1>5. next # NoCallYet
  BY <1>3, NoCallIsNone
<1>6. LobbyCallsTyped'
  BY <1>1, <1>3 DEF LobbyCallsTyped, LobbyInv
<1>7. CallsSound'
  <2>1. SoundCall(next, matches, accounted, lobbyChain)
    BY <1>2, <1>4 DEF SoundCall, Early
  <2> QED BY <1>1, <2>1 DEF CallsSound, LobbyCallsTyped, LobbyInv
<1>8. PageSound(lobby', Len(matches)) /\ lobby'.pending = TRUE
  BY DEF LobbyInv, PageSound, LobbyPage
<1>9. StakesIn(calls', matches, accounted)
  <2>1. \A d \in LobbyCalls : calls[d] # NoCallYet => calls'[d] = calls[d]
    BY <1>1 DEF LobbyInv, LobbyCallsTyped
  <2> QED BY <2>1 DEF LobbyInv, StakesIn, StakeIn
<1>10. OneVisits(calls', TRUE)
  <2>1. \A d \in LobbyCalls : ~Visiting(calls[d])
    BY DEF LobbyInv, OneVisits
  <2>2. \A d \in LobbyCalls : Visiting(calls'[d]) <=> d = c
    BY <1>1, <1>2, <1>4, <1>5, <2>1 DEF Visiting, Early, LobbyInv, LobbyCallsTyped
  <2> QED BY <2>2 DEF OneVisits
<1> QED BY <1>1, <1>6, <1>7, <1>8, <1>9, <1>10 DEF LobbyInv

LEMMA CreateCallStep ==
  ASSUME LobbyInv, NEW c \in LobbyCalls, handleCreateGame(c)
  PROVE  LobbyInv'
<1>2. ~lobby.pending /\ lobby.route = "lobby"
  BY DEF handleCreateGame, LobbyScreen, CreateMatchModal, Pager
<1> QED BY <1>2, StartStep DEF handleCreateGame

LEMMA JoinCallStep ==
  ASSUME LobbyInv, NEW c \in LobbyCalls, NEW id \in GameIdsHere, handleJoinGame(c, id)
  PROVE  LobbyInv'
<1>1. ~lobby.pending /\ id \in ToSet(PageItems)
  BY DEF handleJoinGame, Challenges
<1>2. id \in Nat /\ id < Len(matches)
  <2> DEFINE lo == (lobby.currentPage - 1) * ItemsPerPage + 1
             hi == IF lobby.currentPage * ItemsPerPage <= Len(lobby.listed)
                   THEN lobby.currentPage * ItemsPerPage ELSE Len(lobby.listed)
  <2>1. lobby.currentPage \in Nat \ {0} /\ lobby.listed \in Seq(Nat) /\ Existing(lobby.listed, Len(matches))
    BY DEF LobbyInv, PageSound, LobbyPage
  <2>2. lo \in Nat \ {0} /\ hi \in Nat /\ hi <= Len(lobby.listed)
    BY <2>1, LobbyAssumption, LenProperties
  <2>3. PageItems = SubSeq(lobby.listed, lo, hi)
    BY DEF PageItems
  <2>4. PICK i \in DOMAIN PageItems : id = PageItems[i]
    BY <1>1 DEF ToSet
  <2> HIDE DEF lo, hi
  <2>5. i \in 1..(hi - lo + 1) /\ id = lobby.listed[lo + i - 1]
    <3>1. \A k \in lo..hi : lobby.listed[k] \in Nat
      BY <2>1, <2>2, ElementOfSeq, LenProperties
    <3>2. /\ PageItems \in Seq(Nat) /\ Len(PageItems) = (IF lo <= hi THEN hi - lo + 1 ELSE 0)
          /\ \A k \in 1..(hi - lo + 1) : PageItems[k] = lobby.listed[lo + k - 1]
      BY <2>2, <2>3, <3>1, SubSeqProperties
    <3>3. i \in 1..Len(PageItems)
      BY <3>2, LenProperties
    <3> QED BY <2>2, <2>4, <3>2, <3>3
  <2>6. lo + i - 1 \in 1..Len(lobby.listed)
    BY <2>2, <2>5, <2>1, LenProperties
  <2> QED BY <2>1, <2>5, <2>6, ElementOfSeq DEF Existing, GameIdsHere
<1>3. lobby.route = "lobby"
  BY DEF handleJoinGame
<1> QED BY <1>1, <1>2, <1>3, StartStep DEF handleJoinGame

-----------------------------------------------------------------------------
(* The answer.                                                             *)

LEMMA UnmountedFits ==
  ASSUME NEW call \in LobbyCall
  PROVE  /\ Unmounted(call) \in LobbyCall /\ ~Visiting(Unmounted(call))
         /\ Unmounted(call).id = call.id /\ Unmounted(call).tx = call.tx
         /\ \A ms, acc, ch : SoundCall(call, ms, acc, ch) => SoundCall(Unmounted(call), ms, acc, ch)
<1> DEFINE next == [call EXCEPT !.mounted = FALSE]
<1>1. Unmounted(call) = next
  BY NoCallIsNone DEF Unmounted
<1>2. next \in LobbyCall
  BY DEF LobbyCall
<1>3. /\ next.kind = call.kind /\ next.id = call.id /\ next.tx = call.tx /\ next.ok = call.ok
      /\ next.mounted = FALSE /\ next.excused = call.excused /\ next.stage = call.stage
  BY DEF LobbyCall
<1> HIDE DEF next
<1>4. \A ms, acc, ch : SoundCall(call, ms, acc, ch) => SoundCall(next, ms, acc, ch)
  BY <1>3 DEF SoundCall
<1> QED BY <1>1, <1>2, <1>3, <1>4 DEF Visiting

LEMMA RemainsFits ==
  ASSUME NEW call \in LobbyCall, call.stage = "answered"
  PROVE  /\ Remains(call) \in LobbyCall \cup {NoCallYet} /\ ~Visiting(Remains(call))
         /\ \A ms, acc, ch :
              SoundCall(call, ms, acc, ch) /\ Remains(call) # NoCallYet =>
                SoundCall(Remains(call), ms, IF call.ok THEN acc \cup {call.id} ELSE acc, ch)
<1>1. CASE call.tx # "pending"
  BY <1>1 DEF Remains, Visiting
<1>2. CASE call.tx = "pending"
  <2> DEFINE next == [call EXCEPT !.stage = "gone"]
  <2>1. Remains(call) = next
    BY <1>2 DEF Remains
  <2>2. next \in LobbyCall
    BY DEF LobbyCall
  <2>3. /\ next.kind = call.kind /\ next.id = call.id /\ next.tx = call.tx /\ next.ok = call.ok
        /\ next.mounted = call.mounted /\ next.excused = call.excused /\ next.stage = "gone"
    BY DEF LobbyCall
  <2> HIDE DEF next
  <2>4. ASSUME NEW ms, NEW acc, NEW ch, SoundCall(call, ms, acc, ch)
        PROVE  SoundCall(next, ms, IF call.ok THEN acc \cup {call.id} ELSE acc, ch)
    BY <1>2, <2>3, <2>4 DEF SoundCall, Early
  <2> QED BY <2>1, <2>2, <2>3, <2>4 DEF Visiting
<1> QED BY <1>1, <1>2

LEMMA FreshPageSound ==
  ASSUME NEW n \in Nat, NEW where \in {"lobby", "elsewhere"}
  PROVE  /\ PageSound([FreshLobby EXCEPT !.route = where], n) /\ [FreshLobby EXCEPT !.route = where].pending = FALSE
         /\ PageSound(FreshLobby, n) /\ FreshLobby.pending = FALSE
<1>1. NoScan \in [next: Int, last: Int, found: Seq(Nat)] /\ NoScan.found = <<>>
  BY DEF NoScan, NoGame
<1> DEFINE page == [FreshLobby EXCEPT !.route = where]
<1>2. FreshLobby \in LobbyPage
  <2>1. <<>> \in Seq(Nat)
    OBVIOUS
  <2> QED BY <1>1, <2>1 DEF FreshLobby, LobbyPage
<1>3. /\ page \in LobbyPage /\ page.pending = FreshLobby.pending
      /\ page.listed = FreshLobby.listed /\ page.scan = FreshLobby.scan
  BY <1>2 DEF LobbyPage
<1>5. FreshLobby.pending = FALSE /\ FreshLobby.listed = <<>> /\ FreshLobby.scan = NoScan
  BY DEF FreshLobby
<1>4. PageSound(page, n)
  <2> HIDE DEF page
  <2> QED BY <1>1, <1>3, <1>5 DEF PageSound, Existing
<1>6. PageSound(FreshLobby, n)
  BY <1>1, <1>2, <1>5 DEF PageSound, Existing
<1> QED BY <1>3, <1>4, <1>5, <1>6

LEMMA AnsweredStep ==
  ASSUME LobbyInv, NEW c \in LobbyCalls, callAnswered(c)
  PROVE  LobbyInv'
<1> DEFINE call == calls[c]
           acc2 == IF call.ok THEN accounted \cup {call.id} ELSE accounted
<1>1. call \in LobbyCall /\ call # NoCallYet /\ call.stage = "answered"
  BY DEF LobbyInv, LobbyCallsTyped, NoCallYet, callAnswered
<1>2. SoundCall(call, matches, accounted, lobbyChain)
  BY <1>1 DEF LobbyInv, CallsSound
<1>3. UNCHANGED <<lobbyChain, matches>> /\ accounted' = acc2 /\ accounted \subseteq acc2 /\ Len(matches) \in Nat
  BY LenProperties DEF callAnswered, LobbyChainVars, LobbyInv
<1>4. /\ calls'[c] \in LobbyCall \cup {NoCallYet} /\ ~Visiting(calls'[c])
      /\ calls'[c] # NoCallYet => SoundCall(calls'[c], matches, acc2, lobbyChain)
  <2>1. /\ Remains(call) \in LobbyCall \cup {NoCallYet} /\ ~Visiting(Remains(call))
        /\ Remains(call) # NoCallYet => SoundCall(Remains(call), matches, acc2, lobbyChain)
    BY <1>1, <1>2, RemainsFits
  <2>2. calls'[c] = Remains(call) \/ calls'[c] = Unmounted(Remains(call))
    BY DEF callAnswered, LobbyInv, LobbyCallsTyped
  <2>3. CASE Remains(call) = NoCallYet
    BY <2>1, <2>2, <2>3 DEF Unmounted
  <2>4. CASE Remains(call) # NoCallYet
    BY <2>1, <2>2, <2>4, UnmountedFits
  <2> QED BY <2>3, <2>4
<1>5. ASSUME NEW d \in LobbyCalls, d # c
      PROVE  /\ calls'[d] \in LobbyCall \cup {NoCallYet} /\ (calls'[d] # NoCallYet <=> calls[d] # NoCallYet)
             /\ calls[d] # NoCallYet => /\ calls'[d].id = calls[d].id /\ calls'[d].tx = calls[d].tx
                                        /\ SoundCall(calls'[d], matches, acc2, lobbyChain)
             /\ IF call.ok THEN ~Visiting(calls'[d]) ELSE calls'[d] = calls[d]
  <2>1. IF call.ok THEN calls'[d] = Unmounted(calls[d]) ELSE calls'[d] = calls[d]
    BY <1>5 DEF callAnswered, LobbyInv, LobbyCallsTyped
  <2>2. calls[d] \in LobbyCall \cup {NoCallYet}
    BY DEF LobbyInv, LobbyCallsTyped
  <2>3. CASE calls[d] = NoCallYet
    BY <2>1, <2>3 DEF Unmounted, Visiting
  <2>4. CASE calls[d] # NoCallYet
    <3>1. calls[d] \in LobbyCall /\ SoundCall(calls[d], matches, acc2, lobbyChain)
      BY <1>3, <2>2, <2>4, AccountsGrow DEF LobbyInv, CallsSound
    <3>2. /\ Unmounted(calls[d]) \in LobbyCall /\ ~Visiting(Unmounted(calls[d]))
          /\ Unmounted(calls[d]).id = calls[d].id /\ Unmounted(calls[d]).tx = calls[d].tx
          /\ SoundCall(Unmounted(calls[d]), matches, acc2, lobbyChain)
      BY <3>1, UnmountedFits
    <3> QED BY <2>1, <2>4, <3>1, <3>2, NoCallIsNone
  <2> QED BY <2>3, <2>4
<1>6. LobbyCallsTyped'
  <2>1. calls' = [d \in LobbyCalls |-> calls'[d]]
    BY DEF callAnswered, LobbyInv, LobbyCallsTyped
  <2> QED BY <1>4, <1>5, <2>1 DEF LobbyCallsTyped
<1>7. CallsSound'
  BY <1>3, <1>4, <1>5 DEF CallsSound
<1>8. PageSound(lobby', Len(matches)) /\ (call.ok => lobby'.pending = FALSE)
      /\ (~call.ok => IF call.mounted THEN lobby'.pending = FALSE ELSE lobby' = lobby)
  <2>1. CASE call.ok
    <3>1. lobby' = [FreshLobby EXCEPT !.route = "elsewhere"]
      BY <2>1 DEF callAnswered
    <3> QED BY <1>3, <2>1, <3>1, FreshPageSound
  <2>2. CASE ~call.ok
    BY <2>2 DEF callAnswered, LobbyInv, PageSound, LobbyPage
  <2> QED BY <2>1, <2>2
<1>9. StakesIn(calls', matches, acc2)
  <2> SUFFICES ASSUME NEW id \in Nat, SeatIn(matches, id) PROVE StakeIn(calls', acc2, id)
    BY DEF StakesIn
  <2>1. StakeIn(calls, accounted, id)
    BY DEF LobbyInv, StakesIn
  <2>2. CASE id \in accounted
    BY <1>3, <2>2 DEF StakeIn
  <2>3. ASSUME NEW d \in LobbyCalls, calls[d] # NoCallYet, calls[d].id = id, calls[d].tx = "ok"
        PROVE  StakeIn(calls', acc2, id)
    <3>1. CASE d = c
      <4>1. call.id \in acc2
        BY <1>1, <1>2, <2>3, <3>1 DEF SoundCall
      <4> QED BY <2>3, <3>1, <4>1 DEF StakeIn
    <3>2. CASE d # c
      BY <1>5, <2>3, <3>2 DEF StakeIn
    <3> QED BY <3>1, <3>2
  <2> QED BY <2>1, <2>2, <2>3 DEF StakeIn
<1>10. OneVisits(calls', lobby'.pending)
  <2>1. CASE call.ok
    BY <1>4, <1>5, <1>8, <2>1 DEF OneVisits
  <2>2. CASE ~call.ok /\ call.mounted
    <3>1. Visiting(calls[c])
      BY <1>1, <2>2 DEF Visiting
    <3>2. \A d \in LobbyCalls : ~Visiting(calls'[d])
      BY <1>4, <1>5, <2>2, <3>1 DEF LobbyInv, OneVisits
    <3> QED BY <1>8, <2>2, <3>2 DEF OneVisits
  <2>3. CASE ~call.ok /\ ~call.mounted
    <3>1. ~Visiting(calls[c])
      BY <1>1, <2>3 DEF Visiting
    <3>2. \A d \in LobbyCalls : Visiting(calls'[d]) <=> Visiting(calls[d])
      BY <1>4, <1>5, <2>3, <3>1
    <3> QED BY <1>8, <2>3, <3>2 DEF LobbyInv, OneVisits
  <2> QED BY <2>1, <2>2, <2>3
<1> QED BY <1>3, <1>6, <1>7, <1>8, <1>9, <1>10 DEF LobbyInv

-----------------------------------------------------------------------------
(* The games.                                                              *)

LEMMA GameAdded ==
  ASSUME NEW ms \in Seq(Match), NEW game \in Match
  PROVE  /\ Append(ms, game) \in Seq(Match) /\ Len(Append(ms, game)) = Len(ms) + 1
         /\ \A id : SeatIn(ms, id) => SeatIn(Append(ms, game), id)
         /\ \A id : SeatIn(Append(ms, game), id) =>
              SeatIn(ms, id) \/ (id = Len(ms) /\ (game.creator = "me" \/ game.joiner = "me"))
         /\ game.creator = "me" => SeatIn(Append(ms, game), Len(ms))
<1> DEFINE ms2 == Append(ms, game)
<1>1. /\ ms2 \in Seq(Match) /\ Len(ms2) = Len(ms) + 1 /\ Len(ms) \in Nat
      /\ \A i \in 1..Len(ms) : ms2[i] = ms[i]
      /\ ms2[Len(ms) + 1] = game
  BY AppendProperties, LenProperties
<1> HIDE DEF ms2
<1>2. \A id : SeatIn(ms, id) => SeatIn(ms2, id)
  BY <1>1 DEF SeatIn
<1>3. ASSUME NEW id, SeatIn(ms2, id)
      PROVE  SeatIn(ms, id) \/ (id = Len(ms) /\ (game.creator = "me" \/ game.joiner = "me"))
  <2>1. CASE id = Len(ms)
    BY <1>1, <1>3, <2>1 DEF SeatIn
  <2>2. CASE id # Len(ms)
    <3>1. id \in Nat /\ id < Len(ms)
      BY <1>1, <1>3, <2>2 DEF SeatIn
    <3>2. id + 1 \in 1..Len(ms)
      BY <1>1, <3>1
    <3> QED BY <1>1, <1>3, <3>1, <3>2 DEF SeatIn
  <2> QED BY <2>1, <2>2
<1>4. game.creator = "me" => SeatIn(ms2, Len(ms))
  BY <1>1 DEF SeatIn
<1> QED BY <1>1, <1>2, <1>3, <1>4 DEF ms2

Taken(ms, at, who) == [ms EXCEPT ![at + 1].joiner = who]

LEMMA SeatTaken ==
  ASSUME NEW ms \in Seq(Match), NEW at \in Nat, at < Len(ms), ms[at + 1].joiner = "nobody",
         NEW who \in {"me", "other"}, NEW ms2, ms2 = Taken(ms, at, who)
  PROVE  /\ ms2 \in Seq(Match) /\ Len(ms2) = Len(ms)
         /\ \A id : SeatIn(ms, id) => SeatIn(ms2, id)
         /\ \A id : SeatIn(ms2, id) => SeatIn(ms, id) \/ (id = at /\ who = "me")
         /\ who = "me" => SeatIn(ms2, at)
<1>1. at + 1 \in 1..Len(ms) /\ ms[at + 1] \in Match
  BY LenProperties, ElementOfSeq
<1> DEFINE game == [ms[at + 1] EXCEPT !.joiner = who]
<1>2. game \in Match /\ game.creator = ms[at + 1].creator /\ game.joiner = who
  BY <1>1 DEF Match
<1>3. ms2 = [ms EXCEPT ![at + 1] = game]
  BY DEF Taken
<1> HIDE DEF game
<1>4. /\ ms2 \in Seq(Match) /\ Len(ms2) = Len(ms)
      /\ \A i \in 1..Len(ms) : ms2[i] = IF i = at + 1 THEN game ELSE ms[i]
  BY <1>1, <1>2, <1>3, ExceptSeq
<1>5. ASSUME NEW id \in Nat, id < Len(ms)
      PROVE  id + 1 \in 1..Len(ms) /\ (id + 1 = at + 1 <=> id = at)
  BY <1>5, LenProperties
<1>6. \A id : SeatIn(ms, id) => SeatIn(ms2, id)
  BY <1>2, <1>4, <1>5 DEF SeatIn
<1>7. \A id : SeatIn(ms2, id) => SeatIn(ms, id) \/ (id = at /\ who = "me")
  BY <1>2, <1>4, <1>5 DEF SeatIn
<1>8. who = "me" => SeatIn(ms2, at)
  BY <1>1, <1>2, <1>4 DEF SeatIn
<1> QED BY <1>4, <1>6, <1>7, <1>8

(* A call that others act beside.                                          *)
LEMMA SoundBeside ==
  ASSUME NEW call \in LobbyCall, NEW ms, NEW ms2, NEW acc, NEW acc2, NEW ch,
         SoundCall(call, ms, acc, ch), acc \subseteq acc2, Len(ms) \in Nat,
         \A id : SeatIn(ms, id) => SeatIn(ms2, id)
  PROVE  /\ Len(ms2) = Len(ms) => SoundCall(call, ms2, acc2, ch)
         /\ Len(ms2) = Len(ms) + 1 /\ ~(ch = "stacks" /\ call.kind = "create" /\ call.stage # "predict")
              => SoundCall(call, ms2, acc2, ch)
         /\ Len(ms2) = Len(ms) + 1 => SoundCall([call EXCEPT !.excused = TRUE], ms2, acc2, ch)
<1>1. Len(ms2) = Len(ms) => SoundCall(call, ms2, acc2, ch)
  BY DEF SoundCall
<1>2. Len(ms2) = Len(ms) + 1 /\ ~(ch = "stacks" /\ call.kind = "create" /\ call.stage # "predict")
        => SoundCall(call, ms2, acc2, ch)
  BY DEF SoundCall
<1>3. ASSUME Len(ms2) = Len(ms) + 1 PROVE SoundCall([call EXCEPT !.excused = TRUE], ms2, acc2, ch)
  <2> DEFINE next == [call EXCEPT !.excused = TRUE]
  <2>1. /\ next.kind = call.kind /\ next.id = call.id /\ next.tx = call.tx /\ next.ok = call.ok
        /\ next.mounted = call.mounted /\ next.excused = TRUE /\ next.stage = call.stage
    BY DEF LobbyCall
  <2> HIDE DEF next
  <2>2. SoundCall(next, ms2, acc2, ch)
    BY <1>3, <2>1 DEF SoundCall
  <2> QED BY <2>2 DEF next
<1> QED BY <1>1, <1>2, <1>3

LEMMA PageStaysSound ==
  ASSUME NEW page, NEW n \in Nat, NEW n2 \in Nat, n <= n2, PageSound(page, n)
  PROVE  PageSound(page, n2)
<1>1. page.listed \in Seq(Nat) /\ page.scan.found \in Seq(Nat)
  BY DEF PageSound, LobbyPage
<1>2. \A list \in Seq(Nat) : Existing(list, n) => Existing(list, n2)
  BY ElementOfSeq DEF Existing
<1> QED BY <1>1, <1>2 DEF PageSound

(* What a step of the chain must keep of all calls, with cs and ms after.  *)
BesideCalls(cs, ms, acc) ==
  \A d \in LobbyCalls :
    /\ cs[d] \in LobbyCall \cup {NoCallYet} /\ (Visiting(cs[d]) <=> Visiting(calls[d]))
    /\ cs[d] # NoCallYet => SoundCall(cs[d], ms, acc, lobbyChain)
    /\ calls[d] # NoCallYet /\ calls[d].tx = "ok" => cs[d] # NoCallYet /\ cs[d].tx = "ok" /\ cs[d].id = calls[d].id

LEMMA ChainMoves ==
  ASSUME LobbyInv, NEW cs, calls' = cs, cs = [d \in LobbyCalls |-> cs[d]], BesideCalls(cs, matches', accounted'),
         UNCHANGED <<lobbyChain, lobby>>, accounted \subseteq accounted',
         matches' \in Seq(Match), Len(matches) <= Len(matches'),
         \A id \in Nat : SeatIn(matches', id) => SeatIn(matches, id) \/ StakeIn(cs, accounted', id)
  PROVE  LobbyInv'
<1> USE DEF LobbyInv
<1>1. LobbyCallsTyped' /\ CallsSound'
  BY DEF LobbyCallsTyped, CallsSound, BesideCalls
<1>2. PageSound(lobby, Len(matches'))
  BY PageStaysSound, LenProperties
<1>3. StakesIn(cs, matches', accounted')
  <2> SUFFICES ASSUME NEW id \in Nat, SeatIn(matches, id) PROVE StakeIn(cs, accounted', id)
    BY DEF StakesIn
  <2>1. StakeIn(calls, accounted, id)
    BY DEF StakesIn
  <2> QED BY <2>1 DEF StakeIn, BesideCalls
<1>4. OneVisits(cs, lobby.pending)
  BY DEF OneVisits, BesideCalls
<1> QED BY <1>1, <1>2, <1>3, <1>4

LEMMA CallTyped ==
  ASSUME LobbyInv, NEW d \in LobbyCalls, calls[d] # NoCallYet
  PROVE  calls[d] \in LobbyCall /\ SoundCall(calls[d], matches, accounted, lobbyChain) /\ calls[d].stage # "none"
BY NoCallIsNone DEF LobbyInv, LobbyCallsTyped, CallsSound

(* Misled leaves the calls that are not concerned alone.                   *)
LEMMA MisledCalls ==
  ASSUME LobbyInv, NEW cs, NEW others \in SUBSET LobbyCalls, NEW ms, NEW acc,
         accounted \subseteq acc, Len(ms) = Len(matches) + 1,
         \A id : SeatIn(matches, id) => SeatIn(ms, id),
         \A d \in others : cs[d] = calls[d]
  PROVE  \A d \in others :
           LET next == Misled(cs, others)[d] IN
           /\ next \in LobbyCall \cup {NoCallYet} /\ (Visiting(next) <=> Visiting(calls[d]))
           /\ next # NoCallYet => SoundCall(next, ms, acc, lobbyChain)
           /\ calls[d] # NoCallYet /\ calls[d].tx = "ok" => next # NoCallYet /\ next.tx = "ok" /\ next.id = calls[d].id
<1> SUFFICES ASSUME NEW d \in others
             PROVE  LET next == Misled(cs, others)[d] IN
           /\ next \in LobbyCall \cup {NoCallYet} /\ (Visiting(next) <=> Visiting(calls[d]))
           /\ next # NoCallYet => SoundCall(next, ms, acc, lobbyChain)
           /\ calls[d] # NoCallYet /\ calls[d].tx = "ok" => next # NoCallYet /\ next.tx = "ok" /\ next.id = calls[d].id
  OBVIOUS
<1>1. Len(matches) \in Nat
  BY LenProperties DEF LobbyInv
<1>2. CASE calls[d] = NoCallYet
  BY <1>2 DEF Misled
<1>3. CASE calls[d] # NoCallYet /\ lobbyChain = "stacks" /\ calls[d].kind = "create" /\ calls[d].stage # "predict"
  <2> DEFINE next == [calls[d] EXCEPT !.excused = TRUE]
  <2>1. Misled(cs, others)[d] = next
    BY <1>3 DEF Misled
  <2>2. calls[d] \in LobbyCall /\ SoundCall(calls[d], matches, accounted, lobbyChain)
    BY <1>3, CallTyped
  <2>3. next \in LobbyCall /\ next.tx = calls[d].tx /\ next.id = calls[d].id /\ next.mounted = calls[d].mounted
        /\ next.stage = calls[d].stage
    BY <2>2 DEF LobbyCall
  <2>4. SoundCall(next, ms, acc, lobbyChain)
    BY <1>1, <2>2, SoundBeside
  <2> HIDE DEF next
  <2> QED BY <1>3, <2>1, <2>3, <2>4, NoCallIsNone DEF Visiting
<1>4. CASE calls[d] # NoCallYet /\ ~(lobbyChain = "stacks" /\ calls[d].kind = "create" /\ calls[d].stage # "predict")
  <2>1. Misled(cs, others)[d] = calls[d]
    BY <1>4 DEF Misled
  <2>2. calls[d] \in LobbyCall /\ SoundCall(calls[d], matches, accounted, lobbyChain)
    BY <1>4, CallTyped
  <2>3. SoundCall(calls[d], ms, acc, lobbyChain)
    BY <1>1, <1>4, <2>2, SoundBeside
  <2> QED BY <1>4, <2>1, <2>2, <2>3
<1> QED BY <1>2, <1>3, <1>4

LEMMA OthersCreateStep ==
  ASSUME LobbyInv, OthersCreate
  PROVE  LobbyInv'
<1> DEFINE game == [creator |-> "other", joiner |-> "nobody"]
           cs == Misled(calls, LobbyCalls)
<1>1. matches' = Append(matches, game) /\ calls' = cs /\ UNCHANGED <<lobbyChain, lobby, accounted>>
  BY DEF OthersCreate
<1>2. game \in Match /\ game.creator = "other" /\ game.joiner = "nobody" /\ matches \in Seq(Match)
  BY DEF Match, LobbyInv
<1> HIDE DEF game
<1>3. /\ matches' \in Seq(Match) /\ Len(matches') = Len(matches) + 1 /\ Len(matches) \in Nat
      /\ \A id : SeatIn(matches, id) => SeatIn(matches', id)
      /\ \A id : SeatIn(matches', id) => SeatIn(matches, id)
  BY <1>1, <1>2, GameAdded, LenProperties
<1>4. BesideCalls(cs, matches', accounted')
  BY <1>1, <1>3, MisledCalls DEF BesideCalls
<1>5. cs = [d \in LobbyCalls |-> cs[d]]
  BY DEF Misled
<1> HIDE DEF cs
<1> QED BY <1>1, <1>3, <1>4, <1>5, ChainMoves

LEMMA OthersJoinStep ==
  ASSUME LobbyInv, NEW id \in 0..Len(matches) - 1, OthersJoin(id)
  PROVE  LobbyInv'
<1>1. matches \in Seq(Match) /\ id \in Nat /\ id < Len(matches) /\ matches[id + 1].joiner = "nobody"
      /\ matches' = [matches EXCEPT ![id + 1].joiner = "other"] /\ UNCHANGED <<lobbyChain, lobby, accounted, calls>>
  BY LenProperties DEF LobbyInv, OthersJoin
<1>2. /\ matches' \in Seq(Match) /\ Len(matches') = Len(matches) /\ Len(matches) \in Nat
      /\ \A j : SeatIn(matches, j) => SeatIn(matches', j)
      /\ \A j : SeatIn(matches', j) => SeatIn(matches, j)
  <2>1. /\ matches \in Seq(Match) /\ id \in Nat /\ id < Len(matches) /\ matches[id + 1].joiner = "nobody"
        /\ "other" \in {"me", "other"} /\ matches' = Taken(matches, id, "other")
    BY <1>1 DEF Taken
  <2>2. /\ matches' \in Seq(Match) /\ Len(matches') = Len(matches)
        /\ \A j : SeatIn(matches, j) => SeatIn(matches', j)
        /\ \A j : SeatIn(matches', j) => SeatIn(matches, j) \/ (j = id /\ "other" = "me")
    BY ONLY <2>1, SeatTaken
  <2> QED BY <1>1, <2>2, LenProperties
<1>3. BesideCalls(calls, matches', accounted')
  <2>1. \A d \in LobbyCalls : calls[d] # NoCallYet => SoundCall(calls[d], matches', accounted, lobbyChain)
    BY <1>2, CallTyped, SoundBeside
  <2> QED BY <1>1, <2>1 DEF BesideCalls, LobbyInv, LobbyCallsTyped
<1>4. calls = [d \in LobbyCalls |-> calls[d]] /\ calls' = calls
  BY <1>1 DEF LobbyInv, LobbyCallsTyped
<1>5. Len(matches) <= Len(matches')
  BY <1>2
<1> QED BY <1>1, <1>2, <1>3, <1>4, <1>5, ChainMoves

LEMMA RevertsStep ==
  ASSUME LobbyInv, NEW c \in LobbyCalls, transactionReverts(c)
  PROVE  LobbyInv'
<1>1. /\ calls[c] # NoCallYet /\ calls[c].tx = "pending" /\ UNCHANGED <<lobbyChain, matches, lobby, accounted>>
      /\ calls' = [calls EXCEPT ![c] = IF calls[c].stage = "gone" THEN NoCallYet ELSE [calls[c] EXCEPT !.tx = "reverted"]]
  BY DEF transactionReverts, Running, LobbyChainVars
<1>2. calls[c] \in LobbyCall /\ SoundCall(calls[c], matches, accounted, lobbyChain)
  BY <1>1, CallTyped
<1> DEFINE next == [calls[c] EXCEPT !.tx = "reverted"]
<1>3. /\ next \in LobbyCall /\ next.kind = calls[c].kind /\ next.id = calls[c].id /\ next.tx = "reverted" /\ next.ok = calls[c].ok
      /\ next.mounted = calls[c].mounted /\ next.excused = calls[c].excused /\ next.stage = calls[c].stage
  BY <1>2 DEF LobbyCall
<1>4. calls' = [calls EXCEPT ![c] = IF calls[c].stage = "gone" THEN NoCallYet ELSE next]
  BY <1>1
<1> HIDE DEF next
<1>5. calls[c].stage # "gone" => SoundCall(next, matches, accounted, lobbyChain)
  BY <1>1, <1>2, <1>3 DEF SoundCall, Early
<1>6. BesideCalls(calls', matches, accounted)
  <2> SUFFICES ASSUME NEW d \in LobbyCalls
               PROVE  /\ calls'[d] \in LobbyCall \cup {NoCallYet} /\ (Visiting(calls'[d]) <=> Visiting(calls[d]))
                      /\ calls'[d] # NoCallYet => SoundCall(calls'[d], matches, accounted, lobbyChain)
                      /\ calls[d] # NoCallYet /\ calls[d].tx = "ok"
                           => calls'[d] # NoCallYet /\ calls'[d].tx = "ok" /\ calls'[d].id = calls[d].id
    BY DEF BesideCalls
  <2>1. CASE d # c
    BY <1>4, <2>1, CallTyped DEF LobbyInv, LobbyCallsTyped
  <2>2. CASE d = c /\ calls[c].stage = "gone"
    BY <1>1, <1>4, <2>2 DEF LobbyInv, LobbyCallsTyped, Visiting
  <2>3. CASE d = c /\ calls[c].stage # "gone"
    <3>1. calls'[d] = next
      BY <1>4, <2>3 DEF LobbyInv, LobbyCallsTyped
    <3> QED BY <1>1, <1>3, <1>5, <2>3, <3>1, NoCallIsNone DEF Visiting
  <2> QED BY <2>1, <2>2, <2>3
<1>7. calls' = [d \in LobbyCalls |-> calls'[d]]
  BY <1>4 DEF LobbyInv, LobbyCallsTyped
<1>8. matches \in Seq(Match) /\ Len(matches) <= Len(matches)
  BY LenProperties DEF LobbyInv
<1> QED BY <1>1, <1>6, <1>7, <1>8, ChainMoves

(* The call whose transaction is mined, with the game's number.            *)
LEMMA MinedStep ==
  ASSUME LobbyInv, NEW c \in LobbyCalls, transactionMined(c)
  PROVE  LobbyInv'
<1> DEFINE call == calls[c]
           id == IF call.kind = "create" THEN Len(matches) ELSE call.id
           next == [call EXCEPT !.tx = "ok", !.id = IF lobbyChain = "stacks" THEN call.id ELSE id]
           now == [calls EXCEPT ![c] = IF call.stage = "gone" THEN NoCallYet ELSE next]
           others == LobbyCalls \ {c}
           cs == IF call.kind = "create" THEN Misled(now, others) ELSE now
           acc2 == IF call.excused THEN accounted \cup {id} ELSE accounted
<1>1. call # NoCallYet /\ call.tx = "pending" /\ Fits(call) /\ UNCHANGED <<lobbyChain, lobby>>
  BY DEF transactionMined, Running
<1>2. /\ calls' = cs /\ accounted' = acc2
      /\ matches' = IF call.kind = "create" THEN Append(matches, [creator |-> "me", joiner |-> "nobody"])
                    ELSE Taken(matches, call.id, "me")
  BY DEF transactionMined, Taken
<1>3. call \in LobbyCall /\ SoundCall(call, matches, accounted, lobbyChain) /\ matches \in Seq(Match) /\ Len(matches) \in Nat
  BY <1>1, CallTyped, LenProperties DEF LobbyInv
<1>4. id \in GameIdsHere /\ id \in Nat
  <2>1. CASE call.kind = "create"
    BY <1>1, <1>3, <2>1, LobbyAssumption DEF Fits, GameIdsHere
  <2>2. CASE call.kind # "create"
    BY <1>1, <1>3, <2>2, LobbyAssumption DEF SoundCall, LobbyCall, GameIdsHere, NoGame
  <2> QED BY <2>1, <2>2
<1>5. /\ matches' \in Seq(Match) /\ Len(matches) <= Len(matches') /\ SeatIn(matches', id)
      /\ Len(matches') = IF call.kind = "create" THEN Len(matches) + 1 ELSE Len(matches)
      /\ \A j : SeatIn(matches, j) => SeatIn(matches', j)
      /\ \A j : SeatIn(matches', j) => SeatIn(matches, j) \/ j = id
  <2>1. CASE call.kind = "create"
    <3> DEFINE game == [creator |-> "me", joiner |-> "nobody"]
    <3>1. game \in Match /\ game.creator = "me" /\ matches' = Append(matches, game)
      BY <1>2, <2>1 DEF Match
    <3> HIDE DEF game
    <3> QED BY <1>3, <2>1, <3>1, GameAdded
  <2>2. CASE call.kind # "create"
    <3>1. /\ matches \in Seq(Match) /\ id \in Nat /\ id < Len(matches) /\ matches[id + 1].joiner = "nobody"
          /\ "me" \in {"me", "other"} /\ matches' = Taken(matches, id, "me")
      <4>1. matches[id + 1] = [creator |-> "other", joiner |-> "nobody"]
        BY <1>1, <2>2 DEF Fits
      <4> QED BY <1>2, <1>3, <2>2, <4>1 DEF SoundCall, LobbyCall
    <3> HIDE DEF id
    <3>2. /\ matches' \in Seq(Match) /\ Len(matches') = Len(matches)
          /\ \A j : SeatIn(matches, j) => SeatIn(matches', j)
          /\ \A j : SeatIn(matches', j) => SeatIn(matches, j) \/ (j = id /\ "me" = "me")
          /\ SeatIn(matches', id)
      BY ONLY <3>1, SeatTaken
    <3> QED BY <1>3, <2>2, <3>2
  <2> QED BY <2>1, <2>2
<1>6. /\ next \in LobbyCall /\ next.kind = call.kind /\ next.tx = "ok" /\ next.ok = call.ok
      /\ next.id = IF lobbyChain = "stacks" THEN call.id ELSE id
      /\ next.mounted = call.mounted /\ next.excused = call.excused /\ next.stage = call.stage
  BY <1>3, <1>4 DEF LobbyCall
<1>7. /\ accounted \subseteq acc2
      /\ call.excused => id \in acc2
      /\ ~call.excused /\ lobbyChain = "stacks" => call.id = id
  BY <1>1, <1>3 DEF SoundCall, Early, LobbyCall
<1>8. cs[c] = IF call.stage = "gone" THEN NoCallYet ELSE next
  BY DEF Misled, LobbyInv, LobbyCallsTyped
<1>9. cs = [d \in LobbyCalls |-> cs[d]]
  BY DEF Misled, LobbyInv, LobbyCallsTyped
<1>10. \A d \in others : now[d] = calls[d]
  BY DEF LobbyInv, LobbyCallsTyped
<1> HIDE DEF next, id, acc2
<1>11. call.stage # "gone" => SoundCall(next, matches', acc2, lobbyChain)
  BY <1>1, <1>3, <1>4, <1>5, <1>6, <1>7 DEF SoundCall, Early, id
<1>12. \A d \in others :
         /\ cs[d] \in LobbyCall \cup {NoCallYet} /\ (Visiting(cs[d]) <=> Visiting(calls[d]))
         /\ cs[d] # NoCallYet => SoundCall(cs[d], matches', acc2, lobbyChain)
         /\ calls[d] # NoCallYet /\ calls[d].tx = "ok" => cs[d] # NoCallYet /\ cs[d].tx = "ok" /\ cs[d].id = calls[d].id
  <2>1. CASE call.kind = "create"
    <3>1. Len(matches') = Len(matches) + 1 /\ others \in SUBSET LobbyCalls /\ cs = Misled(now, others)
      BY <1>5, <2>1
    <3> HIDE DEF now, others, cs
    <3>2. \A d \in others :
         LET after == Misled(now, others)[d] IN
         /\ after \in LobbyCall \cup {NoCallYet} /\ (Visiting(after) <=> Visiting(calls[d]))
         /\ after # NoCallYet => SoundCall(after, matches', acc2, lobbyChain)
         /\ calls[d] # NoCallYet /\ calls[d].tx = "ok" => after # NoCallYet /\ after.tx = "ok" /\ after.id = calls[d].id
      BY <1>5, <1>7, <1>10, <3>1, MisledCalls
    <3> QED BY <3>1, <3>2
  <2>2. CASE call.kind # "create"
    <3> TAKE d \in others
    <3>1. cs[d] = calls[d] /\ Len(matches') = Len(matches) /\ d \in LobbyCalls
      BY <1>5, <1>10, <2>2
    <3>2. calls[d] \in LobbyCall \cup {NoCallYet}
      BY <3>1 DEF LobbyInv, LobbyCallsTyped
    <3> HIDE DEF cs
    <3>3. calls[d] # NoCallYet => SoundCall(calls[d], matches', acc2, lobbyChain)
      BY <1>3, <1>5, <1>7, <3>1, <3>2, CallTyped, SoundBeside
    <3> QED BY <3>1, <3>2, <3>3
  <2> QED BY <2>1, <2>2
<1> HIDE DEF cs, now
<1>13. BesideCalls(cs, matches', accounted')
  <2>1. /\ cs[c] \in LobbyCall \cup {NoCallYet} /\ (Visiting(cs[c]) <=> Visiting(calls[c]))
        /\ cs[c] # NoCallYet => SoundCall(cs[c], matches', acc2, lobbyChain)
    BY <1>1, <1>6, <1>8, <1>11, NoCallIsNone DEF Visiting
  <2> QED BY <1>1, <1>2, <1>12, <2>1 DEF BesideCalls
<1>14. StakeIn(cs, acc2, id)
  <2>1. CASE call.excused
    BY <1>7, <2>1 DEF StakeIn
  <2>2. CASE ~call.excused /\ call.stage = "gone"
    <3>1. id \in accounted
      BY <1>3, <1>7, <2>2 DEF SoundCall
    <3> QED BY <1>7, <3>1 DEF StakeIn
  <2>3. CASE ~call.excused /\ call.stage # "gone"
    <3>1. cs[c] # NoCallYet /\ cs[c].id = id /\ cs[c].tx = "ok"
      BY <1>6, <1>7, <1>8, <2>3, NoCallIsNone
    <3> QED BY <3>1 DEF StakeIn
  <2> QED BY <2>1, <2>2, <2>3
<1>15. \A j \in Nat : SeatIn(matches', j) => SeatIn(matches, j) \/ StakeIn(cs, accounted', j)
  BY <1>2, <1>5, <1>14
<1> QED BY <1>1, <1>2, <1>5, <1>7, <1>9, <1>13, <1>15, ChainMoves

-----------------------------------------------------------------------------
(* The page.                                                               *)

LEMMA OnlyPageMoves ==
  ASSUME LobbyInv, UNCHANGED <<lobbyChain, matches, accounted, calls>>,
         PageSound(lobby', Len(matches)), lobby'.pending = lobby.pending
  PROVE  LobbyInv'
BY DEF LobbyInv, LobbyCallsTyped, CallsSound

LEMMA PageStep ==
  ASSUME LobbyInv, OpenCreateModal \/ CloseCreateModal \/ TurnPage \/ BalanceRead
  PROVE  LobbyInv'
<1>1. UNCHANGED <<lobbyChain, matches, accounted, calls>>
  BY DEF OpenCreateModal, CloseCreateModal, TurnPage, BalanceRead, NotPage, LobbyChainVars
<1>2. lobby \in LobbyPage /\ PageSound(lobby, Len(matches))
  BY DEF LobbyInv, PageSound
<1>3. /\ lobby' \in LobbyPage /\ lobby'.pending = lobby.pending /\ lobby'.route = lobby.route
      /\ lobby'.listed = lobby.listed /\ lobby'.scan = lobby.scan
  <2>1. CASE OpenCreateModal \/ CloseCreateModal
    BY <1>2, <2>1 DEF OpenCreateModal, CloseCreateModal, LobbyPage
  <2>2. CASE BalanceRead
    <3> DEFINE known == purse >= 1
    <3>0. known \in BOOLEAN
      OBVIOUS
    <3>1. lobby' = [lobby EXCEPT !.enough = known]
      BY <2>2 DEF BalanceRead
    <3> HIDE DEF known
    <3> QED BY <1>2, <3>0, <3>1 DEF LobbyPage
  <2>3. CASE TurnPage
    <3>1. lobby.currentPage \in Nat \ {0} /\ Len(lobby.listed) \in Nat
      BY <1>2, LenProperties DEF LobbyPage
    <3>2. "next" \in LobbyScreen => LastPage \in Nat \ {0}
      <4>1. "next" \in LobbyScreen => Len(lobby.listed) > ItemsPerPage
        <5>1. "next" \notin CreateMatchModal
          BY DEF CreateMatchModal
        <5>2. "next" \in Pager => Len(lobby.listed) > ItemsPerPage
          BY <3>1, LobbyAssumption DEF Pager
        <5> QED BY <5>1, <5>2 DEF LobbyScreen
      <4>2. \A a \in Nat, b \in Nat \ {0} : a >= b => a \div b \in Nat \ {0}
        OBVIOUS
      <4> DEFINE a == Len(lobby.listed) + ItemsPerPage - 1
      <4>3. "next" \in LobbyScreen => a \in Nat /\ ItemsPerPage \in Nat \ {0} /\ a >= ItemsPerPage
        BY <3>1, <4>1, LobbyAssumption
      <4>4. LastPage = a \div ItemsPerPage
        BY DEF LastPage
      <4> HIDE DEF a
      <4> QED BY <4>2, <4>3, <4>4
    <3>3. "prev" \in LobbyScreen => lobby.currentPage > 1
      BY DEF LobbyScreen, CreateMatchModal, Pager
    <3>4. PICK number \in Nat \ {0} : lobby' = [lobby EXCEPT !.currentPage = number]
      BY <2>3, <3>1, <3>2, <3>3 DEF TurnPage
    <3> QED BY <1>2, <3>4 DEF LobbyPage
  <2> QED BY <2>1, <2>2, <2>3
<1>4. PageSound(lobby', Len(matches))
  BY <1>2, <1>3 DEF PageSound
<1> QED BY <1>1, <1>3, <1>4, OnlyPageMoves

LEMMA OpenStep ==
  ASSUME LobbyInv, LeaveLobby \/ OpenLobby
  PROVE  LobbyInv'
<1>0. Len(matches) \in Nat
  BY LenProperties DEF LobbyInv
<1>1. CASE LeaveLobby
  <2>1. UNCHANGED <<lobbyChain, matches, accounted>> /\ calls' = [c \in LobbyCalls |-> Unmounted(calls[c])]
        /\ lobby' = [FreshLobby EXCEPT !.route = "elsewhere"]
    BY <1>1 DEF LeaveLobby, NotPage, LobbyChainVars
  <2>2. \A d \in LobbyCalls :
          /\ calls'[d] \in LobbyCall \cup {NoCallYet} /\ ~Visiting(calls'[d])
          /\ calls'[d] # NoCallYet <=> calls[d] # NoCallYet
          /\ calls[d] # NoCallYet => /\ SoundCall(calls'[d], matches, accounted, lobbyChain)
                                     /\ calls'[d].tx = calls[d].tx /\ calls'[d].id = calls[d].id
    <3> TAKE d \in LobbyCalls
    <3>1. calls'[d] = Unmounted(calls[d])
      BY <2>1
    <3>2. CASE calls[d] = NoCallYet
      BY <3>1, <3>2 DEF Unmounted, Visiting
    <3>3. CASE calls[d] # NoCallYet
      <4>1. calls[d] \in LobbyCall /\ SoundCall(calls[d], matches, accounted, lobbyChain)
        BY <3>3, CallTyped
      <4>2. /\ Unmounted(calls[d]) \in LobbyCall /\ ~Visiting(Unmounted(calls[d]))
            /\ Unmounted(calls[d]).id = calls[d].id /\ Unmounted(calls[d]).tx = calls[d].tx
            /\ SoundCall(Unmounted(calls[d]), matches, accounted, lobbyChain)
        BY <4>1, UnmountedFits
      <4> QED BY <3>1, <3>3, <4>2, NoCallIsNone
    <3> QED BY <3>2, <3>3
  <2>3. LobbyCallsTyped'
    BY <2>1, <2>2 DEF LobbyCallsTyped
  <2>4. CallsSound' /\ StakesIn(calls', matches, accounted)
    BY <2>1, <2>2 DEF CallsSound, LobbyInv, StakesIn, StakeIn
  <2>5. PageSound(lobby', Len(matches)) /\ lobby'.pending = FALSE
    BY <1>0, <2>1, FreshPageSound
  <2>6. OneVisits(calls', lobby'.pending)
    BY <2>2, <2>5 DEF OneVisits
  <2> QED BY <2>1, <2>3, <2>4, <2>5, <2>6 DEF LobbyInv
<1>2. CASE OpenLobby
  <2>1. UNCHANGED <<lobbyChain, matches, accounted, calls>> /\ lobby.route # "lobby" /\ lobby' = FreshLobby
    BY <1>2 DEF OpenLobby, NotPage, LobbyChainVars
  <2>2. PageSound(lobby', Len(matches)) /\ lobby'.pending = lobby.pending
    BY <1>0, <2>1, FreshPageSound DEF LobbyInv, PageSound
  <2> QED BY <2>1, <2>2, OnlyPageMoves
<1> QED BY <1>1, <1>2

Scan == [next: Int, last: Int, found: Seq(Nat)]

LEMMA ScanReplaced ==
  ASSUME LobbyInv, NEW scan \in Scan, Existing(scan.found, Len(matches)),
         scan = NoScan \/ (scan.next \in 0..Len(matches) - 1 /\ scan.last \in Nat),
         NEW listed \in Seq(Nat), Existing(listed, Len(matches)),
         lobby' = [lobby EXCEPT !.scan = scan, !.listed = listed],
         UNCHANGED <<NotPage, calls>>
  PROVE  LobbyInv'
<1>1. UNCHANGED <<lobbyChain, matches, accounted, calls>>
  BY DEF NotPage, LobbyChainVars
<1>2. lobby \in LobbyPage /\ PageSound(lobby, Len(matches))
  BY DEF LobbyInv, PageSound
<1>3. /\ lobby' \in LobbyPage /\ lobby'.pending = lobby.pending /\ lobby'.route = lobby.route
      /\ lobby'.scan = scan /\ lobby'.listed = listed
  BY <1>2 DEF LobbyPage, Scan
<1>4. PageSound(lobby', Len(matches))
  BY <1>2, <1>3 DEF PageSound
<1> QED BY <1>1, <1>3, <1>4, OnlyPageMoves

LEMMA ExistingGrows ==
  ASSUME NEW n \in Nat, NEW list \in Seq(Nat), Existing(list, n), NEW id \in Nat, id < n
  PROVE  Append(list, id) \in Seq(Nat) /\ Existing(Append(list, id), n)
<1>1. Append(list, id) \in Seq(Nat) /\ Len(Append(list, id)) = Len(list) + 1 /\ Len(list) \in Nat
  BY AppendProperties, LenProperties
<1>2. ASSUME NEW i \in 1..Len(list) + 1 PROVE Append(list, id)[i] < n
  <2>1. CASE i \in 1..Len(list)
    BY <2>1, AppendProperties DEF Existing
  <2>2. CASE i = Len(list) + 1
    BY <2>2, AppendProperties
  <2> QED BY <1>1, <2>1, <2>2
<1> QED BY <1>1, <1>2 DEF Existing

LEMMA NoScanFits == NoScan \in Scan /\ NoScan.found = <<>> /\ <<>> \in Seq(Nat) /\ \A n : Existing(<<>>, n)
<1>1. <<>> \in Seq(Nat) /\ \A n : Existing(<<>>, n)
  BY DEF Existing
<1> QED BY <1>1 DEF NoScan, NoGame, Scan

LEMMA PageFacts ==
  ASSUME LobbyInv
  PROVE  /\ lobby \in LobbyPage /\ lobby.scan \in Scan /\ lobby.listed \in Seq(Nat)
         /\ Existing(lobby.listed, Len(matches)) /\ Existing(lobby.scan.found, Len(matches))
         /\ lobby.scan.found \in Seq(Nat) /\ Len(matches) \in Nat
         /\ lobby.scan # NoScan => lobby.scan.next \in 0..Len(matches) - 1 /\ lobby.scan.last \in Nat
BY LenProperties DEF LobbyInv, PageSound, LobbyPage, Scan

LEMMA ScanStep ==
  ASSUME LobbyInv, lobby.scan # NoScan, NEW found \in Seq(Nat), Existing(found, Len(matches)), ScanOn(found)
  PROVE  LobbyInv'
<1> DEFINE id == lobby.scan.next
           next == [lobby.scan EXCEPT !.next = id - 1, !.found = found]
<1>1. /\ lobby \in LobbyPage /\ lobby.scan \in Scan /\ lobby.listed \in Seq(Nat)
      /\ Existing(lobby.listed, Len(matches)) /\ Len(matches) \in Nat
      /\ id \in 0..Len(matches) - 1 /\ lobby.scan.last \in Nat
  BY PageFacts
<1>2. UNCHANGED <<NotPage, calls>>
  BY DEF ScanOn
<1>3. CASE id > lobby.scan.last
  <2>1. next \in Scan /\ next.found = found /\ next.next = id - 1 /\ next.last = lobby.scan.last
    <3> DEFINE scan == lobby.scan
               before == id - 1
    <3>1. scan \in Scan /\ before \in Int /\ next = [scan EXCEPT !.next = before, !.found = found]
      BY <1>1
    <3> HIDE DEF scan, before, next
    <3>2. next \in Scan /\ next.found = found /\ next.next = before /\ next.last = scan.last
      BY <3>1 DEF Scan
    <3> QED BY <3>2 DEF scan, before
  <2>2. next.next \in 0..Len(matches) - 1
    BY <1>1, <1>3, <2>1
  <2>3. lobby' = [lobby EXCEPT !.scan = next, !.listed = lobby.listed]
    <3>1. lobby' = [lobby EXCEPT !.scan.next = id - 1, !.scan.found = found]
      BY <1>3 DEF ScanOn
    <3>2. lobby' = [lobby EXCEPT !.scan = next]
      BY <1>1, <3>1 DEF LobbyPage
    <3> HIDE DEF next
    <3> QED BY <1>1, <3>2 DEF LobbyPage
  <2> HIDE DEF next
  <2> QED BY <1>1, <1>2, <2>1, <2>2, <2>3, ScanReplaced
<1>4. CASE ~(id > lobby.scan.last)
  <2>1. lobby' = [lobby EXCEPT !.scan = NoScan, !.listed = found]
    BY <1>4 DEF ScanOn
  <2> QED BY <1>2, <2>1, NoScanFits, ScanReplaced
<1> QED BY <1>3, <1>4

LEMMA RefreshStep ==
  ASSUME LobbyInv, refresh \/ fetchGame \/ fetchFails
  PROVE  LobbyInv'
<1>0. /\ lobby \in LobbyPage /\ lobby.scan \in Scan /\ lobby.listed \in Seq(Nat)
      /\ Existing(lobby.listed, Len(matches)) /\ Existing(lobby.scan.found, Len(matches))
      /\ lobby.scan.found \in Seq(Nat) /\ Len(matches) \in Nat
  BY PageFacts
<1>1. CASE refresh
  <2>1. UNCHANGED <<NotPage, calls>> /\ lobby.scan = NoScan
    BY <1>1 DEF refresh
  <2>2. CASE lobby' = [lobby EXCEPT !.listed = <<>>]
    <3>1. lobby' = [lobby EXCEPT !.scan = NoScan, !.listed = <<>>]
      BY <1>0, <2>1, <2>2 DEF LobbyPage
    <3> QED BY <2>1, <3>1, NoScanFits, ScanReplaced
  <2>3. CASE ~(lobby' = [lobby EXCEPT !.listed = <<>>])
    <3> DEFINE last == IF Len(matches) < LobbyWindow THEN 0 ELSE Len(matches) - LobbyWindow
               next == [next |-> Len(matches) - 1, found |-> <<>>, last |-> last]
    <3>1. lobby' = [lobby EXCEPT !.scan = next] /\ matches # <<>>
      BY <1>1, <2>3 DEF refresh
    <3>2. last \in Nat /\ Len(matches) - 1 \in 0..Len(matches) - 1
      BY <1>0, <3>1, LobbyAssumption, LenProperties DEF LobbyInv
    <3> HIDE DEF last
    <3>3. next \in Scan /\ next.found = <<>> /\ next.next = Len(matches) - 1 /\ next.last = last
      BY <1>0, <3>2, NoScanFits DEF Scan
    <3> HIDE DEF next
    <3>4. lobby' = [lobby EXCEPT !.scan = next, !.listed = lobby.listed]
      BY <1>0, <3>1 DEF LobbyPage
    <3> QED BY <1>0, <2>1, <3>2, <3>3, <3>4, NoScanFits, ScanReplaced
  <2> QED BY <2>2, <2>3
<1>2. CASE fetchGame
  <2> DEFINE id == lobby.scan.next
             found == IF matches[id + 1].joiner = "nobody" THEN Append(lobby.scan.found, id) ELSE lobby.scan.found
  <2>1. lobby.scan # NoScan /\ ScanOn(found)
    BY <1>2 DEF fetchGame
  <2>2. id \in Nat /\ id < Len(matches)
    BY <2>1, PageFacts
  <2>3. Append(lobby.scan.found, id) \in Seq(Nat) /\ Existing(Append(lobby.scan.found, id), Len(matches))
    <3> HIDE DEF id
    <3> QED BY <1>0, <2>2, ExistingGrows
  <2>4. found \in Seq(Nat) /\ Existing(found, Len(matches))
    BY <1>0, <2>3
  <2> HIDE DEF found
  <2> QED BY <2>1, <2>4, ScanStep
<1>3. CASE fetchFails
  <2>1. CASE lobbyChain = "stacks"
    BY <1>0, <1>3, <2>1, ScanStep DEF fetchFails
  <2>2. CASE lobbyChain # "stacks"
    <3>1. lobby' = [lobby EXCEPT !.scan = NoScan, !.listed = <<>>] /\ UNCHANGED <<NotPage, calls>>
      BY <1>3, <2>2 DEF fetchFails
    <3> QED BY <3>1, NoScanFits, ScanReplaced
  <2> QED BY <2>1, <2>2
<1> QED BY <1>1, <1>2, <1>3

LEMMA DripStep ==
  ASSUME LobbyInv, DripLands
  PROVE  LobbyInv'
BY DEF LobbyInv, DripLands, LobbyChainVars, LobbyCallsTyped, CallsSound

LEMMA LobbyNextInv == LobbyInv /\ [LobbyOp]_lobbyVars => LobbyInv'
<1> SUFFICES ASSUME LobbyInv, [LobbyOp]_lobbyVars PROVE LobbyInv'
  OBVIOUS
<1>1. ASSUME NEW c \in LobbyCalls,
             \/ handleCreateGame(c) \/ \E id \in GameIdsHere : handleJoinGame(c, id)
             \/ ensureGasSponsored(c) \/ pollUntilGas(c) \/ ensureBalance(c) \/ ensureApproval(c) \/ approvalMined(c)
             \/ fetchTotalGames(c) \/ sendTransaction(c) \/ receiptRead(c) \/ receiptLost(c) \/ callAnswered(c)
             \/ transactionMined(c) \/ transactionReverts(c)
      PROVE  LobbyInv'
  BY <1>1, CreateCallStep, JoinCallStep, GasStep, PredictStep, SendStep, ReceiptStep, AnsweredStep, MinedStep, RevertsStep
<1>2. CASE OthersCreate \/ \E id \in 0..Len(matches) - 1 : OthersJoin(id)
  BY <1>2, OthersCreateStep, OthersJoinStep
<1>3. CASE DripLands \/ OpenCreateModal \/ CloseCreateModal \/ TurnPage \/ LeaveLobby \/ OpenLobby \/ BalanceRead
           \/ refresh \/ fetchGame \/ fetchFails
  BY <1>3, DripStep, PageStep, OpenStep, RefreshStep
<1>4. CASE UNCHANGED lobbyVars
  BY <1>4 DEF LobbyInv, lobbyVars, LobbyCallsTyped, CallsSound
<1> QED BY <1>1, <1>2, <1>3, <1>4 DEF LobbyOp

(* What the lobby knows holds in every state: the calls are sound, every   *)
(* stake is known and a visit has one call.                                *)
THEOREM LobbyInvariant == LobbySpec => []LobbyInv
<1>1. LobbyInit => LobbyInv
  BY LobbyInitInv
<1>2. LobbyInv /\ [LobbyOp]_lobbyVars => LobbyInv'
  BY LobbyNextInv
<1> QED BY <1>1, <1>2, PTL DEF LobbySpec

LEMMA SeatedIsSeatIn == \A id \in Nat : Seated(id) <=> SeatIn(matches, id)
BY DEF Seated, SeatIn

(* A call that answers tells the truth, for any number of calls, games and *)
(* wagers: the gas, the balance, the allowance and the game may have       *)
(* changed at each of its awaits.                                          *)
THEOREM AnswersStayTrue == LobbySpec => []AnswerIsTrue
<1>1. LobbyInv => AnswerIsTrue
  <2> SUFFICES ASSUME LobbyInv, NEW c \in LobbyCalls, calls[c].stage = "answered", ~calls[c].excused
               PROVE  IF ~calls[c].ok THEN calls[c].tx \in {"none", "reverted"}
                      ELSE IF lobbyChain = "stacks" THEN calls[c].tx = "ok" => Seated(calls[c].id)
                      ELSE calls[c].tx = "ok" /\ Seated(calls[c].id)
    BY DEF AnswerIsTrue
  <2>1. calls[c] # NoCallYet
    BY DEF NoCallYet
  <2>2. SoundCall(calls[c], matches, accounted, lobbyChain)
    BY <2>1, CallTyped
  <2>3. calls[c].tx = "ok" => Seated(calls[c].id)
    BY <2>2, SeatedIsSeatIn DEF SoundCall, SeatIn
  <2> QED BY <2>2, <2>3 DEF SoundCall
<1> QED BY <1>1, LobbyInvariant, PTL

(* No wager disappears, for any number of calls and games: every game the  *)
(* player sits in was answered for, or a call that will do so still runs.  *)
THEOREM StakesStayKnown == LobbySpec => []StakeIsKnown
<1>1. LobbyInv => StakeIsKnown
  <2> SUFFICES ASSUME LobbyInv, NEW id \in 0..Len(matches) - 1, Seated(id)
               PROVE  id \in accounted \/ \E c \in LobbyCalls : Running(c) /\ calls[c].id = id /\ calls[c].tx = "ok"
    BY DEF StakeIsKnown
  <2>1. id \in Nat
    BY LenProperties DEF LobbyInv
  <2>2. StakeIn(calls, accounted, id)
    BY <2>1, SeatedIsSeatIn DEF LobbyInv, StakesIn
  <2> QED BY <2>2 DEF StakeIn, Running
<1> QED BY <1>1, LobbyInvariant, PTL

(* One visit of the lobby spends one wager at a time, although both kinds  *)
(* of call share the flag and calls of earlier visits answer under it.     *)
THEOREM OneCallAtATime == LobbySpec => []OneCallPerVisit
<1>1. LobbyInv => OneCallPerVisit
  <2> DEFINE mine == {c \in LobbyCalls : Running(c) /\ calls[c].mounted /\ calls[c].stage # "gone"}
  <2> SUFFICES ASSUME LobbyInv PROVE Cardinality(mine) = (IF lobby.pending THEN 1 ELSE 0)
    BY DEF OneCallPerVisit
  <2>1. \A c \in LobbyCalls : c \in mine <=> Visiting(calls[c])
    BY DEF Running, Visiting
  <2>2. CASE lobby.pending
    <3>1. PICK c \in LobbyCalls : Visiting(calls[c])
      BY <2>2 DEF LobbyInv, OneVisits
    <3>2. mine = {c}
      BY <2>1, <3>1 DEF LobbyInv, OneVisits
    <3> QED BY <2>2, <3>2, FS_Singleton
  <2>3. CASE ~lobby.pending
    <3>1. mine = {}
      BY <2>1, <2>3 DEF LobbyInv, OneVisits
    <3> QED BY <2>3, <3>1, FS_EmptySet
  <2> QED BY <2>2, <2>3
<1> QED BY <1>1, LobbyInvariant, PTL

-----------------------------------------------------------------------------
(* The type of the lobby's state: what is left when the invariant above    *)
(* has said what a call and a page are.  A call that has no number yet has *)
(* no game, and only who can pay is asked for an approval.                 *)
Numbered(call, ch) ==
  /\ call.id = NoGame => call.tx # "ok" /\ (ch = "stacks" => call.stage = "predict")
  /\ call.stage \in {"allowance", "approving"} => FirstPurse # 0
CallsNumbered(cs, ch) == \A c \in LobbyCalls : cs[c] # NoCallYet => Numbered(cs[c], ch)

(* A list is no longer than there are games, and neither is what a refresh *)
(* has found with what it has still to look at.                            *)
ListsFit(page) ==
  /\ page.currentPage <= LobbyGames /\ Len(page.listed) <= LobbyGames
  /\ page.scan # NoScan => page.scan.last < LobbyGames /\ Len(page.scan.found) + page.scan.next < LobbyGames

WalletFits ==
  /\ walletTier \in {"smart", "minipay", "eoa"} /\ fuel \in BOOLEAN /\ drip \in BOOLEAN
  /\ purse \in 0..FirstPurse /\ allowance \in 0..FirstPurse

LobbyRest ==
  /\ WalletFits
  /\ Len(matches) <= LobbyGames /\ accounted \subseteq GameIdsHere
  /\ CallsNumbered(calls, lobbyChain) /\ ListsFit(lobby)

LEMMA FreshLists ==
  /\ ListsFit(FreshLobby) /\ ListsFit([FreshLobby EXCEPT !.route = "elsewhere"])
BY LobbyAssumption DEF ListsFit, FreshLobby

LEMMA LobbyInitRest == LobbyInit => LobbyRest
<1> SUFFICES ASSUME LobbyInit PROVE LobbyRest
  OBVIOUS
<1>1. WalletFits
  <2>1. walletTier \in {"smart", "minipay", "eoa"} /\ fuel \in BOOLEAN /\ drip \in BOOLEAN
    BY DEF LobbyInit
  <2>2. purse \in 0..FirstPurse /\ allowance \in 0..FirstPurse
    BY LobbyAssumption DEF LobbyInit
  <2> QED BY <2>1, <2>2 DEF WalletFits
<1>2. Len(matches) <= LobbyGames /\ accounted \subseteq GameIdsHere
  BY LobbyAssumption DEF LobbyInit
<1>3. CallsNumbered(calls, lobbyChain)
  BY DEF LobbyInit, CallsNumbered
<1>4. ListsFit(lobby)
  BY FreshLists DEF LobbyInit
<1> QED BY <1>1, <1>2, <1>3, <1>4 DEF LobbyRest

LEMMA CallIsNumbered ==
  ASSUME LobbyInv, LobbyRest, NEW c \in LobbyCalls, NEW next, calls' = [calls EXCEPT ![c] = next],
         next # NoCallYet => Numbered(next, lobbyChain), lobbyChain' = lobbyChain
  PROVE  CallsNumbered(calls', lobbyChain')
BY DEF LobbyInv, LobbyCallsTyped, LobbyRest, CallsNumbered

LEMMA GoesOnNumbered ==
  ASSUME LobbyInv, LobbyRest, NEW c \in LobbyCalls, calls[c].stage \in Early \ {"predict"}, lobbyChain' = lobbyChain,
         NEW stage \in Early \ {"predict"}, GoOn(c, stage) \/ Throws(c),
         stage \in {"allowance", "approving"} => FirstPurse # 0
  PROVE  CallsNumbered(calls', lobbyChain')
<1>1. calls[c] \in LobbyCall /\ calls[c] # NoCallYet
  BY DEF LobbyInv, LobbyCallsTyped, NoCallYet, Early
<1>2. Numbered(calls[c], lobbyChain)
  BY <1>1 DEF LobbyRest, CallsNumbered
<1>3. PICK next \in LobbyCall : /\ calls' = [calls EXCEPT ![c] = next]
                               /\ next.id = calls[c].id /\ next.tx = calls[c].tx /\ next.stage \in {stage, "answered"}
  <2>1. CASE GoOn(c, stage)
    <3>1. [calls[c] EXCEPT !.stage = stage] \in LobbyCall
      BY <1>1 DEF LobbyCall, Early
    <3> QED BY <1>1, <2>1, <3>1 DEF GoOn, LobbyCall
  <2>2. CASE Throws(c)
    <3> DEFINE next == [calls[c] EXCEPT !.stage = "answered", !.ok = FALSE]
    <3>1. /\ next \in LobbyCall /\ next.id = calls[c].id /\ next.tx = calls[c].tx
          /\ next.stage = "answered"
      BY <1>1 DEF LobbyCall
    <3>2. calls' = [calls EXCEPT ![c] = next]
      BY <2>2 DEF Throws
    <3> HIDE DEF next
    <3> QED BY <3>1, <3>2
  <2> QED BY <2>1, <2>2
<1>4. Numbered(next, lobbyChain)
  BY <1>2, <1>3 DEF Numbered, Early
<1> QED BY <1>3, <1>4, CallIsNumbered

LEMMA GasRest ==
  ASSUME LobbyInv, LobbyRest, NEW c \in LobbyCalls,
         ensureGasSponsored(c) \/ pollUntilGas(c) \/ ensureBalance(c) \/ ensureApproval(c) \/ approvalMined(c)
  PROVE  LobbyRest'
<1>1. calls[c].stage \in Early \ {"predict"} /\ UNCHANGED <<lobbyChain, walletTier, matches, purse, lobby, accounted>>
  BY DEF ensureGasSponsored, pollUntilGas, ensureBalance, ensureApproval, approvalMined, Early, LobbyChainVars
<1>2. calls[c] # NoCallYet /\ (calls[c].stage \in {"allowance", "approving"} => FirstPurse # 0)
  BY <1>1 DEF LobbyRest, CallsNumbered, Numbered, NoCallYet, Early
<1>3. PICK stage \in Early \ {"predict"} :
        (GoOn(c, stage) \/ Throws(c)) /\ (stage \in {"allowance", "approving"} => FirstPurse # 0)
  <2>1. CASE ensureGasSponsored(c)
    BY <2>1 DEF ensureGasSponsored, Early
  <2>2. CASE pollUntilGas(c)
    BY <2>2 DEF pollUntilGas, Early
  <2>3. CASE ensureBalance(c)
    BY <2>3, LobbyAssumption DEF ensureBalance, Early, LobbyRest, WalletFits
  <2>4. CASE ensureApproval(c)
    BY <1>2, <2>4 DEF ensureApproval, Early
  <2>5. CASE approvalMined(c)
    BY <2>5 DEF approvalMined, Early
  <2> QED BY <2>1, <2>2, <2>3, <2>4, <2>5
<1>4. CallsNumbered(calls', lobbyChain')
  BY <1>1, <1>3, GoesOnNumbered
<1>5. drip' \in BOOLEAN /\ fuel' \in BOOLEAN
  BY DEF ensureGasSponsored, pollUntilGas, ensureBalance, ensureApproval, approvalMined, GasSpent, LobbyRest, WalletFits
<1>6. allowance' \in 0..FirstPurse
  <2>1. CASE approvalMined(c)
    BY <1>2, <2>1, LobbyAssumption DEF approvalMined, LobbyRest, WalletFits
  <2>2. CASE ~approvalMined(c)
    BY <2>2 DEF ensureGasSponsored, pollUntilGas, ensureBalance, ensureApproval, LobbyRest, WalletFits
  <2> QED BY <2>1, <2>2
<1> QED BY <1>1, <1>4, <1>5, <1>6 DEF LobbyRest, WalletFits

LEMMA StartRest ==
  ASSUME LobbyInv, LobbyRest, NEW c \in LobbyCalls,
         handleCreateGame(c) \/ \E id \in GameIdsHere : handleJoinGame(c, id)
  PROVE  LobbyRest'
<1>1. PICK kind \in {"create", "join"}, id \in GameIdsHere \cup {NoGame} :
        StartCall(c, kind, id) /\ (id = NoGame => kind = "create") /\ lobby' = [lobby EXCEPT !.pending = TRUE]
  BY LobbyAssumption DEF handleCreateGame, handleJoinGame, GameIdsHere, NoGame
<1> DEFINE next == [stage |-> FirstStage(kind), kind |-> kind, id |-> id, tx |-> "none",
                    ok |-> FALSE, mounted |-> TRUE, excused |-> FALSE]
<1>2. calls' = [calls EXCEPT ![c] = next] /\ UNCHANGED NotPage
  BY <1>1 DEF StartCall
<1>3. Numbered(next, lobbyChain)
  BY <1>1 DEF Numbered, FirstStage, LobbyInv
<1> HIDE DEF next
<1>4. UNCHANGED <<lobbyChain, walletTier, matches, purse, allowance, fuel, drip, accounted>>
  BY <1>2 DEF NotPage, LobbyChainVars
<1>5. CallsNumbered(calls', lobbyChain')
  BY <1>2, <1>3, <1>4, CallIsNumbered
<1>6. ListsFit(lobby')
  BY <1>1 DEF LobbyRest, ListsFit, LobbyInv, PageSound, LobbyPage
<1> QED BY <1>4, <1>5, <1>6 DEF LobbyRest, WalletFits

LEMMA SendRest ==
  ASSUME LobbyInv, LobbyRest, NEW c \in LobbyCalls,
         fetchTotalGames(c) \/ sendTransaction(c) \/ receiptRead(c) \/ receiptLost(c)
  PROVE  LobbyRest'
<1>1. /\ UNCHANGED <<lobbyChain, walletTier, matches, purse, allowance, fuel, drip, lobby>>
      /\ calls[c].stage \in {"predict", "write", "waiting"}
  BY DEF fetchTotalGames, sendTransaction, receiptRead, receiptLost, LobbyChainVars
<1>2. calls[c] \in LobbyCall /\ calls[c] # NoCallYet
  BY <1>1 DEF LobbyInv, LobbyCallsTyped, NoCallYet
<1>3. Numbered(calls[c], lobbyChain) /\ SoundCall(calls[c], matches, accounted, lobbyChain)
  BY <1>2 DEF LobbyRest, CallsNumbered, LobbyInv, CallsSound
<1>4. accounted' \subseteq GameIdsHere
  BY <1>2, <1>3 DEF fetchTotalGames, sendTransaction, receiptRead, receiptLost, LobbyRest, Numbered, LobbyCall
<1>5. PICK next : /\ calls' = [calls EXCEPT ![c] = next]
                  /\ next.id = calls[c].id \/ next.id \in Nat
                  /\ calls[c].stage = "predict" => next.id \in Nat
                  /\ next.stage \in {"write", "waiting", "answered"}
                  /\ next.tx = "ok" => calls[c].tx = "ok"
  <2>1. CASE fetchTotalGames(c)
    <3>1. Len(matches) \in Nat
      BY LenProperties DEF LobbyInv
    <3>2. CASE calls' = [calls EXCEPT ![c].stage = "write", ![c].id = Len(matches)]
      <4> DEFINE next == [calls[c] EXCEPT !.stage = "write", !.id = Len(matches)]
      <4>1. next.id = Len(matches) /\ next.tx = calls[c].tx /\ next.stage = "write"
        BY <1>2 DEF LobbyCall
      <4>2. calls' = [calls EXCEPT ![c] = next]
        BY <3>2
      <4> HIDE DEF next
      <4> QED BY <3>1, <4>1, <4>2
    <3>3. CASE calls' = [calls EXCEPT ![c].stage = "write", ![c].id = 0, ![c].excused = TRUE]
      <4> DEFINE next == [calls[c] EXCEPT !.stage = "write", !.id = 0, !.excused = TRUE]
      <4>1. next.id \in Nat /\ next.tx = calls[c].tx /\ next.stage = "write"
        BY <1>2 DEF LobbyCall
      <4>2. calls' = [calls EXCEPT ![c] = next]
        BY <3>3
      <4> HIDE DEF next
      <4> QED BY <4>1, <4>2
    <3> QED BY <2>1, <3>2, <3>3 DEF fetchTotalGames
  <2>2. CASE sendTransaction(c)
    <3>1. CASE Throws(c)
      <4> DEFINE next == [calls[c] EXCEPT !.stage = "answered", !.ok = FALSE]
      <4>1. next.id = calls[c].id /\ next.tx = calls[c].tx /\ next.stage = "answered"
        BY <1>2 DEF LobbyCall
      <4>2. calls' = [calls EXCEPT ![c] = next] /\ calls[c].stage = "write"
        BY <2>2, <3>1 DEF Throws, sendTransaction
      <4> HIDE DEF next
      <4> QED BY <4>1, <4>2
    <3>2. CASE ~Throws(c)
      <4> DEFINE sent == lobbyChain = "stacks"
                 next == [calls[c] EXCEPT !.tx = "pending", !.ok = sent, !.stage = IF sent THEN "answered" ELSE "waiting"]
      <4>1. next.id = calls[c].id /\ next.tx = "pending" /\ next.stage \in {"answered", "waiting"}
        BY <1>2 DEF LobbyCall
      <4>2. calls' = [calls EXCEPT ![c] = next] /\ calls[c].stage = "write"
        BY <2>2, <3>2 DEF sendTransaction
      <4> HIDE DEF next
      <4> QED BY <4>1, <4>2
    <3> QED BY <3>1, <3>2
  <2>3. CASE receiptRead(c)
    <3> DEFINE mined == calls[c].tx = "ok"
               next == [calls[c] EXCEPT !.stage = "answered", !.ok = mined]
    <3>1. next.id = calls[c].id /\ next.tx = calls[c].tx /\ next.stage = "answered"
      BY <1>2 DEF LobbyCall
    <3>2. calls' = [calls EXCEPT ![c] = next] /\ calls[c].stage = "waiting"
      BY <2>3 DEF receiptRead
    <3> HIDE DEF next
    <3> QED BY <3>1, <3>2
  <2>4. CASE receiptLost(c)
    <3> DEFINE next == [calls[c] EXCEPT !.stage = "answered", !.excused = TRUE]
    <3>1. next.id = calls[c].id /\ next.tx = calls[c].tx /\ next.stage = "answered"
      BY <1>2 DEF LobbyCall
    <3>2. calls' = [calls EXCEPT ![c] = next] /\ calls[c].stage = "waiting"
      BY <2>4 DEF receiptLost
    <3> HIDE DEF next
    <3> QED BY <3>1, <3>2
  <2> QED BY <2>1, <2>2, <2>3, <2>4
<1>6. Numbered(next, lobbyChain)
  BY <1>3, <1>5 DEF Numbered, NoGame
<1>7. CallsNumbered(calls', lobbyChain')
  BY <1>1, <1>5, <1>6, CallIsNumbered
<1> QED BY <1>1, <1>4, <1>7 DEF LobbyRest, WalletFits

LEMMA UnmountedNumbered ==
  ASSUME NEW call \in LobbyCall, NEW ch, Numbered(call, ch)
  PROVE  Numbered(Unmounted(call), ch)
<1>1. Unmounted(call) = [call EXCEPT !.mounted = FALSE]
  BY NoCallIsNone DEF Unmounted
<1> QED BY <1>1 DEF Numbered, LobbyCall

LEMMA RemainsNumbered ==
  ASSUME NEW call \in LobbyCall, NEW ch, Numbered(call, ch), call.stage # "predict"
  PROVE  Remains(call) # NoCallYet => Remains(call) \in LobbyCall /\ Numbered(Remains(call), ch)
<1>1. CASE call.tx = "pending"
  <2>1. Remains(call) = [call EXCEPT !.stage = "gone"]
    BY <1>1 DEF Remains
  <2> QED BY <2>1 DEF Numbered, LobbyCall
<1>2. CASE call.tx # "pending"
  BY <1>2 DEF Remains
<1> QED BY <1>1, <1>2

LEMMA AnsweredRest ==
  ASSUME LobbyInv, LobbyRest, NEW c \in LobbyCalls, callAnswered(c)
  PROVE  LobbyRest'
<1> DEFINE call == calls[c]
<1>1. /\ call \in LobbyCall /\ call # NoCallYet /\ call.stage = "answered"
      /\ UNCHANGED <<lobbyChain, walletTier, matches, purse, allowance, fuel, drip>>
  BY DEF callAnswered, LobbyChainVars, LobbyInv, LobbyCallsTyped, NoCallYet
<1>2. Numbered(call, lobbyChain) /\ SoundCall(call, matches, accounted, lobbyChain)
  BY <1>1 DEF LobbyRest, CallsNumbered, LobbyInv, CallsSound
<1>3. call.ok => call.id \in GameIdsHere
  BY <1>1, <1>2 DEF Numbered, SoundCall, LobbyCall
<1>4. accounted' \subseteq GameIdsHere
  BY <1>3 DEF callAnswered, LobbyRest
<1>5. Remains(call) # NoCallYet => Remains(call) \in LobbyCall /\ Numbered(Remains(call), lobbyChain)
  BY <1>1, <1>2, RemainsNumbered
<1>6. CallsNumbered(calls', lobbyChain')
  <2>1. CASE call.ok
    <3>1. ASSUME NEW d \in LobbyCalls, calls'[d] # NoCallYet PROVE Numbered(calls'[d], lobbyChain)
      <4>1. PICK before : calls'[d] = Unmounted(before) /\ before = IF d = c THEN Remains(call) ELSE calls[d]
        BY <2>1 DEF callAnswered
      <4>2. before # NoCallYet
        BY <3>1, <4>1 DEF Unmounted
      <4>3. before \in LobbyCall /\ Numbered(before, lobbyChain)
        BY <1>5, <4>1, <4>2 DEF LobbyRest, CallsNumbered, LobbyInv, LobbyCallsTyped
      <4> QED BY <4>1, <4>3, UnmountedNumbered
    <3> QED BY <1>1, <3>1 DEF CallsNumbered
  <2>2. CASE ~call.ok
    BY <1>1, <1>5, <2>2, CallIsNumbered DEF callAnswered
  <2> QED BY <2>1, <2>2
<1>7. ListsFit(lobby')
  <2>1. CASE call.ok
    BY <2>1, FreshLists DEF callAnswered
  <2>2. CASE ~call.ok
    <3>1. lobby' = lobby \/ lobby' = [lobby EXCEPT !.pending = FALSE]
      BY <2>2 DEF callAnswered
    <3> QED BY <3>1 DEF LobbyRest, ListsFit, LobbyInv, PageSound, LobbyPage
  <2> QED BY <2>1, <2>2
<1> QED BY <1>1, <1>4, <1>6, <1>7 DEF LobbyRest, WalletFits

LEMMA MisledNumbered ==
  ASSUME NEW cs, NEW others, NEW ch, CallsNumbered(cs, ch),
         \A d \in LobbyCalls : cs[d] \in LobbyCall \cup {NoCallYet}
  PROVE  CallsNumbered(Misled(cs, others), ch)
<1> SUFFICES ASSUME NEW d \in LobbyCalls, Misled(cs, others)[d] # NoCallYet
             PROVE  Numbered(Misled(cs, others)[d], ch)
  BY DEF CallsNumbered
<1> DEFINE misled == [cs[d] EXCEPT !.excused = TRUE]
<1>1. Misled(cs, others)[d] = cs[d] \/ (Misled(cs, others)[d] = misled /\ cs[d] # NoCallYet)
  BY DEF Misled
<1>2. cs[d] # NoCallYet => cs[d] \in LobbyCall /\ Numbered(cs[d], ch)
  BY DEF CallsNumbered
<1>3. cs[d] \in LobbyCall => misled.id = cs[d].id /\ misled.tx = cs[d].tx /\ misled.stage = cs[d].stage
  BY DEF LobbyCall
<1> HIDE DEF misled
<1> QED BY <1>1, <1>2, <1>3 DEF Numbered

LEMMA FuelStays ==
  ASSUME fuel \in BOOLEAN, GasSpent
  PROVE  fuel' \in BOOLEAN
BY DEF GasSpent

LEMMA MinedRest ==
  ASSUME LobbyInv, LobbyRest, NEW c \in LobbyCalls, transactionMined(c)
  PROVE  LobbyRest'
<1> DEFINE call == calls[c]
           id == IF call.kind = "create" THEN Len(matches) ELSE call.id
           next == [call EXCEPT !.tx = "ok", !.id = IF lobbyChain = "stacks" THEN call.id ELSE id]
           now == [calls EXCEPT ![c] = IF call.stage = "gone" THEN NoCallYet ELSE next]
<1>1. /\ call # NoCallYet /\ call.tx = "pending" /\ Fits(call) /\ Funded /\ GasSpent
      /\ UNCHANGED <<lobbyChain, walletTier, drip, lobby>>
      /\ purse' = purse - 1 /\ allowance' = IF lobbyChain = "stacks" THEN allowance ELSE allowance - 1
  BY DEF transactionMined, Running
<1>2. call \in LobbyCall /\ SoundCall(call, matches, accounted, lobbyChain) /\ matches \in Seq(Match) /\ Len(matches) \in Nat
  BY <1>1, CallTyped, LenProperties DEF LobbyInv
<1>3. Numbered(call, lobbyChain)
  BY <1>1 DEF LobbyRest, CallsNumbered
<1>4. id \in GameIdsHere /\ id # NoGame
  <2>1. CASE call.kind = "create"
    BY <1>1, <1>2, <2>1, LobbyAssumption DEF Fits, GameIdsHere, NoGame
  <2>2. CASE call.kind # "create"
    BY <1>2, <2>2, LobbyAssumption DEF SoundCall, LobbyCall, GameIdsHere, NoGame
  <2> QED BY <2>1, <2>2
<1>5. accounted' \subseteq GameIdsHere
  <2>1. accounted' = IF call.excused THEN accounted \cup {id} ELSE accounted
    BY DEF transactionMined
  <2> HIDE DEF id
  <2> QED BY <1>4, <2>1 DEF LobbyRest
<1>6. Len(matches') <= LobbyGames
  <2>1. CASE call.kind = "create"
    <3> DEFINE game == [creator |-> "me", joiner |-> "nobody"]
    <3>1. game \in Match /\ matches' = Append(matches, game) /\ Len(matches) < LobbyGames
      BY <1>1, <2>1 DEF Match, Fits, transactionMined
    <3> HIDE DEF game
    <3>2. Len(matches') = Len(matches) + 1
      BY <1>2, <3>1, GameAdded
    <3> QED BY <1>2, <3>1, <3>2, LobbyAssumption
  <2>2. CASE call.kind # "create"
    <3> HIDE DEF id
    <3>1. /\ matches \in Seq(Match) /\ call.id \in Nat /\ call.id < Len(matches)
          /\ matches[call.id + 1].joiner = "nobody" /\ "me" \in {"me", "other"} /\ matches' = Taken(matches, call.id, "me")
      <4>1. matches[call.id + 1] = [creator |-> "other", joiner |-> "nobody"]
        BY <1>1, <2>2 DEF Fits
      <4> QED BY <1>2, <2>2, <4>1 DEF SoundCall, LobbyCall, transactionMined, Taken
    <3>2. Len(matches') = Len(matches)
      BY ONLY <3>1, SeatTaken
    <3> QED BY <3>2 DEF LobbyRest
  <2> QED BY <2>1, <2>2
<1>7. next \in LobbyCall /\ Numbered(next, lobbyChain)
  <2> DEFINE number == IF lobbyChain = "stacks" THEN call.id ELSE id
  <2>1. number \in GameIdsHere \cup {NoGame}
    BY <1>2, <1>4 DEF LobbyCall
  <2>2. number # NoGame
    BY <1>1, <1>2, <1>3, <1>4 DEF Numbered, SoundCall, Early
  <2>3. next = [call EXCEPT !.tx = "ok", !.id = number]
    OBVIOUS
  <2> HIDE DEF number, next, id
  <2>4. next \in LobbyCall /\ next.id = number /\ next.stage = call.stage
    BY <1>2, <2>1, <2>3 DEF LobbyCall
  <2> QED BY <1>3, <2>2, <2>4 DEF Numbered
<1> HIDE DEF next
<1>8. CallsNumbered(now, lobbyChain) /\ \A d \in LobbyCalls : now[d] \in LobbyCall \cup {NoCallYet}
  BY <1>7 DEF LobbyInv, LobbyCallsTyped, LobbyRest, CallsNumbered
<1>9. CallsNumbered(calls', lobbyChain)
  <2>1. calls' = Misled(now, LobbyCalls \ {c}) \/ calls' = now
    BY DEF transactionMined, next
  <2> HIDE DEF now
  <2> QED BY <1>8, <2>1, MisledNumbered
<1>10. purse' \in 0..FirstPurse /\ allowance' \in 0..FirstPurse
  BY <1>1, LobbyAssumption DEF Funded, LobbyRest, WalletFits
<1>11. fuel' \in BOOLEAN
  BY <1>1, FuelStays DEF LobbyRest, WalletFits
<1> QED BY <1>1, <1>5, <1>6, <1>9, <1>10, <1>11 DEF LobbyRest, WalletFits

LEMMA RevertsRest ==
  ASSUME LobbyInv, LobbyRest, NEW c \in LobbyCalls, transactionReverts(c)
  PROVE  LobbyRest'
<1> DEFINE next == [calls[c] EXCEPT !.tx = "reverted"]
<1>1. /\ calls[c] # NoCallYet /\ GasSpent
      /\ UNCHANGED <<lobbyChain, walletTier, matches, purse, allowance, drip, lobby, accounted>>
      /\ calls' = [calls EXCEPT ![c] = IF calls[c].stage = "gone" THEN NoCallYet ELSE next]
  BY DEF transactionReverts, Running, LobbyChainVars
<1>2. calls[c] \in LobbyCall /\ Numbered(calls[c], lobbyChain)
  BY <1>1, CallTyped DEF LobbyRest, CallsNumbered
<1>3. Numbered(next, lobbyChain)
  BY <1>2 DEF Numbered, LobbyCall
<1> HIDE DEF next
<1>4. CallsNumbered(calls', lobbyChain')
  BY <1>1, <1>3, CallIsNumbered
<1>5. fuel' \in BOOLEAN
  BY <1>1, FuelStays DEF LobbyRest, WalletFits
<1> QED BY <1>1, <1>4, <1>5 DEF LobbyRest, WalletFits

LEMMA OthersRest ==
  ASSUME LobbyInv, LobbyRest, OthersCreate \/ \E id \in 0..Len(matches) - 1 : OthersJoin(id)
  PROVE  LobbyRest'
<1>1. matches \in Seq(Match) /\ Len(matches) \in Nat
  BY LenProperties DEF LobbyInv
<1>2. CASE OthersCreate
  <2> DEFINE game == [creator |-> "other", joiner |-> "nobody"]
  <2>1. /\ game \in Match /\ matches' = Append(matches, game) /\ Len(matches) < LobbyGames
        /\ calls' = Misled(calls, LobbyCalls)
        /\ UNCHANGED <<lobbyChain, walletTier, purse, allowance, fuel, drip, lobby, accounted>>
    BY <1>2 DEF OthersCreate, Match
  <2> HIDE DEF game
  <2>2. Len(matches') = Len(matches) + 1
    BY <1>1, <2>1, GameAdded
  <2>3. Len(matches') <= LobbyGames
    BY <1>1, <2>1, <2>2, LobbyAssumption
  <2>4. CallsNumbered(calls', lobbyChain')
    BY <2>1, MisledNumbered DEF LobbyInv, LobbyCallsTyped, LobbyRest
  <2> QED BY <2>1, <2>3, <2>4 DEF LobbyRest, WalletFits
<1>3. ASSUME NEW id \in 0..Len(matches) - 1, OthersJoin(id) PROVE LobbyRest'
  <2>1. /\ matches \in Seq(Match) /\ id \in Nat /\ id < Len(matches) /\ matches[id + 1].joiner = "nobody"
        /\ "other" \in {"me", "other"} /\ matches' = Taken(matches, id, "other")
    BY <1>1, <1>3 DEF OthersJoin, Taken
  <2>2. Len(matches') = Len(matches)
    BY ONLY <2>1, SeatTaken
  <2>3. UNCHANGED <<lobbyChain, walletTier, purse, allowance, fuel, drip, calls, lobby, accounted>>
    BY <1>3 DEF OthersJoin
  <2> QED BY <2>2, <2>3 DEF LobbyRest, WalletFits, CallsNumbered
<1> QED BY <1>2, <1>3

(* Rounded up, a quotient by at least one is no larger than the number.    *)
LEMMA RoundedUp ==
  ASSUME NEW n \in Nat \ {0}, NEW k \in Nat \ {0}
  PROVE  (n + k - 1) \div k <= n
<1> DEFINE q == (n + k - 1) \div k
<1>1. q \in Nat /\ k * q <= n + k - 1
  OBVIOUS
<1> HIDE DEF q
<1>2. SUFFICES ASSUME q >= n + 1 PROVE FALSE
  BY <1>1 DEF q
<1>3. k * q >= k * (n + 1)
  BY <1>1, <1>2
<1>4. k * (n + 1) = k * n + k /\ k * n >= n /\ k * n \in Nat
  OBVIOUS
<1> QED BY <1>1, <1>3, <1>4

LEMMA ButtonRest ==
  ASSUME LobbyInv, LobbyRest, OpenCreateModal \/ CloseCreateModal \/ TurnPage \/ BalanceRead
  PROVE  LobbyRest'
<1>1. UNCHANGED <<lobbyChain, walletTier, matches, purse, allowance, fuel, drip, accounted, calls>>
  BY DEF OpenCreateModal, CloseCreateModal, TurnPage, BalanceRead, NotPage, LobbyChainVars
<1>2. lobby \in LobbyPage /\ Len(lobby.listed) \in Nat /\ lobby.currentPage \in Nat \ {0} /\ ListsFit(lobby)
  BY LenProperties DEF LobbyInv, PageSound, LobbyRest, LobbyPage
<1>3. ListsFit(lobby')
  <2>1. CASE OpenCreateModal \/ CloseCreateModal
    BY <1>2, <2>1 DEF OpenCreateModal, CloseCreateModal, LobbyPage, ListsFit
  <2>2. CASE BalanceRead
    <3> DEFINE known == purse >= 1
    <3>1. lobby' = [lobby EXCEPT !.enough = known]
      BY <2>2 DEF BalanceRead
    <3> HIDE DEF known
    <3> QED BY <1>2, <3>1 DEF LobbyPage, ListsFit
  <2>3. CASE TurnPage
    <3>1. LastPage <= LobbyGames \/ Len(lobby.listed) = 0
      <4>1. Len(lobby.listed) # 0 => LastPage <= Len(lobby.listed) /\ LastPage \in Int
        <5> DEFINE n == Len(lobby.listed)
                   last == (n + ItemsPerPage - 1) \div ItemsPerPage
        <5>1. n \in Nat /\ ItemsPerPage \in Nat \ {0} /\ LastPage = last
          BY <1>2, LobbyAssumption DEF LastPage
        <5> HIDE DEF n
        <5>2. n # 0 => last <= n /\ last \in Int
          BY <5>1, RoundedUp
        <5> QED BY <5>1, <5>2 DEF n
      <4> QED BY <1>2, <4>1, LobbyAssumption DEF ListsFit
    <3>2. "next" \in LobbyScreen => Len(lobby.listed) # 0
      <4>1. "next" \notin CreateMatchModal
        BY DEF CreateMatchModal
      <4>2. "next" \in Pager => Len(lobby.listed) # 0
        BY <1>2, LobbyAssumption DEF Pager
      <4> QED BY <4>1, <4>2 DEF LobbyScreen
    <3>3. LastPage \in Int
      BY <1>2, LobbyAssumption DEF LastPage
    <3>4. PICK number : lobby' = [lobby EXCEPT !.currentPage = number] /\ number <= LobbyGames
      <4>1. CASE lobby' = [lobby EXCEPT !.currentPage = @ - 1]
        <5> DEFINE number == lobby.currentPage - 1
        <5>1. number <= LobbyGames
          BY <1>2, LobbyAssumption DEF ListsFit
        <5>2. lobby' = [lobby EXCEPT !.currentPage = number]
          BY <4>1
        <5> HIDE DEF number
        <5> QED BY <5>1, <5>2
      <4>2. CASE "next" \in LobbyScreen /\ lobby' = [lobby EXCEPT !.currentPage = IF @ < LastPage THEN @ + 1 ELSE LastPage]
        <5> DEFINE number == IF lobby.currentPage < LastPage THEN lobby.currentPage + 1 ELSE LastPage
        <5>1. number <= LobbyGames
          BY <1>2, <3>1, <3>2, <3>3, <4>2, LobbyAssumption
        <5>2. lobby' = [lobby EXCEPT !.currentPage = number]
          BY <4>2
        <5> HIDE DEF number
        <5> QED BY <5>1, <5>2
      <4> QED BY <2>3, <4>1, <4>2 DEF TurnPage
    <3> QED BY <1>2, <3>4 DEF LobbyPage, ListsFit
  <2> QED BY <2>1, <2>2, <2>3
<1> QED BY <1>1, <1>3 DEF LobbyRest, WalletFits, CallsNumbered

LEMMA OpenRest ==
  ASSUME LobbyInv, LobbyRest, LeaveLobby \/ OpenLobby
  PROVE  LobbyRest'
<1>1. UNCHANGED <<lobbyChain, walletTier, matches, purse, allowance, fuel, drip, accounted>>
  BY DEF LeaveLobby, OpenLobby, NotPage, LobbyChainVars
<1>2. ListsFit(lobby')
  BY FreshLists DEF LeaveLobby, OpenLobby
<1>3. CallsNumbered(calls', lobbyChain)
  <2>1. CASE LeaveLobby
    <3>1. ASSUME NEW d \in LobbyCalls, calls'[d] # NoCallYet PROVE Numbered(calls'[d], lobbyChain)
      <4>1. calls'[d] = Unmounted(calls[d]) /\ calls[d] # NoCallYet
        BY <2>1, <3>1 DEF LeaveLobby, Unmounted
      <4>2. calls[d] \in LobbyCall /\ Numbered(calls[d], lobbyChain)
        BY <4>1 DEF LobbyRest, CallsNumbered, LobbyInv, LobbyCallsTyped
      <4> QED BY <4>1, <4>2, UnmountedNumbered
    <3> QED BY <3>1 DEF CallsNumbered
  <2>2. CASE OpenLobby
    BY <2>2 DEF OpenLobby, LobbyRest
  <2> QED BY <2>1, <2>2
<1> QED BY <1>1, <1>2, <1>3 DEF LobbyRest, WalletFits

(* A refresh that has found one game more at most, and goes on or ends.    *)
LEMMA ScanFits ==
  ASSUME LobbyInv, LobbyRest, lobby.scan # NoScan, NEW found \in Seq(Nat),
         Len(found) <= Len(lobby.scan.found) + 1, ScanOn(found)
  PROVE  ListsFit(lobby')
<1>1. /\ lobby \in LobbyPage /\ lobby.scan \in Scan /\ Len(matches) \in Nat
      /\ lobby.scan.next \in 0..Len(matches) - 1 /\ lobby.scan.last \in Nat /\ lobby.scan.found \in Seq(Nat)
  BY PageFacts
<1>2. Len(found) \in Nat /\ Len(lobby.scan.found) \in Nat
  BY <1>1, LenProperties
<1>3. /\ lobby.currentPage <= LobbyGames /\ Len(lobby.listed) <= LobbyGames
      /\ lobby.scan.last < LobbyGames /\ Len(lobby.scan.found) + lobby.scan.next < LobbyGames
  BY DEF LobbyRest, ListsFit
<1>4. CASE lobby.scan.next > lobby.scan.last
  <2> DEFINE next == [lobby.scan EXCEPT !.next = lobby.scan.next - 1, !.found = found]
  <2>1. next.next = lobby.scan.next - 1 /\ next.found = found /\ next.last = lobby.scan.last
    BY <1>1 DEF Scan
  <2>2. lobby' = [lobby EXCEPT !.scan = next]
    <3>1. lobby' = [lobby EXCEPT !.scan.next = lobby.scan.next - 1, !.scan.found = found]
      BY <1>4 DEF ScanOn
    <3> QED BY <1>1, <3>1 DEF LobbyPage
  <2> HIDE DEF next
  <2>3. lobby'.scan = next /\ lobby'.currentPage = lobby.currentPage /\ lobby'.listed = lobby.listed
    BY <1>1, <2>2 DEF LobbyPage
  <2>4. Len(found) + (lobby.scan.next - 1) < LobbyGames
    BY <1>1, <1>2, <1>3, LobbyAssumption
  <2> QED BY <1>3, <2>1, <2>3, <2>4 DEF ListsFit
<1>5. CASE ~(lobby.scan.next > lobby.scan.last)
  <2>1. lobby'.scan = NoScan /\ lobby'.listed = found /\ lobby'.currentPage = lobby.currentPage
    BY <1>1, <1>5 DEF ScanOn, LobbyPage
  <2>2. Len(found) <= LobbyGames
    BY <1>1, <1>2, <1>3, LobbyAssumption
  <2> QED BY <1>3, <2>1, <2>2 DEF ListsFit
<1> QED BY <1>4, <1>5

LEMMA RefreshRest ==
  ASSUME LobbyInv, LobbyRest, refresh \/ fetchGame \/ fetchFails
  PROVE  LobbyRest'
<1>1. UNCHANGED <<lobbyChain, walletTier, matches, purse, allowance, fuel, drip, accounted, calls>>
  BY DEF refresh, fetchGame, fetchFails, ScanOn, NotPage, LobbyChainVars
<1>2. /\ lobby \in LobbyPage /\ lobby.scan.found \in Seq(Nat) /\ Len(matches) \in Nat
      /\ lobby.scan # NoScan => lobby.scan.next \in 0..Len(matches) - 1
  BY PageFacts
<1>3. ListsFit(lobby) /\ Len(matches) <= LobbyGames /\ Len(lobby.scan.found) \in Nat
  BY <1>2, LenProperties DEF LobbyRest
<1> SUFFICES ListsFit(lobby')
  BY <1>1 DEF LobbyRest, WalletFits, CallsNumbered
<1>4. CASE refresh
  <2>1. CASE lobby' = [lobby EXCEPT !.listed = <<>>]
    BY <1>2, <1>3, <2>1, LobbyAssumption DEF LobbyPage, ListsFit
  <2>2. CASE lobby' # [lobby EXCEPT !.listed = <<>>]
    <3> DEFINE last == IF Len(matches) < LobbyWindow THEN 0 ELSE Len(matches) - LobbyWindow
               next == [next |-> Len(matches) - 1, found |-> <<>>, last |-> last]
    <3>1. lobby' = [lobby EXCEPT !.scan = next]
      BY <1>4, <2>2 DEF refresh
    <3>2. last < LobbyGames /\ Len(<<>>) + (Len(matches) - 1) < LobbyGames
      BY <1>2, <1>3, LobbyAssumption
    <3> HIDE DEF last
    <3>3. next.last = last /\ next.found = <<>> /\ next.next = Len(matches) - 1
      OBVIOUS
    <3> HIDE DEF next
    <3>4. lobby'.scan = next /\ lobby'.currentPage = lobby.currentPage /\ lobby'.listed = lobby.listed
      BY <1>2, <3>1 DEF LobbyPage
    <3> QED BY <1>3, <3>2, <3>3, <3>4 DEF ListsFit
  <2> QED BY <2>1, <2>2
<1>5. CASE fetchGame
  <2> DEFINE id == lobby.scan.next
             found == IF matches[id + 1].joiner = "nobody" THEN Append(lobby.scan.found, id) ELSE lobby.scan.found
  <2>1. lobby.scan # NoScan /\ ScanOn(found) /\ id \in Nat
    BY <1>2, <1>5 DEF fetchGame
  <2>2. Append(lobby.scan.found, id) \in Seq(Nat) /\ Len(Append(lobby.scan.found, id)) = Len(lobby.scan.found) + 1
    BY <1>2, <2>1, AppendProperties
  <2>3. found \in Seq(Nat) /\ Len(found) <= Len(lobby.scan.found) + 1
    BY <1>2, <1>3, <2>2
  <2> HIDE DEF found
  <2> QED BY <2>1, <2>3, ScanFits
<1>6. CASE fetchFails
  <2>1. CASE lobbyChain = "stacks"
    <3>1. ScanOn(lobby.scan.found) /\ lobby.scan # NoScan /\ Len(lobby.scan.found) <= Len(lobby.scan.found) + 1
      BY <1>3, <1>6, <2>1 DEF fetchFails
    <3> QED BY <1>2, <3>1, ScanFits
  <2>2. CASE lobbyChain # "stacks"
    <3>1. lobby'.scan = NoScan /\ lobby'.listed = <<>> /\ lobby'.currentPage = lobby.currentPage
      BY <1>2, <1>6, <2>2 DEF fetchFails, LobbyPage
    <3> QED BY <1>3, <3>1, LobbyAssumption DEF ListsFit
  <2> QED BY <2>1, <2>2
<1> QED BY <1>4, <1>5, <1>6

LEMMA LobbyNextRest == LobbyInv /\ LobbyRest /\ [LobbyOp]_lobbyVars => LobbyRest'
<1> SUFFICES ASSUME LobbyInv, LobbyRest, [LobbyOp]_lobbyVars PROVE LobbyRest'
  OBVIOUS
<1>1. ASSUME NEW c \in LobbyCalls,
             \/ handleCreateGame(c) \/ \E id \in GameIdsHere : handleJoinGame(c, id)
             \/ ensureGasSponsored(c) \/ pollUntilGas(c) \/ ensureBalance(c) \/ ensureApproval(c) \/ approvalMined(c)
             \/ fetchTotalGames(c) \/ sendTransaction(c) \/ receiptRead(c) \/ receiptLost(c) \/ callAnswered(c)
             \/ transactionMined(c) \/ transactionReverts(c)
      PROVE  LobbyRest'
  BY <1>1, StartRest, GasRest, SendRest, AnsweredRest, MinedRest, RevertsRest
<1>2. CASE OthersCreate \/ \E id \in 0..Len(matches) - 1 : OthersJoin(id)
  BY <1>2, OthersRest
<1>3. CASE DripLands
  BY <1>3 DEF DripLands, LobbyChainVars, LobbyRest, WalletFits, CallsNumbered
<1>4. CASE OpenCreateModal \/ CloseCreateModal \/ TurnPage \/ LeaveLobby \/ OpenLobby \/ BalanceRead
           \/ refresh \/ fetchGame \/ fetchFails
  BY <1>4, ButtonRest, OpenRest, RefreshRest
<1>5. CASE UNCHANGED lobbyVars
  BY <1>5 DEF lobbyVars, LobbyRest, WalletFits, CallsNumbered
<1> QED BY <1>1, <1>2, <1>3, <1>4, <1>5 DEF LobbyOp

LEMMA LobbyIsTyped == LobbyInv /\ LobbyRest => LobbyTypeOK
<1> SUFFICES ASSUME LobbyInv, LobbyRest PROVE LobbyTypeOK
  OBVIOUS
<1>1. /\ lobby \in LobbyPage /\ lobby.scan \in Scan /\ lobby.listed \in Seq(Nat)
      /\ Existing(lobby.listed, Len(matches)) /\ Existing(lobby.scan.found, Len(matches))
      /\ lobby.scan.found \in Seq(Nat) /\ Len(matches) \in Nat
      /\ lobby.scan # NoScan => lobby.scan.next \in 0..Len(matches) - 1 /\ lobby.scan.last \in Nat
  BY PageFacts
<1>2. Len(matches) <= LobbyGames /\ ListsFit(lobby)
  BY DEF LobbyRest
<1>3. ASSUME NEW list \in Seq(Nat), Existing(list, Len(matches)) PROVE list \in Seq(GameIdsHere)
  <2>1. list \in [1..Len(list) -> Nat] /\ Len(list) \in Nat
    BY LenProperties
  <2>2. \A i \in 1..Len(list) : list[i] \in GameIdsHere
    BY <1>1, <1>2, <1>3, <2>1, LobbyAssumption DEF Existing, GameIdsHere
  <2>3. list \in [1..Len(list) -> GameIdsHere]
    BY <2>1, <2>2
  <2> QED BY <2>1, <2>3
<1>4. {lobby.listed, lobby.scan.found} \subseteq Seq(GameIdsHere)
  BY <1>1, <1>3
<1>5. lobby.currentPage \in 1..LobbyGames
  BY <1>1, <1>2, LobbyAssumption DEF LobbyPage, ListsFit
<1>6. {lobby.scan.next, lobby.scan.last} \subseteq GameIdsHere \cup {NoGame}
  <2>1. CASE lobby.scan = NoScan
    BY <2>1 DEF NoScan
  <2>2. CASE lobby.scan # NoScan
    BY <1>1, <1>2, <2>2, LobbyAssumption DEF ListsFit, GameIdsHere
  <2> QED BY <2>1, <2>2
<1>7. lobby.route \in {"lobby", "elsewhere"} /\ {lobby.pending, lobby.modal, lobby.enough} \subseteq BOOLEAN
  BY <1>1 DEF LobbyPage
<1>8. matches \in Seq([creator: {"me", "other"}, joiner: {"me", "other", "nobody"}])
  BY DEF LobbyInv, Match
<1>9. /\ walletTier \in {"smart", "minipay", "eoa"} /\ {fuel, drip} \subseteq BOOLEAN
      /\ purse \in 0..FirstPurse /\ allowance \in 0..FirstPurse
  BY DEF LobbyRest, WalletFits
<1> QED BY <1>4, <1>5, <1>6, <1>7, <1>8, <1>9 DEF LobbyTypeOK, LobbyInv, LobbyCallsTyped, LobbyRest

(* The lobby's state keeps its type: the pager never leaves the list there *)
(* can be, no wager is paid that the player has not got, and a game that   *)
(* is accounted for exists.                                                *)
THEOREM LobbyStaysTyped == LobbySpec => []LobbyTypeOK
<1>1. LobbyInit => LobbyInv /\ LobbyRest
  BY LobbyInitInv, LobbyInitRest
<1>2. LobbyInv /\ LobbyRest /\ [LobbyOp]_lobbyVars => (LobbyInv /\ LobbyRest)'
  BY LobbyNextInv, LobbyNextRest
<1>3. LobbyInv /\ LobbyRest => LobbyTypeOK
  BY LobbyIsTyped
<1> QED BY <1>1, <1>2, <1>3, PTL DEF LobbySpec

-----------------------------------------------------------------------------
(* The training game *)

Fens == Seq(TrainMoves)
TrainJobs == [kind: {"warm", "before", "post", "pre"}, fen: Fens, beat: Beats \cup {NoLine}]
BeatRecord == [stage: {"waiting", "rested"}, mode: {"guided", "match"}, pre: Fens, moved: Fens,
               post: Fens \cup {Awaited, NoResult}, kind: {"reply", "enrich"}]

GameTyped ==
  /\ boot \in {"none", "booting", "ready", "failed"} /\ queue \in Seq(TrainJobs)
  /\ board \in Fens /\ preFen \in Fens /\ evalBefore \in Fens
  /\ pendingMove \in Fens \cup {NoLine} /\ mode \in {"guided", "match"}
  /\ beats \in [Beats -> BeatRecord \cup {NoBeat}] /\ trainQuiet \in BOOLEAN

(* One search at a time: the worker has been told the position of the job  *)
(* at the head of the queue, whose promise the next answer resolves.       *)
OneSearch(state, jobs, job, positions) ==
  \/ job = NoJob /\ positions = <<>>
  \/ jobs # <<>> /\ job = Head(jobs) /\ positions = <<Head(jobs).fen>> /\ state = "ready"

(* A job that a continuation waits for, which has not had an answer yet.   *)
JobGood(job, all) ==
  IF job.kind \in {"warm", "before"} THEN job.beat = NoLine
  ELSE /\ job.beat \in Beats /\ all[job.beat] # NoBeat /\ all[job.beat].post = Awaited
       /\ job.kind = (IF all[job.beat].kind = "reply" THEN "post" ELSE "pre")
       /\ job.kind = "post" => job.fen = all[job.beat].moved

QueueGood(jobs, all) ==
  /\ \A i \in 1..Len(jobs) : JobGood(jobs[i], all)
  /\ \A i, j \in 1..Len(jobs) : jobs[i].beat = jobs[j].beat /\ jobs[i].beat # NoLine => i = j

(* The position whose evaluation the learner's next move is judged by:     *)
(* that of the last evaluation asked for, or the one that is there.        *)
NoBefore(jobs, from) == \A i \in from..Len(jobs) : jobs[i].kind # "before"
Known(jobs, eval, fen) ==
  \E i \in 0..Len(jobs) :
    NoBefore(jobs, i + 1) /\ IF i = 0 THEN eval = fen ELSE jobs[i].kind = "before" /\ jobs[i].fen = fen

Answering(all) == {b \in Beats : all[b] # NoBeat /\ all[b].kind = "reply"}
Answered(post) == post \notin {Awaited, NoResult}

(* It is the learner's turn in every position he comes back to, and the    *)
(* coach's in those he has to answer.                                      *)
TurnsFit ==
  /\ WhiteToMove(preFen) /\ (trainPhase = "learner" => WhiteToMove(board))
  /\ pendingMove # NoLine => ~WhiteToMove(pendingMove)
  /\ \A b \in Beats : beats[b] # NoBeat => ~WhiteToMove(beats[b].moved)
  /\ trainPhase = "intercept" => pendingMove # NoLine /\ note \in {NoNote, pendingMove}

(* No position is evaluated after the learner's move.                      *)
PostIsLast(jobs) == \A i \in 1..Len(jobs) : jobs[i].kind = "post" => NoBefore(jobs, i + 1)

ReplyGood(beat, phase, before, jobs) ==
  /\ phase = "thinking" /\ beat.pre = before
  /\ Answered(beat.post) => beat.post = beat.moved /\ NoBefore(jobs, 1)

JudgesThisMove ==
  trainQuiet =>
    /\ \A b \in Answering(beats) : ReplyGood(beats[b], trainPhase, preFen, queue) /\ \A a \in Answering(beats) : a = b
    /\ PostIsLast(queue)
    /\ boot # "failed" => /\ trainPhase = "learner" => Known(queue, evalBefore, board)
                          /\ trainPhase \in {"thinking", "intercept"} => Known(queue, evalBefore, preFen)

TrainGameInv ==
  /\ GameTyped /\ OneSearch(boot, queue, resolver, told) /\ QueueGood(queue, beats)
  /\ TurnsFit /\ JudgesThisMove
  /\ boot # "ready" => \A b \in Beats : beats[b] # NoBeat => ~Answered(beats[b].post)
  /\ boot = "none" => trainPhase = "learner" /\ board = <<>> /\ \A b \in Beats : beats[b] = NoBeat

-----------------------------------------------------------------------------
LEMMA MarkersAreNoMoves ==
  /\ NoLine \notin Fens /\ NoNote \notin Fens /\ Awaited \notin Fens /\ NoResult \notin Fens
  /\ Awaited # NoResult /\ NoLine \notin Beats
<1>1. ASSUME NEW s, <<s>> \in Seq(TrainMoves)
      PROVE  s \in TrainMoves
  <2>1. <<s>>[1] = s /\ 1 \in 1..Len(<<s>>)
    OBVIOUS
  <2> QED
    BY <1>1, <2>1, ElementOfSeq
<1>2. Awaited # NoResult
  <2>1. Awaited[1] = "awaited" /\ NoResult[1] = "null"
    BY DEF Awaited, NoResult
  <2> QED
    BY <2>1
<1> QED
  BY <1>1, <1>2, MarkersAssumption DEF Fens, NoLine, NoNote, Awaited, NoResult

LEMMA TurnChanges ==
  ASSUME NEW fen \in Fens, NEW move \in TrainMoves
  PROVE  Append(fen, move) \in Fens /\ (WhiteToMove(Append(fen, move)) <=> ~WhiteToMove(fen))
<1>1. Append(fen, move) \in Fens /\ Len(Append(fen, move)) = Len(fen) + 1 /\ Len(fen) \in Nat
  BY AppendProperties DEF Fens
<1> QED
  BY <1>1 DEF WhiteToMove

LEMMA Beaten ==
  ASSUME NEW beat \in BeatRecord
  PROVE  /\ beat # NoBeat /\ beat.pre \in Fens /\ beat.moved \in Fens /\ beat.post \in Fens \cup {Awaited, NoResult}
         /\ beat.stage \in {"waiting", "rested"} /\ beat.kind \in {"reply", "enrich"} /\ beat.mode \in {"guided", "match"}
<1>1. beat.stage # NoBeat.stage
  BY DEF BeatRecord, NoBeat
<1> QED
  BY <1>1 DEF BeatRecord

LEMMA TailIs ==
  ASSUME NEW jobs \in Seq(TrainJobs), jobs # <<>>
  PROVE  /\ Tail(jobs) \in Seq(TrainJobs) /\ Len(Tail(jobs)) = Len(jobs) - 1 /\ Len(jobs) \in Nat \ {0}
         /\ Head(jobs) = jobs[1] /\ jobs[1] \in TrainJobs
         /\ \A i \in 1..Len(jobs) - 1 : Tail(jobs)[i] = jobs[i + 1]
BY HeadTailProperties, EmptySeq, ElementOfSeq

LEMMA AddsOne ==
  ASSUME NEW jobs \in Seq(TrainJobs), NEW job \in TrainJobs
  PROVE  /\ jobs \o <<job>> \in Seq(TrainJobs) /\ Len(jobs \o <<job>>) = Len(jobs) + 1 /\ Len(jobs) \in Nat
         /\ \A i \in 1..Len(jobs) : (jobs \o <<job>>)[i] = jobs[i]
         /\ (jobs \o <<job>>)[Len(jobs) + 1] = job
OBVIOUS

LEMMA AddsTwo ==
  ASSUME NEW jobs \in Seq(TrainJobs), NEW a \in TrainJobs, NEW b \in TrainJobs
  PROVE  jobs \in Seq(TrainJobs) /\ jobs \o <<a, b>> = (jobs \o <<a>>) \o <<b>>
<1> DEFINE two == <<a, b>>
           left == jobs \o two
           one == jobs \o <<a>>
           right == one \o <<b>>
           n == Len(jobs)
<1>1. two \in Seq(TrainJobs) /\ Len(two) = 2 /\ two[1] = a /\ two[2] = b /\ n \in Nat
  OBVIOUS
<1>2. /\ one \in Seq(TrainJobs) /\ Len(one) = n + 1 /\ one[n + 1] = a
      /\ \A i \in 1..n : one[i] = jobs[i]
  BY AddsOne
<1> HIDE DEF two, one
<1>3. /\ left \in Seq(TrainJobs) /\ Len(left) = n + 2
      /\ \A i \in 1..n + 2 : left[i] = IF i <= n THEN jobs[i] ELSE two[i - n]
  BY <1>1, ConcatProperties, SMTT(30)
<1>4. /\ right \in Seq(TrainJobs) /\ Len(right) = n + 2 /\ right[n + 2] = b
      /\ \A i \in 1..n + 1 : right[i] = one[i]
  <2>1. /\ right \in Seq(TrainJobs) /\ Len(right) = (n + 1) + 1 /\ right[(n + 1) + 1] = b
        /\ \A i \in 1..n + 1 : right[i] = one[i]
    BY <1>2, AddsOne
  <2> QED
    BY <1>1, <2>1
<1> HIDE DEF left, right
<1> HIDE DEF n
<1>5. ASSUME NEW i \in 1..n + 2
      PROVE  left[i] = right[i]
  <2>1. CASE i \in 1..n
    BY <1>1, <1>2, <1>3, <1>4, <2>1
  <2>2. CASE i = n + 1
    <3>1. i - n = 1 /\ ~(i <= n)
      BY <1>1, <2>2
    <3> QED
      BY <1>1, <1>2, <1>3, <1>4, <2>2, <3>1
  <2>3. CASE i = n + 2
    <3>1. i - n = 2 /\ ~(i <= n)
      BY <1>1, <2>3
    <3> QED
      BY <1>1, <1>3, <1>4, <2>3, <3>1
  <2> QED
    BY <1>1, <2>1, <2>2, <2>3
<1> QED
  BY <1>3, <1>4, <1>5, SeqEqual DEF left, right, two, one

LEMMA AnalyzeAdds ==
  ASSUME NEW jobs \in Seq(TrainJobs), NEW job \in TrainJobs, NEW fen, NEW eval, NEW all
  PROVE  /\ Known(jobs, eval, fen) /\ job.kind # "before" => Known(jobs \o <<job>>, eval, fen)
         /\ job.kind = "before" /\ job.fen = fen => Known(jobs \o <<job>>, eval, fen)
         /\ NoBefore(jobs, 1) /\ job.kind # "before" => NoBefore(jobs \o <<job>>, 1)
         /\ PostIsLast(jobs) /\ job.kind # "before" => PostIsLast(jobs \o <<job>>)
         /\ (\A i \in 1..Len(jobs) : jobs[i].kind # "post") => PostIsLast(jobs \o <<job>>)
         /\ QueueGood(jobs, all) /\ JobGood(job, all) /\ (job.beat = NoLine \/ \A i \in 1..Len(jobs) : jobs[i].beat # job.beat)
              => QueueGood(jobs \o <<job>>, all)
         /\ \A state, resolving, positions :
              OneSearch(state, jobs, resolving, positions) => OneSearch(state, jobs \o <<job>>, resolving, positions)
<1> DEFINE more == jobs \o <<job>>
           n == Len(jobs)
<1>1. /\ more \in Seq(TrainJobs) /\ Len(more) = n + 1 /\ n \in Nat /\ more[n + 1] = job
      /\ \A i \in 1..n : more[i] = jobs[i]
  BY AddsOne
<1>2. jobs # <<>> => Head(more) = Head(jobs) /\ more # <<>>
  <2> HIDE DEF more
  <2>1. jobs # <<>> => n # 0
    BY EmptySeq
  <2>2. more # <<>>
    BY <1>1, EmptySeq
  <2> QED
    BY <1>1, <2>1, <2>2, TailIs
<1> HIDE DEF more
<1>3. ASSUME Known(jobs, eval, fen), job.kind # "before"
      PROVE  Known(more, eval, fen)
  <2>1. PICK i \in 0..n : NoBefore(jobs, i + 1) /\ IF i = 0 THEN eval = fen ELSE jobs[i].kind = "before" /\ jobs[i].fen = fen
    BY <1>3 DEF Known
  <2>2. NoBefore(more, i + 1)
    BY <1>1, <1>3, <2>1 DEF NoBefore
  <2>3. i \in 0..Len(more) /\ (i # 0 => more[i] = jobs[i])
    BY <1>1, <2>1
  <2> QED
    BY <2>1, <2>2, <2>3 DEF Known
<1>4. ASSUME job.kind = "before", job.fen = fen
      PROVE  Known(more, eval, fen)
  <2>1. NoBefore(more, (n + 1) + 1) /\ n + 1 \in 0..Len(more) /\ n + 1 # 0
    BY <1>1 DEF NoBefore
  <2> QED
    BY <1>1, <1>4, <2>1 DEF Known
<1>5. NoBefore(jobs, 1) /\ job.kind # "before" => NoBefore(more, 1)
  BY <1>1 DEF NoBefore
<1>6. ASSUME PostIsLast(jobs), job.kind # "before"
      PROVE  PostIsLast(more)
  BY <1>1, <1>6 DEF PostIsLast, NoBefore
<1>7. ASSUME \A i \in 1..n : jobs[i].kind # "post"
      PROVE  PostIsLast(more)
  BY <1>1, <1>7 DEF PostIsLast, NoBefore
<1>8. ASSUME QueueGood(jobs, all), JobGood(job, all), job.beat = NoLine \/ \A i \in 1..n : jobs[i].beat # job.beat
      PROVE  QueueGood(more, all)
  <2>1. \A i \in 1..Len(more) : JobGood(more[i], all)
    BY <1>1, <1>8 DEF QueueGood
  <2>2. ASSUME NEW i \in 1..Len(more), NEW j \in 1..Len(more), more[i].beat = more[j].beat, more[i].beat # NoLine
        PROVE  i = j
    <3>1. CASE i \in 1..n /\ j \in 1..n
      BY <1>1, <1>8, <2>2, <3>1 DEF QueueGood
    <3>2. CASE i = n + 1 /\ j \in 1..n
      BY <1>1, <1>8, <2>2, <3>2
    <3>3. CASE j = n + 1 /\ i \in 1..n
      BY <1>1, <1>8, <2>2, <3>3
    <3> QED
      BY <1>1, <2>2, <3>1, <3>2, <3>3
  <2> QED
    BY <2>1, <2>2 DEF QueueGood
<1>9. ASSUME NEW state, NEW resolving, NEW positions, OneSearch(state, jobs, resolving, positions)
      PROVE  OneSearch(state, more, resolving, positions)
  BY <1>2, <1>9 DEF OneSearch
<1> QED
  BY <1>3, <1>4, <1>5, <1>6, <1>7, <1>8, <1>9 DEF more

(* What is left of the queue when the job at its head has been answered.   *)
LEMMA AnswerRemoves ==
  ASSUME NEW jobs \in Seq(TrainJobs), jobs # <<>>, NEW eval, NEW fen
  PROVE  /\ Known(jobs, eval, fen) =>
              Known(Tail(jobs), IF jobs[1].kind = "before" THEN jobs[1].fen ELSE eval, fen)
         /\ NoBefore(jobs, 1) => NoBefore(Tail(jobs), 1)
         /\ NoBefore(jobs, 2) => NoBefore(Tail(jobs), 1)
         /\ PostIsLast(jobs) => PostIsLast(Tail(jobs))
<1> DEFINE rest == Tail(jobs)
           n == Len(jobs)
<1>1. /\ Len(rest) = n - 1 /\ n \in Nat \ {0}
      /\ \A i \in 1..n - 1 : rest[i] = jobs[i + 1]
  BY TailIs
<1> HIDE DEF rest, n
<1>2. ASSUME NEW from \in Nat \ {0}, NoBefore(jobs, from + 1)
      PROVE  NoBefore(rest, from)
  <2> SUFFICES ASSUME NEW i \in from..Len(rest) PROVE rest[i].kind # "before"
    BY DEF NoBefore
  <2>1. i + 1 \in from + 1..Len(jobs) /\ i \in 1..n - 1
    BY <1>1 DEF n
  <2> QED
    BY <1>1, <1>2, <2>1 DEF NoBefore
<1>3. ASSUME Known(jobs, eval, fen)
      PROVE  Known(rest, IF jobs[1].kind = "before" THEN jobs[1].fen ELSE eval, fen)
  <2>1. PICK i \in 0..n : NoBefore(jobs, i + 1) /\ IF i = 0 THEN eval = fen ELSE jobs[i].kind = "before" /\ jobs[i].fen = fen
    BY <1>3 DEF Known, n
  <2>2. CASE i = 0
    <3>1. NoBefore(jobs, 1) /\ NoBefore(jobs, 2) /\ jobs[1].kind # "before"
      BY <1>1, <2>1, <2>2 DEF NoBefore, n
    <3>2. NoBefore(rest, 0 + 1) /\ 0 \in 0..Len(rest)
      BY <1>1, <1>2, <3>1
    <3> QED
      BY <2>1, <2>2, <3>1, <3>2 DEF Known
  <2>3. CASE i = 1
    <3>1. NoBefore(rest, 0 + 1) /\ 0 \in 0..Len(rest)
      BY <1>1, <1>2, <2>1, <2>3
    <3> QED
      BY <2>1, <2>3, <3>1 DEF Known
  <2>4. CASE i >= 2
    <3>1. NoBefore(rest, (i - 1) + 1) /\ i - 1 \in 0..Len(rest) /\ i - 1 # 0 /\ rest[i - 1] = jobs[i]
      <4>1. i \in Nat \ {0} /\ i - 1 \in 1..n - 1 /\ (i - 1) + 1 = i
        BY <2>1, <2>4, <1>1
      <4> QED
        BY <1>1, <1>2, <2>1, <4>1
    <3> QED
      BY <2>1, <2>4, <3>1 DEF Known
  <2> QED
    BY <1>1, <2>1, <2>2, <2>3, <2>4
<1>4. NoBefore(jobs, 2) => NoBefore(rest, 1)
  BY <1>2
<1>5. NoBefore(jobs, 1) => NoBefore(jobs, 2)
  BY <1>1 DEF NoBefore, n
<1>6. ASSUME PostIsLast(jobs)
      PROVE  PostIsLast(rest)
  <2> SUFFICES ASSUME NEW i \in 1..Len(rest), rest[i].kind = "post" PROVE NoBefore(rest, i + 1)
    BY DEF PostIsLast
  <2>1. i + 1 \in 1..n /\ rest[i] = jobs[i + 1] /\ i + 1 \in Nat \ {0}
    BY <1>1
  <2>2. NoBefore(jobs, (i + 1) + 1)
    BY <1>6, <2>1 DEF PostIsLast, n
  <2> QED
    BY <1>2, <2>1, <2>2
<1> QED
  BY <1>3, <1>4, <1>5, <1>6 DEF rest

LEMMA KnownAtLast ==
  ASSUME NEW jobs \in Seq(TrainJobs), NEW eval, NEW fen, Known(jobs, eval, fen), NoBefore(jobs, 1)
  PROVE  eval = fen
<1>1. PICK i \in 0..Len(jobs) : NoBefore(jobs, i + 1) /\ IF i = 0 THEN eval = fen ELSE jobs[i].kind = "before" /\ jobs[i].fen = fen
  BY DEF Known
<1>2. i = 0
  <2> SUFFICES ASSUME i # 0 PROVE FALSE
    OBVIOUS
  <2>1. i \in 1..Len(jobs)
    OBVIOUS
  <2> QED
    BY <1>1, <2>1 DEF NoBefore
<1> QED
  BY <1>1, <1>2

-----------------------------------------------------------------------------
LEMMA NotAsked ==
  ASSUME NEW jobs, NEW all, QueueGood(jobs, all), NEW b \in Beats, all[b] = NoBeat \/ all[b].post # Awaited
  PROVE  \A i \in 1..Len(jobs) : jobs[i].beat # b
BY MarkersAreNoMoves DEF QueueGood, JobGood

LEMMA OtherBeats ==
  ASSUME NEW jobs, NEW all, NEW next, QueueGood(jobs, all),
         \A i \in 1..Len(jobs) : LET b == jobs[i].beat
                                 IN  b \in Beats /\ all[b] # NoBeat =>
                                       /\ next[b] # NoBeat /\ next[b].post = all[b].post
                                       /\ next[b].kind = all[b].kind /\ next[b].moved = all[b].moved
  PROVE  QueueGood(jobs, next)
<1>1. ASSUME NEW i \in 1..Len(jobs)
      PROVE  JobGood(jobs[i], next)
  BY DEF QueueGood, JobGood
<1> QED
  BY <1>1 DEF QueueGood

LEMMA NewBeat ==
  ASSUME GameTyped, NEW b \in Beats, NEW next \in BeatRecord \cup {NoBeat}, beats' = [beats EXCEPT ![b] = next]
  PROVE  /\ beats' \in [Beats -> BeatRecord \cup {NoBeat}] /\ beats'[b] = next
         /\ \A a \in Beats : a # b => beats'[a] = beats[a]
BY DEF GameTyped

(* Which button is there tells the phase.                                  *)
LEMMA Pressed ==
  /\ "board" \in TrainGameScreen => trainPhase = "learner"
  /\ "take it back" \in TrainGameScreen \/ "play it anyway" \in TrainGameScreen => trainPhase = "intercept"
BY DEF TrainGameScreen

(* While the coach is not thinking no move waits for its judgement.        *)
LEMMA NothingWaits ==
  ASSUME TrainGameInv, trainQuiet, trainPhase # "thinking"
  PROVE  Answering(beats) = {} /\ \A i \in 1..Len(queue) : queue[i].kind # "post"
<1>1. Answering(beats) = {}
  BY DEF TrainGameInv, JudgesThisMove, ReplyGood
<1>2. ASSUME NEW i \in 1..Len(queue), queue[i].kind = "post"
      PROVE  FALSE
  <2>1. JobGood(queue[i], beats)
    BY DEF TrainGameInv, QueueGood
  <2>2. queue[i].beat \in Beats /\ beats[queue[i].beat] # NoBeat /\ beats[queue[i].beat].kind = "reply"
    BY <1>2, <2>1 DEF JobGood
  <2> QED
    BY <1>1, <2>2 DEF Answering
<1> QED
  BY <1>1, <1>2

LEMMA JobIs ==
  ASSUME NEW kind \in {"warm", "before", "post", "pre"}, NEW fen \in Fens, NEW b \in Beats \cup {NoLine}
  PROVE  /\ Job(kind, fen, b) \in TrainJobs /\ Job(kind, fen, b).kind = kind /\ Job(kind, fen, b).fen = fen
         /\ Job(kind, fen, b).beat = b
BY DEF Job, TrainJobs

LEMMA MountKeeps ==
  ASSUME TrainGameInv, MountGame
  PROVE  TrainGameInv'
<1> DEFINE warm == Job("warm", <<>>, NoLine)
           before == Job("before", <<>>, NoLine)
<1>1. GameTyped /\ boot = "none" /\ trainPhase = "learner" /\ board = <<>> /\ \A b \in Beats : beats[b] = NoBeat
  BY DEF TrainGameInv, MountGame
<1>2. UNCHANGED gameVars /\ UNCHANGED <<resolver, told>> /\ queue' = queue \o <<warm, before>> /\ boot' = "booting"
  BY <1>1 DEF MountGame, analyze
<1>3. /\ warm \in TrainJobs /\ warm.kind = "warm" /\ warm.beat = NoLine
      /\ before \in TrainJobs /\ before.kind = "before" /\ before.beat = NoLine /\ before.fen = <<>>
  <2>1. <<>> \in Fens
    BY DEF Fens
  <2> QED
    BY <2>1, JobIs
<1> HIDE DEF warm, before
<1>4. queue \in Seq(TrainJobs) /\ queue \o <<warm, before>> = (queue \o <<warm>>) \o <<before>>
  BY <1>1, <1>3, AddsTwo DEF GameTyped
<1> DEFINE first == queue \o <<warm>>
<1>5. first \in Seq(TrainJobs)
  BY <1>3, <1>4, AddsOne
<1>6. JobGood(warm, beats) /\ JobGood(before, beats)
  BY <1>3 DEF JobGood
<1>7. QueueGood(first, beats) /\ OneSearch(boot, first, resolver, told)
  BY <1>3, <1>4, <1>6, AnalyzeAdds DEF TrainGameInv
<1>8. \A i \in 1..Len(queue) : queue[i].kind # "post"
  <2> SUFFICES ASSUME NEW i \in 1..Len(queue), queue[i].kind = "post" PROVE FALSE
    OBVIOUS
  <2>1. JobGood(queue[i], beats)
    BY DEF TrainGameInv, QueueGood
  <2> QED
    BY <1>1, <2>1 DEF JobGood
<1>9. \A i \in 1..Len(first) : first[i].kind # "post"
  <2>1. /\ Len(first) = Len(queue) + 1 /\ Len(queue) \in Nat /\ first[Len(queue) + 1] = warm
        /\ \A i \in 1..Len(queue) : first[i] = queue[i]
    BY <1>3, <1>4, AddsOne
  <2> QED
    BY <1>3, <1>8, <2>1
<1> HIDE DEF first
<1>10. queue' = first \o <<before>>
  BY <1>2, <1>4 DEF first
<1>11. /\ queue' \in Seq(TrainJobs) /\ QueueGood(queue', beats) /\ OneSearch(boot, queue', resolver, told)
       /\ Known(queue', evalBefore, <<>>) /\ PostIsLast(queue')
  BY <1>3, <1>5, <1>6, <1>7, <1>9, <1>10, AnalyzeAdds, AddsOne
<1>12. GameTyped'
  BY <1>1, <1>2, <1>11 DEF GameTyped, gameVars
<1>13. OneSearch(boot', queue', resolver', told')
  BY <1>1, <1>2, <1>11 DEF OneSearch
<1>14. TurnsFit'
  BY <1>2 DEF TrainGameInv, TurnsFit, gameVars
<1>15. beats' = beats /\ board' = board /\ evalBefore' = evalBefore /\ trainPhase' = trainPhase
  BY <1>2 DEF gameVars
<1>16. JudgesThisMove'
  BY <1>1, <1>11, <1>15 DEF JudgesThisMove, Answering
<1> QED
  BY <1>1, <1>2, <1>11, <1>12, <1>13, <1>14, <1>15, <1>16 DEF TrainGameInv

LEMMA MoveKeeps ==
  ASSUME TrainGameInv, NEW move \in TrainMoves, NEW b \in Beats, onMove(move, b)
  PROVE  TrainGameInv'
<1> DEFINE moved == Append(board, move)
<1>1. GameTyped /\ trainPhase = "learner" /\ boot # "none" /\ WhiteToMove(board) /\ board \in Fens
  BY Pressed DEF TrainGameInv, onMove, TurnsFit, GameTyped
<1>2. moved \in Fens /\ ~WhiteToMove(moved)
  BY <1>1, TurnChanges
<1>3. UNCHANGED <<mode, pendingMove, evalBefore, blunders, trainQuiet>> /\ preFen' = board /\ board' = moved
  BY DEF onMove
<1>4. trainQuiet => Answering(beats) = {} /\ \A i \in 1..Len(queue) : queue[i].kind # "post"
  BY <1>1, NothingWaits
<1> HIDE DEF moved
<1>5. CASE trainPhase' = "over" /\ UNCHANGED <<engineVars, beats>>
  <2>1. GameTyped'
    BY <1>1, <1>2, <1>3, <1>5 DEF GameTyped, engineVars
  <2>2. TurnsFit'
    BY <1>1, <1>3, <1>5 DEF TrainGameInv, TurnsFit
  <2>3. JudgesThisMove'
    BY <1>3, <1>4, <1>5 DEF TrainGameInv, JudgesThisMove, engineVars
  <2> QED
    BY <1>1, <1>5, <2>1, <2>2, <2>3 DEF TrainGameInv, engineVars
<1> DEFINE next == [stage |-> "waiting", mode |-> mode, pre |-> board, moved |-> moved,
                    post |-> IF mode = "guided" THEN Awaited ELSE NoResult, kind |-> "reply"]
<1>6. next \in BeatRecord /\ next.pre = board /\ next.moved = moved /\ next.kind = "reply" /\ ~Answered(next.post)
        /\ next.post = (IF mode = "guided" THEN Awaited ELSE NoResult)
  BY <1>1, <1>2 DEF BeatRecord, GameTyped, Answered
<1> HIDE DEF next
<1>7. CASE /\ beats[b] = NoBeat /\ trainPhase' = "thinking" /\ note' = NoNote
           /\ beats' = [beats EXCEPT ![b] = next]
           /\ IF mode = "guided" THEN analyze(<<Job("post", moved, b)>>) ELSE UNCHANGED engineVars
  <2>1. /\ beats' \in [Beats -> BeatRecord \cup {NoBeat}] /\ beats'[b] = next
        /\ \A a \in Beats : a # b => beats'[a] = beats[a]
    BY <1>1, <1>6, <1>7, NewBeat
  <2>2. beats'[b] # NoBeat
    BY <1>6, <2>1, Beaten
  <2>3. \A i \in 1..Len(queue) : queue[i].beat # b
    BY <1>7, NotAsked DEF TrainGameInv
  <2>4. QueueGood(queue, beats')
    <3>1. \A i \in 1..Len(queue) : queue[i].beat \in Beats => beats'[queue[i].beat] = beats[queue[i].beat]
      BY <2>1, <2>3
    <3> QED
      BY <3>1, OtherBeats DEF TrainGameInv
  <2>5. queue \in Seq(TrainJobs)
    BY <1>1 DEF GameTyped
  <2>6. /\ queue' \in Seq(TrainJobs) /\ QueueGood(queue', beats') /\ OneSearch(boot, queue', resolver, told)
        /\ trainQuiet => PostIsLast(queue')
        /\ \A fen : Known(queue, evalBefore, fen) => Known(queue', evalBefore, fen)
        /\ UNCHANGED <<boot, resolver, told>>
    <3>1. CASE mode = "guided"
      <4> DEFINE job == Job("post", moved, b)
      <4>1. job \in TrainJobs /\ job.kind = "post" /\ job.fen = moved /\ job.beat = b
        BY <1>2, JobIs
      <4>2. queue' = queue \o <<job>> /\ UNCHANGED <<boot, resolver, told>>
        BY <1>1, <1>7, <3>1 DEF analyze
      <4> HIDE DEF job
      <4>3. JobGood(job, beats')
        BY <1>6, <2>1, <2>2, <3>1, <4>1 DEF JobGood
      <4>4. QueueGood(queue', beats')
        BY <2>3, <2>4, <2>5, <4>1, <4>2, <4>3, AnalyzeAdds
      <4>5. OneSearch(boot, queue', resolver, told)
        BY <2>5, <4>1, <4>2, AnalyzeAdds DEF TrainGameInv
      <4>6. trainQuiet => PostIsLast(queue')
        BY <1>4, <2>5, <4>1, <4>2, AnalyzeAdds
      <4>7. \A fen : Known(queue, evalBefore, fen) => Known(queue', evalBefore, fen)
        BY <2>5, <4>1, <4>2, AnalyzeAdds
      <4> QED
        BY <2>5, <4>1, <4>2, <4>4, <4>5, <4>6, <4>7, AddsOne
    <3>2. CASE mode # "guided"
      BY <1>7, <2>4, <2>5, <3>2 DEF TrainGameInv, JudgesThisMove, engineVars
    <3> QED
      BY <3>1, <3>2
  <2>7. GameTyped'
    BY <1>1, <1>2, <1>3, <2>1, <2>6 DEF GameTyped
  <2>8. TurnsFit'
    <3>1. \A a \in Beats : beats'[a] # NoBeat => ~WhiteToMove(beats'[a].moved)
      BY <1>2, <1>6, <2>1 DEF TrainGameInv, TurnsFit
    <3>2. pendingMove # NoLine => ~WhiteToMove(pendingMove)
      BY DEF TrainGameInv, TurnsFit
    <3> QED
      BY <1>1, <1>3, <1>7, <3>1, <3>2 DEF TurnsFit
  <2>9. JudgesThisMove'
    <3>1. ASSUME trainQuiet, NEW a \in Answering(beats')
          PROVE  a = b /\ ReplyGood(beats'[a], trainPhase', preFen', queue')
      <4>1. a = b
        BY <1>4, <2>1, <3>1 DEF Answering
      <4> QED
        BY <1>3, <1>6, <1>7, <2>1, <4>1 DEF ReplyGood
    <3>2. trainQuiet /\ boot # "failed" => Known(queue, evalBefore, board)
      BY <1>1 DEF TrainGameInv, JudgesThisMove
    <3> QED
      BY <1>3, <1>7, <2>6, <3>1, <3>2 DEF JudgesThisMove
  <2>10. boot' # "ready" => \A a \in Beats : beats'[a] # NoBeat => ~Answered(beats'[a].post)
    BY <1>6, <2>1, <2>6 DEF TrainGameInv
  <2> QED
    BY <1>1, <2>6, <2>7, <2>8, <2>9, <2>10 DEF TrainGameInv
<1> QED
  BY <1>5, <1>7 DEF onMove, endGame, moved, next

LEMMA RestKeeps ==
  ASSUME TrainGameInv, NEW b \in Beats, Rest(b)
  PROVE  TrainGameInv'
<1> DEFINE next == [beats[b] EXCEPT !.stage = "rested"]
<1>1. GameTyped /\ beats[b].stage = "waiting" /\ beats[b] \in BeatRecord \cup {NoBeat}
  BY DEF TrainGameInv, Rest, GameTyped
<1>2. beats[b] \in BeatRecord
  BY <1>1 DEF NoBeat
<1>3. /\ next \in BeatRecord /\ next.pre = beats[b].pre /\ next.moved = beats[b].moved /\ next.post = beats[b].post
      /\ next.kind = beats[b].kind
  BY <1>2 DEF BeatRecord
<1>4. beats' = [beats EXCEPT ![b] = next]
  BY DEF Rest
<1> HIDE DEF next
<1>5. /\ beats' \in [Beats -> BeatRecord \cup {NoBeat}] /\ beats'[b] = next
      /\ \A a \in Beats : a # b => beats'[a] = beats[a]
  BY <1>1, <1>3, <1>4, NewBeat
<1>6. UNCHANGED <<boot, queue, resolver, told, board, trainPhase, mode, preFen, pendingMove, evalBefore, note, trainQuiet>>
  BY DEF Rest, engineVars
<1>7. beats'[b] # NoBeat /\ beats[b] # NoBeat
  BY <1>2, <1>3, <1>5, Beaten
<1>8. QueueGood(queue, beats')
  <2>1. \A a \in Beats : beats[a] # NoBeat =>
          /\ beats'[a] # NoBeat /\ beats'[a].post = beats[a].post /\ beats'[a].kind = beats[a].kind
          /\ beats'[a].moved = beats[a].moved
    BY <1>3, <1>5, <1>7
  <2> QED
    BY <2>1, OtherBeats DEF TrainGameInv
<1>9. GameTyped'
  BY <1>1, <1>5, <1>6 DEF GameTyped
<1>10. TurnsFit'
  <2>1. \A a \in Beats : beats'[a] # NoBeat => ~WhiteToMove(beats'[a].moved)
    BY <1>3, <1>5, <1>7 DEF TrainGameInv, TurnsFit
  <2> QED
    BY <1>6, <2>1 DEF TrainGameInv, TurnsFit
<1>11. JudgesThisMove'
  <2>1. Answering(beats') = Answering(beats)
    BY <1>3, <1>5, <1>7 DEF Answering
  <2>2. \A a \in Beats : beats'[a].pre = beats[a].pre /\ beats'[a].post = beats[a].post /\ beats'[a].moved = beats[a].moved
    BY <1>3, <1>5
  <2>3. \A a \in Answering(beats) :
          ReplyGood(beats[a], trainPhase, preFen, queue) => ReplyGood(beats'[a], trainPhase, preFen, queue)
    BY <2>2 DEF ReplyGood, Answering
  <2> QED
    BY <1>6, <2>1, <2>3 DEF TrainGameInv, JudgesThisMove
<1>12. boot' # "ready" => \A a \in Beats : beats'[a] # NoBeat => ~Answered(beats'[a].post)
  BY <1>3, <1>5, <1>6, <1>7 DEF TrainGameInv
<1>13. boot # "none"
  BY <1>7 DEF TrainGameInv
<1> QED
  BY <1>6, <1>8, <1>9, <1>10, <1>11, <1>12, <1>13 DEF TrainGameInv

(* A continuation that is over changes nothing for the others.             *)
LEMMA BeatEnds ==
  ASSUME TrainGameInv, NEW b \in Beats, beats[b] # NoBeat, beats[b].post # Awaited, beats' = [beats EXCEPT ![b] = NoBeat]
  PROVE  /\ beats' \in [Beats -> BeatRecord \cup {NoBeat}] /\ QueueGood(queue, beats')
         /\ \A a \in Beats : beats'[a] # NoBeat => beats'[a] = beats[a]
         /\ Answering(beats') = Answering(beats) \ {b} /\ boot # "none"
<1>1. GameTyped
  BY DEF TrainGameInv
<1>2. /\ beats' \in [Beats -> BeatRecord \cup {NoBeat}] /\ beats'[b] = NoBeat
      /\ \A a \in Beats : a # b => beats'[a] = beats[a]
  BY <1>1, NewBeat
<1>3. QueueGood(queue, beats')
  <2>1. \A i \in 1..Len(queue) : queue[i].beat # b
    BY NotAsked DEF TrainGameInv
  <2>2. \A i \in 1..Len(queue) : queue[i].beat \in Beats => beats'[queue[i].beat] = beats[queue[i].beat]
    BY <1>2, <2>1
  <2> QED
    BY <2>2, OtherBeats DEF TrainGameInv
<1>4. Answering(beats') = Answering(beats) \ {b}
  BY <1>2 DEF Answering
<1>5. boot # "none"
  BY DEF TrainGameInv
<1> QED
  BY <1>2, <1>3, <1>4, <1>5

LEMMA CoachKeeps ==
  ASSUME TrainGameInv, NEW from \in Fens, ~WhiteToMove(from), NEW m, NEW others \in {pendingMove, NoLine},
         coachMove(from, m, others), boot # "none", UNCHANGED <<mode, trainQuiet>>,
         beats' \in [Beats -> BeatRecord \cup {NoBeat}], QueueGood(queue, beats'),
         \A a \in Beats : beats'[a] # NoBeat => beats'[a] = beats[a],
         trainQuiet => Answering(beats') = {} /\ \A i \in 1..Len(queue) : queue[i].kind # "post"
  PROVE  TrainGameInv'
<1>1. PICK move \in TrainMoves : LET reply == Append(from, move)
        IN  /\ board' = reply /\ preFen' = reply /\ pendingMove' = others
            /\ \/ trainPhase' = "over" /\ UNCHANGED <<engineVars, evalBefore>>
               \/ trainPhase' = "learner" /\ analyze(<<Job("before", reply, NoLine)>>) /\ UNCHANGED evalBefore
  BY DEF coachMove, endGame
<1> DEFINE reply == Append(from, move)
<1>2. reply \in Fens /\ WhiteToMove(reply)
  BY TurnChanges
<1> HIDE DEF reply
<1>3. /\ board' = reply /\ preFen' = reply /\ pendingMove' = others /\ evalBefore' = evalBefore
      /\ \/ trainPhase' = "over" /\ UNCHANGED engineVars
         \/ trainPhase' = "learner" /\ analyze(<<Job("before", reply, NoLine)>>)
  BY <1>1 DEF reply
<1>4. GameTyped /\ queue \in Seq(TrainJobs)
  BY DEF TrainGameInv, GameTyped
<1>5. /\ queue' \in Seq(TrainJobs) /\ QueueGood(queue', beats') /\ OneSearch(boot, queue', resolver, told)
      /\ trainQuiet => PostIsLast(queue')
      /\ trainPhase' = "learner" => Known(queue', evalBefore, reply)
      /\ UNCHANGED <<boot, resolver, told>>
  <2>1. CASE trainPhase' = "over" /\ UNCHANGED engineVars
    BY <1>4, <2>1 DEF TrainGameInv, PostIsLast, engineVars
  <2>2. CASE trainPhase' = "learner" /\ analyze(<<Job("before", reply, NoLine)>>)
    <3> DEFINE job == Job("before", reply, NoLine)
    <3>1. job \in TrainJobs /\ job.kind = "before" /\ job.fen = reply /\ job.beat = NoLine
      BY <1>2, JobIs
    <3>2. queue' = queue \o <<job>> /\ UNCHANGED <<boot, resolver, told>>
      BY <2>2 DEF analyze
    <3> HIDE DEF job
    <3>3. JobGood(job, beats')
      BY <3>1 DEF JobGood
    <3>4. QueueGood(queue', beats') /\ queue' \in Seq(TrainJobs)
      BY <1>4, <3>1, <3>2, <3>3, AnalyzeAdds, AddsOne
    <3>5. OneSearch(boot, queue', resolver, told)
      BY <1>4, <3>1, <3>2, AnalyzeAdds DEF TrainGameInv
    <3>6. trainQuiet => PostIsLast(queue')
      BY <1>4, <3>1, <3>2, AnalyzeAdds
    <3>7. Known(queue', evalBefore, reply)
      BY <1>4, <3>1, <3>2, AnalyzeAdds
    <3> QED
      BY <3>2, <3>4, <3>5, <3>6, <3>7
  <2> QED
    BY <1>3, <2>1, <2>2
<1>6. GameTyped'
  BY <1>2, <1>3, <1>4, <1>5 DEF GameTyped
<1>7. TurnsFit'
  <2>1. \A a \in Beats : beats'[a] # NoBeat => ~WhiteToMove(beats'[a].moved)
    BY DEF TrainGameInv, TurnsFit
  <2>2. others # NoLine => ~WhiteToMove(others)
    BY DEF TrainGameInv, TurnsFit
  <2> QED
    BY <1>2, <1>3, <2>1, <2>2 DEF TurnsFit
<1>8. JudgesThisMove'
  BY <1>3, <1>5 DEF JudgesThisMove
<1>9. boot' # "ready" => \A a \in Beats : beats'[a] # NoBeat => ~Answered(beats'[a].post)
  BY <1>5 DEF TrainGameInv
<1> QED
  BY <1>5, <1>6, <1>7, <1>8, <1>9 DEF TrainGameInv

LEMMA ContinueKeeps ==
  ASSUME TrainGameInv, NEW b \in Beats, Continue(b)
  PROVE  TrainGameInv'
<1> DEFINE beat == beats[b]
<1>1. GameTyped /\ beat.stage = "rested" /\ beat.kind = "reply" /\ beat.post # Awaited /\ UNCHANGED <<mode, trainQuiet>>
  BY DEF TrainGameInv, Continue
<1>2. beat \in BeatRecord /\ beat # NoBeat
  <2>1. beat \in BeatRecord \cup {NoBeat}
    BY <1>1 DEF GameTyped
  <2> QED
    BY <1>1, <2>1 DEF NoBeat
<1>3. ~WhiteToMove(beat.moved) /\ beat.moved \in Fens /\ b \in Answering(beats)
  BY <1>1, <1>2, Beaten DEF TrainGameInv, TurnsFit, Answering
<1>4. trainQuiet => Answering(beats) \ {b} = {} /\ trainPhase = "thinking"
  BY <1>3 DEF TrainGameInv, JudgesThisMove, ReplyGood
<1>5. trainQuiet => \A i \in 1..Len(queue) : queue[i].kind # "post"
  <2> SUFFICES ASSUME trainQuiet, NEW i \in 1..Len(queue), queue[i].kind = "post" PROVE FALSE
    OBVIOUS
  <2>1. JobGood(queue[i], beats)
    BY DEF TrainGameInv, QueueGood
  <2>2. queue[i].beat \in Answering(beats) /\ beats[queue[i].beat].post = Awaited
    BY <2>1 DEF JobGood, Answering
  <2> QED
    BY <1>1, <1>4, <2>2
<1>6. CASE UNCHANGED <<engineVars, board, trainPhase, preFen, pendingMove, evalBefore, note>> /\ beats' = [beats EXCEPT ![b] = NoBeat]
  <2>1. /\ beats' \in [Beats -> BeatRecord \cup {NoBeat}] /\ QueueGood(queue, beats')
        /\ \A a \in Beats : beats'[a] # NoBeat => beats'[a] = beats[a]
        /\ Answering(beats') = Answering(beats) \ {b} /\ boot # "none"
    BY <1>1, <1>2, <1>6, BeatEnds
  <2>2. UNCHANGED <<boot, queue, resolver, told, board, trainPhase, preFen, pendingMove, evalBefore, note>>
    BY <1>6 DEF engineVars
  <2>3. GameTyped'
    BY <1>1, <2>1, <2>2 DEF GameTyped
  <2>4. TurnsFit'
    BY <2>1, <2>2 DEF TrainGameInv, TurnsFit
  <2>5. JudgesThisMove'
    BY <1>1, <1>4, <2>1, <2>2 DEF TrainGameInv, JudgesThisMove
  <2>6. boot' # "ready" => \A a \in Beats : beats'[a] # NoBeat => ~Answered(beats'[a].post)
    BY <2>1, <2>2 DEF TrainGameInv
  <2> QED
    BY <2>1, <2>2, <2>3, <2>4, <2>5, <2>6 DEF TrainGameInv
<1>7. CASE /\ analyze(<<Job("pre", beat.pre, b)>>) /\ pendingMove' = beat.moved /\ note' = NoNote /\ trainPhase' = "intercept"
           /\ beats' = [beats EXCEPT ![b].kind = "enrich", ![b].post = Awaited]
           /\ UNCHANGED <<board, preFen, evalBefore>>
  <2> DEFINE next == [beat EXCEPT !.kind = "enrich", !.post = Awaited]
             job == Job("pre", beat.pre, b)
  <2>1. /\ next \in BeatRecord /\ next.kind = "enrich" /\ next.post = Awaited
        /\ next.moved = beat.moved
    BY <1>2 DEF BeatRecord
  <2>2. beats' = [beats EXCEPT ![b] = next]
    BY <1>1, <1>7 DEF GameTyped
  <2>3. job \in TrainJobs /\ job.kind = "pre" /\ job.beat = b
    BY <1>2, Beaten, JobIs
  <2> HIDE DEF next
  <2>4. /\ beats' \in [Beats -> BeatRecord \cup {NoBeat}] /\ beats'[b] = next
        /\ \A a \in Beats : a # b => beats'[a] = beats[a]
    BY <1>1, <2>1, <2>2, NewBeat
  <2>5. next # NoBeat /\ boot # "none"
    BY <1>2, <2>1, Beaten DEF TrainGameInv
  <2>6. queue' = queue \o <<job>> /\ UNCHANGED <<boot, resolver, told>> /\ queue \in Seq(TrainJobs)
    BY <1>1, <1>7, <2>5 DEF analyze, GameTyped
  <2> HIDE DEF job
  <2>7. \A i \in 1..Len(queue) : queue[i].beat # b
    BY <1>1, NotAsked DEF TrainGameInv
  <2>8. QueueGood(queue, beats')
    <3>1. \A i \in 1..Len(queue) : queue[i].beat \in Beats => beats'[queue[i].beat] = beats[queue[i].beat]
      BY <2>4, <2>7
    <3> QED
      BY <3>1, OtherBeats DEF TrainGameInv
  <2>9. JobGood(job, beats')
    BY <2>1, <2>3, <2>4, <2>5 DEF JobGood
  <2>10. QueueGood(queue', beats') /\ queue' \in Seq(TrainJobs)
    BY <2>3, <2>6, <2>7, <2>8, <2>9, AnalyzeAdds, AddsOne
  <2>11. OneSearch(boot, queue', resolver, told)
    BY <2>3, <2>6, AnalyzeAdds DEF TrainGameInv
  <2>12. \A fen : Known(queue, evalBefore, fen) => Known(queue', evalBefore, fen)
    BY <2>3, <2>6, AnalyzeAdds
  <2>13. trainQuiet => PostIsLast(queue')
    BY <1>5, <2>3, <2>6, AnalyzeAdds
  <2>14. GameTyped'
    BY <1>1, <1>3, <1>7, <2>4, <2>1, <2>6, <2>10 DEF GameTyped
  <2>15. TurnsFit'
    <3>1. beat.moved # NoLine
      BY <1>3, MarkersAreNoMoves
    <3>2. \A a \in Beats : beats'[a] # NoBeat => ~WhiteToMove(beats'[a].moved)
      BY <1>3, <2>1, <2>4 DEF TrainGameInv, TurnsFit
    <3>3. WhiteToMove(preFen)
      BY DEF TrainGameInv, TurnsFit
    <3> QED
      BY <1>3, <1>7, <3>1, <3>2, <3>3 DEF TurnsFit
  <2>16. JudgesThisMove'
    <3>1. Answering(beats') = Answering(beats) \ {b}
      BY <2>1, <2>4 DEF Answering
    <3>2. trainQuiet /\ boot # "failed" => Known(queue, evalBefore, preFen)
      BY <1>4 DEF TrainGameInv, JudgesThisMove
    <3> QED
      BY <1>1, <1>4, <1>7, <2>6, <2>12, <2>13, <3>1, <3>2 DEF JudgesThisMove
  <2>17. boot' # "ready" => \A a \in Beats : beats'[a] # NoBeat => ~Answered(beats'[a].post)
    BY <2>1, <2>4, <2>6 DEF TrainGameInv, Answered
  <2> QED
    BY <2>5, <2>6, <2>10, <2>11, <2>14, <2>15, <2>16, <2>17 DEF TrainGameInv
<1>8. CASE beats' = [beats EXCEPT ![b] = NoBeat] /\ coachMove(beat.moved, beat.mode, pendingMove)
  <2>1. /\ beats' \in [Beats -> BeatRecord \cup {NoBeat}] /\ QueueGood(queue, beats')
        /\ \A a \in Beats : beats'[a] # NoBeat => beats'[a] = beats[a]
        /\ Answering(beats') = Answering(beats) \ {b} /\ boot # "none"
    BY <1>1, <1>2, <1>8, BeatEnds
  <2> QED
    BY <1>1, <1>3, <1>4, <1>5, <1>8, <2>1, CoachKeeps
<1> QED
  BY <1>6, <1>7, <1>8 DEF Continue

LEMMA EnrichKeeps ==
  ASSUME TrainGameInv, NEW b \in Beats, Enrich(b)
  PROVE  TrainGameInv'
<1>1. /\ beats[b] # NoBeat /\ beats[b].kind = "enrich" /\ beats[b].post # Awaited /\ beats' = [beats EXCEPT ![b] = NoBeat]
      /\ note' = (IF live /\ pendingMove = beats[b].moved THEN beats[b].moved ELSE note)
      /\ UNCHANGED <<boot, queue, resolver, told, board, trainPhase, mode, preFen, pendingMove, evalBefore, trainQuiet>>
  BY DEF Enrich, engineVars
<1>2. /\ beats' \in [Beats -> BeatRecord \cup {NoBeat}] /\ QueueGood(queue, beats')
      /\ \A a \in Beats : beats'[a] # NoBeat => beats'[a] = beats[a]
      /\ Answering(beats') = Answering(beats) \ {b} /\ boot # "none"
  BY <1>1, BeatEnds
<1>3. GameTyped'
  BY <1>1, <1>2 DEF TrainGameInv, GameTyped
<1>4. TurnsFit'
  BY <1>1, <1>2 DEF TrainGameInv, TurnsFit
<1>5. JudgesThisMove'
  <2>1. \A a \in Answering(beats') : a \in Answering(beats) /\ beats'[a] = beats[a]
    BY <1>2 DEF Answering
  <2> QED
    BY <1>1, <2>1 DEF TrainGameInv, JudgesThisMove
<1>6. boot' # "ready" => \A a \in Beats : beats'[a] # NoBeat => ~Answered(beats'[a].post)
  BY <1>1, <1>2 DEF TrainGameInv
<1> QED
  BY <1>1, <1>2, <1>3, <1>4, <1>5, <1>6 DEF TrainGameInv

LEMMA TakeBackKeeps ==
  ASSUME TrainGameInv, takeBack
  PROVE  TrainGameInv'
<1>1. trainPhase = "intercept" /\ board' = preFen /\ pendingMove' = NoLine /\ trainPhase' = "learner" /\ note' = NoNote
        /\ UNCHANGED <<boot, queue, resolver, told, mode, preFen, evalBefore, beats, trainQuiet>>
  BY Pressed DEF takeBack, engineVars
<1>2. GameTyped'
  BY <1>1 DEF TrainGameInv, GameTyped
<1>3. TurnsFit'
  BY <1>1 DEF TrainGameInv, TurnsFit
<1>4. JudgesThisMove'
  <2>1. trainQuiet => Answering(beats) = {}
    BY <1>1, NothingWaits
  <2> QED
    BY <1>1, <2>1 DEF TrainGameInv, JudgesThisMove
<1> QED
  BY <1>1, <1>2, <1>3, <1>4 DEF TrainGameInv

LEMMA PlayAnywayKeeps ==
  ASSUME TrainGameInv, playAnyway
  PROVE  TrainGameInv'
<1>1. trainPhase = "intercept" /\ pendingMove # NoLine /\ boot # "none"
  BY Pressed DEF TrainGameInv, TurnsFit, playAnyway
<1>2. coachMove(pendingMove, mode, NoLine) /\ UNCHANGED <<mode, blunders, beats, trainQuiet>>
  BY <1>1 DEF playAnyway
<1>3. pendingMove \in Fens /\ ~WhiteToMove(pendingMove)
  BY <1>1 DEF TrainGameInv, GameTyped, TurnsFit
<1>4. trainQuiet => Answering(beats') = {} /\ \A i \in 1..Len(queue) : queue[i].kind # "post"
  BY <1>1, <1>2, NothingWaits
<1>5. beats' \in [Beats -> BeatRecord \cup {NoBeat}] /\ QueueGood(queue, beats')
  BY <1>2 DEF TrainGameInv, GameTyped
<1> QED
  BY <1>1, <1>2, <1>3, <1>4, <1>5, CoachKeeps

LEMMA ResetKeeps ==
  ASSUME TrainGameInv, NEW m \in {"guided", "match"}, reset(m)
  PROVE  TrainGameInv'
<1> DEFINE job == Job("before", <<>>, NoLine)
<1>1. /\ boot # "none" /\ mode' = m /\ board' = <<>> /\ preFen' = <<>> /\ evalBefore' = <<>> /\ pendingMove' = NoLine
      /\ trainPhase' = "learner" /\ note' = NoNote /\ trainQuiet' = (trainQuiet /\ trainPhase # "thinking")
      /\ beats' = beats
  BY DEF reset
<1>2. queue' = queue \o <<job>> /\ UNCHANGED <<boot, resolver, told>> /\ queue \in Seq(TrainJobs) /\ GameTyped
  BY <1>1 DEF reset, analyze, TrainGameInv, GameTyped
<1>3. <<>> \in Fens /\ WhiteToMove(<<>>)
  BY DEF Fens, WhiteToMove
<1>4. job \in TrainJobs /\ job.kind = "before" /\ job.fen = <<>> /\ job.beat = NoLine
  BY <1>3, JobIs
<1> HIDE DEF job
<1>5. trainQuiet' => Answering(beats) = {} /\ \A i \in 1..Len(queue) : queue[i].kind # "post"
  BY <1>1, NothingWaits
<1>6. QueueGood(queue', beats) /\ queue' \in Seq(TrainJobs)
  <2>1. JobGood(job, beats)
    BY <1>4 DEF JobGood
  <2> QED
    BY <1>2, <1>4, <2>1, AnalyzeAdds, AddsOne DEF TrainGameInv
<1>7. OneSearch(boot, queue', resolver, told)
  BY <1>2, <1>4, AnalyzeAdds DEF TrainGameInv
<1>8. Known(queue', evalBefore', <<>>)
  BY <1>2, <1>4, AnalyzeAdds
<1>9. trainQuiet' => PostIsLast(queue')
  BY <1>2, <1>4, <1>5, AnalyzeAdds
<1>10. GameTyped'
  BY <1>1, <1>2, <1>3, <1>6 DEF GameTyped
<1>11. TurnsFit'
  BY <1>1, <1>3 DEF TrainGameInv, TurnsFit
<1>12. JudgesThisMove'
  BY <1>1, <1>5, <1>8, <1>9 DEF JudgesThisMove
<1> QED
  BY <1>1, <1>2, <1>6, <1>7, <1>10, <1>11, <1>12 DEF TrainGameInv

LEMMA WorkerKeeps ==
  ASSUME TrainGameInv, UNCHANGED gameVars, StartSearch \/ \E ok \in BOOLEAN : WorkerBoots(ok)
  PROVE  TrainGameInv'
<1>1. queue' = queue /\ board' = board /\ trainPhase' = trainPhase /\ mode' = mode /\ preFen' = preFen /\ note' = note
        /\ pendingMove' = pendingMove /\ evalBefore' = evalBefore /\ beats' = beats /\ trainQuiet' = trainQuiet
  BY DEF gameVars, StartSearch, WorkerBoots
<1>2. boot' = boot \/ (boot = "booting" /\ boot' \in {"ready", "failed"})
  BY DEF StartSearch, WorkerBoots
<1>3. OneSearch(boot', queue, resolver', told')
  <2>1. CASE StartSearch
    <3>1. boot = "ready" /\ queue # <<>> /\ resolver = NoJob /\ resolver' = Head(queue) /\ told' = Append(told, Head(queue).fen)
            /\ boot' = boot
      BY <2>1 DEF StartSearch
    <3>2. Head(queue) \in TrainJobs
      BY <3>1, TailIs DEF TrainGameInv, GameTyped
    <3>3. told = <<>>
      <4>1. Head(queue) # NoJob
        <5>1. Head(queue).kind # NoJob.kind
          BY <3>2 DEF TrainJobs, NoJob
        <5> QED
          BY <5>1
      <4> QED
        BY <3>1, <4>1 DEF TrainGameInv, OneSearch
    <3>4. told' = <<Head(queue).fen>>
      BY <3>1, <3>3
    <3> QED
      BY <3>1, <3>4 DEF OneSearch
  <2>2. ASSUME NEW ok \in BOOLEAN, WorkerBoots(ok)
        PROVE  OneSearch(boot', queue, resolver', told')
    BY <2>2 DEF WorkerBoots, TrainGameInv, OneSearch
  <2> QED
    BY <2>1, <2>2
<1>4. GameTyped'
  BY <1>1, <1>2 DEF TrainGameInv, GameTyped
<1>5. TurnsFit'
  BY <1>1 DEF TrainGameInv, TurnsFit
<1>6. JudgesThisMove'
  BY <1>1, <1>2 DEF TrainGameInv, JudgesThisMove
<1> QED
  BY <1>1, <1>2, <1>3, <1>4, <1>5, <1>6 DEF TrainGameInv

(* The answer to the job at the head of the queue, or its refusal.         *)
LEMMA EngineAnswerKeeps ==
  ASSUME TrainGameInv, queue # <<>>, queue' = Tail(queue), resolver' = NoJob, told' = <<>>, boot' = boot,
         NEW fen, (fen = queue[1].fen /\ boot = "ready") \/ (fen = NoResult /\ boot = "failed"),
         Deliver(queue[1], fen)
  PROVE  TrainGameInv'
<1> DEFINE job == queue[1]
           b == job.beat
<1>1. GameTyped /\ queue \in Seq(TrainJobs) /\ QueueGood(queue, beats)
  BY DEF TrainGameInv, GameTyped
<1>2. job \in TrainJobs /\ Tail(queue) \in Seq(TrainJobs) /\ Len(Tail(queue)) = Len(queue) - 1 /\ Len(queue) \in Nat \ {0}
        /\ \A i \in 1..Len(queue) - 1 : Tail(queue)[i] = queue[i + 1]
  BY <1>1, TailIs
<1>3. UNCHANGED <<board, trainPhase, mode, preFen, pendingMove, note, trainQuiet>>
        /\ evalBefore' = (IF job.kind = "before" /\ fen # NoResult THEN fen ELSE evalBefore)
        /\ beats' = (IF b # NoLine /\ beats[b] # NoBeat THEN [beats EXCEPT ![b].post = fen] ELSE beats)
  BY DEF Deliver
<1>4. JobGood(job, beats) /\ job.kind \in {"warm", "before", "post", "pre"} /\ job.fen \in Fens
  BY <1>1, <1>2 DEF QueueGood, TrainJobs
<1>5. fen \in Fens \cup {NoResult} /\ fen # Awaited /\ (fen = NoResult <=> boot = "failed")
  BY <1>4, MarkersAreNoMoves
<1>6. \A i \in 1..Len(Tail(queue)) : JobGood(Tail(queue)[i], beats) /\ (b # NoLine => Tail(queue)[i].beat # b)
  <2> SUFFICES ASSUME NEW i \in 1..Len(Tail(queue))
               PROVE  JobGood(Tail(queue)[i], beats) /\ (b # NoLine => Tail(queue)[i].beat # b)
    OBVIOUS
  <2>1. i + 1 \in 1..Len(queue) /\ 1 \in 1..Len(queue) /\ i + 1 # 1 /\ Tail(queue)[i] = queue[i + 1]
    BY <1>2
  <2> QED
    BY <1>1, <2>1 DEF QueueGood
<1>7. QueueGood(Tail(queue), beats)
  <2>1. ASSUME NEW i \in 1..Len(Tail(queue)), NEW j \in 1..Len(Tail(queue)),
               Tail(queue)[i].beat = Tail(queue)[j].beat, Tail(queue)[i].beat # NoLine
        PROVE  i = j
    <3>1. i + 1 \in 1..Len(queue) /\ j + 1 \in 1..Len(queue) /\ Tail(queue)[i] = queue[i + 1] /\ Tail(queue)[j] = queue[j + 1]
      BY <1>2
    <3>2. i + 1 = j + 1
      BY <1>1, <2>1, <3>1 DEF QueueGood
    <3> QED
      BY <3>2
  <2> QED
    BY <1>6, <2>1 DEF QueueGood
<1>8. evalBefore' \in Fens
  BY <1>1, <1>3, <1>5 DEF GameTyped
<1>9. trainQuiet => PostIsLast(queue) /\ PostIsLast(Tail(queue))
  BY <1>1, AnswerRemoves DEF TrainGameInv, JudgesThisMove
<1>10. \A f : boot # "failed" /\ Known(queue, evalBefore, f) => Known(Tail(queue), evalBefore', f)
  <2> SUFFICES ASSUME NEW f, boot # "failed", Known(queue, evalBefore, f) PROVE Known(Tail(queue), evalBefore', f)
    OBVIOUS
  <2>1. Known(Tail(queue), IF queue[1].kind = "before" THEN queue[1].fen ELSE evalBefore, f)
    BY <1>1, AnswerRemoves
  <2> QED
    BY <1>3, <1>5, <2>1
<1>11. CASE b # NoLine
  <2>1. b \in Beats /\ beats[b] # NoBeat /\ beats[b].post = Awaited
          /\ job.kind = (IF beats[b].kind = "reply" THEN "post" ELSE "pre")
          /\ (job.kind = "post" => job.fen = beats[b].moved)
    BY <1>4, <1>11 DEF JobGood
  <2> DEFINE next == [beats[b] EXCEPT !.post = fen]
  <2>2. beats[b] \in BeatRecord
    BY <1>1, <2>1 DEF GameTyped
  <2>3. /\ next \in BeatRecord /\ next.post = fen /\ next.kind = beats[b].kind /\ next.moved = beats[b].moved
        /\ next.pre = beats[b].pre
    BY <1>5, <2>2 DEF BeatRecord
  <2>4. beats' = [beats EXCEPT ![b] = next]
    BY <1>3, <1>11, <2>1
  <2> HIDE DEF next, job, b
  <2>5. /\ beats' \in [Beats -> BeatRecord \cup {NoBeat}] /\ beats'[b] = next
        /\ \A a \in Beats : a # b => beats'[a] = beats[a]
    BY <1>1, <2>1, <2>3, <2>4, NewBeat
  <2>6. QueueGood(Tail(queue), beats')
    <3>1. \A i \in 1..Len(Tail(queue)) : Tail(queue)[i].beat \in Beats => beats'[Tail(queue)[i].beat] = beats[Tail(queue)[i].beat]
      BY <1>6, <1>11, <2>5
    <3> QED
      BY <1>7, <3>1, OtherBeats
  <2>7. GameTyped'
    BY <1>1, <1>2, <1>3, <1>8, <2>5 DEF GameTyped
  <2>8. next # NoBeat
    BY <2>3, Beaten
  <2>9. TurnsFit'
    <3>1. \A a \in Beats : beats'[a] # NoBeat => ~WhiteToMove(beats'[a].moved)
      BY <2>1, <2>3, <2>5 DEF TrainGameInv, TurnsFit
    <3> QED
      BY <1>3, <3>1 DEF TrainGameInv, TurnsFit
  <2>10. Answering(beats') = Answering(beats)
    BY <2>1, <2>3, <2>5, <2>8 DEF Answering
  <2>11. ASSUME trainQuiet, NEW a \in Answering(beats)
         PROVE  ReplyGood(beats'[a], trainPhase, preFen, Tail(queue)) /\ \A c \in Answering(beats) : c = a
    <3>1. ReplyGood(beats[a], trainPhase, preFen, queue) /\ \A c \in Answering(beats) : c = a
      BY <2>11 DEF TrainGameInv, JudgesThisMove
    <3>2. CASE a = b
      <4>1. job.kind = "post" /\ fen \in {beats[b].moved, NoResult}
        BY <2>1, <2>11, <3>2 DEF Answering, job
      <4>2. NoBefore(queue, 1 + 1)
        BY <1>2, <1>9, <2>11, <4>1 DEF PostIsLast, job
      <4>3. NoBefore(Tail(queue), 1)
        BY <1>1, <4>2, AnswerRemoves
      <4> QED
        BY <2>3, <2>5, <3>1, <3>2, <4>1, <4>3 DEF ReplyGood, Answered
    <3>3. CASE a # b
      <4>1. NoBefore(queue, 1) => NoBefore(Tail(queue), 1)
        BY <1>1, AnswerRemoves
      <4>2. beats'[a] = beats[a]
        BY <2>5, <3>3 DEF Answering
      <4> QED
        BY <3>1, <4>1, <4>2 DEF ReplyGood
    <3> QED
      BY <3>2, <3>3
  <2>12. JudgesThisMove'
    BY <1>3, <1>9, <1>10, <2>10, <2>11 DEF TrainGameInv, JudgesThisMove
  <2>13. boot' # "ready" => \A a \in Beats : beats'[a] # NoBeat => ~Answered(beats'[a].post)
    BY <1>5, <2>3, <2>5 DEF TrainGameInv, Answered
  <2>14. boot # "none" /\ OneSearch(boot', queue', resolver', told')
    BY <2>1 DEF TrainGameInv, OneSearch
  <2> QED
    BY <2>6, <2>7, <2>9, <2>12, <2>13, <2>14 DEF TrainGameInv
<1>12. CASE b = NoLine
  <2>1. beats' = beats
    BY <1>3, <1>12
  <2>2. GameTyped'
    BY <1>1, <1>2, <1>3, <1>8, <2>1 DEF GameTyped
  <2>3. TurnsFit'
    BY <1>3, <2>1 DEF TrainGameInv, TurnsFit
  <2>4. NoBefore(queue, 1) => NoBefore(Tail(queue), 1)
    BY <1>1, AnswerRemoves
  <2>5. JudgesThisMove'
    <3>1. \A a : ReplyGood(beats[a], trainPhase, preFen, queue) => ReplyGood(beats[a], trainPhase, preFen, Tail(queue))
      BY <2>4 DEF ReplyGood
    <3> QED
      BY <1>3, <1>9, <1>10, <2>1, <3>1 DEF TrainGameInv, JudgesThisMove
  <2>6. boot # "none" /\ OneSearch(boot', queue', resolver', told')
    BY DEF OneSearch
  <2> QED
    BY <1>7, <2>1, <2>2, <2>3, <2>5, <2>6 DEF TrainGameInv
<1> QED
  BY <1>11, <1>12

-----------------------------------------------------------------------------
(* Whatever is pressed while continuations wait and the engine boots,      *)
(* searches or fails, the screen and the queue of the engine fit.          *)
THEOREM TrainGameInvariant == TrainGameSpec => []TrainGameInv
<1>1. TrainGameInit => TrainGameInv
  <2> SUFFICES ASSUME TrainGameInit PROVE TrainGameInv
    OBVIOUS
  <2>1. <<>> \in Fens /\ WhiteToMove(<<>>) /\ <<>> \in Seq(TrainJobs) /\ Len(<<>>) = 0
    BY DEF Fens, WhiteToMove
  <2>2. GameTyped
    BY <2>1 DEF TrainGameInit, EngineInit, GameTyped
  <2>3. OneSearch(boot, queue, resolver, told) /\ QueueGood(queue, beats)
    BY <2>1 DEF TrainGameInit, EngineInit, OneSearch, QueueGood
  <2>4. TurnsFit
    BY <2>1 DEF TrainGameInit, TurnsFit
  <2>5. JudgesThisMove
    <3>1. Known(<<>>, <<>>, <<>>) /\ PostIsLast(<<>>)
      BY <2>1 DEF Known, NoBefore, PostIsLast
    <3>2. Answering(beats) = {}
      BY DEF TrainGameInit, Answering
    <3> QED
      BY <3>1, <3>2 DEF TrainGameInit, EngineInit, JudgesThisMove
  <2> QED
    BY <2>2, <2>3, <2>4, <2>5 DEF TrainGameInit, TrainGameInv
<1>2. TrainGameInv /\ [TrainGameOp]_<<engineVars, gameVars>> => TrainGameInv'
  <2> SUFFICES ASSUME TrainGameInv, [TrainGameOp]_<<engineVars, gameVars>> PROVE TrainGameInv'
    OBVIOUS
  <2>1. CASE UNCHANGED <<engineVars, gameVars>>
    BY <2>1 DEF TrainGameInv, GameTyped, TurnsFit, JudgesThisMove, engineVars, gameVars
  <2>2. CASE MountGame
    BY <2>2, MountKeeps
  <2>3. ASSUME NEW b \in Beats, (\E move \in TrainMoves : onMove(move, b)) \/ Rest(b) \/ Continue(b) \/ Enrich(b)
        PROVE  TrainGameInv'
    BY <2>3, MoveKeeps, RestKeeps, ContinueKeeps, EnrichKeeps
  <2>4. CASE takeBack \/ playAnyway
    BY <2>4, TakeBackKeeps, PlayAnywayKeeps
  <2>5. ASSUME NEW m \in {"guided", "match"}, reset(m)
        PROVE  TrainGameInv'
    BY <2>5, ResetKeeps
  <2>6. CASE UNCHANGED gameVars /\ (StartSearch \/ \E ok \in BOOLEAN : WorkerBoots(ok))
    BY <2>6, WorkerKeeps
  <2>7. CASE resolver # NoJob /\ BestMove(resolver, Head(told)) /\ Deliver(resolver, Head(told))
    <3>1. queue # <<>> /\ resolver = Head(queue) /\ told = <<Head(queue).fen>> /\ boot = "ready"
      BY <2>7 DEF TrainGameInv, OneSearch
    <3>2. Head(queue) = queue[1] /\ Head(told) = queue[1].fen /\ Tail(told) = <<>>
      BY <3>1
    <3>3. queue' = Tail(queue) /\ resolver' = NoJob /\ told' = <<>> /\ boot' = boot
      BY <2>7, <3>2 DEF BestMove
    <3>4. Deliver(queue[1], queue[1].fen)
      BY <2>7, <3>1, <3>2
    <3> DEFINE fen == queue[1].fen
    <3>5. fen = queue[1].fen /\ Deliver(queue[1], fen)
      BY <3>4
    <3> HIDE DEF fen
    <3> QED
      BY ONLY TrainGameInv, <3>1, <3>3, <3>5, EngineAnswerKeeps
  <2>8. CASE queue # <<>> /\ SearchRejected(Head(queue)) /\ Deliver(Head(queue), NoResult)
    <3>1. boot = "failed" /\ queue' = Tail(queue) /\ UNCHANGED <<boot, resolver, told>>
      BY <2>8 DEF SearchRejected
    <3>2. resolver = NoJob /\ told = <<>>
      BY <3>1 DEF TrainGameInv, OneSearch
    <3>3. Deliver(queue[1], NoResult)
      BY <2>8
    <3> QED
      BY <2>8, <3>1, <3>2, <3>3, EngineAnswerKeeps
  <2> QED
    BY <2>1, <2>2, <2>3, <2>4, <2>5, <2>6, <2>7, <2>8 DEF TrainGameOp
<1> QED
  BY <1>1, <1>2, PTL DEF TrainGameSpec

(* PhaseFitsBoard: the learner is asked for a move only when it is white's *)
(* turn, and "Play it anyway" has the move the comment is about, although  *)
(* a reset of TrainingGame.tsx leaves the continuations waiting.           *)
THEOREM PhaseStaysFit == TrainGameSpec => []PhaseFitsBoard
<1>1. TrainGameInv => PhaseFitsBoard
  BY DEF TrainGameInv, TurnsFit, PhaseFitsBoard
<1> QED
  BY <1>1, TrainGameInvariant, PTL

(* LossIsOfThisMove: when the verdict on a move falls, the two evaluations *)
(* are those of the positions before and after that move, however many     *)
(* analyses wait for the one worker.                                       *)
THEOREM LossStaysOfThisMove == TrainGameSpec => []LossIsOfThisMove
<1>1. TrainGameInv => LossIsOfThisMove
  <2> SUFFICES ASSUME TrainGameInv, trainQuiet, NEW b \in Beats, beats[b] # NoBeat, beats[b].kind = "reply",
                      Answered(beats[b].post)
               PROVE  beats[b].post = beats[b].moved /\ evalBefore = beats[b].pre
    BY DEF LossIsOfThisMove, Answered
  <2>1. ReplyGood(beats[b], trainPhase, preFen, queue)
    BY DEF TrainGameInv, JudgesThisMove, Answering
  <2>2. boot = "ready" /\ NoBefore(queue, 1) /\ beats[b].post = beats[b].moved /\ beats[b].pre = preFen
    BY <2>1 DEF TrainGameInv, ReplyGood
  <2>3. Known(queue, evalBefore, preFen)
    BY <2>1, <2>2 DEF TrainGameInv, JudgesThisMove, ReplyGood
  <2> QED
    BY <2>2, <2>3, KnownAtLast DEF TrainGameInv, GameTyped
<1> QED
  BY <1>1, TrainGameInvariant, PTL

-----------------------------------------------------------------------------
(* A line that is not the last position of a game.                         *)
Short == {fen \in Fens : Len(fen) < TrainPlies}

ShortBeat == [stage: {"waiting", "rested"}, mode: {"guided", "match"}, pre: Short, moved: Short,
              post: Short \cup {Awaited, NoResult}, kind: {"reply", "enrich"}]

ShortJobs(jobs) == Len(jobs) <= MaxQueue /\ \A i \in 1..Len(jobs) : jobs[i].fen \in Short

(* The game is over exactly when no continuation may go on; before that    *)
(* every position that can still be moved from is short of the last one.   *)
TrainShort ==
  /\ ShortJobs(queue) /\ (boot = "none" => queue = <<>>)
  /\ beats \in [Beats -> ShortBeat \cup {NoBeat}]
  /\ board \in TrainLines /\ preFen \in TrainLines /\ evalBefore \in Short
  /\ pendingMove \in Short \cup {NoLine} /\ note \in Short \cup {NoNote}
  /\ trainPhase \in {"learner", "thinking", "intercept", "over"}
  /\ live \in BOOLEAN /\ blunders \in BOOLEAN /\ persisted \in BOOLEAN /\ saves \in Nat
  /\ live <=> trainPhase # "over"
  /\ live => preFen \in Short
  /\ trainPhase = "learner" => board \in Short

LEMMA LinesAre ==
  /\ \A fen \in Fens : Len(fen) <= TrainPlies => fen \in TrainLines
  /\ Short \subseteq TrainLines /\ Short \subseteq Fens /\ <<>> \in Short
<1>1. ASSUME NEW fen \in Fens, Len(fen) <= TrainPlies PROVE fen \in TrainLines
  <2>1. fen \in [1..Len(fen) -> TrainMoves] /\ Len(fen) \in 0..TrainPlies
    BY <1>1, TrainPliesAssumption DEF Fens
  <2> QED
    BY <2>1 DEF TrainLines
<1>2. <<>> \in Short
  BY TrainPliesAssumption DEF Short, Fens
<1>3. \A fen \in Short : fen \in Fens /\ Len(fen) <= TrainPlies
  BY TrainPliesAssumption DEF Short, Fens
<1> QED
  BY <1>1, <1>2, <1>3

LEMMA MoveFits ==
  ASSUME NEW fen \in Short, NEW move \in TrainMoves
  PROVE  /\ Append(fen, move) \in TrainLines
         /\ ~Over(Append(fen, move)) => Append(fen, move) \in Short
<1>1. /\ Append(fen, move) \in Fens /\ Len(Append(fen, move)) = Len(fen) + 1 /\ Len(fen) \in Nat
      /\ Len(fen) < TrainPlies
  BY AppendProperties DEF Fens, Short
<1>2. PICK longer : longer = Append(fen, move)
  OBVIOUS
<1>3. longer \in Fens /\ Len(longer) <= TrainPlies
  BY <1>1, <1>2, TrainPliesAssumption
<1>4. longer \in TrainLines
  BY <1>3, LinesAre
<1>5. ~Over(longer) => longer \in Short
  BY <1>3, TrainPliesAssumption DEF Over, Short, Fens
<1> QED
  BY <1>2, <1>4, <1>5

LEMMA ShortAdds ==
  ASSUME NEW jobs \in Seq(TrainJobs), ShortJobs(jobs), NEW job \in TrainJobs, job.fen \in Short,
         Len(jobs) + 1 <= MaxQueue
  PROVE  ShortJobs(jobs \o <<job>>) /\ jobs \o <<job>> \in Seq(TrainJobs)
<1> DEFINE more == jobs \o <<job>>
<1>1. /\ more \in Seq(TrainJobs) /\ Len(more) = Len(jobs) + 1 /\ Len(jobs) \in Nat
      /\ \A i \in 1..Len(jobs) : more[i] = jobs[i]
      /\ more[Len(jobs) + 1] = job
  BY AddsOne
<1> HIDE DEF more
<1>2. ShortJobs(more)
  BY <1>1 DEF ShortJobs
<1> QED
  BY <1>1, <1>2 DEF more

LEMMA AskedFor ==
  ASSUME TrainGameInv, TrainShort, NEW kind \in {"warm", "before", "post", "pre"}, NEW fen \in Short,
         NEW b \in Beats \cup {NoLine}, boot # "none", Room(1), analyze(<<Job(kind, fen, b)>>)
  PROVE  ShortJobs(queue') /\ boot' # "none"
<1>1. PICK job \in TrainJobs : job = Job(kind, fen, b) /\ job.fen \in Short
  BY LinesAre, JobIs
<1>2. queue \in Seq(TrainJobs) /\ ShortJobs(queue) /\ Len(queue) + 1 <= MaxQueue
  BY DEF TrainGameInv, GameTyped, TrainShort, Room
<1>3. queue' = queue \o <<job>> /\ boot' = boot
  BY <1>1 DEF analyze
<1> QED
  BY <1>1, <1>2, <1>3, ShortAdds

LEMMA MountShort ==
  ASSUME TrainGameInv, TrainShort, MountGame
  PROVE  TrainShort'
<1>1. /\ queue = <<>> /\ boot' = "booting" /\ UNCHANGED gameVars
      /\ queue' = queue \o <<Job("warm", <<>>, NoLine), Job("before", <<>>, NoLine)>>
  BY DEF MountGame, analyze, TrainShort
<1>2. PICK warm \in TrainJobs, before \in TrainJobs :
        /\ warm = Job("warm", <<>>, NoLine) /\ before = Job("before", <<>>, NoLine)
        /\ warm.fen = <<>> /\ before.fen = <<>>
  BY LinesAre, JobIs
<1>3. queue' = (queue \o <<warm>>) \o <<before>> /\ <<>> \in Short /\ queue \in Seq(TrainJobs) /\ Len(queue) = 0
  BY <1>1, <1>2, AddsTwo, LinesAre
<1>4. PICK first : first = queue \o <<warm>>
  OBVIOUS
<1>5. Len(queue) + 1 <= MaxQueue /\ ShortJobs(queue)
  BY <1>3, MaxQueueAssumption DEF TrainShort
<1>6. ShortJobs(first) /\ first \in Seq(TrainJobs)
  BY <1>2, <1>3, <1>4, <1>5, ShortAdds
<1>7. Len(first) + 1 <= MaxQueue
  <2>1. Len(first) = Len(queue) + 1
    BY <1>3, <1>4, AddsOne
  <2> QED
    BY <2>1, <1>3, MaxQueueAssumption
<1>8. ShortJobs(first \o <<before>>)
  BY <1>2, <1>3, <1>6, <1>7, ShortAdds
<1>9. ShortJobs(queue')
  BY <1>3, <1>4, <1>8
<1> QED
  BY <1>1, <1>9 DEF TrainShort, gameVars

LEMMA EndsShort ==
  ASSUME TrainShort, NEW m, NEW loaded \in BOOLEAN, endGame(m, loaded)
  PROVE  /\ live' = FALSE /\ trainPhase' = "over" /\ note' = NoNote
         /\ persisted' \in BOOLEAN /\ saves' \in Nat
BY DEF endGame, TrainShort

LEMMA MoveShort ==
  ASSUME TrainGameInv, TrainShort, NEW move \in TrainMoves, NEW b \in Beats, onMove(move, b)
  PROVE  TrainShort'
<1> DEFINE moved == Append(board, move)
<1>1. trainPhase = "learner" /\ board \in Short /\ board \in TrainLines /\ live /\ boot # "none" /\ mode \in {"guided", "match"}
  BY Pressed DEF onMove, TrainShort, TrainGameInv, GameTyped
<1>2. moved \in TrainLines /\ (~Over(moved) => moved \in Short)
  BY <1>1, MoveFits
<1>3. UNCHANGED <<mode, pendingMove, evalBefore, blunders, trainQuiet>> /\ preFen' = board /\ board' = moved
  BY DEF onMove
<1> HIDE DEF moved
<1>4. ASSUME NEW loaded \in BOOLEAN, endGame(mode, loaded), UNCHANGED <<engineVars, beats>>
      PROVE  TrainShort'
  BY <1>1, <1>2, <1>3, <1>4, EndsShort DEF TrainShort, engineVars
<1>5. ASSUME ~Over(moved), live' = TRUE, trainPhase' = "thinking", note' = NoNote, UNCHANGED <<persisted, saves>>,
             beats' = [beats EXCEPT ![b] =
                 [stage |-> "waiting", mode |-> mode, pre |-> board, moved |-> moved,
                  post |-> IF mode = "guided" THEN Awaited ELSE NoResult, kind |-> "reply"]],
             IF mode = "guided" THEN Room(1) /\ analyze(<<Job("post", moved, b)>>)
                                ELSE UNCHANGED engineVars
      PROVE  TrainShort'
  <2>1. PICK next \in ShortBeat : beats' = [beats EXCEPT ![b] = next]
    BY <1>1, <1>2, <1>5 DEF ShortBeat
  <2>2. beats' \in [Beats -> ShortBeat \cup {NoBeat}]
    BY <2>1 DEF TrainShort
  <2>3. ShortJobs(queue') /\ boot' # "none"
    BY <1>1, <1>2, <1>5, AskedFor DEF TrainShort, engineVars
  <2> QED
    BY <1>1, <1>2, <1>3, <1>5, <2>2, <2>3 DEF TrainShort
<1> QED
  BY <1>4, <1>5 DEF onMove, moved

LEMMA CoachShort ==
  ASSUME TrainGameInv, TrainShort, NEW from \in Short, NEW m, NEW others \in {pendingMove, NoLine},
         coachMove(from, m, others), live, boot # "none", blunders' \in BOOLEAN,
         beats' \in [Beats -> ShortBeat \cup {NoBeat}]
  PROVE  TrainShort'
<1>0. PICK move \in TrainMoves :
        LET line == Append(from, move)
        IN  /\ board' = line /\ preFen' = line /\ pendingMove' = others
            /\ \/ (\E loaded \in BOOLEAN : endGame(m, loaded)) /\ UNCHANGED <<engineVars, evalBefore>>
               \/ /\ ~Over(line) /\ trainPhase' = "learner" /\ note' = NoNote
                  /\ Room(1) /\ analyze(<<Job("before", line, NoLine)>>)
                  /\ UNCHANGED <<evalBefore, live, persisted, saves>>
  BY DEF coachMove
<1>1. PICK reply :
        /\ reply = Append(from, move) /\ board' = reply /\ preFen' = reply /\ pendingMove' = others
        /\ \/ (\E loaded \in BOOLEAN : endGame(m, loaded)) /\ UNCHANGED <<engineVars, evalBefore>>
           \/ /\ ~Over(reply) /\ trainPhase' = "learner" /\ note' = NoNote
              /\ Room(1) /\ analyze(<<Job("before", reply, NoLine)>>)
              /\ UNCHANGED <<evalBefore, live, persisted, saves>>
  BY <1>0
<1>2. reply \in TrainLines /\ (~Over(reply) => reply \in Short)
  BY <1>1, MoveFits
<1>3. evalBefore' \in Short /\ others \in Short \cup {NoLine}
  BY <1>1 DEF TrainShort
<1>4. ASSUME NEW loaded \in BOOLEAN, endGame(m, loaded), UNCHANGED engineVars PROVE TrainShort'
  BY <1>1, <1>2, <1>3, <1>4, EndsShort DEF TrainShort, engineVars
<1>5. ASSUME ~Over(reply), trainPhase' = "learner", note' = NoNote, Room(1),
             analyze(<<Job("before", reply, NoLine)>>), UNCHANGED <<live, persisted, saves>>
      PROVE  TrainShort'
  <2>1. ShortJobs(queue') /\ boot' # "none"
    BY <1>2, <1>5, AskedFor
  <2> QED
    BY <1>1, <1>2, <1>3, <1>5, <2>1 DEF TrainShort
<1> QED
  BY <1>1, <1>4, <1>5

LEMMA BeatGone ==
  ASSUME TrainShort, NEW b, beats' = [beats EXCEPT ![b] = NoBeat]
  PROVE  beats' \in [Beats -> ShortBeat \cup {NoBeat}]
BY DEF TrainShort

LEMMA BeatSteps ==
  ASSUME TrainGameInv, TrainShort, NEW b \in Beats, Rest(b) \/ Continue(b) \/ Enrich(b)
  PROVE  TrainShort'
<1> DEFINE beat == beats[b]
<1>1. beat \in ShortBeat
  <2>1. beat \in ShortBeat \cup {NoBeat}
    BY DEF TrainShort
  <2>2. beat # NoBeat
    <3>1. NoBeat.stage = "none"
      BY DEF NoBeat
    <3>2. Rest(b) => beat.stage = "waiting"
      BY DEF Rest
    <3>3. Continue(b) => beat.stage = "rested"
      BY DEF Continue
    <3>4. Enrich(b) => beat # NoBeat
      BY DEF Enrich
    <3> HIDE DEF beat
    <3> QED
      BY <3>1, <3>2, <3>3, <3>4
  <2> QED
    BY <2>1, <2>2
<1>2. beat.pre \in Short /\ beat.moved \in Short /\ boot # "none"
  <2>1. beats[b] # NoBeat
    BY <1>1 DEF ShortBeat, NoBeat
  <2> QED
    BY <1>1, <2>1 DEF ShortBeat, TrainGameInv
<1>3. CASE Rest(b)
  <2>1. PICK next \in ShortBeat : beats' = [beats EXCEPT ![b] = next]
    <3>1. [beat EXCEPT !.stage = "rested"] \in ShortBeat
      BY <1>1 DEF ShortBeat
    <3> QED
      BY <1>3, <3>1 DEF Rest
  <2>2. beats' \in [Beats -> ShortBeat \cup {NoBeat}]
    BY <2>1 DEF TrainShort
  <2> QED
    BY <1>3, <2>2 DEF Rest, TrainShort, engineVars
<1>4. CASE Enrich(b)
  <2>1. beats' \in [Beats -> ShortBeat \cup {NoBeat}]
    BY <1>4, BeatGone DEF Enrich
  <2>2. note' \in Short \cup {NoNote}
    BY <1>2, <1>4 DEF Enrich, TrainShort
  <2> QED
    BY <1>4, <2>1, <2>2 DEF Enrich, TrainShort, engineVars
<1>5. CASE Continue(b)
  <2>1. CASE /\ beats' = [beats EXCEPT ![b] = NoBeat]
             /\ UNCHANGED <<engineVars, board, trainPhase, preFen, pendingMove, evalBefore,
                            live, note, blunders, persisted, saves>>
    <3>1. beats' \in [Beats -> ShortBeat \cup {NoBeat}]
      BY <2>1, BeatGone
    <3> QED
      BY <2>1, <3>1 DEF TrainShort, engineVars
  <2>2. ASSUME live, Room(1), analyze(<<Job("pre", beat.pre, b)>>), blunders' = TRUE, pendingMove' = beat.moved,
               note' = NoNote, trainPhase' = "intercept",
               beats' = [beats EXCEPT ![b].kind = "enrich", ![b].post = Awaited],
               UNCHANGED <<board, preFen, evalBefore, live, persisted, saves>>
        PROVE  TrainShort'
    <3>1. PICK next \in ShortBeat : beats' = [beats EXCEPT ![b] = next]
      <4>1. [[beat EXCEPT !.kind = "enrich"] EXCEPT !.post = Awaited] \in ShortBeat
        BY <1>1 DEF ShortBeat
      <4>2. beats' = [beats EXCEPT ![b] = [[beat EXCEPT !.kind = "enrich"] EXCEPT !.post = Awaited]]
        BY <2>2 DEF TrainShort
      <4> QED
        BY <4>1, <4>2
    <3>2. beats' \in [Beats -> ShortBeat \cup {NoBeat}]
      BY <3>1 DEF TrainShort
    <3>3. ShortJobs(queue') /\ boot' # "none"
      BY <1>2, <2>2, AskedFor
    <3> QED
      BY <1>2, <2>2, <3>2, <3>3 DEF TrainShort
  <2>3. ASSUME live, blunders' \in (IF beat.post = NoResult THEN {blunders} ELSE {blunders, TRUE}),
               beats' = [beats EXCEPT ![b] = NoBeat], coachMove(beat.moved, beat.mode, pendingMove)
        PROVE  TrainShort'
    <3>1. beats' \in [Beats -> ShortBeat \cup {NoBeat}] /\ blunders' \in BOOLEAN
      BY <2>3, BeatGone DEF TrainShort
    <3> QED
      BY <1>2, <2>3, <3>1, CoachShort
  <2> QED
    BY <1>5, <2>1, <2>2, <2>3 DEF Continue
<1> QED
  BY <1>3, <1>4, <1>5

LEMMA ButtonsShort ==
  ASSUME TrainGameInv, TrainShort, takeBack \/ playAnyway \/ \E m \in {"guided", "match"} : reset(m)
  PROVE  TrainShort'
<1>1. CASE takeBack
  <2>1. trainPhase = "intercept" /\ live /\ preFen \in Short
    BY <1>1, Pressed DEF takeBack, TrainShort
  <2> QED
    BY <1>1, <2>1 DEF takeBack, TrainShort, engineVars
<1>2. CASE playAnyway
  <2>1. trainPhase = "intercept" /\ pendingMove # NoLine /\ boot # "none"
    BY <1>2, Pressed DEF TrainGameInv, TurnsFit, playAnyway
  <2>2. coachMove(pendingMove, mode, NoLine) /\ UNCHANGED <<blunders, beats>>
    BY <1>2, <2>1 DEF playAnyway
  <2>3. live /\ pendingMove \in Short /\ blunders' \in BOOLEAN /\ beats' \in [Beats -> ShortBeat \cup {NoBeat}]
    BY <2>1, <2>2 DEF TrainShort
  <2> QED
    BY <2>1, <2>2, <2>3, CoachShort
<1>3. ASSUME NEW m \in {"guided", "match"}, reset(m) PROVE TrainShort'
  <2>1. <<>> \in Short /\ <<>> \in TrainLines
    BY LinesAre
  <2>2. ShortJobs(queue') /\ boot' # "none"
    BY <1>3, <2>1, AskedFor DEF reset
  <2> QED
    BY <1>3, <2>1, <2>2 DEF reset, TrainShort
<1> QED
  BY <1>1, <1>2, <1>3

LEMMA AnswerShort ==
  ASSUME TrainGameInv, TrainShort, queue # <<>>, queue' = Tail(queue), boot' = boot,
         NEW fen, fen = queue[1].fen \/ fen = NoResult, Deliver(queue[1], fen)
  PROVE  TrainShort'
<1>1. queue \in Seq(TrainJobs) /\ ShortJobs(queue)
  BY DEF TrainGameInv, GameTyped, TrainShort
<1>2. PICK job \in TrainJobs : job = queue[1]
  BY <1>1, TailIs
<1>3. job.fen \in Short /\ ShortJobs(queue')
  <2>1. /\ Len(queue') = Len(queue) - 1 /\ Len(queue) \in Nat \ {0}
        /\ \A i \in 1..Len(queue) - 1 : queue'[i] = queue[i + 1]
    BY <1>1, TailIs
  <2>2. \A i \in 1..Len(queue') : queue'[i].fen \in Short
    BY <1>1, <2>1 DEF ShortJobs
  <2> QED
    BY <1>1, <1>2, <2>1, <2>2, MaxQueueAssumption DEF ShortJobs
<1>4. /\ evalBefore' = (IF job.kind = "before" /\ fen # NoResult THEN fen ELSE evalBefore)
      /\ beats' = (IF job.beat # NoLine /\ beats[job.beat] # NoBeat THEN [beats EXCEPT ![job.beat].post = fen] ELSE beats)
      /\ UNCHANGED <<board, trainPhase, mode, preFen, pendingMove, live, note, blunders, persisted, saves, trainQuiet>>
  BY <1>2 DEF Deliver
<1>5. fen \in Short \cup {Awaited, NoResult} /\ evalBefore' \in Short
  BY <1>2, <1>3, <1>4 DEF TrainShort
<1>6. beats' \in [Beats -> ShortBeat \cup {NoBeat}]
  <2>1. CASE job.beat # NoLine /\ beats[job.beat] # NoBeat
    <3>1. PICK b \in Beats : b = job.beat
      BY <1>2, <2>1 DEF TrainJobs
    <3>2. beats[b] \in ShortBeat
      BY <2>1, <3>1 DEF TrainShort
    <3>3. [beats[b] EXCEPT !.post = fen] \in ShortBeat
      BY <1>5, <3>2 DEF ShortBeat
    <3>4. beats' = [beats EXCEPT ![b] = [beats[b] EXCEPT !.post = fen]]
      BY <1>4, <2>1, <3>1
    <3> QED
      BY <3>3, <3>4 DEF TrainShort
  <2> QED
    BY <1>4, <2>1 DEF TrainShort
<1>7. boot # "none"
  BY DEF TrainShort
<1> QED
  BY <1>3, <1>4, <1>5, <1>6, <1>7 DEF TrainShort

LEMMA ShortSteps == TrainGameInv /\ TrainShort /\ TrainGameOp => TrainShort'
<1> SUFFICES ASSUME TrainGameInv, TrainShort, TrainGameOp PROVE TrainShort'
  OBVIOUS
<1>1. CASE UNCHANGED gameVars /\ (StartSearch \/ \E ok \in BOOLEAN : WorkerBoots(ok))
  <2>1. queue' = queue /\ (boot' = "none" => boot = "none")
    BY <1>1 DEF StartSearch, WorkerBoots
  <2> QED
    BY <1>1, <2>1 DEF TrainShort, gameVars
<1>2. CASE resolver # NoJob /\ BestMove(resolver, Head(told)) /\ Deliver(resolver, Head(told))
  <2>1. queue # <<>> /\ resolver = Head(queue) /\ told = <<Head(queue).fen>>
    BY <1>2 DEF TrainGameInv, OneSearch
  <2>2. Head(queue) = queue[1] /\ Head(told) = queue[1].fen /\ queue' = Tail(queue) /\ boot' = boot
    BY <1>2, <2>1 DEF BestMove
  <2>3. PICK fen : fen = queue[1].fen /\ Deliver(queue[1], fen)
    BY <1>2, <2>1, <2>2
  <2> QED
    BY ONLY TrainGameInv, TrainShort, <2>1, <2>2, <2>3, AnswerShort
<1>3. CASE queue # <<>> /\ SearchRejected(Head(queue)) /\ Deliver(Head(queue), NoResult)
  <2>1. queue' = Tail(queue) /\ boot' = boot /\ Deliver(queue[1], NoResult)
    BY <1>3 DEF SearchRejected
  <2> QED
    BY <1>3, <2>1, AnswerShort
<1> QED
  BY <1>1, <1>2, <1>3, MountShort, MoveShort, BeatSteps, ButtonsShort DEF TrainGameOp

(* Continuations that a reset left waiting never drive the game past its   *)
(* end: every position shown, kept or evaluated is one of a game, and the  *)
(* queue of the engine holds what the pages may ask for.                   *)
THEOREM TrainGameStaysTyped == TrainGameSpec => []TrainGameTypeOK
<1>1. TrainGameInit => TrainShort
  <2> SUFFICES ASSUME TrainGameInit PROVE TrainShort
    OBVIOUS
  <2>1. <<>> \in Short /\ <<>> \in TrainLines
    BY LinesAre
  <2>2. ShortJobs(<<>>)
    BY MaxQueueAssumption DEF ShortJobs
  <2>3. beats \in [Beats -> ShortBeat \cup {NoBeat}]
    BY DEF TrainGameInit
  <2> QED
    BY <2>1, <2>2, <2>3 DEF TrainGameInit, EngineInit, TrainShort
<1>2. TrainShort /\ UNCHANGED <<engineVars, gameVars>> => TrainShort'
  BY DEF TrainShort, engineVars, gameVars
<1>3. TrainGameInv /\ TrainShort => TrainGameTypeOK
  <2> SUFFICES ASSUME TrainGameInv, TrainShort PROVE TrainGameTypeOK
    OBVIOUS
  <2>1. ShortBeat \subseteq Beat
    BY LinesAre DEF ShortBeat, Beat
  <2>2. beats \in [Beats -> Beat \cup {NoBeat}]
    BY <2>1 DEF TrainShort
  <2> QED
    BY <2>2, LinesAre DEF TrainShort, ShortJobs, TrainGameInv, GameTyped, TrainGameTypeOK
<1> QED
  BY <1>1, <1>2, <1>3, ShortSteps, TrainGameInvariant, PTL DEF TrainGameSpec

-----------------------------------------------------------------------------
(* The game page *)

Settled(record) == record.status \in {"finished", "draw"}

(* A settled record is the contract's, wherever the page keeps it: in what *)
(* the hooks read last, and in what it shows.                              *)
ReadOf(record, chain) == Settled(record) => record.status = chain.status /\ record.result = chain.result

PageTyped ==
  /\ seat \in {"white", "black", "none"}
  /\ chainGame \in GameData /\ cached \in GameData /\ seen \in GameData

RecordsRead == ReadOf(cached, chainGame) /\ ReadOf(seen, chainGame)

PageInv == PageTyped /\ RecordsRead

LEMMA RecordIs ==
  ASSUME NEW record \in GameData, NEW p \in {"none", "white", "black"}
  PROVE  LET next == [record EXCEPT !.proposer = p]
         IN  next \in GameData /\ next.status = record.status /\ next.result = record.result
BY DEF GameData

LEMMA ClosedIs ==
  ASSUME PageTyped, NEW status \in {"finished", "draw", "cancelled"}, NEW result \in {"white", "black", "draw", "cancelled"}
  PROVE  Closed(status, result) \in GameData
BY DEF PageTyped, Closed, GameData

LEMMA JoinedIs ==
  ASSUME NEW record \in GameData
  PROVE  [record EXCEPT !.status = "active"] \in GameData
BY DEF GameData

(* The contract settles a game once.                                       *)
LEMMA RecordMoves ==
  ASSUME PageTyped, \/ \E kind \in Kinds : Mined(kind)
                    \/ OthersAct
  PROVE  chainGame' \in GameData /\ (Settled(chainGame) => chainGame' = chainGame)
<1>1. ASSUME NEW kind \in Kinds, chainGame' = Effect(kind)
      PROVE  chainGame' \in GameData /\ (Settled(chainGame) => chainGame' = chainGame)
  <2> SUFFICES ASSUME seat # "none" \/ kind = "join"
        PROVE  chainGame' \in GameData /\ (Settled(chainGame) => chainGame' = chainGame)
    BY <1>1 DEF Effect, PageTyped
  <2>1. CASE kind = "join" /\ chainGame.status = "waiting"
    BY <1>1, <2>1, JoinedIs DEF Effect, PageTyped, Settled
  <2>2. CASE kind = "cancel" /\ chainGame.status = "waiting"
    BY <1>1, <2>2, ClosedIs DEF Effect, Settled
  <2>3. CASE kind = "resign" /\ chainGame.status = "active"
    <3>1. Other(seat) \in {"white", "black"}
      BY DEF Other
    <3> QED
      BY <1>1, <2>3, <3>1, ClosedIs DEF Effect, Settled
  <2>4. CASE kind = "propose" /\ chainGame.status = "active" /\ seat \in {"none", "white", "black"}
    BY <1>1, <2>4, RecordIs DEF Effect, PageTyped, Settled
  <2>5. CASE kind = "accept" /\ chainGame.status = "active" /\ chainGame.proposer = Other(seat)
    BY <1>1, <2>5, ClosedIs DEF Effect, Settled
  <2>6. CASE chainGame' = chainGame
    BY <2>6 DEF PageTyped
  <2> QED
    BY <1>1, <2>1, <2>2, <2>3, <2>4, <2>5, <2>6 DEF Effect, PageTyped
<1>2. ASSUME OthersAct
      PROVE  chainGame' \in GameData /\ (Settled(chainGame) => chainGame' = chainGame)
  <2>1. chainGame.status \in {"waiting", "active"}
    BY <1>2 DEF OthersAct
  <2>2. \/ chainGame' = [chainGame EXCEPT !.status = "active"]
        \/ chainGame' = Closed("cancelled", "cancelled")
        \/ seat # "none" /\ chainGame' = Closed("finished", seat)
        \/ chainGame' = [chainGame EXCEPT !.proposer = Other(seat)]
        \/ chainGame' = Closed("draw", "draw")
        \/ \E c \in {"white", "black"} : chainGame' = Closed("finished", c)
    BY <1>2 DEF OthersAct
  <2>3. Other(seat) \in {"none", "white", "black"} /\ seat \in {"none", "white", "black"}
    BY DEF Other, PageTyped
  <2>4. CASE chainGame' = [chainGame EXCEPT !.status = "active"]
    BY <2>1, <2>4, JoinedIs DEF PageTyped, Settled
  <2>5. CASE chainGame' = Closed("cancelled", "cancelled") \/ chainGame' = Closed("draw", "draw")
    BY <2>1, <2>5, ClosedIs DEF Settled
  <2>6. CASE \E c \in {"white", "black"} : chainGame' = Closed("finished", c)
    BY <2>1, <2>6, ClosedIs DEF Settled
  <2>7. CASE chainGame' = [chainGame EXCEPT !.proposer = Other(seat)]
    BY <2>1, <2>3, <2>7, RecordIs DEF PageTyped, Settled
  <2> QED
    BY <2>2, <2>3, <2>4, <2>5, <2>6, <2>7
<1> QED
  BY <1>1, <1>2 DEF Mined

LEMMA PageReads ==
  ASSUME PageInv, ReadChain
  PROVE  /\ PageInv' /\ chainGame' = chainGame /\ seat' = seat
         /\ payoutSettled => seen'.status = seen.status /\ seen'.result = seen.result
<1>1. chainGame' = chainGame /\ seat' = seat /\ chainGame \in GameData /\ cached \in GameData /\ seen \in GameData
        /\ seat \in {"white", "black", "none"}
  BY DEF ReadChain, Chain, PageInv, PageTyped
<1>2. CASE pollCelo
  BY <1>1, <1>2 DEF pollCelo, PageInv, PageTyped, RecordsRead, ReadOf, Settled, payoutSettled
<1>3. CASE pollStacks
  <2>1. seen' \in GameData /\ seen'.status = chainGame.status /\ seen'.result = chainGame.result
    BY <1>1, <1>3, RecordIs DEF pollStacks
  <2>2. cached' = cached
    BY <1>3 DEF pollStacks
  <2> QED
    BY <1>1, <2>1, <2>2 DEF PageInv, PageTyped, RecordsRead, ReadOf, Settled, payoutSettled
<1>4. CASE pollBase
  <2>1. \/ cached' = [chainGame EXCEPT !.proposer = cached.proposer]
        \/ contractActive /\ cached' = [cached EXCEPT !.proposer = chainGame.proposer]
    BY <1>4 DEF pollBase
  <2>2. chainGame.proposer \in {"none", "white", "black"} /\ cached.proposer \in {"none", "white", "black"}
    BY <1>1 DEF GameData
  <2>3. \/ cached' \in GameData /\ cached'.status = chainGame.status /\ cached'.result = chainGame.result
        \/ contractActive /\ cached' \in GameData /\ cached'.status = cached.status /\ cached'.result = cached.result
    <3>1. CASE cached' = [chainGame EXCEPT !.proposer = cached.proposer]
      BY <1>1, <2>2, <3>1, RecordIs
    <3>2. CASE contractActive /\ cached' = [cached EXCEPT !.proposer = chainGame.proposer]
      BY <1>1, <2>2, <3>2, RecordIs
    <3> QED
      BY <2>1, <3>1, <3>2
  <2>4. seen' \in {cached', seen} /\ (seen' = cached' \/ seen' = seen)
    BY <1>4 DEF pollBase
  <2>5. cached' \in GameData /\ ReadOf(cached', chainGame)
    BY <2>3 DEF PageInv, RecordsRead, ReadOf, Settled
  <2>6. PageInv'
    BY <1>1, <2>4, <2>5 DEF PageInv, PageTyped, RecordsRead
  <2>7. payoutSettled => seen'.status = seen.status /\ seen'.result = seen.result
    BY <2>3, <2>4 DEF PageInv, RecordsRead, ReadOf, Settled, payoutSettled, contractActive
  <2> QED
    BY <1>1, <2>6, <2>7
<1> QED
  BY <1>2, <1>3, <1>4 DEF ReadChain

(* The steps of the page: it reads the chain, forgets what it read, the    *)
(* contract goes on, or nothing of that changes.                           *)
LEMMA ClientSteps ==
  ASSUME [ClientOp]_clientVars
  PROVE  \/ ReadChain
         \/ seen' = NoData /\ UNCHANGED <<seat, chainGame, cached>>
         \/ OthersAct
         \/ \E kind \in Kinds : Mined(kind)
         \/ UNCHANGED <<seat, chainGame, cached, seen>>
<1>1. CASE UNCHANGED clientVars
  BY <1>1 DEF clientVars
<1>2. CASE setActiveChain
  BY <1>2 DEF setActiveChain
<1>3. CASE opponentExpires \/ RelayClockRunsOut \/ \E next \in {"none", "mate", "draw"} : BoardMoves(next)
  BY <1>3 DEF opponentExpires, RelayClockRunsOut, BoardMoves, Chain
<1>4. CASE \E kind \in Kinds : withTx(kind) \/ \E sent \in BOOLEAN : sendWrite(kind, sent)
  BY <1>4 DEF withTx, sendWrite, Chain
<1>5. CASE startHold \/ cancelHold \/ onQuit \/ LeavePage \/ finishIntro
  BY <1>5 DEF startHold, cancelHold, onQuit, LeavePage, finishIntro, Chain
<1>6. CASE \E ok \in BOOLEAN : settleAnswered(ok)
  BY <1>6 DEF settleAnswered, Chain
<1> QED
  BY <1>1, <1>2, <1>3, <1>4, <1>5, <1>6 DEF ClientOp, PageOp

LEMMA ClientKeeps ==
  ASSUME PageInv, [ClientOp]_clientVars
  PROVE  /\ PageInv'
         /\ payoutSettled /\ isParticipant /\ seen' # NoData => gameResult' = gameResult
<1>2. NoData \in GameData /\ ~Settled(NoData)
  BY DEF Settled, NoData, GameData
<1>3. CASE ReadChain
  <2>1. payoutSettled => seen'.status = seen.status /\ seen'.result = seen.result /\ seat' = seat
    BY <1>3, PageReads
  <2> QED
    BY <1>3, <2>1, PageReads DEF gameResult, isParticipant, payoutSettled, resultForColor
<1>4. CASE seen' = NoData /\ UNCHANGED <<seat, chainGame, cached>>
  BY <1>2, <1>4 DEF PageInv, PageTyped, RecordsRead, ReadOf
<1>5. CASE OthersAct \/ \E kind \in Kinds : Mined(kind)
  <2>1. chainGame' \in GameData /\ (Settled(chainGame) => chainGame' = chainGame)
    BY <1>5, RecordMoves DEF PageInv
  <2>2. cached' = cached /\ seen' = seen /\ seat' \in {"white", "black", "none"} /\ (chainGame' = chainGame => seat' = seat)
    BY <1>5 DEF OthersAct, Mined, PageInv, PageTyped
  <2>3. PageInv'
    BY <2>1, <2>2 DEF PageInv, PageTyped, RecordsRead, ReadOf, Settled
  <2>4. payoutSettled => seat' = seat
    BY <2>1, <2>2 DEF payoutSettled, PageInv, RecordsRead, ReadOf, Settled
  <2> QED
    BY <2>2, <2>3, <2>4 DEF gameResult, isParticipant, payoutSettled, resultForColor
<1>6. CASE UNCHANGED <<seat, chainGame, cached, seen>>
  BY <1>6 DEF PageInv, PageTyped, RecordsRead, gameResult, isParticipant, payoutSettled, resultForColor
<1> QED
  BY <1>3, <1>4, <1>5, <1>6, ClientSteps

(* Whatever the page reads, and however late, a settled record in what the *)
(* hooks read last and in what is shown is the contract's.                 *)
THEOREM PageInvariant == ClientSpec => []PageInv
<1>1. ClientInit => PageInv
  <2> SUFFICES ASSUME ClientInit PROVE PageInv
    OBVIOUS
  <2>1. NoData \in GameData /\ ~Settled(NoData)
    BY DEF NoData, GameData, Settled
  <2>2. chainGame \in GameData
    BY DEF ClientInit, GameData
  <2> QED
    BY <2>1, <2>2 DEF ClientInit, PageInv, PageTyped, RecordsRead, ReadOf
<1> QED
  BY <1>1, ClientKeeps, PTL DEF ClientSpec

(* VerdictIsFinal: once the screen shows the chain's verdict, no late      *)
(* poll, move, clock or resignation of this page turns it over.            *)
THEOREM VerdictStaysFinal == ClientSpec => VerdictIsFinal
<1>1. PageInv /\ [ClientOp]_clientVars
        => [payoutSettled /\ isParticipant /\ seen' # NoData => gameResult' = gameResult]_clientVars
  BY ClientKeeps
<1> QED
  BY <1>1, PageInvariant, PTL DEF ClientSpec, VerdictIsFinal

(* The page's own state, beside the records it reads.                      *)
PageRest ==
  /\ home \in {"celo", "base", "stacks"} /\ active \in {"celo", "base", "stacks"}
  /\ plies \in 0..PageMoves /\ ending \in {"none", "mate", "draw"}
  /\ opponentTimedOut \in BOOLEAN /\ lastMoveOld \in BOOLEAN /\ didResign \in BOOLEAN /\ introDone \in BOOLEAN
  /\ pressed \in BOOLEAN /\ quitUnheld \in BOOLEAN
  /\ settleRef \in {"no", "asked", "done"}
  /\ txs \subseteq Kinds /\ mempool \subseteq Kinds
  /\ hold \in Hold \cup {NoHold} /\ route \in {"game", "lobby"}

LEMMA RestReads ==
  ASSUME PageRest, settleRef' \in {"no", "asked", "done"},
         \/ ReadChain \/ setActiveChain \/ opponentExpires \/ RelayClockRunsOut \/ OthersAct
         \/ \E next \in {"none", "mate", "draw"} : BoardMoves(next)
  PROVE  PageRest'
<1>1. CASE ReadChain \/ OthersAct
  BY <1>1 DEF ReadChain, OthersAct, PageRest, Chain, Board, Press, Clock
<1>2. CASE setActiveChain \/ opponentExpires \/ RelayClockRunsOut
  BY <1>2 DEF setActiveChain, opponentExpires, RelayClockRunsOut, PageRest, Chain, Board, Press, Clock
<1>3. ASSUME NEW next \in {"none", "mate", "draw"}, BoardMoves(next) PROVE PageRest'
  <2>1. plies' \in 0..PageMoves
    BY <1>3, PageMovesAssumption DEF BoardMoves, PageRest
  <2> QED
    BY <1>3, <2>1 DEF BoardMoves, PageRest, Chain, Press, Clock
<1> QED
  BY <1>1, <1>2, <1>3

LEMMA RestActs ==
  ASSUME PageRest, settleRef' \in {"no", "asked", "done"},
         \/ \E kind \in Kinds : withTx(kind) \/ Mined(kind) \/ \E sent \in BOOLEAN : sendWrite(kind, sent)
         \/ startHold \/ cancelHold \/ onQuit \/ LeavePage \/ finishIntro
  PROVE  PageRest'
<1>1. ASSUME NEW kind \in Kinds, withTx(kind) \/ Mined(kind) PROVE PageRest'
  BY <1>1 DEF withTx, Mined, PageRest, Chain, Board, Clock
<1>2. ASSUME NEW kind \in Kinds, NEW sent \in BOOLEAN, sendWrite(kind, sent) PROVE PageRest'
  <2>1. didResign' \in BOOLEAN
    BY <1>2 DEF sendWrite
  <2> QED
    BY <1>2, <2>1 DEF sendWrite, PageRest, Board, Clock
<1>3. CASE startHold
  <2>1. hold' \in Hold
    BY <1>3 DEF startHold, Hold, quitForfeits
  <2> QED
    BY <1>3, <2>1 DEF startHold, PageRest, Chain, Board, Clock
<1>4. CASE cancelHold
  BY <1>4 DEF cancelHold, PageRest, Chain, Board, Clock
<1>5. CASE onQuit
  <2>1. txs' \subseteq Kinds
    BY <1>5 DEF onQuit, PageRest, Kinds
  <2>2. quitUnheld' \in BOOLEAN
    BY <1>5 DEF onQuit
  <2> QED
    BY <1>5, <2>1, <2>2 DEF onQuit, PageRest, Chain, Board, Clock
<1>6. CASE LeavePage \/ finishIntro
  BY <1>6 DEF LeavePage, finishIntro, PageRest, Chain, Board, Clock
<1> QED
  BY <1>1, <1>2, <1>3, <1>4, <1>5, <1>6

(* Whatever the page reads late and whoever acts, every record, timer and  *)
(* transaction of the page has its type.                                   *)
THEOREM ClientStaysTyped == ClientSpec => []ClientTypeOK
<1>1. ClientInit => PageRest
  <2> SUFFICES ASSUME ClientInit PROVE PageRest
    OBVIOUS
  <2>1. plies \in 0..PageMoves /\ txs \subseteq Kinds /\ mempool \subseteq Kinds
    BY PageMovesAssumption DEF ClientInit
  <2> QED
    BY <2>1 DEF ClientInit, PageRest
<1>2. PageRest /\ ClientOp => PageRest'
  <2> SUFFICES ASSUME PageRest, ClientOp PROVE PageRest'
    OBVIOUS
  <2>1. CASE PageOp /\ SettleEffect
    <3>1. settleRef' \in {"no", "asked", "done"}
      BY <2>1 DEF SettleEffect, PageRest
    <3> QED
      BY <2>1, <3>1, RestReads, RestActs DEF PageOp
  <2>2. ASSUME NEW ok \in BOOLEAN, settleAnswered(ok) PROVE PageRest'
    BY <2>2 DEF settleAnswered, PageRest, Chain, Board, Press, Clock
  <2> QED
    BY <2>1, <2>2 DEF ClientOp
<1>3. PageRest /\ UNCHANGED clientVars => PageRest'
  BY DEF clientVars, PageRest
<1>4. PageInv /\ PageRest => ClientTypeOK
  BY DEF PageInv, PageTyped, PageRest, ClientTypeOK
<1> QED
  BY <1>1, <1>2, <1>3, <1>4, PageInvariant, PTL DEF ClientSpec

(* The button is on the page: its onTouchEnd would be heard.               *)
ButtonStays == hold # NoHold => route = "game" /\ seen # NoData /\ ~gameOver

HoldIsPressed == hold # NoHold => pressed

(* HeldToCompletion, the comment on onQuit, is true of every play in which *)
(* the button is not taken from under the finger: while the timer runs     *)
(* nobody leaves the page, the record is not forgotten and the game on the *)
(* board does not end.  Those are the only ways in which it fails.         *)
THEOREM HoldsComplete == ClientSpec /\ []ButtonStays => []HeldToCompletion
<1>1. ClientInit => HoldIsPressed /\ HeldToCompletion
  BY DEF ClientInit, HoldIsPressed, HeldToCompletion
<1>2. HoldIsPressed /\ HeldToCompletion /\ ButtonStays /\ ClientOp => HoldIsPressed' /\ HeldToCompletion'
  <2> SUFFICES ASSUME HoldIsPressed, HeldToCompletion, ButtonStays, ClientOp
               PROVE  HoldIsPressed' /\ HeldToCompletion'
    OBVIOUS
  <2> USE DEF HoldIsPressed, HeldToCompletion
  <2>1. CASE startHold
    BY <2>1 DEF startHold
  <2>2. CASE cancelHold
    BY <2>2 DEF cancelHold, ButtonStays
  <2>3. CASE onQuit
    BY <2>3 DEF onQuit
  <2>4. CASE UNCHANGED <<hold, pressed, quitUnheld>>
    BY <2>4
  <2>5. CASE ReadChain \/ setActiveChain \/ opponentExpires \/ RelayClockRunsOut \/ OthersAct
             \/ \E next \in {"none", "mate", "draw"} : BoardMoves(next)
    BY <2>4, <2>5 DEF ReadChain, setActiveChain, opponentExpires, RelayClockRunsOut, OthersAct,
                        BoardMoves, Press
  <2>6. CASE \/ \E kind \in Kinds : withTx(kind) \/ Mined(kind) \/ \E sent \in BOOLEAN : sendWrite(kind, sent)
             \/ LeavePage \/ finishIntro
    BY <2>4, <2>6 DEF withTx, Mined, sendWrite, LeavePage, finishIntro
  <2>7. ASSUME NEW ok \in BOOLEAN, settleAnswered(ok) PROVE HoldIsPressed' /\ HeldToCompletion'
    BY <2>4, <2>7 DEF settleAnswered, Press
  <2> QED
    BY <2>1, <2>2, <2>3, <2>5, <2>6, <2>7 DEF ClientOp, PageOp
<1>3. HoldIsPressed /\ HeldToCompletion /\ UNCHANGED clientVars => HoldIsPressed' /\ HeldToCompletion'
  BY DEF clientVars, HoldIsPressed, HeldToCompletion
<1> QED
  BY <1>1, <1>2, <1>3, PTL DEF ClientSpec

-----------------------------------------------------------------------------
(* The game against the bot.  Recursion over the numbers up to a bound.    *)

LEMMA UpTo ==
  ASSUME NEW N \in Nat, NEW S, 0 \in S, \A n \in 1..N : n - 1 \in S => n \in S
  PROVE  0..N \subseteq S
<1> DEFINE T == {n \in 0..N : n \notin S}
           Less == OpToRel(<, Nat)
<1>1. SUFFICES ASSUME T # {} PROVE FALSE
  OBVIOUS
<1>2. IsWellFoundedOn(Less, Nat)
  BY NatLessThanWellFounded
<1>3. T \subseteq Nat
  OBVIOUS
<1>4. \A m, n \in Nat : m < n => <<m, n>> \in Less
  BY DEF OpToRel
<1>5. PICK n \in T : \A m \in T : ~ (<<m, n>> \in Less)
  <2> HIDE DEF T, Less
  <2> QED BY <1>1, <1>2, <1>3, WFMin
<1>6. n \in 1..N /\ n - 1 \in 0..N /\ n - 1 < n
  OBVIOUS
<1>7. n - 1 \in T
  BY <1>6
<1> HIDE DEF Less
<1> QED
  BY <1>3, <1>4, <1>5, <1>6, <1>7

(* Step by step there is a function of every length. *)
Iterated(g, N, V, base, step) == g \in [0..N -> V] /\ g[0] = base /\ \A n \in 1..N : g[n] = step[n][g[n - 1]]

LEMMA Iterates ==
  ASSUME NEW N \in Nat, NEW V, NEW base \in V, NEW step \in [1..N -> [V -> V]]
  PROVE  \E g : Iterated(g, N, V, base, step)
<1> DEFINE Good(k, g) == g \in [0..k -> V] /\ g[0] = base /\ \A n \in 1..k : g[n] = step[n][g[n - 1]]
           S == {k \in 0..N : \E g : Good(k, g)}
<1>1. 0 \in S
  <2> DEFINE g == [n \in 0..0 |-> base]
  <2>1. Good(0, g)
    OBVIOUS
  <2> HIDE DEF g, Good
  <2> QED BY <2>1
<1>2. ASSUME NEW k \in 1..N, k - 1 \in S
      PROVE  k \in S
  <2>1. PICK g : Good(k - 1, g)
    BY <1>2
  <2> DEFINE h == [n \in 0..k |-> IF n = k THEN step[k][g[k - 1]] ELSE g[n]]
  <2>2. g[k - 1] \in V /\ step[k][g[k - 1]] \in V
    BY <2>1
  <2>3. h \in [0..k -> V]
    BY <2>1, <2>2
  <2>4. h[0] = base
    BY <2>1
  <2>5. ASSUME NEW n \in 1..k
        PROVE  h[n] = step[n][h[n - 1]]
    BY <2>1
  <2>6. Good(k, h)
    BY <2>3, <2>4, <2>5
  <2> HIDE DEF Good, h
  <2> QED BY <2>6
<1>3. N \in S
  <2> HIDE DEF S
  <2>1. 0..N \subseteq S
    BY <1>1, <1>2, UpTo
  <2> QED BY <2>1
<1> QED BY <1>3 DEF Iterated

-----------------------------------------------------------------------------
(* Typing of the search.                                                   *)
Accs == [best: Scores, alpha: Scores, beta: Scores]
Searches == [BotLines -> [Scores -> [Scores -> Scores]]]

LEMMA MovesFacts ==
  ASSUME NEW line \in BotLines
  PROVE  /\ Len(Ordered) \in Nat
         /\ \A n \in 1..Len(Ordered) : orderMoves(line)[n] = Append(line, Ordered[n])
         /\ Replies(line) = {orderMoves(line)[n] : n \in 1..Len(Ordered)} \cap BotLines
<1>1. Len(Ordered) \in Nat /\ DOMAIN Ordered = 1..Len(Ordered)
  BY TreeAssumption
<1> QED BY <1>1 DEF orderMoves, Replies

LEMMA EvaluateIs ==
  ASSUME NEW line \in BotLines
  PROVE  /\ evaluateBoard(line) \in Scores
         /\ evaluateBoard(line) = Infinity => line \in mates
         /\ Infinity \in Scores /\ -Infinity \in Scores /\ -Infinity < Infinity
BY WorthAssumption DEF evaluateBoard, Scores

LEMMA BoundedIs ==
  ASSUME NEW acc \in Accs, NEW best \in Scores, NEW black \in BOOLEAN
  PROVE  /\ Bounded(acc, best, black) \in Accs
         /\ Bounded(acc, best, black).best = best
         /\ Bounded(acc, best, black).alpha = IF black THEN acc.alpha ELSE Larger(acc.alpha, best)
         /\ Bounded(acc, best, black).beta = IF black THEN Smaller(acc.beta, best) ELSE acc.beta
<1>1. Larger(acc.alpha, best) \in Scores /\ Smaller(acc.beta, best) \in Scores
  BY DEF Larger, Smaller, Accs
<1> QED BY <1>1 DEF Bounded, Accs

(* What searchMoves does with the n-th move.                               *)
Tried(deeper, line, n, acc) ==
  LET black == BlackMovesIn(line)
      next  == orderMoves(line)[n]
  IN  IF next \notin BotLines \/ acc.beta <= acc.alpha THEN acc
      ELSE Bounded(acc, IF black THEN Smaller(acc.best, deeper[next][acc.alpha][acc.beta])
                        ELSE Larger(acc.best, deeper[next][acc.alpha][acc.beta]), black)
FirstAcc(line, alpha, beta) ==
  [best |-> IF BlackMovesIn(line) THEN Infinity ELSE -Infinity, alpha |-> alpha, beta |-> beta]

LEMMA TriedType ==
  ASSUME NEW deeper \in Searches, NEW line \in BotLines, NEW n \in 1..Len(Ordered), NEW acc \in Accs
  PROVE  Tried(deeper, line, n, acc) \in Accs
<1> DEFINE next == orderMoves(line)[n]
           value == deeper[next][acc.alpha][acc.beta]
           black == BlackMovesIn(line)
           best == IF black THEN Smaller(acc.best, value) ELSE Larger(acc.best, value)
<1>1. CASE next \notin BotLines \/ acc.beta <= acc.alpha
  BY <1>1 DEF Tried
<1>2. CASE next \in BotLines /\ ~(acc.beta <= acc.alpha)
  <2>1. value \in Scores
    BY <1>2 DEF Searches, Accs
  <2>2. best \in Scores
    BY <2>1 DEF Smaller, Larger, Accs
  <2>3. black \in BOOLEAN
    BY DEF BlackMovesIn
  <2>4. Tried(deeper, line, n, acc) = Bounded(acc, best, black)
    BY <1>2 DEF Tried
  <2> HIDE DEF best, black
  <2> QED BY <2>2, <2>3, <2>4, BoundedIs
<1> QED BY <1>1, <1>2

(* searchMoves is the end of a loop.                                       *)
LEMMA SearchLoop ==
  ASSUME NEW deeper \in Searches, NEW line \in BotLines, NEW alpha \in Scores, NEW beta \in Scores
  PROVE  \E tried \in [0..Len(Ordered) -> Accs] :
           /\ tried[0] = FirstAcc(line, alpha, beta)
           /\ \A n \in 1..Len(Ordered) : tried[n] = Tried(deeper, line, n, tried[n - 1])
           /\ searchMoves(deeper, line, alpha, beta) = tried[Len(Ordered)].best
<1> DEFINE N == Len(Ordered)
           Loop(t) == t = [n \in 0..N |->
                             IF n = 0 THEN FirstAcc(line, alpha, beta) ELSE Tried(deeper, line, n, t[n - 1])]
           step == [n \in 1..N |-> [acc \in Accs |-> Tried(deeper, line, n, acc)]]
           tried == CHOOSE t : Loop(t)
<1>1. N \in Nat /\ FirstAcc(line, alpha, beta) \in Accs
  BY MovesFacts, EvaluateIs DEF FirstAcc, Accs
<1>2. step \in [1..N -> [Accs -> Accs]]
  BY TriedType
<1>3. PICK g : Iterated(g, N, Accs, FirstAcc(line, alpha, beta), step)
  <2> HIDE DEF step, N
  <2> QED BY <1>1, <1>2, Iterates
<1>4. ASSUME NEW n \in 1..N
      PROVE  g[n] = Tried(deeper, line, n, g[n - 1])
  <2>1. g[n - 1] \in Accs
    BY <1>1, <1>3 DEF Iterated
  <2>2. g[n] = step[n][g[n - 1]]
    BY <1>3 DEF Iterated
  <2> QED BY <2>1, <2>2
<1>5. Loop(g)
  BY <1>1, <1>3, <1>4 DEF Iterated
<1>6. Loop(tried)
  <2> HIDE DEF Loop
  <2> QED BY <1>5
<1>7. searchMoves(deeper, line, alpha, beta) = tried[N].best
  BY DEF searchMoves, Tried, FirstAcc
<1> HIDE DEF tried
<1>8. tried[0] = FirstAcc(line, alpha, beta) /\ \A n \in 1..N : tried[n] = Tried(deeper, line, n, tried[n - 1])
  BY <1>1, <1>6
<1>9. \A n \in 0..N : tried[n] \in Accs
  <2> DEFINE S == {n \in 0..N : tried[n] \in Accs}
  <2>1. 0 \in S
    BY <1>1, <1>8
  <2>2. \A n \in 1..N : n - 1 \in S => n \in S
    BY <1>1, <1>8, TriedType
  <2> HIDE DEF S
  <2>3. 0..N \subseteq S
    BY <1>1, <2>1, <2>2, UpTo
  <2> QED BY <2>3 DEF S
<1>10. tried \in [0..N -> Accs]
  BY <1>6, <1>9
<1> QED BY <1>7, <1>8, <1>10

(* getBestMove is the end of a loop.                                       *)
Founds == [move: BotLines \cup {NoReply}, value: Scores]
Found(deeper, line, n, acc) ==
  LET next == orderMoves(line)[n]
  IN  IF next \notin BotLines THEN acc
      ELSE IF deeper[next][-Infinity][Infinity] < acc.value
           THEN [move |-> next, value |-> deeper[next][-Infinity][Infinity]] ELSE acc
NoneFound == [move |-> NoReply, value |-> Infinity]

LEMMA FoundType ==
  ASSUME NEW deeper \in Searches, NEW line \in BotLines, NEW n \in 1..Len(Ordered), NEW acc \in Founds
  PROVE  Found(deeper, line, n, acc) \in Founds
<1> DEFINE next == orderMoves(line)[n]
           value == deeper[next][-Infinity][Infinity]
<1>1. CASE next \notin BotLines
  BY <1>1 DEF Found
<1>2. CASE next \in BotLines
  <2>1. value \in Scores
    BY <1>2, EvaluateIs DEF Searches
  <2>2. Found(deeper, line, n, acc) = IF value < acc.value THEN [move |-> next, value |-> value] ELSE acc
    BY <1>2 DEF Found
  <2> HIDE DEF value, next
  <2> QED BY <1>2, <2>1, <2>2 DEF Founds
<1> QED BY <1>1, <1>2

LEMMA BestLoop ==
  ASSUME NEW depth \in 1..3, minimax[depth - 1] \in Searches, NEW line \in BotLines
  PROVE  \E found \in [0..Len(Ordered) -> Founds] :
           /\ found[0] = NoneFound
           /\ \A n \in 1..Len(Ordered) : found[n] = Found(minimax[depth - 1], line, n, found[n - 1])
           /\ getBestMove(line, depth) = found[Len(Ordered)].move
<1> DEFINE N == Len(Ordered)
           deeper == minimax[depth - 1]
           Loop(t) == t = [n \in 0..N |-> IF n = 0 THEN NoneFound ELSE Found(deeper, line, n, t[n - 1])]
           step == [n \in 1..N |-> [acc \in Founds |-> Found(deeper, line, n, acc)]]
           found == CHOOSE t : Loop(t)
<1>1. N \in Nat /\ NoneFound \in Founds
  BY MovesFacts, EvaluateIs DEF NoneFound, Founds
<1>2. step \in [1..N -> [Founds -> Founds]]
  BY FoundType
<1>3. PICK g : Iterated(g, N, Founds, NoneFound, step)
  <2> HIDE DEF step, N
  <2> QED BY <1>1, <1>2, Iterates
<1>4. ASSUME NEW n \in 1..N
      PROVE  g[n] = Found(deeper, line, n, g[n - 1])
  <2>1. g[n - 1] \in Founds
    BY <1>1, <1>3 DEF Iterated
  <2>2. g[n] = step[n][g[n - 1]]
    BY <1>3 DEF Iterated
  <2> HIDE DEF deeper
  <2> QED BY <2>1, <2>2
<1>5. Loop(g)
  BY <1>1, <1>3, <1>4 DEF Iterated
<1>6. Loop(found)
  <2> HIDE DEF Loop
  <2> QED BY <1>5
<1>7. getBestMove(line, depth) = found[N].move
  BY DEF getBestMove, Found, NoneFound
<1> HIDE DEF found
<1>8. found[0] = NoneFound /\ \A n \in 1..N : found[n] = Found(deeper, line, n, found[n - 1])
  BY <1>1, <1>6
<1>9. \A n \in 0..N : found[n] \in Founds
  <2> DEFINE S == {n \in 0..N : found[n] \in Founds}
  <2>1. 0 \in S
    BY <1>1, <1>8
  <2>2. \A n \in 1..N : n - 1 \in S => n \in S
    BY <1>1, <1>8, FoundType
  <2> HIDE DEF S
  <2>3. 0..N \subseteq S
    BY <1>1, <2>1, <2>2, UpTo
  <2> QED BY <2>3 DEF S
<1>10. found \in [0..N -> Founds]
  BY <1>6, <1>9
<1> QED BY <1>7, <1>8, <1>10

-----------------------------------------------------------------------------
(* The search of every depth exists, and so does the value of a position.  *)
Layer(deeper, depth) ==
  [line \in BotLines |-> [alpha \in Scores |-> [beta \in Scores |->
     IF depth = 0 \/ BotOver(line) THEN evaluateBoard(line)
     ELSE searchMoves(deeper, line, alpha, beta)]]]

LEMMA SearchType ==
  ASSUME NEW deeper \in Searches, NEW line \in BotLines, NEW alpha \in Scores, NEW beta \in Scores
  PROVE  searchMoves(deeper, line, alpha, beta) \in Scores
<1>1. PICK tried \in [0..Len(Ordered) -> Accs] : searchMoves(deeper, line, alpha, beta) = tried[Len(Ordered)].best
  BY SearchLoop
<1>2. tried[Len(Ordered)] \in Accs
  BY MovesFacts
<1> QED BY <1>1, <1>2 DEF Accs

LEMMA LayerType ==
  ASSUME NEW deeper \in Searches, NEW depth \in 0..2
  PROVE  Layer(deeper, depth) \in Searches
<1> DEFINE at(line, alpha, beta) ==
             IF depth = 0 \/ BotOver(line) THEN evaluateBoard(line) ELSE searchMoves(deeper, line, alpha, beta)
<1>1. ASSUME NEW line \in BotLines, NEW alpha \in Scores, NEW beta \in Scores
      PROVE  at(line, alpha, beta) \in Scores
  BY SearchType, EvaluateIs
<1>2. Layer(deeper, depth) = [line \in BotLines |-> [alpha \in Scores |-> [beta \in Scores |-> at(line, alpha, beta)]]]
  BY DEF Layer
<1> HIDE DEF at
<1>3. \A line \in BotLines, alpha \in Scores : [beta \in Scores |-> at(line, alpha, beta)] \in [Scores -> Scores]
  BY <1>1
<1>4. \A line \in BotLines : [alpha \in Scores |-> [beta \in Scores |-> at(line, alpha, beta)]] \in [Scores -> [Scores -> Scores]]
  BY <1>3
<1> QED BY <1>2, <1>4 DEF Searches

LEMMA FirstLayer ==
  ASSUME NEW one, NEW two
  PROVE  Layer(one, 0) = Layer(two, 0)
BY DEF Layer

LEMMA MinimaxIs ==
  /\ \A depth \in 0..2 : minimax[depth] \in Searches
  /\ \A depth \in 0..2, line \in BotLines, alpha \in Scores, beta \in Scores :
       minimax[depth][line][alpha][beta] =
         IF depth = 0 \/ BotOver(line) THEN evaluateBoard(line)
         ELSE searchMoves(minimax[depth - 1], line, alpha, beta)
<1> DEFINE Rec(f) == f = [depth \in 0..2 |-> Layer(f[depth - 1], depth)]
           some == [line \in BotLines |-> [alpha \in Scores |-> [beta \in Scores |-> evaluateBoard(line)]]]
           base == Layer(some, 0)
           step == [n \in 1..2 |-> [deeper \in Searches |-> Layer(deeper, n)]]
<1>1. some \in Searches
  <2>1. \A line \in BotLines : evaluateBoard(line) \in Scores
    BY EvaluateIs
  <2> QED BY <2>1 DEF Searches
<1>2. base \in Searches /\ step \in [1..2 -> [Searches -> Searches]]
  <2> HIDE DEF some
  <2> QED BY <1>1, LayerType
<1>3. PICK g : Iterated(g, 2, Searches, base, step)
  <2> HIDE DEF base, step
  <2> QED BY <1>2, Iterates
<1>4. ASSUME NEW n \in 1..2
      PROVE  g[n] = Layer(g[n - 1], n)
  <2>1. g[n - 1] \in Searches
    BY <1>3 DEF Iterated
  <2>2. g[n] = step[n][g[n - 1]]
    BY <1>3 DEF Iterated
  <2> QED BY <2>1, <2>2
<1>5. g[0] = Layer(g[0 - 1], 0)
  <2>1. g[0] = Layer(some, 0)
    BY <1>3 DEF Iterated
  <2> HIDE DEF some
  <2> QED BY <2>1, FirstLayer
<1>6. Rec(g)
  <2>1. \A n \in 0..2 : g[n] = Layer(g[n - 1], n)
    BY <1>4, <1>5
  <2>2. g \in [0..2 -> Searches]
    BY <1>3 DEF Iterated
  <2> QED BY <2>1, <2>2
<1>7. Rec(minimax)
  <2>1. minimax = CHOOSE f : Rec(f)
    BY DEF minimax, Layer
  <2> HIDE DEF Rec
  <2> QED BY <1>6, <2>1
<1>8. \A n \in 0..2 : minimax[n] = Layer(minimax[n - 1], n)
  BY <1>7
<1>9. minimax[0] \in Searches
  <2>1. minimax[0] = Layer(some, 0)
    <3> HIDE DEF some
    <3> QED BY <1>8, FirstLayer
  <2> QED BY <1>2, <2>1
<1>10. minimax[1] \in Searches
  BY <1>8, <1>9, LayerType
<1>11. minimax[2] \in Searches
  BY <1>8, <1>10, LayerType
<1>12. \A depth \in 0..2 : minimax[depth] \in Searches
  BY <1>9, <1>10, <1>11
<1>13. ASSUME NEW depth \in 0..2, NEW line \in BotLines, NEW alpha \in Scores, NEW beta \in Scores
       PROVE  minimax[depth][line][alpha][beta] =
                IF depth = 0 \/ BotOver(line) THEN evaluateBoard(line)
                ELSE searchMoves(minimax[depth - 1], line, alpha, beta)
  BY <1>8 DEF Layer
<1> QED BY <1>12, <1>13

(* The value of a position, in the same way.                               *)
Worths == [BotLines -> Scores]
IsBest(v, values, black) == v \in values /\ \A u \in values : IF black THEN v <= u ELSE v >= u
ValuesOf(deeper, line) == {deeper[next] : next \in Replies(line)}
ValueLayer(deeper, depth) ==
  [line \in BotLines |->
     IF depth = 0 \/ BotOver(line) THEN evaluateBoard(line)
     ELSE LET values == {deeper[next] : next \in Replies(line)}
          IN  IF BlackMovesIn(line) THEN CHOOSE v \in values : \A u \in values : v <= u
              ELSE CHOOSE v \in values : \A u \in values : v >= u]

(* A set of scores has a least and a largest one.                          *)
LEMMA Extremes ==
  ASSUME NEW values \in SUBSET Scores, values # {}, NEW black \in BOOLEAN
  PROVE  \E v : IsBest(v, values, black)
<1> DEFINE rank(v) == IF black THEN v + Infinity ELSE Infinity - v
           ranks == {n \in 0..2 * Infinity : \E v \in values : n = rank(v)}
           Less == OpToRel(<, Nat)
<1>1. Infinity \in Nat
  BY WorthAssumption
<1>2. \A v \in values : rank(v) \in 0..2 * Infinity
  BY <1>1 DEF Scores
<1>3. ranks # {} /\ ranks \subseteq Nat
  BY <1>1, <1>2
<1>4. PICK n \in ranks : \A m \in ranks : ~ (<<m, n>> \in Less)
  <2>1. IsWellFoundedOn(Less, Nat)
    BY NatLessThanWellFounded
  <2> HIDE DEF ranks, Less
  <2> QED BY <1>3, <2>1, WFMin
<1>5. \A m \in ranks : ~ (m < n)
  <2>1. \A m, k \in Nat : m < k => <<m, k>> \in Less
    BY DEF OpToRel
  <2> HIDE DEF Less
  <2> QED BY <1>3, <1>4, <2>1
<1>6. PICK v \in values : n = rank(v)
  OBVIOUS
<1>7. ASSUME NEW u \in values
      PROVE  IF black THEN v <= u ELSE v >= u
  <2>1. rank(u) \in ranks
    BY <1>2
  <2>2. ~ (rank(u) < rank(v))
    BY <1>5, <1>6, <2>1
  <2>3. u \in Int /\ v \in Int
    BY <1>1 DEF Scores
  <2> QED BY <1>1, <2>2, <2>3
<1> QED BY <1>6, <1>7 DEF IsBest

LEMMA ChooseIsBest ==
  ASSUME NEW values \in SUBSET Scores, values # {}, NEW black \in BOOLEAN
  PROVE  IsBest(IF black THEN CHOOSE v \in values : \A u \in values : v <= u
                ELSE CHOOSE v \in values : \A u \in values : v >= u, values, black)
<1>1. \E v : IsBest(v, values, black)
  BY Extremes
<1>2. CASE black
  <2>1. \E v \in values : \A u \in values : v <= u
    BY <1>1, <1>2 DEF IsBest
  <2> QED BY <1>2, <2>1 DEF IsBest
<1>3. CASE ~black
  <2>1. \E v \in values : \A u \in values : v >= u
    BY <1>1, <1>3 DEF IsBest
  <2> QED BY <1>3, <2>1 DEF IsBest
<1> QED BY <1>2, <1>3

LEMMA ValueLayerIs ==
  ASSUME NEW deeper \in Worths, NEW depth \in 0..2, NEW line \in BotLines
  PROVE  /\ depth = 0 \/ BotOver(line) => ValueLayer(deeper, depth)[line] = evaluateBoard(line)
         /\ ~(depth = 0 \/ BotOver(line)) =>
              IsBest(ValueLayer(deeper, depth)[line], ValuesOf(deeper, line), BlackMovesIn(line))
         /\ ValueLayer(deeper, depth)[line] \in Scores
<1>1. CASE depth = 0 \/ BotOver(line)
  BY <1>1, EvaluateIs DEF ValueLayer
<1>2. CASE ~(depth = 0 \/ BotOver(line))
  <2> DEFINE values == {deeper[next] : next \in Replies(line)}
             best == IF BlackMovesIn(line) THEN CHOOSE v \in values : \A u \in values : v <= u
                     ELSE CHOOSE v \in values : \A u \in values : v >= u
  <2>1. Replies(line) # {} /\ Replies(line) \subseteq BotLines
    BY <1>2 DEF BotOver, Replies
  <2>2. values \in SUBSET Scores /\ values # {}
    BY <2>1 DEF Worths
  <2>3. BlackMovesIn(line) \in BOOLEAN
    BY DEF BlackMovesIn
  <2>4. IsBest(best, values, BlackMovesIn(line))
    <3> HIDE DEF values
    <3> QED BY <2>2, <2>3, ChooseIsBest
  <2>5. ValueLayer(deeper, depth)[line] = best
    BY <1>2 DEF ValueLayer
  <2> HIDE DEF best
  <2>6. best \in Scores
    BY <2>2, <2>4 DEF IsBest
  <2> QED BY <1>2, <2>4, <2>5, <2>6 DEF ValuesOf
<1> QED BY <1>1, <1>2

LEMMA ValueLayerType ==
  ASSUME NEW deeper \in Worths, NEW depth \in 0..2
  PROVE  ValueLayer(deeper, depth) \in Worths
<1>1. \A line \in BotLines : ValueLayer(deeper, depth)[line] \in Scores
  BY ValueLayerIs
<1>2. ValueLayer(deeper, depth) = [line \in BotLines |-> ValueLayer(deeper, depth)[line]]
  BY DEF ValueLayer
<1> QED BY <1>1, <1>2 DEF Worths

LEMMA FirstValueLayer ==
  ASSUME NEW one, NEW two
  PROVE  ValueLayer(one, 0) = ValueLayer(two, 0)
BY DEF ValueLayer

LEMMA GameValueRec ==
  /\ \A n \in 0..2 : GameValue[n] = ValueLayer(GameValue[n - 1], n)
  /\ \A n \in 0..2 : GameValue[n] \in Worths
<1> DEFINE Rec(f) == f = [depth \in 0..2 |-> ValueLayer(f[depth - 1], depth)]
           some == [line \in BotLines |-> evaluateBoard(line)]
           base == ValueLayer(some, 0)
           step == [n \in 1..2 |-> [deeper \in Worths |-> ValueLayer(deeper, n)]]
<1>1. some \in Worths
  BY EvaluateIs DEF Worths
<1>2. base \in Worths /\ step \in [1..2 -> [Worths -> Worths]]
  <2> HIDE DEF some
  <2> QED BY <1>1, ValueLayerType
<1>3. PICK g : Iterated(g, 2, Worths, base, step)
  <2> HIDE DEF base, step
  <2> QED BY <1>2, Iterates
<1>4. ASSUME NEW n \in 1..2
      PROVE  g[n] = ValueLayer(g[n - 1], n)
  <2>1. g[n - 1] \in Worths
    BY <1>3 DEF Iterated
  <2>2. g[n] = step[n][g[n - 1]]
    BY <1>3 DEF Iterated
  <2> QED BY <2>1, <2>2
<1>5. g[0] = ValueLayer(g[0 - 1], 0)
  <2>1. g[0] = ValueLayer(some, 0)
    BY <1>3 DEF Iterated
  <2> HIDE DEF some
  <2> QED BY <2>1, FirstValueLayer
<1>6. Rec(g)
  <2>1. \A n \in 0..2 : g[n] = ValueLayer(g[n - 1], n)
    BY <1>4, <1>5
  <2>2. g \in [0..2 -> Worths]
    BY <1>3 DEF Iterated
  <2> QED BY <2>1, <2>2
<1>7. Rec(GameValue)
  <2>1. GameValue = CHOOSE f : Rec(f)
    BY DEF GameValue, ValueLayer
  <2> HIDE DEF Rec
  <2> QED BY <1>6, <2>1
<1>8. \A n \in 0..2 : GameValue[n] = ValueLayer(GameValue[n - 1], n)
  BY <1>7
<1>9. GameValue[0] \in Worths
  <2>1. GameValue[0] = ValueLayer(some, 0)
    <3> HIDE DEF some
    <3> QED BY <1>8, FirstValueLayer
  <2> QED BY <1>2, <2>1
<1>10. GameValue[1] \in Worths
  BY <1>8, <1>9, ValueLayerType
<1>11. GameValue[2] \in Worths
  BY <1>8, <1>10, ValueLayerType
<1> QED BY <1>8, <1>9, <1>10, <1>11

(* The value of a position is the best of its replies for who moves.       *)
LEMMA GameValueIs ==
  ASSUME NEW depth \in 0..2, NEW line \in BotLines
  PROVE  /\ GameValue[depth] \in Worths /\ GameValue[depth][line] \in Scores
         /\ depth = 0 \/ BotOver(line) => GameValue[depth][line] = evaluateBoard(line)
         /\ ~(depth = 0 \/ BotOver(line)) =>
              /\ depth - 1 \in 0..2
              /\ IsBest(GameValue[depth][line], ValuesOf(GameValue[depth - 1], line), BlackMovesIn(line))
<1>1. GameValue[depth] = ValueLayer(GameValue[depth - 1], depth) /\ GameValue[depth] \in Worths
  BY GameValueRec
<1>2. GameValue[depth][line] \in Scores
  BY <1>1 DEF Worths
<1>3. CASE depth = 0
  <2>1. GameValue[depth][line] = evaluateBoard(line)
    BY <1>1, <1>3 DEF ValueLayer
  <2> QED BY <1>1, <1>2, <1>3, <2>1
<1>4. CASE depth # 0
  <2>1. depth - 1 \in 0..2 /\ GameValue[depth - 1] \in Worths
    BY <1>4, GameValueRec
  <2> QED BY <1>1, <1>2, <1>4, <2>1, ValueLayerIs
<1> QED BY <1>3, <1>4

-----------------------------------------------------------------------------
(* Pruning.  A result r of a search within the bounds stands for the value *)
(* v of the position: above alpha it is no more, below beta no less.       *)
Within(r, v, alpha, beta) == (r > alpha => r <= v) /\ (r < beta => v <= r)

Faithful(deeper, worth) ==
  \A line \in BotLines, alpha, beta \in Scores :
    alpha < beta => Within(deeper[line][alpha][beta], worth[line], alpha, beta)

(* What white and black know after n moves.                                *)
WhiteKnows(worth, line, n, acc, alpha, beta) ==
  /\ acc.beta = beta /\ acc.alpha = Larger(alpha, acc.best)
  /\ acc.best > alpha => \E i \in 1..n : orderMoves(line)[i] \in BotLines /\ acc.best <= worth[orderMoves(line)[i]]
  /\ acc.best < beta => \A i \in 1..n : orderMoves(line)[i] \in BotLines => worth[orderMoves(line)[i]] <= acc.best
BlackKnows(worth, line, n, acc, alpha, beta) ==
  /\ acc.alpha = alpha /\ acc.beta = Smaller(beta, acc.best)
  /\ acc.best < beta => \E i \in 1..n : orderMoves(line)[i] \in BotLines /\ acc.best >= worth[orderMoves(line)[i]]
  /\ acc.best > alpha => \A i \in 1..n : orderMoves(line)[i] \in BotLines => worth[orderMoves(line)[i]] >= acc.best

LEMMA ScoresAreInt == Scores \subseteq Int
BY WorthAssumption DEF Scores

LEMMA WhiteTries ==
  ASSUME NEW deeper \in Searches, NEW worth \in Worths, Faithful(deeper, worth), NEW line \in BotLines,
         ~BlackMovesIn(line), NEW n \in 1..Len(Ordered), NEW acc \in Accs, NEW alpha \in Scores, NEW beta \in Scores,
         alpha < beta, WhiteKnows(worth, line, n - 1, acc, alpha, beta)
  PROVE  WhiteKnows(worth, line, n, Tried(deeper, line, n, acc), alpha, beta)
<1> DEFINE next == orderMoves(line)[n]
           moves == orderMoves(line)
           r == deeper[next][acc.alpha][acc.beta]
           best == Larger(acc.best, r)
<1>1. alpha \in Int /\ beta \in Int /\ acc.alpha \in Scores /\ acc.beta \in Scores /\ acc.best \in Int /\ acc.alpha \in Int
  BY ScoresAreInt DEF Accs
<1>2. acc.beta = beta /\ acc.alpha = Larger(alpha, acc.best)
  BY DEF WhiteKnows
<1>3. 1..n = (1..n - 1) \cup {n}
  OBVIOUS
<1>4. CASE next \notin BotLines
  <2>1. Tried(deeper, line, n, acc) = acc
    BY <1>4 DEF Tried
  <2> HIDE DEF next
  <2> QED BY <1>3, <1>4, <2>1 DEF WhiteKnows, next
<1>5. CASE next \in BotLines /\ acc.beta <= acc.alpha
  <2>1. Tried(deeper, line, n, acc) = acc
    BY <1>5 DEF Tried
  <2>2. ~(acc.best < beta)
    BY <1>1, <1>2, <1>5 DEF Larger
  <2> HIDE DEF next
  <2> QED BY <1>2, <1>3, <2>1, <2>2 DEF WhiteKnows
<1>6. CASE next \in BotLines /\ ~(acc.beta <= acc.alpha)
  <2>1. r \in Scores /\ worth[next] \in Scores
    <3> HIDE DEF next
    <3>1. deeper[next] \in [Scores -> [Scores -> Scores]] /\ worth[next] \in Scores
      BY <1>6 DEF Searches, Worths
    <3>2. deeper[next][acc.alpha] \in [Scores -> Scores]
      BY <1>1, <3>1
    <3> QED BY <1>1, <3>1, <3>2
  <2>2. Within(r, worth[next], acc.alpha, beta)
    BY <1>1, <1>2, <1>6 DEF Faithful
  <2>3. best \in Scores /\ acc.best \in Scores
    BY <2>1 DEF Larger, Accs
  <2> DEFINE after == Tried(deeper, line, n, acc)
  <2>4. after = Bounded(acc, best, FALSE)
    BY <1>6 DEF Tried, BlackMovesIn
  <2>5. after.best = best /\ after.alpha = Larger(acc.alpha, best) /\ after.beta = beta
    <3> HIDE DEF best, after
    <3> QED BY <1>2, <2>4 DEF Bounded
  <2> HIDE DEF after
  <2>6. r \in Int /\ worth[next] \in Int /\ best \in Int
    BY <2>1, <2>3, ScoresAreInt
  <2> HIDE DEF r
  <2>7. after.alpha = Larger(alpha, best)
    BY <1>1, <1>2, <2>5, <2>6 DEF Larger
  <2>8. ASSUME best > alpha
        PROVE  \E i \in 1..n : moves[i] \in BotLines /\ best <= worth[moves[i]]
    <3>1. CASE best = acc.best
      <4>1. PICK i \in 1..n - 1 : moves[i] \in BotLines /\ acc.best <= worth[moves[i]]
        BY <2>8, <3>1 DEF WhiteKnows
      <4> QED BY <1>3, <3>1, <4>1
    <3>2. CASE best # acc.best
      <4>1. best = r /\ r > acc.alpha
        BY <1>1, <1>2, <2>6, <2>8, <3>2 DEF Larger
      <4>2. r <= worth[next]
        BY <2>2, <4>1 DEF Within
      <4> QED BY <1>6, <4>1, <4>2
    <3> QED BY <3>1, <3>2
  <2>9. ASSUME best < beta, NEW i \in 1..n, moves[i] \in BotLines
        PROVE  worth[moves[i]] <= best
    <3>1. acc.best < beta /\ r < beta /\ acc.best <= best /\ r <= best
      BY <1>1, <2>6, <2>9 DEF Larger
    <3>2. worth[moves[i]] \in Int
      BY <2>9, ScoresAreInt DEF Worths
    <3>3. CASE i = n
      BY <2>2, <2>6, <3>1, <3>3 DEF Within
    <3>4. CASE i \in 1..n - 1
      <4>1. worth[moves[i]] <= acc.best
        BY <2>9, <3>1, <3>4 DEF WhiteKnows
      <4> QED BY <1>1, <2>6, <3>1, <3>2, <4>1
    <3> QED BY <1>3, <3>3, <3>4
  <2> HIDE DEF best
  <2>10. WhiteKnows(worth, line, n, after, alpha, beta)
    BY <2>5, <2>7, <2>8, <2>9 DEF WhiteKnows
  <2> QED BY <2>10 DEF after
<1> QED BY <1>4, <1>5, <1>6

LEMMA BlackTries ==
  ASSUME NEW deeper \in Searches, NEW worth \in Worths, Faithful(deeper, worth), NEW line \in BotLines,
         BlackMovesIn(line), NEW n \in 1..Len(Ordered), NEW acc \in Accs, NEW alpha \in Scores, NEW beta \in Scores,
         alpha < beta, BlackKnows(worth, line, n - 1, acc, alpha, beta)
  PROVE  BlackKnows(worth, line, n, Tried(deeper, line, n, acc), alpha, beta)
<1> DEFINE next == orderMoves(line)[n]
           moves == orderMoves(line)
           r == deeper[next][acc.alpha][acc.beta]
           best == Smaller(acc.best, r)
<1>1. alpha \in Int /\ beta \in Int /\ acc.alpha \in Scores /\ acc.beta \in Scores /\ acc.best \in Int /\ acc.beta \in Int
  BY ScoresAreInt DEF Accs
<1>2. acc.alpha = alpha /\ acc.beta = Smaller(beta, acc.best)
  BY DEF BlackKnows
<1>3. 1..n = (1..n - 1) \cup {n}
  OBVIOUS
<1>4. CASE next \notin BotLines
  <2>1. Tried(deeper, line, n, acc) = acc
    BY <1>4 DEF Tried
  <2> HIDE DEF next
  <2> QED BY <1>3, <1>4, <2>1 DEF BlackKnows, next
<1>5. CASE next \in BotLines /\ acc.beta <= acc.alpha
  <2>1. Tried(deeper, line, n, acc) = acc
    BY <1>5 DEF Tried
  <2>2. ~(acc.best > alpha)
    BY <1>1, <1>2, <1>5 DEF Smaller
  <2> HIDE DEF next
  <2> QED BY <1>2, <1>3, <2>1, <2>2 DEF BlackKnows
<1>6. CASE next \in BotLines /\ ~(acc.beta <= acc.alpha)
  <2>1. r \in Scores /\ worth[next] \in Scores
    <3> HIDE DEF next
    <3>1. deeper[next] \in [Scores -> [Scores -> Scores]] /\ worth[next] \in Scores
      BY <1>6 DEF Searches, Worths
    <3>2. deeper[next][acc.alpha] \in [Scores -> Scores]
      BY <1>1, <3>1
    <3> QED BY <1>1, <3>1, <3>2
  <2>2. Within(r, worth[next], alpha, acc.beta)
    BY <1>1, <1>2, <1>6 DEF Faithful
  <2>3. best \in Scores /\ acc.best \in Scores
    BY <2>1 DEF Smaller, Accs
  <2> DEFINE after == Tried(deeper, line, n, acc)
  <2>4. after = Bounded(acc, best, TRUE)
    BY <1>6 DEF Tried, BlackMovesIn
  <2>5. after.best = best /\ after.beta = Smaller(acc.beta, best) /\ after.alpha = alpha
    <3> HIDE DEF best, after
    <3> QED BY <1>2, <2>4 DEF Bounded
  <2> HIDE DEF after
  <2>6. r \in Int /\ worth[next] \in Int /\ best \in Int
    BY <2>1, <2>3, ScoresAreInt
  <2> HIDE DEF r
  <2>7. after.beta = Smaller(beta, best)
    BY <1>1, <1>2, <2>5, <2>6 DEF Smaller
  <2>8. ASSUME best < beta
        PROVE  \E i \in 1..n : moves[i] \in BotLines /\ best >= worth[moves[i]]
    <3>1. CASE best = acc.best
      <4>1. PICK i \in 1..n - 1 : moves[i] \in BotLines /\ acc.best >= worth[moves[i]]
        BY <2>8, <3>1 DEF BlackKnows
      <4> QED BY <1>3, <3>1, <4>1
    <3>2. CASE best # acc.best
      <4>1. best = r /\ r < acc.beta
        BY <1>1, <1>2, <2>6, <2>8, <3>2 DEF Smaller
      <4>2. worth[next] <= r
        BY <2>2, <4>1 DEF Within
      <4> QED BY <1>6, <2>6, <4>1, <4>2
    <3> QED BY <3>1, <3>2
  <2>9. ASSUME best > alpha, NEW i \in 1..n, moves[i] \in BotLines
        PROVE  worth[moves[i]] >= best
    <3>1. acc.best > alpha /\ r > alpha /\ acc.best >= best /\ r >= best
      BY <1>1, <2>6, <2>9 DEF Smaller
    <3>2. worth[moves[i]] \in Int
      BY <2>9, ScoresAreInt DEF Worths
    <3>3. CASE i = n
      BY <2>2, <2>6, <3>1, <3>3 DEF Within
    <3>4. CASE i \in 1..n - 1
      <4>1. worth[moves[i]] >= acc.best
        BY <2>9, <3>1, <3>4 DEF BlackKnows
      <4> QED BY <1>1, <2>6, <3>1, <3>2, <4>1
    <3> QED BY <1>3, <3>3, <3>4
  <2> HIDE DEF best
  <2>10. BlackKnows(worth, line, n, after, alpha, beta)
    BY <2>5, <2>7, <2>8, <2>9 DEF BlackKnows
  <2> QED BY <2>10 DEF after
<1> QED BY <1>4, <1>5, <1>6

LEMMA SearchWithin ==
  ASSUME NEW deeper \in Searches, NEW worth \in Worths, Faithful(deeper, worth), NEW line \in BotLines,
         NEW alpha \in Scores, NEW beta \in Scores, alpha < beta,
         NEW v, IsBest(v, ValuesOf(worth, line), BlackMovesIn(line))
  PROVE  Within(searchMoves(deeper, line, alpha, beta), v, alpha, beta)
<1> DEFINE N == Len(Ordered)
           r == searchMoves(deeper, line, alpha, beta)
           moves == orderMoves(line)
<1>1. PICK tried \in [0..N -> Accs] :
        /\ tried[0] = FirstAcc(line, alpha, beta)
        /\ \A n \in 1..N : tried[n] = Tried(deeper, line, n, tried[n - 1])
        /\ r = tried[N].best
  BY SearchLoop
<1>2. /\ N \in Nat /\ N \in 0..N
      /\ \A i \in 1..N : moves[i] \in BotLines => worth[moves[i]] \in ValuesOf(worth, line)
  BY MovesFacts DEF ValuesOf
<1>3. alpha \in Int /\ beta \in Int /\ r \in Int /\ v \in Int
  <2>1. v \in Scores
    BY DEF IsBest, ValuesOf, Worths, Replies
  <2>2. r \in Scores
    BY SearchType
  <2> HIDE DEF r
  <2> QED BY <2>1, <2>2, ScoresAreInt
<1>4. \A u \in ValuesOf(worth, line) : u \in Int
  BY ScoresAreInt DEF ValuesOf, Worths, Replies
<1>5. -Infinity <= alpha /\ beta <= Infinity /\ -Infinity \in Int /\ Infinity \in Int
  BY WorthAssumption DEF Scores
<1> HIDE DEF N, r, moves
<1>6. CASE ~BlackMovesIn(line)
  <2> DEFINE S == {n \in 0..N : WhiteKnows(worth, line, n, tried[n], alpha, beta)}
  <2>1. 0 \in S
    <3>1. tried[0].best = -Infinity /\ tried[0].alpha = alpha /\ tried[0].beta = beta
      BY <1>1, <1>6 DEF FirstAcc
    <3>2. WhiteKnows(worth, line, 0, tried[0], alpha, beta)
      BY <1>3, <1>5, <3>1 DEF WhiteKnows, Larger
    <3> QED BY <1>2, <3>2
  <2>2. ASSUME NEW n \in 1..N, n - 1 \in S
        PROVE  n \in S
    <3>1. tried[n - 1] \in Accs /\ tried[n] = Tried(deeper, line, n, tried[n - 1])
      BY <1>1, <1>2
    <3>2. WhiteKnows(worth, line, n - 1, tried[n - 1], alpha, beta)
      BY <2>2
    <3>3. WhiteKnows(worth, line, n, tried[n], alpha, beta)
      BY <1>6, <3>1, <3>2, WhiteTries DEF N
    <3> QED BY <1>2, <3>3
  <2>3. N \in S
    <3> HIDE DEF S
    <3> QED BY <1>2, <2>1, <2>2, UpTo
  <2>4. WhiteKnows(worth, line, N, tried[N], alpha, beta)
    BY <2>3
  <2>5. v \in ValuesOf(worth, line) /\ \A u \in ValuesOf(worth, line) : v >= u
    BY <1>6 DEF IsBest
  <2>6. ASSUME r > alpha
        PROVE  r <= v
    <3>1. PICK i \in 1..N : moves[i] \in BotLines /\ r <= worth[moves[i]]
      BY <1>1, <2>4, <2>6 DEF WhiteKnows, moves
    <3>2. worth[moves[i]] \in ValuesOf(worth, line)
      BY <1>2, <3>1
    <3>3. v >= worth[moves[i]] /\ worth[moves[i]] \in Int
      BY <1>4, <2>5, <3>2
    <3> QED BY <1>3, <3>1, <3>3
  <2>7. ASSUME r < beta
        PROVE  v <= r
    <3>1. PICK next \in Replies(line) : v = worth[next]
      BY <2>5 DEF ValuesOf
    <3>2. PICK i \in 1..N : next = moves[i] /\ moves[i] \in BotLines
      BY <3>1, MovesFacts DEF N, moves
    <3> QED BY <1>1, <2>4, <2>7, <3>1, <3>2 DEF WhiteKnows, moves
  <2> QED BY <2>6, <2>7 DEF Within, r
<1>7. CASE BlackMovesIn(line)
  <2> DEFINE S == {n \in 0..N : BlackKnows(worth, line, n, tried[n], alpha, beta)}
  <2>1. 0 \in S
    <3>1. tried[0].best = Infinity /\ tried[0].alpha = alpha /\ tried[0].beta = beta
      BY <1>1, <1>7 DEF FirstAcc
    <3>2. BlackKnows(worth, line, 0, tried[0], alpha, beta)
      BY <1>3, <1>5, <3>1 DEF BlackKnows, Smaller
    <3> QED BY <1>2, <3>2
  <2>2. ASSUME NEW n \in 1..N, n - 1 \in S
        PROVE  n \in S
    <3>1. tried[n - 1] \in Accs /\ tried[n] = Tried(deeper, line, n, tried[n - 1])
      BY <1>1, <1>2
    <3>2. BlackKnows(worth, line, n - 1, tried[n - 1], alpha, beta)
      BY <2>2
    <3>3. BlackKnows(worth, line, n, tried[n], alpha, beta)
      BY <1>7, <3>1, <3>2, BlackTries DEF N
    <3> QED BY <1>2, <3>3
  <2>3. N \in S
    <3> HIDE DEF S
    <3> QED BY <1>2, <2>1, <2>2, UpTo
  <2>4. BlackKnows(worth, line, N, tried[N], alpha, beta)
    BY <2>3
  <2>5. v \in ValuesOf(worth, line) /\ \A u \in ValuesOf(worth, line) : v <= u
    BY <1>7 DEF IsBest
  <2>6. ASSUME r < beta
        PROVE  v <= r
    <3>1. PICK i \in 1..N : moves[i] \in BotLines /\ r >= worth[moves[i]]
      BY <1>1, <2>4, <2>6 DEF BlackKnows, moves
    <3>2. worth[moves[i]] \in ValuesOf(worth, line)
      BY <1>2, <3>1
    <3>3. v <= worth[moves[i]] /\ worth[moves[i]] \in Int
      BY <1>4, <2>5, <3>2
    <3> QED BY <1>3, <3>1, <3>3
  <2>7. ASSUME r > alpha
        PROVE  r <= v
    <3>1. PICK next \in Replies(line) : v = worth[next]
      BY <2>5 DEF ValuesOf
    <3>2. PICK i \in 1..N : next = moves[i] /\ moves[i] \in BotLines
      BY <3>1, MovesFacts DEF N, moves
    <3>3. worth[moves[i]] >= r
      BY <1>1, <2>4, <2>7, <3>2 DEF BlackKnows, moves
    <3> QED BY <1>3, <3>1, <3>2, <3>3
  <2> QED BY <2>6, <2>7 DEF Within, r
<1> QED BY <1>6, <1>7

(* Pruned or not, the search finds the value.                              *)
LEMMA LayerFaithful ==
  ASSUME NEW depth \in 0..2, depth = 0 \/ Faithful(minimax[depth - 1], GameValue[depth - 1])
  PROVE  Faithful(minimax[depth], GameValue[depth])
<1>1. SUFFICES ASSUME NEW line \in BotLines, NEW alpha \in Scores, NEW beta \in Scores, alpha < beta
               PROVE  Within(minimax[depth][line][alpha][beta], GameValue[depth][line], alpha, beta)
  BY DEF Faithful
<1>2. CASE depth = 0 \/ BotOver(line)
  <2>1. minimax[depth][line][alpha][beta] = evaluateBoard(line) /\ GameValue[depth][line] = evaluateBoard(line)
    BY <1>2, MinimaxIs, GameValueIs
  <2>2. evaluateBoard(line) \in Int
    BY EvaluateIs, ScoresAreInt
  <2> QED BY <2>1, <2>2 DEF Within
<1>3. CASE ~(depth = 0 \/ BotOver(line))
  <2>1. minimax[depth][line][alpha][beta] = searchMoves(minimax[depth - 1], line, alpha, beta)
    BY <1>3, MinimaxIs
  <2>2. /\ depth - 1 \in 0..2
        /\ IsBest(GameValue[depth][line], ValuesOf(GameValue[depth - 1], line), BlackMovesIn(line))
    BY <1>3, GameValueIs
  <2>3. minimax[depth - 1] \in Searches /\ GameValue[depth - 1] \in Worths
    BY <2>2, MinimaxIs, GameValueRec
  <2> QED BY <1>1, <1>3, <2>1, <2>2, <2>3, SearchWithin
<1> QED BY <1>2, <1>3

LEMMA SearchIsExact ==
  ASSUME NEW depth \in 0..2, NEW line \in BotLines
  PROVE  minimax[depth][line][-Infinity][Infinity] = GameValue[depth][line]
<1>1. Faithful(minimax[0], GameValue[0])
  BY LayerFaithful
<1>2. Faithful(minimax[1], GameValue[1])
  BY <1>1, LayerFaithful
<1>3. Faithful(minimax[2], GameValue[2])
  BY <1>2, LayerFaithful
<1>4. Faithful(minimax[depth], GameValue[depth])
  BY <1>1, <1>2, <1>3
<1> DEFINE r == minimax[depth][line][-Infinity][Infinity]
           v == GameValue[depth][line]
<1>5. Infinity \in Scores /\ -Infinity \in Scores /\ -Infinity < Infinity
  BY EvaluateIs
<1>6. r \in Scores /\ v \in Scores
  <2>1. minimax[depth] \in Searches
    BY MinimaxIs
  <2>2. minimax[depth][line] \in [Scores -> [Scores -> Scores]]
    BY <2>1 DEF Searches
  <2>3. minimax[depth][line][-Infinity] \in [Scores -> Scores]
    BY <1>5, <2>2
  <2> QED BY <1>5, <2>3, GameValueIs
<1>7. Within(r, v, -Infinity, Infinity)
  BY <1>4, <1>5 DEF Faithful
<1> HIDE DEF r, v
<1>8. r = v
  BY <1>6, <1>7, WorthAssumption DEF Within, Scores
<1> QED BY <1>8 DEF r, v

(* The first of the best moves is found, or none if all lose.              *)
Best(worth, line, n, acc) ==
  /\ acc.move = NoReply => acc.value = Infinity
  /\ acc.move # NoReply => acc.move \in Replies(line) /\ acc.value = worth[acc.move]
  /\ \A i \in 1..n : orderMoves(line)[i] \in BotLines => acc.value <= worth[orderMoves(line)[i]]

LEMMA FoundIsBest ==
  ASSUME NEW deeper \in Searches, NEW worth \in Worths, NEW line \in BotLines,
         \A next \in BotLines : deeper[next][-Infinity][Infinity] = worth[next],
         NEW n \in 1..Len(Ordered), NEW acc \in Founds, Best(worth, line, n - 1, acc)
  PROVE  Best(worth, line, n, Found(deeper, line, n, acc))
<1> DEFINE moves == orderMoves(line)
           next == moves[n]
           after == Found(deeper, line, n, acc)
<1>1. 1..n = (1..n - 1) \cup {n}
  OBVIOUS
<1>2. acc.value \in Int /\ \A l \in BotLines : worth[l] \in Int
  BY ScoresAreInt DEF Founds, Worths
<1>3. CASE next \notin BotLines
  <2>1. after = acc
    BY <1>3 DEF Found
  <2> HIDE DEF after, next
  <2>2. \A i \in 1..n : moves[i] \in BotLines => acc.value <= worth[moves[i]]
    BY <1>1, <1>3 DEF Best, next
  <2>3. Best(worth, line, n, after)
    BY <2>1, <2>2 DEF Best
  <2> QED BY <2>3 DEF after
<1>4. CASE next \in BotLines
  <2>1. after = IF worth[next] < acc.value THEN [move |-> next, value |-> worth[next]] ELSE acc
    BY <1>4 DEF Found
  <2>2. next \in Replies(line) /\ next # NoReply
    BY <1>4, MovesFacts, TreeAssumption
  <2> HIDE DEF after, next
  <2>3. CASE worth[next] < acc.value
    <3>1. after.move = next /\ after.value = worth[next]
      BY <2>1, <2>3
    <3>2. ASSUME NEW i \in 1..n, moves[i] \in BotLines
          PROVE  after.value <= worth[moves[i]]
      <4>1. CASE i = n
        BY <1>2, <1>4, <3>1, <4>1 DEF next
      <4>2. CASE i \in 1..n - 1
        <5>1. acc.value <= worth[moves[i]]
          BY <3>2, <4>2 DEF Best
        <5> QED BY <1>2, <1>4, <2>3, <3>1, <3>2, <5>1
      <4> QED BY <1>1, <4>1, <4>2
    <3>3. Best(worth, line, n, after)
      BY <2>2, <3>1, <3>2 DEF Best
    <3> QED BY <3>3 DEF after
  <2>4. CASE ~(worth[next] < acc.value)
    <3>1. after = acc /\ acc.value <= worth[next]
      BY <1>2, <1>4, <2>1, <2>4
    <3>2. \A i \in 1..n : moves[i] \in BotLines => acc.value <= worth[moves[i]]
      BY <1>1, <3>1 DEF Best, next
    <3>3. Best(worth, line, n, after)
      BY <3>1, <3>2 DEF Best
    <3> QED BY <3>3 DEF after
  <2> QED BY <2>3, <2>4
<1> QED BY <1>3, <1>4

LEMMA BestMoveIs ==
  ASSUME NEW line \in BotLines, NEW depth \in 1..3
  PROVE  LET reply == getBestMove(line, depth)
             worth == GameValue[depth - 1]
         IN  /\ reply = NoReply => \A next \in Replies(line) : worth[next] = Infinity
             /\ reply # NoReply => /\ reply \in Replies(line)
                                   /\ \A next \in Replies(line) : worth[reply] <= worth[next]
<1> DEFINE N == Len(Ordered)
           deeper == minimax[depth - 1]
           worth == GameValue[depth - 1]
           reply == getBestMove(line, depth)
<1>1. depth - 1 \in 0..2
  OBVIOUS
<1>2. deeper \in Searches /\ worth \in Worths
  BY <1>1, MinimaxIs, GameValueRec
<1>3. \A next \in BotLines : deeper[next][-Infinity][Infinity] = worth[next]
  BY <1>1, SearchIsExact
<1>4. PICK found \in [0..N -> Founds] :
        /\ found[0] = NoneFound
        /\ \A n \in 1..N : found[n] = Found(deeper, line, n, found[n - 1])
        /\ reply = found[N].move
  BY <1>2, BestLoop
<1>5. N \in Nat /\ N \in 0..N
  BY MovesFacts
<1> HIDE DEF N, deeper, worth, reply
<1> DEFINE S == {n \in 0..N : Best(worth, line, n, found[n])}
<1>6. 0 \in S
  BY <1>4, <1>5 DEF Best, NoneFound
<1>7. ASSUME NEW n \in 1..N, n - 1 \in S
      PROVE  n \in S
  <2>1. found[n - 1] \in Founds /\ found[n] = Found(deeper, line, n, found[n - 1])
    BY <1>4, <1>5
  <2>2. Best(worth, line, n - 1, found[n - 1])
    BY <1>7
  <2>3. Best(worth, line, n, found[n])
    BY <1>2, <1>3, <2>1, <2>2, FoundIsBest DEF N
  <2> QED BY <1>5, <2>3
<1>8. N \in S
  <2> HIDE DEF S
  <2> QED BY <1>5, <1>6, <1>7, UpTo
<1>9. Best(worth, line, N, found[N])
  BY <1>8
<1>10. \A next \in Replies(line) : found[N].value <= worth[next]
  BY <1>9, MovesFacts DEF Best, N
<1>11. \A next \in Replies(line) : worth[next] \in Scores
  BY <1>2 DEF Worths, Replies
<1>12. reply = NoReply => \A next \in Replies(line) : worth[next] = Infinity
  <2> SUFFICES ASSUME reply = NoReply, NEW next \in Replies(line)
               PROVE  worth[next] = Infinity
    OBVIOUS
  <2>1. Infinity <= worth[next]
    BY <1>4, <1>9, <1>10 DEF Best
  <2> QED BY <1>11, <2>1, WorthAssumption DEF Scores
<1>13. reply # NoReply => /\ reply \in Replies(line)
                          /\ \A next \in Replies(line) : worth[reply] <= worth[next]
  BY <1>4, <1>9, <1>10 DEF Best
<1> QED BY <1>12, <1>13 DEF worth, reply

(* Who mates by force within fewer moves mates within more.                *)
LEMMA MateStandsDeeper ==
  ASSUME NEW d \in 0..1, \A l \in BotLines : d # 0 /\ GameValue[d - 1][l] = Infinity => GameValue[d][l] = Infinity,
         NEW line \in BotLines, GameValue[d][line] = Infinity
  PROVE  GameValue[d + 1][line] = Infinity
<1>1. d \in 0..2 /\ d + 1 \in 0..2 /\ d + 1 # 0 /\ (d + 1) - 1 = d
  OBVIOUS
<1>2. CASE BotOver(line)
  BY <1>1, <1>2, GameValueIs
<1>3. CASE ~BotOver(line)
  <2>1. IsBest(GameValue[d + 1][line], ValuesOf(GameValue[d], line), BlackMovesIn(line))
    BY <1>1, <1>3, GameValueIs
  <2>2. d # 0 /\ d - 1 \in 0..2
    <3>1. ASSUME d = 0 PROVE FALSE
      <4>1. evaluateBoard(line) = Infinity
        BY <3>1, GameValueIs
      <4> QED BY <1>3, <4>1, EvaluateIs DEF BotOver
    <3> QED BY <3>1
  <2>3. IsBest(Infinity, ValuesOf(GameValue[d - 1], line), BlackMovesIn(line))
    BY <1>1, <1>3, <2>2, GameValueIs
  <2>4. Replies(line) \subseteq BotLines
    BY DEF Replies
  <2>5. \A next \in Replies(line) : GameValue[d - 1][next] \in Scores /\ GameValue[d][next] \in Scores
    BY <1>1, <2>2, <2>4, GameValueIs
  <2>6. GameValue[d + 1][line] \in Scores
    BY <1>1, GameValueIs
  <2>7. CASE BlackMovesIn(line)
    <3>1. PICK next \in Replies(line) : GameValue[d + 1][line] = GameValue[d][next]
      BY <2>1 DEF IsBest, ValuesOf
    <3>2. Infinity <= GameValue[d - 1][next]
      BY <2>3, <2>7 DEF IsBest, ValuesOf
    <3>3. GameValue[d - 1][next] = Infinity
      BY <2>5, <3>2, WorthAssumption DEF Scores
    <3> QED BY <2>2, <2>4, <3>1, <3>3
  <2>8. CASE ~BlackMovesIn(line)
    <3>1. PICK next \in Replies(line) : GameValue[d - 1][next] = Infinity
      BY <2>3 DEF IsBest, ValuesOf
    <3>2. GameValue[d][next] = Infinity
      BY <2>2, <2>4, <3>1
    <3>3. GameValue[d + 1][line] >= Infinity
      BY <2>1, <2>8, <3>2 DEF IsBest, ValuesOf
    <3> QED BY <2>6, <3>3, WorthAssumption DEF Scores
  <2> QED BY <2>7, <2>8
<1> QED BY <1>2, <1>3

LEMMA MateStands ==
  ASSUME NEW d \in 0..2, NEW line \in BotLines, GameValue[d][line] = Infinity
  PROVE  GameValue[2][line] = Infinity
<1>1. \A l \in BotLines : GameValue[0][l] = Infinity => GameValue[1][l] = Infinity
  <2>1. \A l \in BotLines : GameValue[0][l] = Infinity => GameValue[0 + 1][l] = Infinity
    BY MateStandsDeeper
  <2> QED BY <2>1
<1>2. \A l \in BotLines : GameValue[1][l] = Infinity => GameValue[2][l] = Infinity
  <2>1. \A l \in BotLines : 1 # 0 /\ GameValue[1 - 1][l] = Infinity => GameValue[1][l] = Infinity
    BY <1>1
  <2>2. \A l \in BotLines : GameValue[1][l] = Infinity => GameValue[1 + 1][l] = Infinity
    BY <2>1, MateStandsDeeper
  <2> QED BY <2>2
<1> QED BY <1>1, <1>2

(* The values depend on the mates only.                                    *)
LEMMA ValuesStay ==
  ASSUME mates' = mates
  PROVE  \A n \in 0..2 : GameValue'[n] = GameValue[n]
<1>1. (\A n \in 0..2 : GameValue[n] = ValueLayer(GameValue[n - 1], n))'
  BY GameValueRec, PTL
<1>2. \A n \in 0..2 : GameValue'[n] = (ValueLayer(GameValue[n - 1], n))'
  BY <1>1
<1>3. \A n \in 0..2 : GameValue'[n] = ValueLayer(GameValue'[n - 1], n)
  BY <1>2 DEF ValueLayer, BotOver, evaluateBoard
<1>4. GameValue'[0] = GameValue[0]
  <2>1. GameValue'[0] = ValueLayer(GameValue'[0 - 1], 0) /\ GameValue[0] = ValueLayer(GameValue[0 - 1], 0)
    BY <1>3, GameValueRec
  <2> QED BY <2>1, FirstValueLayer
<1>5. GameValue'[1] = GameValue[1]
  BY <1>3, <1>4, GameValueRec
<1>6. GameValue'[2] = GameValue[2]
  BY <1>3, <1>5, GameValueRec
<1> QED BY <1>4, <1>5, <1>6

-----------------------------------------------------------------------------
(* The page.  The timer is set for the position on the board, in which     *)
(* black is to move; while the player chooses a piece white is; and where  *)
(* the bot fell silent, all it could do loses by force.                    *)
TimerFits ==
  botTimer # NoReply =>
    botPage = "game" /\ botBoard = botTimer /\ BlackMovesIn(botTimer) /\ ~BotOver(botTimer)
ChoiceFits ==
  pendingPromotion # NoPiece =>
    botPage = "game" /\ pendingPromotion \in Replies(botBoard) /\ ~BlackMovesIn(botBoard)
SilentIfLost ==
  botPage = "game" /\ BlackMovesIn(botBoard) /\ ~BotOver(botBoard) /\ botTimer = NoReply /\ ~interrupted =>
    \A next \in Replies(botBoard) : GameValue[2][next] = Infinity
BotInv == BotTypeOK /\ TimerFits /\ ChoiceFits /\ SilentIfLost /\ BotGameResumes

LEMMA OtherSideMoves ==
  ASSUME NEW line \in BotLines, NEW next \in Replies(line)
  PROVE  next \in BotLines /\ next # <<>> /\ (BlackMovesIn(next) <=> ~BlackMovesIn(line))
<1>1. PICK i \in DOMAIN Ordered : next = Append(line, Ordered[i]) /\ next \in BotLines
  BY DEF Replies
<1>2. line \in Seq(BotMoves) /\ Ordered[i] \in BotMoves
  BY TreeAssumption DEF BotMoves
<1>3. Len(next) = Len(line) + 1 /\ Len(line) \in Nat
  BY <1>1, <1>2
<1>4. next # <<>>
  BY <1>3
<1> QED BY <1>1, <1>3, <1>4 DEF BlackMovesIn

LEMMA WhiteBegins == ~BlackMovesIn(<<>>) /\ <<>> \in BotLines
BY TreeAssumption DEF BlackMovesIn

LEMMA BotInitInv ==
  ASSUME BotInit
  PROVE  BotInv
BY WhiteBegins DEF BotInit, BotInv, BotTypeOK, TimerFits, ChoiceFits, SilentIfLost, BotGameResumes

(* A move that is played ends the game or sets the timer.                  *)
LEMMA BotMoveKeeps ==
  ASSUME BotInv, NEW next \in Replies(botBoard), ~BlackMovesIn(botBoard), botPage = "game",
         executeBotMove(next), pendingPromotion' = NoPiece
  PROVE  BotInv'
<1>1. next \in BotLines /\ next # <<>> /\ BlackMovesIn(next) /\ botBoard \in BotLines
  BY OtherSideMoves DEF BotInv, BotTypeOK
<1>2. botTimer = NoReply
  BY DEF BotInv, TimerFits
<1>3. mates' = mates /\ botBoard' = next /\ botPage' = botPage
  BY DEF executeBotMove
<1>4. BotOver(next)' <=> BotOver(next)
  BY <1>3 DEF BotOver
<1>5. BotTypeOK'
  BY <1>1 DEF BotInv, BotTypeOK, executeBotMove
<1>6. TimerFits'
  BY <1>1, <1>2, <1>3, <1>4 DEF TimerFits, executeBotMove, BotOver
<1>7. SilentIfLost'
  <2>1. CASE BotOver(next)
    BY <1>3, <1>4, <2>1 DEF SilentIfLost, BotOver
  <2>2. CASE ~BotOver(next)
    <3>1. botTimer' = next /\ next # NoReply
      BY <1>1, <2>2, TreeAssumption DEF executeBotMove
    <3> QED BY <3>1 DEF SilentIfLost
  <2> QED BY <2>1, <2>2
<1>8. BotGameResumes'
  BY <1>3, <1>4 DEF BotGameResumes, executeBotMove, BotOver
<1> QED BY <1>5, <1>6, <1>7, <1>8 DEF BotInv, ChoiceFits

(* What is shown stays, and who was to be silent still is.                 *)
LEMMA SilenceStays ==
  ASSUME SilentIfLost, mates' = mates, botBoard' = botBoard, botTimer' = botTimer, interrupted' = interrupted,
         botPage' = "game" => botPage = "game"
  PROVE  SilentIfLost'
<1>1. GameValue'[2] = GameValue[2]
  BY ValuesStay
<1>2. SUFFICES ASSUME botPage' = "game", BlackMovesIn(botBoard), ~BotOver(botBoard)', botTimer = NoReply, ~interrupted,
                      NEW next \in Replies(botBoard)
               PROVE  GameValue[2][next] = Infinity
  BY <1>1 DEF SilentIfLost
<1>3. ~BotOver(botBoard)
  BY <1>2 DEF BotOver
<1> QED BY <1>2, <1>3 DEF SilentIfLost

LEMMA RepliesKeep ==
  ASSUME BotInv, NEW depth \in 1..3, botReplies(depth)
  PROVE  BotInv'
<1> DEFINE reply == getBestMove(botTimer, depth)
<1>1. botTimer # NoReply /\ botTimer \in BotLines /\ botBoard = botTimer /\ BlackMovesIn(botTimer) /\ ~BotOver(botTimer)
  BY DEF botReplies, BotInv, BotTypeOK, TimerFits
<1>2. /\ reply = NoReply => \A next \in Replies(botTimer) : GameValue[depth - 1][next] = Infinity
      /\ reply # NoReply => reply \in Replies(botTimer)
  BY <1>1, BestMoveIs
<1>3. /\ mates' = mates /\ botTimer' = NoReply /\ pendingPromotion' = pendingPromotion /\ botIntroDone' = botIntroDone
      /\ botPage' = botPage /\ interrupted' = interrupted
      /\ IF reply = NoReply THEN botBoard' = botBoard /\ botSave' = botSave
         ELSE botBoard' = reply /\ botSave' = reply
  BY DEF botReplies
<1> HIDE DEF reply
<1>4. reply # NoReply => reply \in BotLines /\ ~BlackMovesIn(reply)
  BY <1>1, <1>2, OtherSideMoves
<1>5. BotTypeOK'
  BY <1>3, <1>4 DEF BotInv, BotTypeOK
<1>6. TimerFits'
  BY <1>3 DEF TimerFits
<1>7. pendingPromotion = NoPiece
  BY <1>1 DEF BotInv, ChoiceFits
<1>8. SilentIfLost'
  <2>1. CASE reply = NoReply
    <3>1. \A next \in Replies(botTimer) : GameValue[2][next] = Infinity
      <4> SUFFICES ASSUME NEW next \in Replies(botTimer)
                   PROVE  GameValue[2][next] = Infinity
        OBVIOUS
      <4>1. next \in BotLines /\ GameValue[depth - 1][next] = Infinity /\ depth - 1 \in 0..2
        BY <1>2, <2>1 DEF Replies
      <4> QED BY <4>1, MateStands
    <3>2. GameValue'[2] = GameValue[2]
      BY <1>3, ValuesStay
    <3> QED BY <1>1, <1>3, <2>1, <3>1, <3>2 DEF SilentIfLost
  <2>2. CASE reply # NoReply
    BY <1>3, <1>4, <2>2 DEF SilentIfLost
  <2> QED BY <2>1, <2>2
<1>9. BotGameResumes'
  <2>1. CASE reply = NoReply
    BY <1>3, <2>1 DEF BotInv, BotGameResumes, BotOver
  <2>2. CASE reply # NoReply
    BY <1>3, <2>2 DEF BotGameResumes
  <2> QED BY <2>1, <2>2
<1> QED BY <1>3, <1>5, <1>6, <1>7, <1>8, <1>9 DEF BotInv, ChoiceFits

LEMMA BotStep ==
  ASSUME BotInv, [BotOp]_botVars
  PROVE  BotInv'
<1>1. CASE UNCHANGED botVars
  <2>1. mates' = mates /\ SilentIfLost'
    BY <1>1, SilenceStays DEF BotInv, botVars
  <2> QED BY <1>1, <2>1 DEF botVars, BotInv, BotTypeOK, TimerFits, ChoiceFits, BotGameResumes, BotOver
<1>2. CASE \E next \in BotLines, promotes \in BOOLEAN : playerDrops(next, promotes)
  <2>1. PICK next \in BotLines, promotes \in BOOLEAN : playerDrops(next, promotes)
    BY <1>2
  <2>2. /\ botPage = "game" /\ pendingPromotion = NoPiece /\ ~BotOver(botBoard) /\ ~BlackMovesIn(botBoard)
        /\ next \in Replies(botBoard)
    BY <2>1 DEF playerDrops, BotScreen
  <2>3. CASE executeBotMove(next) /\ pendingPromotion' = pendingPromotion
    BY <2>2, <2>3, BotMoveKeeps
  <2>4. CASE /\ pendingPromotion' = next
             /\ UNCHANGED <<mates, botBoard, botSave, botTimer, botIntroDone, botPage, interrupted>>
    <3>1. SilentIfLost'
      BY <2>4, SilenceStays DEF BotInv
    <3> QED BY <2>2, <2>4, <3>1 DEF BotInv, BotTypeOK, TimerFits, ChoiceFits, BotGameResumes, BotOver
  <2> QED BY <2>1, <2>3, <2>4 DEF playerDrops
<1>3. CASE handlePromotionSelect
  <2>1. pendingPromotion # NoPiece
    BY <1>3 DEF handlePromotionSelect, BotScreen
  <2>2. botPage = "game" /\ pendingPromotion \in Replies(botBoard) /\ ~BlackMovesIn(botBoard)
    BY <2>1 DEF BotInv, ChoiceFits
  <2> QED BY <1>3, <2>2, BotMoveKeeps DEF handlePromotionSelect
<1>4. CASE PromotionCancelled
  <2>1. SilentIfLost'
    BY <1>4, SilenceStays DEF PromotionCancelled, BotInv
  <2> QED BY <1>4, <2>1 DEF PromotionCancelled, BotInv, BotTypeOK, TimerFits, ChoiceFits, BotGameResumes, BotOver
<1>5. CASE \E depth \in 1..3 : botReplies(depth)
  BY <1>5, RepliesKeep
<1>6. CASE resetBotGame
  <2>1. pendingPromotion = NoPiece
    BY <1>6 DEF resetBotGame, BotScreen
  <2> QED BY <1>6, <2>1, WhiteBegins
          DEF resetBotGame, BotInv, BotTypeOK, TimerFits, ChoiceFits, SilentIfLost, BotGameResumes
<1>7. CASE finishBotIntro
  <2>1. SilentIfLost'
    BY <1>7, SilenceStays DEF finishBotIntro, BotInv
  <2> QED BY <1>7, <2>1 DEF finishBotIntro, BotInv, BotTypeOK, TimerFits, ChoiceFits, BotGameResumes, BotOver
<1>8. CASE CloseBotPage
  BY <1>8 DEF CloseBotPage, BotInv, BotTypeOK, TimerFits, ChoiceFits, SilentIfLost, BotGameResumes
<1>9. CASE OpenBotPage
  <2>1. botTimer = NoReply /\ pendingPromotion = NoPiece
    BY <1>9 DEF OpenBotPage, BotInv, TimerFits, ChoiceFits
  <2> QED BY <1>9, <2>1, WhiteBegins
          DEF OpenBotPage, BotInv, BotTypeOK, TimerFits, ChoiceFits, SilentIfLost, BotGameResumes
<1> QED BY <1>1, <1>2, <1>3, <1>4, <1>5, <1>6, <1>7, <1>8, <1>9 DEF BotOp

(* What a browser shows of a game against the bot keeps the invariant.     *)
THEOREM BotInvariant == BotSpec => []BotInv
<1>1. BotInit => BotInv
  BY BotInitInv
<1>2. BotInv /\ [BotOp]_botVars => BotInv'
  BY BotStep
<1> QED BY <1>1, <1>2, PTL DEF BotSpec

LEMMA InvPlaysBest ==
  ASSUME BotInv
  PROVE  BotPlaysBest
<1>1. ASSUME botTimer # NoReply, NEW depth \in 1..3
      PROVE  LET reply  == getBestMove(botTimer, depth)
                 values == {GameValue[depth - 1][next] : next \in Replies(botTimer)}
             IN  IF reply = NoReply THEN values = {Infinity}
                 ELSE \A v \in values : GameValue[depth - 1][reply] <= v
  <2> DEFINE reply == getBestMove(botTimer, depth)
             worth == GameValue[depth - 1]
             values == {worth[next] : next \in Replies(botTimer)}
  <2>1. botTimer \in BotLines /\ Replies(botTimer) # {}
    BY <1>1 DEF BotInv, BotTypeOK, TimerFits, BotOver
  <2>2. /\ reply = NoReply => \A next \in Replies(botTimer) : worth[next] = Infinity
        /\ reply # NoReply => \A next \in Replies(botTimer) : worth[reply] <= worth[next]
    BY <2>1, BestMoveIs
  <2> HIDE DEF reply, worth
  <2>3. reply = NoReply => values = {Infinity}
    BY <2>1, <2>2
  <2>4. reply # NoReply => \A v \in values : worth[reply] <= v
    BY <2>2
  <2> QED BY <2>3, <2>4 DEF reply, worth
<1> QED BY <1>1 DEF BotPlaysBest, BotInv, SilentIfLost

(* For every tree of games, every order of the moves and every material    *)
(* worth: the pruned search of depths 1 to 3 returns a move of the least   *)
(* value that the search without pruning gives, and the bot falls silent   *)
(* in a game that goes on only if all its moves lose by force or a reload  *)
(* has lost its turn.                                                      *)
THEOREM BotIsOptimal == BotSpec => []BotPlaysBest
<1>1. BotInv => BotPlaysBest
  BY InvPlaysBest
<1> QED BY <1>1, BotInvariant, PTL

(* A reload brings back the game on the screen, whatever was done before.  *)
THEOREM BotGameIsKept == BotSpec => []BotGameResumes
<1>1. BotInv => BotGameResumes
  BY DEF BotInv
<1> QED BY <1>1, BotInvariant, PTL
=============================================================================
