---------------------------- MODULE SorobanChess ----------------------------
(***************************************************************************)
(* The Soroban contract of stellar-contracts/src/lib.rs.  It has no        *)
(* oracle: moves are recorded without their content to run a clock, and a  *)
(* game ends by a resignation, by the winner's own report, by a claim that *)
(* the clock ran out, or by an agreed draw.                                *)
(*                                                                         *)
(* Every contract function is one action, named as in the source, whose    *)
(* first parameter is the address that require_auth asks for; a function   *)
(* that returns an error or panics leaves no trace.  black and             *)
(* draw_proposer start as white, with a flag beside each that says whether *)
(* it means anything.                                                      *)
(***************************************************************************)
EXTENDS Elo, FiniteSets

CONSTANTS
  Addresses,        \* accounts
  EscrowContract,   \* current_contract_address
  FirstTokens,      \* what an account may own of the token at first
  Transfers,        \* amounts an account may transfer by itself
  Stakes,           \* wagers create_game is called with; i128, so also negative
  Timeouts,         \* timeouts the contract may be given, in ticks
  DefaultTimeout,   \* DEFAULT_TIMEOUT
  MaxTicks,         \* bound: a clock is not told apart beyond it
  SorobanGames,     \* bound on GameCounter
  MaxMoves          \* bound on move_count

ASSUME SorobanAssumption ==
  /\ Addresses # {} /\ EscrowContract \notin Addresses
  /\ FirstTokens \subseteq Nat /\ Transfers \subseteq Nat
  /\ Stakes \subseteq Int
  /\ MaxTicks \in Nat
  /\ Timeouts \subseteq 0..MaxTicks /\ DefaultTimeout \in 1..MaxTicks
  /\ SorobanGames \in Nat /\ MaxMoves \in Nat

VARIABLES
  tokens,      \* the token's balances, of accounts and of the contract
  admin,       \* DataKey::Admin, or NotInitialized before initialize
  timeoutSecs, \* DataKey::TimeoutSecs
  counter,     \* DataKey::GameCounter
  sorobans,    \* DataKey::Game(id)
  idle,        \* per game: time since last_move_ts, up to MaxTicks
  ranks,       \* DataKey::Stats(address)
  agreed       \* history: who has agreed to a draw in the position on the board

sorobanVars == <<tokens, admin, timeoutSecs, counter, sorobans, idle, ranks, agreed>>

NotInitialized == "nobody"
SorobanIds == 0..SorobanGames - 1
Purses == Addresses \cup {EscrowContract}
AnyAddress == CHOOSE a \in Addresses : TRUE

SorobanGame == [white: Addresses, black: Addresses, wager: Int,
                status: {"None", "Waiting", "Active", "Finished", "Cancelled", "Draw"},
                turn: Addresses, move_count: Nat, draw_proposer: Addresses,
                draw_proposed: BOOLEAN]
Rank == [wins: Nat, losses: Nat, draws: Nat, rating: Nat, games_played: Nat]

(* A key that was never set; its fields are not read. *)
Missing == [white |-> AnyAddress, black |-> AnyAddress, wager |-> 0, status |-> "None",
            turn |-> AnyAddress, move_count |-> 0, draw_proposer |-> AnyAddress,
            draw_proposed |-> FALSE]

Unranked == [wins |-> 0, losses |-> 0, draws |-> 0, rating |-> StartingElo, games_played |-> 0]

SorobanTypeOK ==
  /\ tokens \in [Purses -> Nat]
  /\ admin \in Addresses \cup {NotInitialized}
  /\ timeoutSecs \in Nat
  /\ counter \in 0..SorobanGames
  /\ sorobans \in [SorobanIds -> SorobanGame]
  /\ idle \in [SorobanIds -> 0..MaxTicks]
  /\ ranks \in [Addresses -> Rank]
  /\ agreed \in [SorobanIds -> SUBSET Addresses]

SorobanInit ==
  /\ \E first \in [Addresses -> FirstTokens] :
       tokens = [p \in Purses |-> IF p = EscrowContract THEN 0 ELSE first[p]]
  /\ admin = NotInitialized
  /\ timeoutSecs = DefaultTimeout
  /\ counter = 0
  /\ sorobans = [id \in SorobanIds |-> Missing]
  /\ idle = [id \in SorobanIds |-> 0]
  /\ ranks = [a \in Addresses |-> Unranked]
  /\ agreed = [id \in SorobanIds |-> {}]

-----------------------------------------------------------------------------
(* What the functions share *)

(* What a wager locks: nothing is transferred unless it is positive.       *)
Locks(wager) == IF wager > 0 THEN wager ELSE 0

Lock(a, wager) ==
  /\ tokens[a] >= Locks(wager)
  /\ tokens' = [tokens EXCEPT ![a] = @ - Locks(wager), ![EscrowContract] = @ + Locks(wager)]

\* mutant
Reopened(id, status) == sorobans' = sorobans

Closed(id, status) == sorobans' = [sorobans EXCEPT ![id].status = status]

Ranked(r, w, l, d, rating) ==
  [wins |-> r.wins + w, losses |-> r.losses + l, draws |-> r.draws + d,
   rating |-> rating, games_played |-> r.games_played + 1]

end_game(id, winner, loser) ==
  LET pot == Locks(sorobans[id].wager * 2)
      w == ranks[winner]
      l == ranks[loser]
  IN  /\ Closed(id, "Finished")
      /\ tokens[EscrowContract] >= pot
      /\ tokens' = [tokens EXCEPT ![EscrowContract] = @ - pot, ![winner] = @ + pot]
      /\ ranks' = [ranks EXCEPT
           ![winner] = Ranked(w, 1, 0, 0, WinnerRating(w.rating, l.rating)),
           ![loser] = Ranked(l, 0, 1, 0, LoserRating(w.rating, l.rating))]

Seat(a, id) == sorobans[id].status = "Active" /\ a \in {sorobans[id].white, sorobans[id].black}

Other(a, id) == IF a = sorobans[id].white THEN sorobans[id].black ELSE sorobans[id].white

Initialized == admin # NotInitialized

Settings == <<admin, timeoutSecs, counter>>

-----------------------------------------------------------------------------
(* The contract's functions *)

(* Anyone may call it, and only the first call counts. *)
initialize(a, timeout) ==
  /\ ~Initialized
  /\ admin' = a
  /\ timeoutSecs' = IF timeout = 0 THEN DefaultTimeout ELSE timeout
  /\ UNCHANGED <<tokens, counter, sorobans, idle, ranks, agreed>>

create_game(creator, wager) ==
  /\ Initialized
  /\ counter < SorobanGames
  /\ Lock(creator, wager)
  /\ sorobans' = [sorobans EXCEPT ![counter] =
       [white |-> creator, black |-> creator, wager |-> wager, status |-> "Waiting",
        turn |-> creator, move_count |-> 0, draw_proposer |-> creator, draw_proposed |-> FALSE]]
  /\ idle' = [idle EXCEPT ![counter] = 0]
  /\ counter' = counter + 1
  /\ UNCHANGED <<admin, timeoutSecs, ranks, agreed>>

join_game(player, id) ==
  /\ sorobans[id].status = "Waiting"
  /\ player # sorobans[id].white
  /\ Lock(player, sorobans[id].wager)
  /\ sorobans' = [sorobans EXCEPT ![id] = [@ EXCEPT !.black = player, !.status = "Active"]]
  /\ idle' = [idle EXCEPT ![id] = 0]
  /\ UNCHANGED <<Settings, ranks, agreed>>

\* mutant
submit_move_offer_stands(player, id) ==
  /\ sorobans[id].status = "Active"
  /\ player = sorobans[id].turn
  /\ sorobans[id].move_count < MaxMoves
  /\ sorobans' = [sorobans EXCEPT ![id] =
       [@ EXCEPT !.turn = Other(player, id), !.move_count = sorobans[id].move_count + 1]]
  /\ idle' = [idle EXCEPT ![id] = 0]
  /\ agreed' = [agreed EXCEPT ![id] = {}]
  /\ UNCHANGED <<Settings, tokens, ranks>>

(* A move withdraws a pending offer, also the mover's own. *)
submit_move(player, id) ==
  /\ sorobans[id].status = "Active"
  /\ player = sorobans[id].turn
  /\ sorobans[id].move_count < MaxMoves
  /\ sorobans' = [sorobans EXCEPT ![id] =
       [@ EXCEPT !.turn = Other(player, id), !.move_count = sorobans[id].move_count + 1,
                 !.draw_proposed = FALSE]]
  /\ idle' = [idle EXCEPT ![id] = 0]
  /\ agreed' = [agreed EXCEPT ![id] = {}]
  /\ UNCHANGED <<Settings, tokens, ranks>>

resign_game(player, id) ==
  /\ Seat(player, id)
  /\ end_game(id, Other(player, id), player)
  /\ UNCHANGED <<Settings, idle, agreed>>

(* The winner's word is taken for it. *)
report_win(player, id) ==
  /\ Seat(player, id)
  /\ end_game(id, player, Other(player, id))
  /\ UNCHANGED <<Settings, idle, agreed>>

claim_timeout(player, id) ==
  /\ Seat(player, id)
  /\ player # sorobans[id].turn
  /\ idle[id] >= timeoutSecs
  /\ end_game(id, player, sorobans[id].turn)
  /\ UNCHANGED <<Settings, idle, agreed>>

propose_draw(player, id) ==
  /\ Seat(player, id)
  /\ ~(sorobans[id].draw_proposed /\ sorobans[id].draw_proposer = player)
  /\ sorobans' = [sorobans EXCEPT ![id] =
       [@ EXCEPT !.draw_proposed = TRUE, !.draw_proposer = player]]
  /\ agreed' = [agreed EXCEPT ![id] = @ \cup {player}]
  /\ UNCHANGED <<Settings, tokens, idle, ranks>>

accept_draw(player, id) ==
  /\ Seat(player, id)
  /\ sorobans[id].draw_proposed
  /\ sorobans[id].draw_proposer # player
  /\ Closed(id, "Draw")
  /\ LET each == Locks(sorobans[id].wager)
     IN  /\ tokens[EscrowContract] >= each * 2
         /\ tokens' = [tokens EXCEPT ![EscrowContract] = @ - each * 2,
                                     ![sorobans[id].white] = @ + each,
                                     ![sorobans[id].black] = @ + each]
  /\ ranks' = [a \in Addresses |->
       IF a \in {sorobans[id].white, sorobans[id].black}
       THEN Ranked(ranks[a], 0, 0, 1, ranks[a].rating) ELSE ranks[a]]
  /\ agreed' = [agreed EXCEPT ![id] = @ \cup {player}]
  /\ UNCHANGED <<Settings, idle>>

cancel_game(player, id) ==
  /\ sorobans[id].status = "Waiting"
  /\ player = sorobans[id].white
  /\ Closed(id, "Cancelled")
  /\ LET each == Locks(sorobans[id].wager)
     IN  /\ tokens[EscrowContract] >= each
         /\ tokens' = [tokens EXCEPT ![EscrowContract] = @ - each, ![player] = @ + each]
  /\ UNCHANGED <<Settings, idle, ranks, agreed>>

(* Zero is not replaced by the default here. *)
set_timeout(a, timeout) ==
  /\ a = admin
  /\ timeoutSecs' = timeout
  /\ UNCHANGED <<tokens, admin, counter, sorobans, idle, ranks, agreed>>

(* Outside the contract: a token transfer, and the passing of time. *)
TransferToken(from, to, n) ==
  /\ from # to /\ tokens[from] >= n
  /\ tokens' = [tokens EXCEPT ![from] = @ - n, ![to] = @ + n]
  /\ UNCHANGED <<Settings, sorobans, idle, ranks, agreed>>

LedgerTick ==
  /\ idle' = [id \in SorobanIds |->
       IF sorobans[id].status = "Active" /\ idle[id] < MaxTicks THEN idle[id] + 1 ELSE idle[id]]
  /\ UNCHANGED <<Settings, tokens, sorobans, ranks, agreed>>

SorobanGameOp(a, id) ==
  \/ join_game(a, id) \/ submit_move(a, id)
  \/ resign_game(a, id) \/ report_win(a, id) \/ claim_timeout(a, id)
  \/ propose_draw(a, id) \/ accept_draw(a, id) \/ cancel_game(a, id)

SorobanNext ==
  \/ \E a \in Addresses :
       \/ \E t \in Timeouts : initialize(a, t) \/ set_timeout(a, t)
       \/ \E wager \in Stakes : create_game(a, wager)
       \/ \E id \in SorobanIds : SorobanGameOp(a, id)
       \/ \E to \in Purses, n \in Transfers : TransferToken(a, to, n)
  \/ LedgerTick

SorobanSpec == SorobanInit /\ [][SorobanNext]_sorobanVars

-----------------------------------------------------------------------------
(* The three ways to win, the draw and the cancellation compete for one    *)
(* stake, whose amount may be negative: whoever comes first, what was      *)
(* staked goes once, in full, and only to those who staked it.             *)
SorobanStakeOf(game) ==
  LET each == Locks(game.wager)
  IN CASE game.status = "None" -> [phase |-> "unopened"]
       [] game.status = "Waiting" -> [phase |-> "open", first |-> game.white, each |-> each]
       [] game.status = "Active" ->
            [phase |-> "matched", first |-> game.white, second |-> game.black, each |-> each]
       [] OTHER -> [phase |-> "closed"]

SorobanEscrow == INSTANCE WagerEscrow WITH
  Users <- Addresses,
  Games <- SorobanIds,
  purse <- [a \in Addresses |-> tokens[a]],
  held <- tokens[EscrowContract],
  stake <- [id \in SorobanIds |-> SorobanStakeOf(sorobans[id])]

SorobanImplementsEscrow == SorobanEscrow!EscrowSpec

(* An offer is about the position in which it was made: a game is only     *)
(* drawn when both players agreed with no move between their agreements.   *)
(* The offer is a flag beside a proposer that always names somebody, and   *)
(* the next move may reach the ledger before the acceptance does.          *)
DrawnInPosition ==
  \A id \in SorobanIds :
    sorobans[id].status = "Draw" => agreed[id] = {sorobans[id].white, sorobans[id].black}
=============================================================================
