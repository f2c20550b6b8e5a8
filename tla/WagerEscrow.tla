---------------------------- MODULE WagerEscrow ----------------------------
(***************************************************************************)
(* What every chess contract of the repository promises about money: a     *)
(* wager leaves a player's purse when the player opens or matches a game,  *)
(* and what was staked on a game goes back, once and in full, to the       *)
(* players who staked it.  Everything else that happens to purses (token   *)
(* transfers, minting) leaves the stakes alone and takes nothing from the  *)
(* vault.                                                                  *)
(***************************************************************************)
EXTENDS Integers

CONSTANTS Users, Games

VARIABLES
  purse,  \* what each user can spend
  held,   \* what the vault holds
  stake   \* per game: phase, the staking players, and the wager of each

escrowVars == <<purse, held, stake>>

(* A game nobody has opened, and a game all of whose money is gone. *)
Unopened == [phase |-> "unopened"]
Closed   == [phase |-> "closed"]

EscrowInit ==
  /\ purse \in [Users -> Nat]
  /\ held \in Nat
  /\ stake = [g \in Games |-> Unopened]

Open(g, u, n) ==
  /\ stake[g] = Unopened
  /\ purse[u] >= n
  /\ purse' = [purse EXCEPT ![u] = @ - n]
  /\ held' = held + n
  /\ stake' = [stake EXCEPT ![g] = [phase |-> "open", first |-> u, each |-> n]]

Match(g, u) ==
  /\ stake[g].phase = "open"
  /\ u # stake[g].first
  /\ purse[u] >= stake[g].each
  /\ purse' = [purse EXCEPT ![u] = @ - stake[g].each]
  /\ held' = held + stake[g].each
  /\ stake' = [stake EXCEPT ![g] = [phase |-> "matched", first |-> @.first,
                                    second |-> u, each |-> @.each]]

Withdraw(g) ==
  /\ stake[g].phase = "open"
  /\ purse' = [purse EXCEPT ![stake[g].first] = @ + stake[g].each]
  /\ held' = held - stake[g].each
  /\ stake' = [stake EXCEPT ![g] = Closed]

PayWinner(g, u) ==
  /\ stake[g].phase = "matched"
  /\ u \in {stake[g].first, stake[g].second}
  /\ purse' = [purse EXCEPT ![u] = @ + 2 * stake[g].each]
  /\ held' = held - 2 * stake[g].each
  /\ stake' = [stake EXCEPT ![g] = Closed]

Split(g) ==
  /\ stake[g].phase = "matched"
  /\ purse' = [purse EXCEPT ![stake[g].first] = @ + stake[g].each,
                            ![stake[g].second] = @ + stake[g].each]
  /\ held' = held - 2 * stake[g].each
  /\ stake' = [stake EXCEPT ![g] = Closed]

(* Anything may happen to purses; the vault may be given money.            *)
Elsewhere ==
  /\ purse' \in [Users -> Nat]
  /\ held' >= held
  /\ UNCHANGED stake

EscrowNext ==
  \/ Elsewhere
  \/ \E g \in Games :
       \/ Withdraw(g) \/ Split(g)
       \/ \E u \in Users : Match(g, u) \/ PayWinner(g, u)
       \/ \E u \in Users : \E n \in 0..purse[u] : Open(g, u, n)

EscrowSpec == EscrowInit /\ [][EscrowNext]_escrowVars
=============================================================================
