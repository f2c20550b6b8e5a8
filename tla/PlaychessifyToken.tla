------------------------- MODULE PlaychessifyToken -------------------------
(***************************************************************************)
(* The CHESS token of contracts/playchessifyToken.clar: a fungible token   *)
(* whose own contract principal is the escrow vault of every game engine.  *)
(* Anyone holds a balance; the vault's balance only ever leaves through    *)
(* gateway-release, which trusts the engines on an owner-managed           *)
(* allow-list.                                                             *)
(*                                                                         *)
(* One action is one committed transaction.  A Clarity transaction that    *)
(* returns an error is rolled back, so the asserts! of a function are the  *)
(* guard of its action.                                                    *)
(***************************************************************************)
EXTENDS Integers, Functions

CONSTANTS
  Users,           \* principals that sign transactions
  Owner,           \* CONTRACT-OWNER, the deployer
  Vault,           \* the token contract's own principal
  Engines,         \* principals of the game engines
  Amounts,         \* amounts a transaction may carry
  FaucetAmount,    \* FAUCET-AMOUNT
  FaucetCooldown,  \* FAUCET-COOLDOWN, in blocks
  Minters,         \* principals the owner may make the minter
  MaxSupply        \* bound: no mint may take the total supply above it

ASSUME TokenAssumption ==
  /\ Owner \in Users
  /\ Vault \notin Users
  /\ Amounts \subseteq Nat
  /\ FaucetAmount \in Nat \ {0}
  /\ FaucetCooldown \in Nat
  /\ Minters \subseteq Users
  /\ MaxSupply \in Nat

Principals == Users \cup {Vault}

VARIABLES
  balance,          \* the ledger of the fungible token chess-token
  mintEnabled,      \* mint-enabled
  minter,           \* the dedicated minter
  authorizedGames,  \* authorized-games: the engines mapped to true
  sinceClaim        \* blocks since faucet-last-claim, saturating at the cooldown

tokenVars == <<balance, mintEnabled, minter, authorizedGames, sinceClaim>>

TokenTypeOK ==
  /\ balance \in [Principals -> Nat]
  /\ mintEnabled \in BOOLEAN
  /\ minter \in Users
  /\ authorizedGames \in SUBSET Engines
  /\ sinceClaim \in [Users -> 0..FaucetCooldown]

(* A block counter that stops where the code stops looking at it. *)
Aged(n, limit) == IF n < limit THEN n + 1 ELSE limit

(* A principal that never claimed has faucet-last-claim 0, so its age is   *)
(* the block height at deployment, which is the same for everyone.         *)
TokenInit ==
  /\ balance = [p \in Principals |-> 0]
  /\ mintEnabled = TRUE
  /\ minter = Owner
  /\ authorizedGames = {}
  /\ \E height \in 0..FaucetCooldown : sinceClaim = [u \in Users |-> height]

-----------------------------------------------------------------------------
(* Ledger movements *)

Moved(from, to, n) == [balance EXCEPT ![from] = @ - n, ![to] = @ + n]

CanTransfer(sender, recipient, n) ==
  /\ n > 0
  /\ sender # recipient
  /\ balance[sender] >= n

(* gateway-release called by engine: the total of one transaction's        *)
(* releases must be covered, or the transaction that made them reverts.    *)
CanRelease(engine, total) ==
  /\ engine \in authorizedGames
  /\ balance[Vault] >= total

TotalSupply == SumFunction(balance)

CanMint(n) ==
  /\ mintEnabled
  /\ n > 0
  /\ TotalSupply + n <= MaxSupply

Minted(recipient, n) == [balance EXCEPT ![recipient] = @ + n]

-----------------------------------------------------------------------------
(* Public functions.  The first parameter of each is tx-sender.            *)

Transfer(sender, recipient, n) ==
  /\ CanTransfer(sender, recipient, n)
  /\ balance' = Moved(sender, recipient, n)
  /\ UNCHANGED <<mintEnabled, minter, authorizedGames, sinceClaim>>

FaucetClaim(u) ==
  /\ CanMint(FaucetAmount)
  /\ sinceClaim[u] >= FaucetCooldown
  /\ sinceClaim' = [sinceClaim EXCEPT ![u] = 0]
  /\ balance' = Minted(u, FaucetAmount)
  /\ UNCHANGED <<mintEnabled, minter, authorizedGames>>

Mint(caller, recipient, n) ==
  /\ caller = Owner
  /\ CanMint(n)
  /\ balance' = Minted(recipient, n)
  /\ UNCHANGED <<mintEnabled, minter, authorizedGames, sinceClaim>>

MintTo(caller, recipient, n) ==
  /\ caller = minter
  /\ CanMint(n)
  /\ balance' = Minted(recipient, n)
  /\ UNCHANGED <<mintEnabled, minter, authorizedGames, sinceClaim>>

(* The whole list is mapped; an entry whose mint fails (a zero amount)     *)
(* leaves the others in force.  entries[p] is what p's entries add up to.  *)
BatchMint(caller, entries) ==
  /\ caller = Owner
  /\ mintEnabled
  /\ TotalSupply + SumFunction(entries) <= MaxSupply
  /\ balance' = [p \in Principals |-> balance[p] + entries[p]]
  /\ UNCHANGED <<mintEnabled, minter, authorizedGames, sinceClaim>>

SetMintEnabled(caller, enabled) ==
  /\ caller = Owner
  /\ mintEnabled' = enabled
  /\ UNCHANGED <<balance, minter, authorizedGames, sinceClaim>>

SetAuthorizedGame(caller, engine, enabled) ==
  /\ caller = Owner
  /\ authorizedGames' = IF enabled THEN authorizedGames \cup {engine}
                                   ELSE authorizedGames \ {engine}
  /\ UNCHANGED <<balance, mintEnabled, minter, sinceClaim>>

SetMinter(caller, new) ==
  /\ caller = Owner
  /\ minter' = new
  /\ UNCHANGED <<balance, mintEnabled, authorizedGames, sinceClaim>>

(* A block is mined: block-height grows by one. *)
TokenBlock ==
  /\ sinceClaim' = [u \in Users |-> Aged(sinceClaim[u], FaucetCooldown)]
  /\ UNCHANGED <<balance, mintEnabled, minter, authorizedGames>>

TokenOp ==
  \/ \E u \in Users :
       \/ \E r \in Principals, n \in Amounts :
            Transfer(u, r, n) \/ Mint(u, r, n) \/ MintTo(u, r, n)
       \/ FaucetClaim(u)
       \/ \E entries \in [Principals -> Amounts \cup {0}] : BatchMint(u, entries)
       \/ \E b \in BOOLEAN :
            \/ SetMintEnabled(u, b)
            \/ \E e \in Engines : SetAuthorizedGame(u, e, b)
       \/ \E new \in Minters : SetMinter(u, new)
=============================================================================
