----------------------------- MODULE GasSponsor -----------------------------
(***************************************************************************)
(* POST /api/gas/sponsor: the sponsor wallet drips gas to a player who has *)
(* none, in USDm to a MiniPay wallet on Celo (scope "usdm", which also     *)
(* provisions CHESS) and in the native coin of the chain otherwise.  A     *)
(* handler reads the balance, the sponsor's float and the cooldown, takes  *)
(* a lock that expires, draws a number from the day's counter, sends the   *)
(* transfer and waits for its receipt.  Each await is a step; the handler  *)
(* may die before any of them.                                             *)
(*                                                                         *)
(* Amounts are counted in drips: a USDm drip is three times the threshold  *)
(* below which a wallet counts as empty, a native drip is half of it.      *)
(***************************************************************************)
EXTENDS Integers, FiniteSets

CONSTANTS
  Wallets,        \* addresses that ask for gas
  SponsorCalls,   \* concurrent request handlers
  GasRequests,    \* pairs <<tier, chain>> that are asked for
  DailyCap,       \* DAILY_CAP, drips per scope and day
  SponsorDays,    \* bound: days the model runs
  GasFloat,       \* bound: drips the sponsor wallet can pay per scope
  MaxCount        \* bound: numbers drawn from a day's counter

ASSUME GasSponsorAssumption ==
  /\ GasRequests \subseteq {"minipay", "eoa"} \X {"celo", "base"}
  /\ IsFiniteSet(SponsorCalls)
  /\ DailyCap \in Nat /\ SponsorDays \in Nat \ {0} /\ GasFloat \in Nat /\ MaxCount \in Nat

(* MiniPay asked for on Base falls through to the native drip. *)
GasScope(request) ==
  IF request = <<"minipay", "celo">> THEN "usdm"
  ELSE IF request[2] = "celo" THEN "native-celo" ELSE "native-base"

GasScopes == {"usdm", "native-celo", "native-base"}

MinGas(scope) == IF scope = "usdm" THEN 1 ELSE 2   \* MIN_GAS_USDM, MIN_GAS_NATIVE

VARIABLES
  gas,         \* what a wallet holds in the coin of a scope, in drips
  chessLow,    \* wallets with less than MIN_CHESS
  float,       \* what the sponsor wallet can still send, per scope
  gasCooldown, \* chess:gas:<scope>:cooldown:<address>
  gasLock,     \* chess:gas:<scope>:lock:<address>
  today,       \* the date
  dailyCount,  \* chess:gas:<scope>:daily:<date>
  gasCalls,    \* what each handler is doing
  adrift,      \* transfers nobody waits for any more
  drips        \* history: transfers sent, per scope and the day they were counted on

gasVars == <<gas, chessLow, float, gasCooldown, gasLock, today, dailyCount,
             gasCalls, adrift, drips>>

NoCall == [stage |-> "idle"]

GasStages == {"mintOnly", "low", "covered", "cool", "locked", "over", "counted",
              "ready", "sent", "mined", "release"}

GasCall == [stage: GasStages, scope: GasScopes, address: Wallets, day: 1..SponsorDays]

SponsorDay == 1..SponsorDays

GasTypeOK ==
  /\ gas \in [GasScopes -> [Wallets -> Nat]]
  /\ chessLow \subseteq Wallets
  /\ float \in [GasScopes -> Nat]
  /\ gasCooldown \subseteq GasScopes \X Wallets
  /\ gasLock \subseteq GasScopes \X Wallets
  /\ today \in SponsorDay
  /\ dailyCount \in [GasScopes -> [SponsorDay -> Nat]]
  /\ gasCalls \in [SponsorCalls -> GasCall \cup {NoCall}]
  /\ adrift \in [GasScopes -> [Wallets -> Nat]]
  /\ drips \in [GasScopes -> [SponsorDay -> Nat]]

GasInit ==
  /\ gas = [scope \in GasScopes |-> [w \in Wallets |-> 0]]
  /\ chessLow = Wallets
  /\ float = [scope \in GasScopes |-> GasFloat]
  /\ gasCooldown = {} /\ gasLock = {}
  /\ today = 1
  /\ dailyCount = [scope \in GasScopes |-> [d \in SponsorDay |-> 0]]
  /\ gasCalls = [c \in SponsorCalls |-> NoCall]
  /\ adrift = [scope \in GasScopes |-> [w \in Wallets |-> 0]]
  /\ drips = [scope \in GasScopes |-> [d \in SponsorDay |-> 0]]

HasGas(scope, w) == gas[scope][w] >= MinGas(scope)

Key(c) == <<gasCalls[c].scope, gasCalls[c].address>>

Goto(c, stage) == gasCalls' = [gasCalls EXCEPT ![c].stage = stage]

Answer(c) == gasCalls' = [gasCalls EXCEPT ![c] = NoCall]

-----------------------------------------------------------------------------
(* The request arrives and the balance is read.  A wallet with gas is sent *)
(* away, but a MiniPay wallet short of CHESS gets CHESS first.             *)
AskGas(c, request, w) ==
  LET scope == GasScope(request)
      begin(stage) == gasCalls' = [gasCalls EXCEPT ![c] =
                        [stage |-> stage, scope |-> scope, address |-> w, day |-> today]]
  IN  /\ gasCalls[c] = NoCall
      /\ \/ ~HasGas(scope, w) /\ begin("low")
         \/ scope = "usdm" /\ HasGas(scope, w) /\ w \in chessLow /\ begin("mintOnly")
      /\ UNCHANGED <<gas, chessLow, float, gasCooldown, gasLock, today, dailyCount, adrift, drips>>

(* gasSponsorCanCoverUsdm, gasSponsorCanCoverNative; a failed read answers *)
(* false, which is the handler's end.                                      *)
CanCover(c) ==
  /\ gasCalls[c].stage = "low"
  /\ float[gasCalls[c].scope] >= 1
  /\ Goto(c, "covered")
  /\ UNCHANGED <<gas, chessLow, float, gasCooldown, gasLock, today, dailyCount, adrift, drips>>

ReadGasCooldown(c) ==
  /\ gasCalls[c].stage = "covered"
  /\ Key(c) \notin gasCooldown
  /\ Goto(c, "cool")
  /\ UNCHANGED <<gas, chessLow, float, gasCooldown, gasLock, today, dailyCount, adrift, drips>>

TakeGasLock(c) ==
  /\ gasCalls[c].stage = "cool"
  /\ Key(c) \notin gasLock
  /\ gasLock' = gasLock \cup {Key(c)}
  /\ Goto(c, "locked")
  /\ UNCHANGED <<gas, chessLow, float, gasCooldown, today, dailyCount, adrift, drips>>

\* mutant
CountDripLater(c) ==
  LET scope == gasCalls[c].scope
  IN  /\ gasCalls[c].stage = "locked"
      /\ dailyCount[scope][today] < MaxCount
      /\ dailyCount' = [dailyCount EXCEPT ![scope][today] = @ + 1]
      /\ gasCalls' = [gasCalls EXCEPT ![c].day = today,
                        ![c].stage = IF dailyCount[scope][today] > DailyCap THEN "over" ELSE "counted"]
      /\ UNCHANGED <<gas, chessLow, float, gasCooldown, gasLock, today, adrift, drips>>

(* INCR of the counter whose key holds today's date.  The counter is set   *)
(* to expire a day after its first use, when that date has passed.         *)
CountDrip(c) ==
  LET scope == gasCalls[c].scope
  IN  /\ gasCalls[c].stage = "locked"
      /\ dailyCount[scope][today] < MaxCount
      /\ dailyCount' = [dailyCount EXCEPT ![scope][today] = @ + 1]
      /\ gasCalls' = [gasCalls EXCEPT ![c].day = today,
                        ![c].stage = IF dailyCount'[scope][today] > DailyCap THEN "over" ELSE "counted"]
      /\ UNCHANGED <<gas, chessLow, float, gasCooldown, gasLock, today, adrift, drips>>

(* mintChessTo: in the handler's first branch, or before the USDm drip to  *)
(* a wallet that is short of CHESS.                                        *)
MintChess(c) ==
  /\ \/ gasCalls[c].stage = "mintOnly" /\ Answer(c)
     \/ /\ gasCalls[c].stage = "counted" /\ gasCalls[c].scope = "usdm"
        /\ gasCalls[c].address \in chessLow /\ Goto(c, "ready")
  /\ chessLow' = chessLow \ {gasCalls[c].address}
  /\ UNCHANGED <<gas, float, gasCooldown, gasLock, today, dailyCount, adrift, drips>>

NoMintNeeded(c) ==
  /\ gasCalls[c].stage = "counted"
  /\ gasCalls[c].scope # "usdm" \/ gasCalls[c].address \notin chessLow
  /\ Goto(c, "ready")
  /\ UNCHANGED <<gas, chessLow, float, gasCooldown, gasLock, today, dailyCount, adrift, drips>>

(* sponsorUsdm, sponsorNative: the node accepts a transfer the sponsor can *)
(* pay.                                                                    *)
SendDrip(c) ==
  LET scope == gasCalls[c].scope
  IN  /\ gasCalls[c].stage = "ready"
      /\ float[scope] >= 1
      /\ float' = [float EXCEPT ![scope] = @ - 1]
      /\ drips' = [drips EXCEPT ![scope][gasCalls[c].day] = @ + 1]
      /\ Goto(c, "sent")
      /\ UNCHANGED <<gas, chessLow, gasCooldown, gasLock, today, dailyCount, adrift>>

DripMined(c) ==
  /\ gasCalls[c].stage = "sent"
  /\ gas' = [gas EXCEPT ![gasCalls[c].scope][gasCalls[c].address] = @ + 1]
  /\ Goto(c, "mined")
  /\ UNCHANGED <<chessLow, float, gasCooldown, gasLock, today, dailyCount, adrift, drips>>

SetGasCooldown(c) ==
  /\ gasCalls[c].stage = "mined"
  /\ gasCooldown' = gasCooldown \cup {Key(c)}
  /\ Goto(c, "release")
  /\ UNCHANGED <<gas, chessLow, float, gasLock, today, dailyCount, adrift, drips>>

(* The lock is deleted whoever holds it by now: at the end of the inner    *)
(* try, and when the cap is reached.                                       *)
ReleaseGasLock(c) ==
  /\ gasCalls[c].stage \in {"over", "release"}
  /\ gasLock' = gasLock \ {Key(c)}
  /\ Answer(c)
  /\ UNCHANGED <<gas, chessLow, float, gasCooldown, today, dailyCount, adrift, drips>>

(* The inner try throws: a read, a mint, the transfer or its receipt.      *)
DripThrows(c) ==
  /\ gasCalls[c].stage \in {"counted", "ready", "sent", "mined"}
  /\ adrift' = IF gasCalls[c].stage = "sent"
               THEN [adrift EXCEPT ![gasCalls[c].scope][gasCalls[c].address] = @ + 1] ELSE adrift
  /\ Goto(c, "release")
  /\ UNCHANGED <<gas, chessLow, float, gasCooldown, gasLock, today, dailyCount, drips>>

(* An early answer (float too small, cooldown, drip in progress), an error *)
(* outside the inner try, or the end of the process.                       *)
GasCallEnds(c) ==
  /\ gasCalls[c] # NoCall
  /\ adrift' = IF gasCalls[c].stage = "sent"
               THEN [adrift EXCEPT ![gasCalls[c].scope][gasCalls[c].address] = @ + 1] ELSE adrift
  /\ Answer(c)
  /\ UNCHANGED <<gas, chessLow, float, gasCooldown, gasLock, today, dailyCount, drips>>

-----------------------------------------------------------------------------
(* Time and the chain *)

AdriftMined(scope, w) ==
  /\ adrift[scope][w] > 0
  /\ adrift' = [adrift EXCEPT ![scope][w] = @ - 1]
  /\ gas' = [gas EXCEPT ![scope][w] = @ + 1]
  /\ UNCHANGED <<chessLow, float, gasCooldown, gasLock, today, dailyCount, gasCalls, drips>>

GasLockExpires(key) ==
  /\ key \in gasLock
  /\ gasLock' = gasLock \ {key}
  /\ UNCHANGED <<gas, chessLow, float, gasCooldown, today, dailyCount, gasCalls, adrift, drips>>

GasCooldownExpires(key) ==
  /\ key \in gasCooldown
  /\ gasCooldown' = gasCooldown \ {key}
  /\ UNCHANGED <<gas, chessLow, float, gasLock, today, dailyCount, gasCalls, adrift, drips>>

NextDay ==
  /\ today < SponsorDays
  /\ today' = today + 1
  /\ UNCHANGED <<gas, chessLow, float, gasCooldown, gasLock, dailyCount, gasCalls, adrift, drips>>

SpendGas(scope, w) ==
  /\ gas[scope][w] > 0
  /\ gas' = [gas EXCEPT ![scope][w] = 0]
  /\ UNCHANGED <<chessLow, float, gasCooldown, gasLock, today, dailyCount, gasCalls, adrift, drips>>

SpendChess(w) ==
  /\ chessLow' = chessLow \cup {w}
  /\ UNCHANGED <<gas, float, gasCooldown, gasLock, today, dailyCount, gasCalls, adrift, drips>>

SponsorOp ==
  \/ \E c \in SponsorCalls :
       \/ \E request \in GasRequests, w \in Wallets : AskGas(c, request, w)
       \/ CanCover(c) \/ ReadGasCooldown(c) \/ TakeGasLock(c) \/ CountDrip(c)
       \/ MintChess(c) \/ NoMintNeeded(c) \/ SendDrip(c) \/ DripMined(c)
       \/ SetGasCooldown(c) \/ ReleaseGasLock(c) \/ DripThrows(c) \/ GasCallEnds(c)
  \/ \E scope \in GasScopes, w \in Wallets :
       \/ AdriftMined(scope, w) \/ SpendGas(scope, w)
       \/ GasLockExpires(<<scope, w>>) \/ GasCooldownExpires(<<scope, w>>)
  \/ NextDay
  \/ \E w \in Wallets : SpendChess(w)

SponsorSpec == GasInit /\ [][SponsorOp]_gasVars

-----------------------------------------------------------------------------
(* Locks expire under their holders, cooldowns are read before the lock is *)
(* taken, handlers throw and die with a transfer on its way: an address    *)
(* may be funded twice.  The float is still safe: the transfers charged to *)
(* a day never exceed DAILY_CAP per scope, whatever is retried.            *)
BudgetKept ==
  \A scope \in GasScopes, d \in SponsorDay : drips[scope][d] <= DailyCap
=============================================================================
