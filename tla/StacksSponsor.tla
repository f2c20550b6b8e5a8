--------------------------- MODULE StacksSponsor ---------------------------
(***************************************************************************)
(* POST /api/stacks/sponsor: the gas sponsor co-signs a player's engine    *)
(* call and broadcasts it.  Before that the handler claims the address's   *)
(* cooldown key (SET NX) and counts the call (INCR, and EXPIRE for a fresh *)
(* counter) in a counter whose key has no date; a server without Redis     *)
(* skips both.                                                             *)
(***************************************************************************)
EXTENDS Integers, FiniteSets

CONSTANTS
  StxPlayers,    \* Stacks addresses that ask
  StxCalls,      \* concurrent request handlers
  CallCap,       \* DAILY_CAP, calls per address and counter period
  StxWindows,    \* bound: requests per address that get past the cooldown
  CounterPeriods \* bound: counter periods per address

ASSUME StacksSponsorAssumption ==
  /\ IsFiniteSet(StxCalls)
  /\ CallCap \in Nat \ {0} /\ StxWindows \in Nat /\ CounterPeriods \in Nat \ {0}

VARIABLES
  stxRedis,     \* Redis is configured
  stxCooldown,  \* chess:stacks-gas:cd:<address>
  callCount,    \* chess:stacks-gas:daily:<address>, 0 if there is no key
  countExpires, \* addresses whose counter has a time to live
  stxCalls,     \* what each handler is doing
  windows,      \* history: requests that got past the cooldown
  period,       \* history: which life of the counter this is
  paid          \* history: calls broadcast, per period they were counted in

stxVars == <<stxRedis, stxCooldown, callCount, countExpires, stxCalls, windows, period, paid>>

NoStxCall == [stage |-> "idle"]

StxStages == {"cooled", "first", "counted", "sponsoring"}

StxCall == [stage: StxStages, address: StxPlayers, period: 1..CounterPeriods]

StxTypeOK ==
  /\ stxRedis \in BOOLEAN
  /\ stxCooldown \subseteq StxPlayers
  /\ callCount \in [StxPlayers -> Nat]
  /\ countExpires \subseteq StxPlayers
  /\ stxCalls \in [StxCalls -> StxCall \cup {NoStxCall}]
  /\ windows \in [StxPlayers -> Nat]
  /\ period \in [StxPlayers -> 1..CounterPeriods]
  /\ paid \in [StxPlayers -> [1..CounterPeriods -> Nat]]

StxInit ==
  /\ stxRedis \in BOOLEAN
  /\ stxCooldown = {} /\ countExpires = {}
  /\ callCount = [a \in StxPlayers |-> 0]
  /\ stxCalls = [c \in StxCalls |-> NoStxCall]
  /\ windows = [a \in StxPlayers |-> 0]
  /\ period = [a \in StxPlayers |-> 1]
  /\ paid = [a \in StxPlayers |-> [n \in 1..CounterPeriods |-> 0]]

StxAnswer(c) == stxCalls' = [stxCalls EXCEPT ![c] = NoStxCall]

-----------------------------------------------------------------------------
(* SET NX EX of the cooldown key: refused while the key is there. *)
ClaimCooldown(c, a) ==
  /\ stxRedis
  /\ stxCalls[c] = NoStxCall
  /\ a \notin stxCooldown
  /\ windows[a] < StxWindows
  /\ stxCooldown' = stxCooldown \cup {a}
  /\ windows' = [windows EXCEPT ![a] = @ + 1]
  /\ stxCalls' = [stxCalls EXCEPT ![c] = [stage |-> "cooled", address |-> a, period |-> period[a]]]
  /\ UNCHANGED <<callCount, countExpires, period, paid>>

(* Without Redis no request is limited. *)
SkipLimit(c, a) ==
  /\ ~stxRedis
  /\ stxCalls[c] = NoStxCall
  /\ windows[a] < StxWindows
  /\ windows' = [windows EXCEPT ![a] = @ + 1]
  /\ stxCalls' = [stxCalls EXCEPT ![c] = [stage |-> "counted", address |-> a, period |-> period[a]]]
  /\ UNCHANGED <<stxCooldown, callCount, countExpires, period, paid>>

\* mutant
CountCallLate(c) ==
  LET a == stxCalls[c].address
  IN  /\ stxCalls[c].stage = "cooled"
      /\ callCount' = [callCount EXCEPT ![a] = @ + 1]
      /\ IF callCount[a] > CallCap
         THEN StxAnswer(c)
         ELSE stxCalls' = [stxCalls EXCEPT ![c] =
                [stage |-> IF callCount[a] = 0 THEN "first" ELSE "counted", address |-> a, period |-> period[a]]]
      /\ UNCHANGED <<stxCooldown, countExpires, windows, period, paid>>

(* INCR; the first number of a counter still has to give it a time to live *)
CountCall(c) ==
  LET a == stxCalls[c].address
  IN  /\ stxCalls[c].stage = "cooled"
      /\ callCount' = [callCount EXCEPT ![a] = @ + 1]
      /\ IF callCount'[a] > CallCap
         THEN StxAnswer(c)
         ELSE stxCalls' = [stxCalls EXCEPT ![c] =
                [stage |-> IF callCount[a] = 0 THEN "first" ELSE "counted", address |-> a, period |-> period[a]]]
      /\ UNCHANGED <<stxCooldown, countExpires, windows, period, paid>>

ExpireCounter(c) ==
  LET a == stxCalls[c].address
  IN  /\ stxCalls[c].stage = "first"
      /\ countExpires' = IF callCount[a] > 0 THEN countExpires \cup {a} ELSE countExpires
      /\ stxCalls' = [stxCalls EXCEPT ![c].stage = "counted"]
      /\ UNCHANGED <<stxCooldown, callCount, windows, period, paid>>

(* sponsorAndBroadcast: anything but a player's call of the engine is not  *)
(* sponsorable, otherwise the sponsor signs.                               *)
SponsorCall(c, sponsorable) ==
  /\ stxCalls[c].stage = "counted"
  /\ IF sponsorable THEN stxCalls' = [stxCalls EXCEPT ![c].stage = "sponsoring"] ELSE StxAnswer(c)
  /\ UNCHANGED <<stxCooldown, callCount, countExpires, windows, period, paid>>

BroadcastCall(c, accepted) ==
  /\ stxCalls[c].stage = "sponsoring"
  /\ paid' = IF accepted THEN [paid EXCEPT ![stxCalls[c].address][stxCalls[c].period] = @ + 1] ELSE paid
  /\ StxAnswer(c)
  /\ UNCHANGED <<stxCooldown, callCount, countExpires, windows, period>>

(* A Redis error, a signing error, or the end of the process. *)
StxCallEnds(c) ==
  /\ stxCalls[c] # NoStxCall
  /\ StxAnswer(c)
  /\ UNCHANGED <<stxCooldown, callCount, countExpires, windows, period, paid>>

(* COOLDOWN_SECONDS pass. *)
StxCooldownExpires(a) ==
  /\ a \in stxCooldown
  /\ stxCooldown' = stxCooldown \ {a}
  /\ UNCHANGED <<callCount, countExpires, stxCalls, windows, period, paid>>

(* 86400 seconds pass: the counter is gone, if it ever got its EXPIRE. *)
CounterExpires(a) ==
  /\ a \in countExpires
  /\ period[a] < CounterPeriods
  /\ callCount' = [callCount EXCEPT ![a] = 0]
  /\ countExpires' = countExpires \ {a}
  /\ period' = [period EXCEPT ![a] = @ + 1]
  /\ UNCHANGED <<stxCooldown, stxCalls, windows, paid>>

StxOp ==
  /\ \/ \E c \in StxCalls :
          \/ \E a \in StxPlayers : ClaimCooldown(c, a) \/ SkipLimit(c, a)
          \/ CountCall(c) \/ ExpireCounter(c) \/ StxCallEnds(c)
          \/ \E ok \in BOOLEAN : SponsorCall(c, ok) \/ BroadcastCall(c, ok)
     \/ \E a \in StxPlayers : StxCooldownExpires(a) \/ CounterExpires(a)
  /\ UNCHANGED stxRedis

StxSpec == StxInit /\ [][StxOp]_stxVars

-----------------------------------------------------------------------------
(* With Redis, the sponsor pays at most DAILY_CAP calls of an address in   *)
(* one life of its counter, however late a handler gets to its broadcast   *)
(* and whenever the counter expires under it.                              *)
CallCapKept ==
  stxRedis => \A a \in StxPlayers, n \in 1..CounterPeriods : paid[a][n] <= CallCap
=============================================================================
